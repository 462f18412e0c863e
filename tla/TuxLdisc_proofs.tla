--------------------------- MODULE TuxLdisc_proofs ---------------------------
(***************************************************************************)
(* Proofs about TuxLdisc, for rings and packet arrays of any size and      *)
(* streams of any length: the rings are first in, first out under every    *)
(* interleaving of put, write_wakeup and the driver's interrupt, and       *)
(* data_callback delivers exactly the packets of the stream, however the   *)
(* interrupts cut it.                                                      *)
(***************************************************************************)
EXTENDS TuxLdisc, NatSets, SequenceTheorems

B == TUXCTL_BUFSIZE

-----------------------------------------------------------------------------
(***************************************************************************)
(* The rings.                                                              *)
(***************************************************************************)

\* The size of a ring, and its slots.
LEMMA Size == B \in Nat /\ B > 1 /\ Slots = 0 .. B - 1
BY TuxAssumption DEF B, Slots

\* Stepping an index by at most the size of the ring.
LEMMA Inc ==
  ASSUME NEW i \in Slots, NEW n \in 0 .. B
  PROVE  /\ buf_incidx(i, n) = IF i + n < B THEN i + n ELSE i + n - B
         /\ buf_incidx(i, n) \in Slots
BY TuxAssumption DEF buf_incidx, Slots, B

\* The distance between two indices, modulo the size of the ring.
LEMMA Wrap ==
  ASSUME NEW x \in Int, - B <= x, x < B
  PROVE  x % B = IF x < 0 THEN x + B ELSE x
BY TuxAssumption DEF B

\* The end of a ring is as far from its start as it holds bytes.
LEMMA Used ==
  ASSUME NEW s \in Slots, NEW e \in Slots
  PROVE  /\ buf_used(s, e) \in 0 .. B - 1
         /\ buf_room(s, e) = B - 1 - buf_used(s, e)
         /\ e = IF s + buf_used(s, e) < B THEN s + buf_used(s, e) ELSE s + buf_used(s, e) - B
BY TuxAssumption DEF Slots, buf_used, buf_room, B

\* The number of bytes a ring holds is determined by that.
LEMMA UsedIs ==
  ASSUME NEW s \in Slots, NEW e \in Slots, NEW u \in 0 .. B - 1,
         e = IF s + u < B THEN s + u ELSE s + u - B
  PROVE  buf_used(s, e) = u
BY TuxAssumption DEF Slots, buf_used, B

\* The content of a ring is a sequence of as many bytes.
LEMMA ContentType ==
  ASSUME NEW S, NEW buf \in [Slots -> S], NEW s \in Slots, NEW e \in Slots
  PROVE  /\ Content(buf, s, e) \in Seq(S)
         /\ Len(Content(buf, s, e)) = buf_used(s, e)
         /\ \A k \in 1 .. buf_used(s, e) : Content(buf, s, e)[k] = buf[buf_incidx(s, k - 1)]
<1>1. buf_used(s, e) \in Nat /\ \A k \in 1 .. buf_used(s, e) : buf_incidx(s, k - 1) \in Slots
  <2>1. buf_used(s, e) \in 0 .. B - 1
    BY Used
  <2>2. \A k \in 1 .. buf_used(s, e) : k - 1 \in 0 .. B
    BY <2>1, Size
  <2> QED
    BY <2>1, <2>2, Inc
<1>2. Content(buf, s, e) \in [1 .. buf_used(s, e) -> S]
  BY <1>1 DEF Content
<1> QED
  BY <1>1, <1>2 DEF Content

\* Bytes that fit are appended to what the ring holds.
LEMMA RingStores ==
  ASSUME NEW S, NEW buf \in [Slots -> S], NEW s \in Slots, NEW e \in Slots, NEW b \in Seq(S),
         Len(b) <= buf_room(s, e)
  PROVE  /\ Stored(buf, e, b) \in [Slots -> S]
         /\ buf_incidx(e, Len(b)) \in Slots
         /\ buf_used(s, buf_incidx(e, Len(b))) = buf_used(s, e) + Len(b)
         /\ Content(Stored(buf, e, b), s, buf_incidx(e, Len(b))) = Content(buf, s, e) \o b
<1> DEFINE f == buf_incidx(e, Len(b))
           new == Stored(buf, e, b)
           u == buf_used(s, e)
           n == Len(b)
<1>1. /\ u \in 0 .. B - 1 /\ n \in Nat /\ u + n <= B - 1
      /\ e = IF s + u < B THEN s + u ELSE s + u - B
      /\ s \in 0 .. B - 1 /\ e \in 0 .. B - 1
  <2>1. u \in 0 .. B - 1 /\ buf_room(s, e) = B - 1 - u /\ e = IF s + u < B THEN s + u ELSE s + u - B
    BY Used
  <2>2. s \in 0 .. B - 1 /\ e \in 0 .. B - 1 /\ B \in Nat
    BY Size
  <2> HIDE DEF u
  <2> QED
    BY <2>1, <2>2
<1>2. f \in Slots /\ f = IF e + n < B THEN e + n ELSE e + n - B
  <2>1. n \in 0 .. B
    BY <1>1, Size
  <2> QED
    BY <2>1, Inc
<1>3. ASSUME NEW i \in Slots, NEW k \in 0 .. B - 1, i = IF s + k < B THEN s + k ELSE s + k - B
      PROVE  new[i] = IF k < u \/ k >= u + n THEN buf[i] ELSE b[k - u + 1]
  <2> DEFINE m == (i - e) % B
  <2>1. i - e \in Int /\ - B <= i - e /\ i - e < B
    BY <1>1, Size
  <2>2. m = IF i - e < 0 THEN i - e + B ELSE i - e
    BY <2>1, Wrap
  <2>3. new[i] = IF m < n THEN b[m + 1] ELSE buf[i]
    BY DEF Stored, B
  <2> HIDE DEF m, n, u, new
  <2>4. m = IF k < u THEN k - u + B ELSE k - u
    BY <1>1, <1>3, <2>2, Size
  <2>5. m < n <=> ~ (k < u \/ k >= u + n)
    BY <1>1, <2>4, Size
  <2>6. m < n => m + 1 = k - u + 1
    BY <1>1, <2>4, Size
  <2> QED
    BY <2>3, <2>5, <2>6
<1>4. new \in [Slots -> S]
  <2>1. ASSUME NEW i \in Slots PROVE (i - e) % B \in Nat
    BY Size
  <2>2. ASSUME NEW i \in Slots PROVE new[i] \in S
    BY <2>1, ElementOfSeq DEF Stored, B
  <2> QED
    BY <2>2 DEF Stored
<1>5. buf_used(s, f) = u + n
  <2> HIDE DEF f, u, n
  <2>1. f = IF s + (u + n) < B THEN s + (u + n) ELSE s + (u + n) - B
    BY <1>1, <1>2, Size
  <2>2. u + n \in 0 .. B - 1
    BY <1>1, Size
  <2> QED
    BY <1>2, <2>1, <2>2, UsedIs
<1>6. Content(new, s, f) = Content(buf, s, e) \o b
  <2> DEFINE c == Content(buf, s, e)
             d == Content(new, s, f)
  <2>1. c \in Seq(S) /\ Len(c) = u /\ \A k \in 1 .. u : c[k] = buf[buf_incidx(s, k - 1)]
    BY ContentType
  <2>2. /\ d \in Seq(S) /\ Len(d) = u + n
        /\ \A k \in 1 .. u + n : d[k] = new[buf_incidx(s, k - 1)]
    <3> HIDE DEF new, f, u, n
    <3>1. /\ d \in Seq(S) /\ Len(d) = buf_used(s, f)
          /\ \A k \in 1 .. buf_used(s, f) : d[k] = new[buf_incidx(s, k - 1)]
      <4>1. f \in Slots /\ new \in [Slots -> S]
        BY <1>2, <1>4
      <4>2. d \in Seq(S)
        BY <4>1, ContentType, ZenonT(40)
      <4>3. Len(d) = buf_used(s, f)
        BY <4>1, ContentType, ZenonT(40)
      <4>4. \A k \in 1 .. buf_used(s, f) : d[k] = new[buf_incidx(s, k - 1)]
        BY DEF Content
      <4> QED
        BY <4>2, <4>3, <4>4, Zenon
    <3> HIDE DEF d
    <3> QED
      BY <1>5, <3>1
  <2> HIDE DEF c, d, new, f, u
  <2>3. /\ c \o b \in Seq(S) /\ Len(c \o b) = u + n
        /\ \A k \in 1 .. u + n : (c \o b)[k] = IF k <= u THEN c[k] ELSE b[k - u]
    BY <2>1, ConcatProperties
  <2> HIDE DEF n
  <2>4. ASSUME NEW k \in 1 .. u + n PROVE d[k] = (c \o b)[k]
    <3> DEFINE i == buf_incidx(s, k - 1)
    <3>1. k - 1 \in 0 .. B - 1 /\ k - 1 \in 0 .. B
      BY <1>1, Size
    <3>2. i \in Slots /\ i = IF s + (k - 1) < B THEN s + (k - 1) ELSE s + (k - 1) - B
      BY <3>1, Inc
    <3> HIDE DEF i
    <3>3. new[i] = IF k - 1 < u \/ k - 1 >= u + n THEN buf[i] ELSE b[k - 1 - u + 1]
      BY <1>3, <3>1, <3>2
    <3>4. CASE k <= u
      <4>1. d[k] = new[i] /\ c[k] = buf[i]
        BY <1>1, <2>1, <2>2, <3>4 DEF i
      <4>2. new[i] = buf[i]
        BY <1>1, <3>3, <3>4
      <4> QED
        BY <2>3, <3>4, <4>1, <4>2
    <3>5. CASE ~ (k <= u)
      <4>1. d[k] = new[i]
        BY <2>2 DEF i
      <4>2. new[i] = b[k - u]
        <5>1. ~ (k - 1 < u) /\ ~ (k - 1 >= u + n) /\ k - 1 - u + 1 = k - u
          BY <1>1, <3>5
        <5> QED
          BY <3>3, <5>1
      <4> QED
        BY <2>3, <3>5, <4>1, <4>2
    <3> QED
      BY <3>4, <3>5
  <2> QED
    BY <2>2, <2>3, <2>4, SeqEqual DEF c, d
<1> QED
  BY <1>2, <1>4, <1>5, <1>6

\* Taking n bytes out of a ring leaves the others.
LEMMA RingTakes ==
  ASSUME NEW S, NEW buf \in [Slots -> S], NEW s \in Slots, NEW e \in Slots,
         NEW n \in 0 .. buf_used(s, e)
  PROVE  /\ buf_incidx(s, n) \in Slots
         /\ buf_used(buf_incidx(s, n), e) = buf_used(s, e) - n
         /\ \A k \in 1 .. buf_used(s, e) - n :
              Content(buf, buf_incidx(s, n), e)[k] = Content(buf, s, e)[n + k]
<1> DEFINE t == buf_incidx(s, n)
           u == buf_used(s, e)
<1>1. /\ u \in 0 .. B - 1 /\ n \in 0 .. B /\ n <= u
      /\ e = IF s + u < B THEN s + u ELSE s + u - B
      /\ s \in 0 .. B - 1 /\ e \in 0 .. B - 1
  <2>1. u \in 0 .. B - 1 /\ e = IF s + u < B THEN s + u ELSE s + u - B
    BY Used
  <2>2. s \in 0 .. B - 1 /\ e \in 0 .. B - 1 /\ B \in Nat
    BY Size
  <2>3. n \in 0 .. u
    OBVIOUS
  <2> HIDE DEF u
  <2> QED
    BY <2>1, <2>2, <2>3
<1>2. t \in Slots /\ t = IF s + n < B THEN s + n ELSE s + n - B
  BY <1>1, Inc
<1>c. \A k \in 1 .. u : Content(buf, s, e)[k] = buf[buf_incidx(s, k - 1)]
  BY ContentType
<1> HIDE DEF t, u
<1>3. buf_used(t, e) = u - n
  <2>1. e = IF t + (u - n) < B THEN t + (u - n) ELSE t + (u - n) - B
    BY <1>1, <1>2, Size
  <2>2. u - n \in 0 .. B - 1
    BY <1>1, Size
  <2> QED
    BY <1>2, <2>1, <2>2, UsedIs
<1>d. \A k \in 1 .. u - n : Content(buf, t, e)[k] = buf[buf_incidx(t, k - 1)]
  <2>1. \A k \in 1 .. buf_used(t, e) : Content(buf, t, e)[k] = buf[buf_incidx(t, k - 1)]
    BY DEF Content
  <2> QED
    BY <1>3, <2>1
<1>4. ASSUME NEW k \in 1 .. u - n PROVE Content(buf, t, e)[k] = Content(buf, s, e)[n + k]
  <2>1. k - 1 \in 0 .. B /\ n + k - 1 \in 0 .. B /\ n + k \in 1 .. u
    BY <1>1, Size
  <2>2. buf_incidx(t, k - 1) = IF t + (k - 1) < B THEN t + (k - 1) ELSE t + (k - 1) - B
    BY <1>2, <2>1, Inc
  <2>3. buf_incidx(s, n + k - 1) = IF s + (n + k - 1) < B THEN s + (n + k - 1) ELSE s + (n + k - 1) - B
    BY <2>1, Inc
  <2>4. buf_incidx(t, k - 1) = buf_incidx(s, n + k - 1)
    BY <1>1, <1>2, <2>1, <2>2, <2>3, Size
  <2> QED
    BY <1>c, <1>d, <2>1, <2>4
<1> QED
  BY <1>2, <1>3, <1>4 DEF t, u

\* What tuxctl_ldisc_get returns is the front of the ring.
LEMMA GotType ==
  ASSUME NEW S, NEW s \in Seq(S), NEW n \in Nat
  PROVE  /\ Got(s, n) \in Seq(S)
         /\ Len(Got(s, n)) = AtMost(n, Len(s))
         /\ Len(Got(s, n)) \in 0 .. Len(s) /\ Len(Got(s, n)) <= n
         /\ \A k \in 1 .. Len(Got(s, n)) : Got(s, n)[k] = s[k]
BY DEF Got, AtMost

-----------------------------------------------------------------------------
(***************************************************************************)
(* The loop of data_callback.                                              *)
(***************************************************************************)

Byte == [frame : BOOLEAN, pos : Nat]

\* One turn of the loop, on the results of the later ones.
ScanStep(p, f, i) ==
  IF i > Len(p) - 2 THEN [found |-> <<>>, stop |-> i]
  ELSE IF IsPacket(p, i) THEN [found |-> <<SubSeq(p, i, i + 2)>> \o f[i + 3].found,
                               stop  |-> f[i + 3].stop]
  ELSE f[i + 1]

\* The loop ends: its results from every index on are well defined.
LEMMA ScanUnfolds ==
  ASSUME NEW S, NEW p \in Seq(S)
  PROVE  \E f : Scan(p) = f[1] /\ \A i \in 1 .. Len(p) + 1 : f[i] = ScanStep(p, f, i)
<1> DEFINE N == Len(p)
           Unfolds(f, d) == \A i \in N + 1 - d .. N + 1 : f[i] = ScanStep(p, f, i)
           T == {d \in 0 .. N : \E f : Unfolds(f, d)}
<1>0. N \in Nat
  OBVIOUS
<1>1. 0 \in T
  <2> DEFINE f == [i \in {N + 1} |-> [found |-> <<>>, stop |-> i]]
  <2>1. Unfolds(f, 0)
    <3>1. f[N + 1] = ScanStep(p, f, N + 1)
      BY <1>0 DEF ScanStep
    <3> QED
      BY <1>0, <3>1
  <2> HIDE DEF Unfolds, f
  <2> QED
    BY <1>0, <2>1
<1>2. ASSUME NEW d \in 0 .. N - 1, d \in T PROVE d + 1 \in T
  <2>1. PICK f : Unfolds(f, d)
    BY <1>2
  <2> DEFINE g == [i \in 1 .. N + 1 |-> IF i >= N + 1 - d THEN f[i] ELSE ScanStep(p, f, i)]
  <2>2. ASSUME NEW i \in N - d .. N + 1 PROVE g[i] = ScanStep(p, g, i)
    <3>1. i \in 1 .. N + 1 /\ g[i] = ScanStep(p, f, i)
      BY <1>0, <2>1
    <3>2. i <= N - 2 => g[i + 1] = f[i + 1] /\ g[i + 3] = f[i + 3]
      BY <1>0
    <3> HIDE DEF g
    <3>3. ScanStep(p, g, i) = ScanStep(p, f, i)
      <4>1. CASE i > N - 2
        BY <4>1 DEF ScanStep
      <4>2. CASE ~ (i > N - 2)
        <5>1. g[i + 1] = f[i + 1] /\ g[i + 3] = f[i + 3]
          BY <1>0, <3>1, <3>2, <4>2
        <5> QED
          BY <4>2, <5>1 DEF ScanStep
      <4> QED
        BY <4>1, <4>2
    <3> QED
      BY <3>1, <3>3
  <2> HIDE DEF g
  <2>3. Unfolds(g, d + 1)
    <3>1. N + 1 - (d + 1) = N - d
      BY <1>0
    <3> QED
      BY <2>2, <3>1
  <2> HIDE DEF Unfolds
  <2> QED
    BY <1>0, <2>3
<1>3. N \in T
  <2> HIDE DEF T, N
  <2>1. 0 .. N \subseteq T
    BY <1>0, <1>1, <1>2, InductionUpTo
  <2> QED
    BY <1>0, <2>1
<1>4. PICK f : Unfolds(f, N)
  BY <1>3
<1> DEFINE F(b) == [i \in 1 .. N + 1 |-> ScanStep(p, b, i)]
           g == [i \in 1 .. N + 1 |-> f[i]]
<1>5. g = F(g)
  <2>1. ASSUME NEW i \in 1 .. N + 1 PROVE g[i] = ScanStep(p, g, i)
    <3>1. g[i] = ScanStep(p, f, i)
      BY <1>0, <1>4
    <3>2. i <= N - 2 => g[i + 1] = f[i + 1] /\ g[i + 3] = f[i + 3]
      BY <1>0
    <3> HIDE DEF g
    <3>3. ScanStep(p, g, i) = ScanStep(p, f, i)
      <4>1. CASE i > N - 2
        BY <4>1 DEF ScanStep
      <4>2. CASE ~ (i > N - 2)
        <5>1. g[i + 1] = f[i + 1] /\ g[i + 3] = f[i + 3]
          BY <1>0, <3>2, <4>2
        <5> QED
          BY <4>2, <5>1 DEF ScanStep
      <4> QED
        BY <4>1, <4>2
    <3> QED
      BY <3>1, <3>3
  <2> QED
    BY <2>1
<1> DEFINE scan == CHOOSE b : b = F(b)
<1>6. Scan(p) = scan[1]
  BY DEF Scan, ScanStep, ScanEnd
<1>7. scan = F(scan)
  <2> HIDE DEF F, g
  <2> QED
    BY <1>5
<1> HIDE DEF scan
<1>8. \A i \in 1 .. N + 1 : scan[i] = ScanStep(p, scan, i)
  BY <1>7
<1> QED
  BY <1>6, <1>8


\* What the loop has found from index i on, in an array whose first byte is number base + 1 of
\* the stream: all packets, in order, and where it stops only bytes are left that may begin one.
Packed(p, base, i, r) ==
  LET at(k) == r.found[k][1].pos - base IN
  /\ r.stop \in i .. Len(p) + 1 /\ r.stop >= Len(p) - 1
  /\ \A j \in i .. r.stop - 1 : j >= Len(p) - 1 => p[j].frame
  /\ r.found \in Seq(Seq(Byte))
  /\ \A k \in 1 .. Len(r.found) :
       at(k) \in i .. Len(p) - 2 /\ IsPacket(p, at(k)) /\ r.found[k] = SubSeq(p, at(k), at(k) + 2)
  /\ \A k, l \in 1 .. Len(r.found) : k < l => at(k) < at(l)
  /\ \A j \in i .. Len(p) - 2 : IsPacket(p, j) => \E k \in 1 .. Len(r.found) : at(k) = j

\* The parts of two sequences put together.
LEMMA Joined ==
  ASSUME NEW S, NEW a \in Seq(S), NEW b \in Seq(S)
  PROVE  /\ a \o b \in Seq(S) /\ Len(a) \in Nat /\ Len(b) \in Nat /\ Len(a \o b) = Len(a) + Len(b)
         /\ \A k \in 1 .. Len(a) : (a \o b)[k] = a[k]
         /\ \A k \in 1 .. Len(b) : (a \o b)[Len(a) + k] = b[k]
<1>1. Len(a) \in Nat /\ Len(b) \in Nat /\ a \o b \in Seq(S) /\ Len(a \o b) = Len(a) + Len(b)
  BY LenProperties, ConcatProperties
<1>2. \A i \in 1 .. Len(a) + Len(b) : (a \o b)[i] = IF i <= Len(a) THEN a[i] ELSE b[i - Len(a)]
  BY ConcatProperties
<1>3. ASSUME NEW k \in 1 .. Len(a) PROVE (a \o b)[k] = a[k]
  <2>1. k \in 1 .. Len(a) + Len(b) /\ k <= Len(a)
    BY <1>1
  <2> QED
    BY <1>2, <2>1
<1>4. ASSUME NEW k \in 1 .. Len(b) PROVE (a \o b)[Len(a) + k] = b[k]
  <2>1. Len(a) + k \in 1 .. Len(a) + Len(b) /\ ~ (Len(a) + k <= Len(a)) /\ (Len(a) + k) - Len(a) = k
    BY <1>1
  <2> QED
    BY <1>2, <2>1
<1> QED
  BY <1>1, <1>3, <1>4

\* An index of two sequences put together is an index of the one or the other.
LEMMA Side ==
  ASSUME NEW a \in Nat, NEW b \in Nat, NEW k \in 1 .. a + b
  PROVE  (k <= a => k \in 1 .. a) /\ (~ (k <= a) => k - a \in 1 .. b)
OBVIOUS

\* A sequence with an element put before it.
LEMMA Prepended ==
  ASSUME NEW S, NEW h \in S, NEW q \in Seq(S)
  PROVE  /\ <<h>> \o q \in Seq(S) /\ Len(<<h>> \o q) = Len(q) + 1 /\ (<<h>> \o q)[1] = h
         /\ \A k \in 2 .. Len(q) + 1 : (<<h>> \o q)[k] = q[k - 1]
OBVIOUS

\* A packet found, put before the packets found after it.
LEMMA PackedFirst ==
  ASSUME NEW p \in Seq(Byte), NEW base \in Nat, \A i \in 1 .. Len(p) : p[i].pos = base + i,
         NEW i \in 1 .. Len(p) - 2, IsPacket(p, i), NEW q, Packed(p, base, i + 3, q),
         NEW r, r.found = <<SubSeq(p, i, i + 2)>> \o q.found, r.stop = q.stop
  PROVE  Packed(p, base, i, r)
<1> DEFINE h == SubSeq(p, i, i + 2)
           n == Len(q.found)
           at(k) == r.found[k][1].pos - base
           qt(k) == q.found[k][1].pos - base
<1>0. Len(p) \in Nat /\ n \in Nat /\ q.found \in Seq(Seq(Byte))
  BY DEF Packed
<1>1. h \in Seq(Byte) /\ h[1] = p[i] /\ h[1].pos - base = i
  <2>1. h \in Seq(Byte) /\ h[1] = p[i]
    BY <1>0
  <2>2. p[i].pos = base + i /\ i \in Nat
    BY <1>0
  <2> HIDE DEF h
  <2> QED
    BY <2>1, <2>2
<1>h. h = SubSeq(p, i, i + 2)
  OBVIOUS
<1> HIDE DEF h
<1>2. /\ r.found \in Seq(Seq(Byte)) /\ Len(r.found) = n + 1 /\ r.found[1] = h
      /\ \A k \in 2 .. n + 1 : r.found[k] = q.found[k - 1]
  <2> DEFINE qf == q.found
  <2>1. r.found = <<h>> \o qf
    BY DEF h
  <2>2. qf \in Seq(Seq(Byte)) /\ Len(qf) = n /\ h \in Seq(Byte)
    BY <1>0, <1>1
  <2> HIDE DEF qf, n
  <2>3. /\ <<h>> \o qf \in Seq(Seq(Byte)) /\ Len(<<h>> \o qf) = Len(qf) + 1 /\ (<<h>> \o qf)[1] = h
        /\ \A k \in 2 .. Len(qf) + 1 : (<<h>> \o qf)[k] = qf[k - 1]
    BY <2>2, Prepended
  <2> QED
    BY <2>1, <2>2, <2>3, Zenon DEF qf
<1>3. at(1) = i /\ \A k \in 2 .. n + 1 : k - 1 \in 1 .. n /\ at(k) = qt(k - 1)
  BY <1>0, <1>1, <1>2
<1>4. /\ \A k \in 1 .. n : qt(k) \in i + 3 .. Len(p) - 2 /\ IsPacket(p, qt(k))
                           /\ q.found[k] = SubSeq(p, qt(k), qt(k) + 2)
      /\ \A k, l \in 1 .. n : k < l => qt(k) < qt(l)
      /\ \A j \in i + 3 .. Len(p) - 2 : IsPacket(p, j) => \E k \in 1 .. n : qt(k) = j
      /\ q.stop \in i + 3 .. Len(p) + 1 /\ q.stop >= Len(p) - 1
      /\ \A j \in i + 3 .. q.stop - 1 : j >= Len(p) - 1 => p[j].frame
  BY DEF Packed
<1>5. p[i + 1].frame /\ p[i + 2].frame /\ ~ IsPacket(p, i + 1) /\ ~ IsPacket(p, i + 2)
  BY DEF IsPacket, Framed
<1> HIDE DEF n, at, qt
<1>6. r.stop \in i .. Len(p) + 1 /\ r.stop >= Len(p) - 1
  BY <1>0, <1>4
<1>7. ASSUME NEW j \in i .. r.stop - 1, j >= Len(p) - 1 PROVE p[j].frame
  <2>1. CASE j \in i + 3 .. q.stop - 1
    BY <1>4, <1>7, <2>1
  <2>2. CASE j = i + 1 \/ j = i + 2
    BY <1>5, <2>2
  <2> QED
    BY <1>0, <1>4, <1>7, <2>1, <2>2
<1>8. ASSUME NEW k \in 1 .. n + 1
      PROVE  at(k) \in i .. Len(p) - 2 /\ IsPacket(p, at(k)) /\ r.found[k] = SubSeq(p, at(k), at(k) + 2)
  <2>1. CASE k = 1
    <3>1. at(k) = i /\ r.found[k] = SubSeq(p, i, i + 2)
      BY <1>2, <1>3, <1>h, <2>1
    <3>2. IsPacket(p, at(k)) /\ r.found[k] = SubSeq(p, at(k), at(k) + 2)
      BY <3>1, Zenon
    <3>3. at(k) \in i .. Len(p) - 2
      BY <1>0, <3>1
    <3> QED
      BY <3>2, <3>3
  <2>2. CASE k # 1
    <3>1. k \in 2 .. n + 1 /\ k - 1 \in 1 .. n
      BY <1>0, <2>2
    <3>2. at(k) = qt(k - 1) /\ r.found[k] = q.found[k - 1]
      BY <1>2, <1>3, <3>1
    <3>3. qt(k - 1) \in i + 3 .. Len(p) - 2 /\ IsPacket(p, qt(k - 1))
          /\ q.found[k - 1] = SubSeq(p, qt(k - 1), qt(k - 1) + 2)
      BY <1>4, <3>1
    <3>4. IsPacket(p, at(k)) /\ r.found[k] = SubSeq(p, at(k), at(k) + 2)
      BY <3>2, <3>3, Zenon
    <3>5. at(k) \in i .. Len(p) - 2
      BY <1>0, <3>2, <3>3
    <3> QED
      BY <3>4, <3>5
  <2> QED
    BY <2>1, <2>2
<1>9. ASSUME NEW k \in 1 .. n + 1, NEW l \in 1 .. n + 1, k < l PROVE at(k) < at(l)
  <2>1. l \in 2 .. n + 1 /\ l - 1 \in 1 .. n /\ at(l) = qt(l - 1)
    BY <1>0, <1>3, <1>9
  <2>2. CASE k = 1
    <3>1. qt(l - 1) \in i + 3 .. Len(p) - 2
      BY <1>4, <2>1
    <3> QED
      BY <1>0, <1>3, <2>1, <2>2, <3>1
  <2>3. CASE k # 1
    <3>1. k \in 2 .. n + 1 /\ k - 1 \in 1 .. n /\ k - 1 < l - 1 /\ at(k) = qt(k - 1)
      BY <1>0, <1>3, <1>9, <2>3
    <3> QED
      BY <1>4, <2>1, <3>1
  <2> QED
    BY <2>2, <2>3
<1>10. ASSUME NEW j \in i .. Len(p) - 2, IsPacket(p, j) PROVE \E k \in 1 .. n + 1 : at(k) = j
  <2>1. CASE j = i
    BY <1>0, <1>3, <2>1
  <2>2. CASE j \in i + 3 .. Len(p) - 2
    <3>1. PICK k \in 1 .. n : qt(k) = j
      BY <1>4, <1>10, <2>2
    <3>2. k + 1 \in 2 .. n + 1 /\ k + 1 \in 1 .. n + 1 /\ (k + 1) - 1 = k
      BY <1>0
    <3>3. at(k + 1) = j
      BY <1>3, <3>1, <3>2
    <3> QED
      BY <3>2, <3>3
  <2>3. j # i + 1 /\ j # i + 2
    BY <1>5, <1>10
  <2> QED
    BY <1>0, <2>1, <2>2, <2>3
<1> QED
  BY <1>2, <1>6, <1>7, <1>8, <1>9, <1>10 DEF Packed, at

\* No packet begins at i.
LEMMA PackedNext ==
  ASSUME NEW p \in Seq(Byte), NEW base \in Nat, NEW i \in 1 .. Len(p) - 2, ~ IsPacket(p, i),
         NEW r, Packed(p, base, i + 1, r)
  PROVE  Packed(p, base, i, r)
<1> DEFINE at(k) == r.found[k][1].pos - base
<1>0. Len(p) \in Nat
  OBVIOUS
<1>1. /\ r.stop \in i + 1 .. Len(p) + 1 /\ r.stop >= Len(p) - 1
      /\ \A j \in i + 1 .. r.stop - 1 : j >= Len(p) - 1 => p[j].frame
      /\ r.found \in Seq(Seq(Byte))
      /\ \A k \in 1 .. Len(r.found) : at(k) \in i + 1 .. Len(p) - 2 /\ IsPacket(p, at(k))
                                      /\ r.found[k] = SubSeq(p, at(k), at(k) + 2)
      /\ \A k, l \in 1 .. Len(r.found) : k < l => at(k) < at(l)
      /\ \A j \in i + 1 .. Len(p) - 2 : IsPacket(p, j) => \E k \in 1 .. Len(r.found) : at(k) = j
  BY DEF Packed
<1> HIDE DEF at
<1>2. r.stop \in i .. Len(p) + 1 /\ \A j \in i .. r.stop - 1 : j >= Len(p) - 1 => p[j].frame
  BY <1>0, <1>1
<1>3. \A k \in 1 .. Len(r.found) : at(k) \in i .. Len(p) - 2
  BY <1>0, <1>1
<1>4. \A j \in i .. Len(p) - 2 : IsPacket(p, j) => j \in i + 1 .. Len(p) - 2
  BY <1>0
<1>5. \A j \in i .. Len(p) - 2 : IsPacket(p, j) => \E k \in 1 .. Len(r.found) : at(k) = j
  BY <1>1, <1>4
<1> QED
  BY <1>1, <1>2, <1>3, <1>5 DEF Packed, at

\* The loop of data_callback finds the packets of the array, in order, and saves at most two bytes.
LEMMA ScanGood ==
  ASSUME NEW p \in Seq(Byte), NEW base \in Nat, \A i \in 1 .. Len(p) : p[i].pos = base + i
  PROVE  Packed(p, base, 1, Scan(p))
<1> DEFINE N == Len(p)
<1>0. N \in Nat
  OBVIOUS
<1>1. PICK f : Scan(p) = f[1] /\ \A i \in 1 .. N + 1 : f[i] = ScanStep(p, f, i)
  BY ScanUnfolds
<1> DEFINE T == {d \in 0 .. N : \A i \in N + 1 - d .. N + 1 : Packed(p, base, i, f[i])}
<1>2. ASSUME NEW i \in 1 .. N + 1, i > N - 2 PROVE Packed(p, base, i, f[i])
  <2>1. f[i] = [found |-> <<>>, stop |-> i]
    BY <1>1, <1>2 DEF ScanStep
  <2>2. f[i].found = <<>> /\ f[i].stop = i /\ Len(f[i].found) = 0
    BY <2>1
  <2>3. f[i].found \in Seq(Seq(Byte))
    BY <2>2
  <2>4. i .. N - 2 = {} /\ 1 .. Len(f[i].found) = {} /\ i .. i - 1 = {}
    BY <1>0, <1>2, <2>2
  <2> QED
    BY <1>0, <1>2, <2>2, <2>3, <2>4 DEF Packed
<1>3. 0 \in T
  BY <1>0, <1>2
<1>4. ASSUME NEW d \in 0 .. N - 1, d \in T PROVE d + 1 \in T
  <2>1. ASSUME NEW i \in N + 1 - (d + 1) .. N + 1 PROVE Packed(p, base, i, f[i])
    <3>1. CASE i > N - 2
      BY <1>0, <1>2, <3>1
    <3>2. CASE i <= N - 2 /\ i > N - d
      <4>1. i \in N + 1 - d .. N + 1
        BY <1>0, <3>2
      <4> QED
        BY <1>4, <4>1
    <3>3. CASE i <= N - 2 /\ i = N - d
      <4>1. i \in 1 .. N - 2 /\ i \in 1 .. N + 1 /\ ~ (i > N - 2)
        BY <1>0, <3>3
      <4>2. i + 1 \in N + 1 - d .. N + 1 /\ i + 3 \in N + 1 - d .. N + 1
        BY <1>0, <3>3
      <4>3. Packed(p, base, i + 1, f[i + 1]) /\ Packed(p, base, i + 3, f[i + 3])
        BY <1>4, <4>2
      <4>4. CASE IsPacket(p, i)
        <5>1. f[i].found = <<SubSeq(p, i, i + 2)>> \o f[i + 3].found /\ f[i].stop = f[i + 3].stop
          <6> DEFINE found == <<SubSeq(p, i, i + 2)>> \o f[i + 3].found
                     stop  == f[i + 3].stop
          <6>1. f[i] = [found |-> found, stop |-> stop]
            BY <1>1, <4>1, <4>4, Zenon DEF ScanStep
          <6> HIDE DEF found, stop
          <6>2. f[i].found = found /\ f[i].stop = stop
            BY <6>1
          <6> QED
            BY <6>2 DEF found, stop
        <5> QED
          BY <4>1, <4>3, <4>4, <5>1, PackedFirst
      <4>5. CASE ~ IsPacket(p, i)
        <5>1. f[i] = f[i + 1]
          BY <1>1, <4>1, <4>5 DEF ScanStep
        <5> QED
          BY <4>1, <4>3, <4>5, <5>1, PackedNext
      <4> QED
        BY <4>4, <4>5
    <3> QED
      BY <1>0, <3>1, <3>2, <3>3
  <2> QED
    BY <1>0, <2>1
<1>5. N \in T
  <2> HIDE DEF T, N
  <2>1. 0 .. N \subseteq T
    BY <1>0, <1>3, <1>4, InductionUpTo
  <2> QED
    BY <1>0, <2>1
<1>6. Packed(p, base, 1, f[1])
  BY <1>0, <1>5
<1> QED
  BY <1>1, <1>6


-----------------------------------------------------------------------------
(***************************************************************************)
(* The packets of the stream.                                              *)
(***************************************************************************)

\* P is the packets of the first gone bytes of R.
Delivered(P, R, gone) ==
  LET at(k) == P[k][1].pos IN
  /\ P \in Seq(Seq(Byte))
  /\ \A k \in 1 .. Len(P) :
       at(k) \in 1 .. gone - 2 /\ IsPacket(R, at(k)) /\ P[k] = SubSeq(R, at(k), at(k) + 2)
  /\ \A k, l \in 1 .. Len(P) : k < l => at(k) < at(l)
  /\ \A j \in 1 .. gone - 2 : IsPacket(R, j) => \E k \in 1 .. Len(P) : at(k) = j

\* Three bytes of a sequence that another contains from index m + 1 on.
LEMMA SameThree ==
  ASSUME NEW p \in Seq(Byte), NEW R \in Seq(Byte), NEW m \in Nat, NEW a \in 1 .. Len(p) - 2,
         Len(p) + m <= Len(R), \A k \in 1 .. Len(p) : p[k] = R[m + k]
  PROVE  /\ IsPacket(p, a) <=> IsPacket(R, m + a)
         /\ SubSeq(p, a, a + 2) = SubSeq(R, m + a, m + a + 2)
<1>1. p[a] = R[m + a] /\ p[a + 1] = R[m + a + 1] /\ p[a + 2] = R[m + a + 2]
  OBVIOUS
<1>2. IsPacket(p, a) <=> IsPacket(R, m + a)
  BY <1>1 DEF IsPacket
<1> DEFINE x == SubSeq(p, a, a + 2)
           y == SubSeq(R, m + a, m + a + 2)
<1>3. x \in Seq(Byte) /\ Len(x) = 3 /\ x[1] = p[a] /\ x[2] = p[a + 1] /\ x[3] = p[a + 2]
  OBVIOUS
<1>4. y \in Seq(Byte) /\ Len(y) = 3 /\ y[1] = R[m + a] /\ y[2] = R[m + a + 1] /\ y[3] = R[m + a + 2]
  OBVIOUS
<1> HIDE DEF x, y
<1>5. \A k \in 1 .. 3 : x[k] = y[k]
  BY <1>1, <1>3, <1>4, SMTT(30)
<1>6. x = y
  BY <1>3, <1>4, <1>5, SeqEqual
<1> QED
  BY <1>2, <1>6 DEF x, y

\* A packet that ends with the first gone bytes begins before one that begins behind byte m.
LEMMA Before ==
  ASSUME NEW gone \in Nat, NEW m \in Nat, NEW gone2 \in Nat, gone <= m + 2
  PROVE  \A x \in 1 .. gone - 2 : \A y \in m + 1 .. gone2 - 2 : x < y
OBVIOUS

\* What the loop finds in the saved bytes and those that leave the ring completes the packets of
\* the stream: a packet that begins before the saved bytes had been found.
LEMMA DeliversMore ==
  ASSUME NEW P, NEW R \in Seq(Byte), NEW R2 \in Seq(Byte), Len(R) <= Len(R2),
         \A j \in 1 .. Len(R) : R2[j] = R[j],
         NEW gone \in 0 .. Len(R), NEW gone2 \in gone .. Len(R2), NEW m \in 0 .. gone, gone - m <= 2,
         \A j \in 1 .. m : j >= gone - 1 => R[j].frame,
         NEW p \in Seq(Byte), Len(p) = gone2 - m, \A k \in 1 .. Len(p) : p[k] = R2[m + k],
         NEW r, Packed(p, m, 1, r), Delivered(P, R, gone)
  PROVE  Delivered(P \o r.found, R2, gone2)
<1> DEFINE Q == r.found
           n == Len(P)
           PQ == P \o Q
           N == Len(p)
<1>1. /\ P \in Seq(Seq(Byte)) /\ n \in Nat
      /\ \A k \in 1 .. n : P[k][1].pos \in 1 .. gone - 2 /\ IsPacket(R, P[k][1].pos)
                           /\ P[k] = SubSeq(R, P[k][1].pos, P[k][1].pos + 2)
      /\ \A k, l \in 1 .. n : k < l => P[k][1].pos < P[l][1].pos
      /\ \A j \in 1 .. gone - 2 : IsPacket(R, j) => \E k \in 1 .. n : P[k][1].pos = j
  <2>1. P \in Seq(Seq(Byte))
    BY DEF Delivered
  <2>2. n \in Nat
    BY <2>1
  <2> QED
    BY <2>1, <2>2, Zenon DEF Delivered
<1>2. /\ Q \in Seq(Seq(Byte)) /\ Len(Q) \in Nat
      /\ \A k \in 1 .. Len(Q) : Q[k][1].pos - m \in 1 .. N - 2 /\ IsPacket(p, Q[k][1].pos - m)
                                /\ Q[k] = SubSeq(p, Q[k][1].pos - m, Q[k][1].pos - m + 2)
      /\ \A k, l \in 1 .. Len(Q) : k < l => Q[k][1].pos - m < Q[l][1].pos - m
      /\ \A j \in 1 .. N - 2 : IsPacket(p, j) => \E k \in 1 .. Len(Q) : Q[k][1].pos - m = j
  <2>1. Q \in Seq(Seq(Byte))
    BY DEF Packed
  <2>2. Len(Q) \in Nat
    BY <2>1
  <2> QED
    BY <2>1, <2>2, Zenon DEF Packed
<1>3. /\ PQ \in Seq(Seq(Byte)) /\ Len(PQ) = n + Len(Q)
      /\ \A k \in 1 .. n + Len(Q) : PQ[k] = IF k <= n THEN P[k] ELSE Q[k - n]
  BY <1>1, <1>2, ConcatProperties
<1>4. /\ {Len(R), Len(R2), N, m, gone, gone2} \subseteq Nat /\ N + m = gone2
      /\ gone <= Len(R) /\ gone2 <= Len(R2) /\ m <= gone /\ gone <= gone2 /\ gone <= m + 2
  BY LenProperties
<1>s. ASSUME NEW a \in 1 .. N - 2
      PROVE  /\ IsPacket(p, a) <=> IsPacket(R2, m + a)
             /\ SubSeq(p, a, a + 2) = SubSeq(R2, m + a, m + a + 2)
  <2>1. m \in Nat /\ Len(p) + m <= Len(R2)
    BY <1>4
  <2> QED
    BY <2>1, SameThree, Zenon
<1>t. ASSUME NEW a \in 1 .. gone - 2
      PROVE  /\ IsPacket(R, a) <=> IsPacket(R2, a)
             /\ SubSeq(R, a, a + 2) = SubSeq(R2, a, a + 2)
  <2>1. 0 \in Nat /\ Len(R) + 0 <= Len(R2) /\ a \in 1 .. Len(R) - 2 /\ 0 + a = a
    BY <1>4
  <2>2. ASSUME NEW k \in 1 .. Len(R) PROVE R[k] = R2[0 + k]
    BY <1>4
  <2>3. /\ IsPacket(R, a) <=> IsPacket(R2, 0 + a)
        /\ SubSeq(R, a, a + 2) = SubSeq(R2, 0 + a, 0 + a + 2)
    BY <2>1, <2>2, SameThree, Zenon
  <2> QED
    BY <2>1, <2>3, Zenon
<1>5. \A k \in 1 .. Len(Q) : Q[k][1] \in Byte /\ Q[k][1].pos \in Nat
  <2> SUFFICES ASSUME NEW k \in 1 .. Len(Q) PROVE Q[k][1] \in Byte
    BY DEF Byte
  <2> DEFINE a == Q[k][1].pos - m
  <2>1. a \in 1 .. N - 2 /\ Q[k] = SubSeq(p, a, a + 2)
    BY <1>2
  <2> HIDE DEF a
  <2>2. SubSeq(p, a, a + 2)[1] = p[a] /\ p[a] \in Byte
    BY <1>4, <2>1
  <2> QED
    BY <2>1, <2>2
<1> HIDE DEF Q, PQ, n, N
<1>i. ASSUME NEW k \in 1 .. Len(PQ)
      PROVE  /\ k <= n => k \in 1 .. n /\ PQ[k] = P[k]
             /\ ~ (k <= n) => k - n \in 1 .. Len(Q) /\ PQ[k] = Q[k - n]
  <2>1. k \in 1 .. n + Len(Q)
    BY <1>3
  <2>2. PQ[k] = IF k <= n THEN P[k] ELSE Q[k - n]
    BY <1>3, <2>1
  <2>3. n \in Nat /\ Len(Q) \in Nat
    BY <1>1, <1>2
  <2>4. (k <= n => k \in 1 .. n) /\ (~ (k <= n) => k - n \in 1 .. Len(Q))
    BY <2>1, <2>3, Side, Zenon
  <2> QED
    BY <2>2, <2>4, Zenon
<1>6. ASSUME NEW k \in 1 .. n
      PROVE  /\ P[k][1].pos \in 1 .. gone2 - 2 /\ IsPacket(R2, P[k][1].pos)
             /\ P[k] = SubSeq(R2, P[k][1].pos, P[k][1].pos + 2)
  <2> DEFINE a == P[k][1].pos
  <2>1. a \in 1 .. gone - 2 /\ IsPacket(R, a) /\ P[k] = SubSeq(R, a, a + 2)
    BY <1>1
  <2> HIDE DEF a
  <2>4. IsPacket(R2, a) /\ P[k] = SubSeq(R2, a, a + 2)
    BY <1>t, <2>1, Zenon
  <2>5. a \in 1 .. gone2 - 2
    BY <1>4, <2>1
  <2> QED
    BY <2>4, <2>5 DEF a
<1>7. ASSUME NEW k \in 1 .. Len(Q)
      PROVE  /\ Q[k][1].pos \in m + 1 .. gone2 - 2 /\ IsPacket(R2, Q[k][1].pos)
             /\ Q[k] = SubSeq(R2, Q[k][1].pos, Q[k][1].pos + 2)
  <2> DEFINE b == Q[k][1].pos
             a == b - m
  <2>1. b \in Nat /\ a \in 1 .. N - 2 /\ IsPacket(p, a) /\ Q[k] = SubSeq(p, a, a + 2)
    BY <1>2, <1>5
  <2> HIDE DEF b
  <2>2. m + a = b /\ b \in m + 1 .. gone2 - 2
    BY <1>4, <2>1
  <2> HIDE DEF a
  <2>3. /\ IsPacket(p, a) <=> IsPacket(R2, m + a)
        /\ SubSeq(p, a, a + 2) = SubSeq(R2, m + a, m + a + 2)
    BY <1>s, <2>1, Zenon
  <2>4. IsPacket(R2, b) /\ Q[k] = SubSeq(R2, b, b + 2)
    BY <2>1, <2>2, <2>3, Zenon
  <2> QED
    BY <2>2, <2>4 DEF b
<1>8. ASSUME NEW k \in 1 .. Len(PQ)
      PROVE  /\ PQ[k][1].pos \in 1 .. gone2 - 2 /\ IsPacket(R2, PQ[k][1].pos)
             /\ PQ[k] = SubSeq(R2, PQ[k][1].pos, PQ[k][1].pos + 2)
  <2>1. CASE k <= n
    <3>1. k \in 1 .. n /\ PQ[k] = P[k]
      BY <1>i, <2>1, Zenon
    <3> QED
      BY <1>6, <3>1
  <2>2. CASE ~ (k <= n)
    <3>1. k - n \in 1 .. Len(Q) /\ PQ[k] = Q[k - n]
      BY <1>i, <2>2, Zenon
    <3>2. /\ PQ[k][1].pos \in m + 1 .. gone2 - 2 /\ IsPacket(R2, PQ[k][1].pos)
          /\ PQ[k] = SubSeq(R2, PQ[k][1].pos, PQ[k][1].pos + 2)
      BY <1>7, <3>1
    <3>3. \A x \in m + 1 .. gone2 - 2 : x \in 1 .. gone2 - 2
      BY <1>4
    <3> QED
      BY <3>2, <3>3
  <2> QED
    BY <2>1, <2>2
<1>9. ASSUME NEW k \in 1 .. Len(PQ), NEW l \in 1 .. Len(PQ), k < l PROVE PQ[k][1].pos < PQ[l][1].pos
  <2>n. n \in Nat /\ k \in Nat /\ l \in Nat
    BY <1>1
  <2>m. /\ l <= n => k <= n
        /\ ~ (k <= n) => ~ (l <= n) /\ k - n < l - n
    BY <1>9, <2>n
  <2>1. CASE l <= n
    <3>1. k \in 1 .. n /\ l \in 1 .. n /\ PQ[k] = P[k] /\ PQ[l] = P[l]
      BY <1>i, <2>1, <2>m, Zenon
    <3> QED
      BY <1>1, <1>9, <3>1
  <2>2. CASE k <= n /\ ~ (l <= n)
    <3>1. k \in 1 .. n /\ PQ[k] = P[k] /\ l - n \in 1 .. Len(Q) /\ PQ[l] = Q[l - n]
      BY <1>i, <2>2, Zenon
    <3>2. P[k][1].pos \in 1 .. gone - 2 /\ Q[l - n][1].pos \in m + 1 .. gone2 - 2
      BY <1>1, <1>7, <3>1
    <3>3. \A x \in 1 .. gone - 2 : \A y \in m + 1 .. gone2 - 2 : x < y
      <4>1. gone \in Nat /\ m \in Nat /\ gone2 \in Nat /\ gone <= m + 2
        BY <1>4
      <4> QED
        BY <4>1, Before, Zenon
    <3> QED
      BY <3>1, <3>2, <3>3
  <2>3. CASE ~ (k <= n)
    <3>1. /\ k - n \in 1 .. Len(Q) /\ PQ[k] = Q[k - n] /\ l - n \in 1 .. Len(Q) /\ PQ[l] = Q[l - n]
          /\ k - n < l - n
      BY <1>i, <2>3, <2>m, Zenon
    <3>2. Q[k - n][1].pos - m < Q[l - n][1].pos - m
      BY <1>2, <3>1
    <3>3. Q[k - n][1].pos \in Nat /\ Q[l - n][1].pos \in Nat
      BY <1>5, <3>1
    <3>4. \A x, y \in Nat : x - m < y - m => x < y
      BY <1>4
    <3>5. Q[k - n][1].pos < Q[l - n][1].pos
      BY <3>2, <3>3, <3>4
    <3> QED
      BY <3>1, <3>5, Zenon
  <2> QED
    BY <2>1, <2>2, <2>3
<1>10. ASSUME NEW j \in 1 .. gone2 - 2, IsPacket(R2, j) PROVE \E k \in 1 .. Len(PQ) : PQ[k][1].pos = j
  <2>1. CASE j <= gone - 2
    <3>1. j \in 1 .. gone - 2
      BY <1>4, <2>1
    <3>2. IsPacket(R, j)
      BY <1>t, <1>10, <3>1, Zenon
    <3>3. IsPacket(R, j) /\ j \in 1 .. gone - 2
      BY <3>1, <3>2
    <3>4. PICK k \in 1 .. n : P[k][1].pos = j
      BY <1>1, <3>3
    <3>5. k \in 1 .. Len(PQ) /\ PQ[k] = P[k]
      BY <1>1, <1>2, <1>3, SMTT(30)
    <3> QED
      BY <3>4, <3>5
  <2>2. CASE j >= gone - 1 /\ j <= m
    <3>1. R[j].frame /\ R2[j] = R[j]
      BY <1>4, <2>2
    <3> QED
      BY <1>10, <3>1 DEF IsPacket, Framed
  <2>3. CASE j > m
    <3>1. j - m \in 1 .. N - 2 /\ m + (j - m) = j
      BY <1>4, <2>3
    <3>2. IsPacket(p, j - m) <=> IsPacket(R2, m + (j - m))
      BY <1>s, <3>1, Zenon
    <3>3. IsPacket(p, j - m)
      BY <1>10, <3>1, <3>2, Zenon
    <3>4. PICK k \in 1 .. Len(Q) : Q[k][1].pos - m = j - m
      BY <1>2, <3>1, <3>3
    <3>5. Q[k][1].pos = j
      BY <1>5, <3>4, SMTT(30)
    <3>6. n + k \in 1 .. Len(PQ) /\ PQ[n + k] = Q[k]
      <4>1. n + k \in 1 .. n + Len(Q) /\ ~ (n + k <= n) /\ (n + k) - n = k
        BY <1>1, <1>2
      <4> QED
        BY <1>3, <4>1
    <3> QED
      BY <3>5, <3>6
  <2>4. j \in Nat /\ (j <= gone - 2 \/ j >= gone - 1)
    BY <1>4
  <2> QED
    BY <1>4, <2>1, <2>2, <2>3, <2>4
<1> QED
  BY <1>3, <1>8, <1>9, <1>10 DEF Delivered, PQ, Q


-----------------------------------------------------------------------------
(***************************************************************************)
(* The inductive invariant, in one part for each direction.                *)
(***************************************************************************)

\* The bytes held in the ring and the saved ones are the last of the stream R, the packets P
\* are those of the bytes that have left the ring, and no packet begins just before the
\* saved bytes.
Assembled(ring, sv, R, P) ==
  LET gone == Len(R) - Len(ring) IN
  /\ ring \in Seq(Byte) /\ sv \in Seq(Byte) /\ R \in Seq(Byte)
  /\ \A i \in 1 .. Len(R) : R[i].pos = i
  /\ Len(sv) <= 2 /\ Len(sv) <= gone
  /\ \A k \in 1 .. Len(ring) : ring[k] = R[gone + k]
  /\ \A k \in 1 .. Len(sv) : sv[k] = R[gone - Len(sv) + k]
  /\ \A j \in 1 .. gone - Len(sv) : j >= gone - 1 => R[j].frame
  /\ Delivered(P, R, gone)

RxInv ==
  /\ rx_buf \in [Slots -> Byte] /\ rx_start \in Slots /\ rx_end \in Slots
  /\ Assembled(rxRing, saved, received, packets)

\* The types in the transmitting half of the invariant.
TxTypes ==
  /\ tx_buf \in [Slots -> Nat] /\ tx_start \in Slots /\ tx_end \in Slots
  /\ wakeup \in [Contexts -> [at : {"idle", "room", "take", "write"}, room : 0 .. ROOM, buf : Seq(Nat)]]
  /\ \A c \in Contexts : Len(wakeup[c].buf) <= B
  /\ fifo \in Seq(Nat) /\ Len(fifo) <= ROOM /\ owed \in BOOLEAN
  /\ accepted \in Seq(Nat) /\ taken \in Seq(Nat)

TxInv == TxTypes /\ TransmitRingFifo

\* The receiving half of the invariant holds at the start.
LEMMA RxInit == Init => RxInv
<1> SUFFICES ASSUME Init PROVE RxInv
  OBVIOUS
<1>1. 0 \in Slots /\ buf_used(0, 0) = 0
  BY Size DEF buf_used
<1>2. rx_start = 0 /\ rx_end = 0 /\ saved = <<>> /\ received = <<>> /\ packets = <<>>
  BY DEF Init
<1>3. rx_buf \in [Slots -> Byte]
  <2>1. rx_buf \in [Slots -> {[frame |-> FALSE, pos |-> 0]}]
    BY DEF Init
  <2>2. [frame |-> FALSE, pos |-> 0] \in Byte
    BY DEF Byte
  <2> HIDE DEF Byte
  <2> QED
    BY <2>1, <2>2
<1>4. rxRing \in Seq(Byte) /\ Len(rxRing) = 0
  <2>1. rxRing = Content(rx_buf, 0, 0)
    BY <1>2 DEF rxRing
  <2>0. 0 \in Slots
    BY <1>1
  <2>2. Content(rx_buf, 0, 0) \in Seq(Byte)
    BY <1>1, <1>3, ContentType, ZenonT(40)
  <2>3. Len(Content(rx_buf, 0, 0)) = buf_used(0, 0)
    BY <2>0, <1>3, ContentType, ZenonT(40)
  <2> QED
    BY <1>1, <2>1, <2>2, <2>3
<1>5. Delivered(<<>>, <<>>, 0)
  BY DEF Delivered
<1>6. Len(received) = 0 /\ Len(saved) = 0 /\ saved \in Seq(Byte) /\ received \in Seq(Byte)
  BY <1>2
<1>7. Assembled(rxRing, saved, received, packets)
  BY <1>2, <1>4, <1>5, <1>6 DEF Assembled
<1> QED
  BY <1>1, <1>2, <1>3, <1>7 DEF RxInv

\* So does the transmitting half.
LEMMA TxInit == Init => TxInv
<1> SUFFICES ASSUME Init PROVE TxInv
  OBVIOUS
<1>1. 0 \in Slots /\ buf_used(0, 0) = 0 /\ B \in Nat /\ ROOM \in Nat
  BY Size, TuxAssumption DEF buf_used
<1>2. /\ tx_buf \in [Slots -> Nat] /\ tx_start = 0 /\ tx_end = 0
      /\ wakeup = [c \in Contexts |-> [at |-> "idle", room |-> 0, buf |-> <<>>]]
      /\ fifo = <<>> /\ owed = FALSE /\ accepted = <<>> /\ taken = <<>>
  BY DEF Init
<1>3. txRing \in Seq(Nat) /\ Len(txRing) = 0
  <2>1. txRing = Content(tx_buf, 0, 0)
    BY <1>2 DEF txRing
  <2>0. 0 \in Slots
    BY <1>1
  <2>2. Content(tx_buf, 0, 0) \in Seq(Nat)
    BY <1>1, <1>2, ContentType, ZenonT(40)
  <2>3. Len(Content(tx_buf, 0, 0)) = buf_used(0, 0)
    BY <2>0, <1>2, ContentType, ZenonT(40)
  <2> QED
    BY <1>1, <2>1, <2>2, <2>3
<1>4. TransmitRingFifo
  BY <1>2, <1>3 DEF TransmitRingFifo
<1>5. wakeup \in [Contexts -> [at : {"idle", "room", "take", "write"}, room : 0 .. ROOM, buf : Seq(Nat)]]
  <2>1. 0 \in 0 .. ROOM /\ <<>> \in Seq(Nat)
    BY <1>1
  <2> QED
    BY <1>2, <2>1
<1>6. \A c \in Contexts : Len(wakeup[c].buf) <= B
  BY <1>1, <1>2
<1>7. fifo \in Seq(Nat) /\ Len(fifo) <= ROOM /\ owed \in BOOLEAN /\ accepted \in Seq(Nat) /\ taken \in Seq(Nat)
  BY <1>1, <1>2, SMTT(30)
<1> QED
  BY <1>1, <1>2, <1>4, <1>5, <1>6, <1>7 DEF TxInv, TxTypes

-----------------------------------------------------------------------------
(***************************************************************************)
(* Receiving.                                                              *)
(***************************************************************************)

\* The bytes data_callback saves: those from index t of an array of N bytes on, when the array
\* ends where gone bytes have left the ring and begins after byte m.
LEMMA SavedCount ==
  ASSUME NEW gone \in Nat, NEW m \in Nat, NEW N \in Nat, NEW t \in Nat, NEW v,
         N = gone - m, t >= 1, t <= N + 1, t >= N - 1, v = N + 1 - t
  PROVE  /\ v \in Nat /\ v <= 2 /\ v <= gone /\ gone - v = m + t - 1
         /\ \A k \in 1 .. v : t - 1 + k \in 1 .. N /\ m + (t - 1 + k) = gone - v + k
         /\ \A j \in 1 .. gone - v : j >= gone - 1 /\ j > m =>
              j - m \in 1 .. t - 1 /\ j - m >= N - 1 /\ j - m \in 1 .. N /\ m + (j - m) = j
OBVIOUS

\* One receive interrupt, on the contents of the ring: bytes are added behind it, got is taken
\* from its front and rest stays.
LEMMA Assembles ==
  ASSUME NEW ring, NEW sv, NEW R, NEW P, Assembled(ring, sv, R, P),
         NEW bytes \in Seq(Byte), \A k \in 1 .. Len(bytes) : bytes[k].pos = Len(R) + k,
         NEW got \in Seq(Byte), Len(got) <= Len(ring) + Len(bytes),
         \A k \in 1 .. Len(got) : got[k] = (ring \o bytes)[k],
         NEW rest \in Seq(Byte), Len(rest) = Len(ring) + Len(bytes) - Len(got),
         \A k \in 1 .. Len(rest) : rest[k] = (ring \o bytes)[Len(got) + k],
         NEW r, r = Scan(sv \o got)
  PROVE  Assembled(rest, SubSeq(sv \o got, r.stop, Len(sv \o got)), R \o bytes, P \o r.found)
<1> DEFINE n == Len(R)
           u == Len(ring)
           v == Len(sv)
           c == Len(bytes)
           g == Len(got)
           w == Len(rest)
           R2 == R \o bytes
           all == ring \o bytes
           p == sv \o got
           gone == n - u
           gone2 == n - u + g
           m == n - u - v
<1>1. /\ ring \in Seq(Byte) /\ sv \in Seq(Byte) /\ R \in Seq(Byte)
      /\ n \in Nat /\ u \in Nat /\ v \in Nat /\ c \in Nat /\ g \in Nat /\ w \in Nat
  <2>1. ring \in Seq(Byte) /\ sv \in Seq(Byte) /\ R \in Seq(Byte)
    BY DEF Assembled
  <2> QED
    BY <2>1, LenProperties
<1>2. /\ \A i \in 1 .. n : R[i].pos = i
      /\ v <= 2 /\ v <= gone
      /\ \A k \in 1 .. u : ring[k] = R[gone + k]
      /\ \A k \in 1 .. v : sv[k] = R[gone - v + k]
      /\ \A j \in 1 .. gone - v : j >= gone - 1 => R[j].frame
      /\ Delivered(P, R, gone)
  BY DEF Assembled
<1>3. /\ R2 \in Seq(Byte) /\ Len(R2) = n + c
      /\ \A k \in 1 .. n : R2[k] = R[k]
      /\ \A k \in 1 .. c : R2[n + k] = bytes[k]
  BY <1>1, Joined
<1>4. /\ all \in Seq(Byte) /\ Len(all) = u + c
      /\ \A k \in 1 .. u : all[k] = ring[k]
      /\ \A k \in 1 .. c : all[u + k] = bytes[k]
  BY <1>1, Joined
<1>5. /\ p \in Seq(Byte) /\ Len(p) = v + g
      /\ \A k \in 1 .. v : p[k] = sv[k]
      /\ \A k \in 1 .. g : p[v + k] = got[k]
  BY <1>1, Joined
<1>6. /\ g <= u + c /\ \A k \in 1 .. g : got[k] = all[k]
      /\ w = u + c - g /\ \A k \in 1 .. w : rest[k] = all[g + k]
      /\ \A k \in 1 .. c : bytes[k].pos = n + k
  BY Zenon
<1>h. /\ gone = n - u /\ gone2 = n - u + g /\ m = n - u - v
  OBVIOUS
<1> HIDE DEF n, u, v, c, g, w, R2, all, p, gone, gone2, m
<1>n. n \in Nat /\ u \in Nat /\ v \in Nat /\ c \in Nat /\ g \in Nat /\ w \in Nat /\ v <= 2
  BY <1>1, <1>2
<1>7. /\ gone \in Nat /\ gone2 \in Nat /\ m \in Nat /\ gone <= n /\ gone2 <= n + c /\ m <= gone
      /\ gone - v = m /\ gone2 = gone + g /\ Len(p) = gone2 - m /\ gone - m <= 2
      /\ (n + c) - w = gone2
  BY <1>1, <1>2, <1>5, <1>6, <1>h
<1>8. \A i \in 1 .. n + c : R2[i].pos = i
  <2> TAKE i \in 1 .. n + c
  <2>1. CASE i <= n
    <3>1. i \in 1 .. n
      BY <1>1, <2>1
    <3> QED
      BY <1>2, <1>3, <3>1
  <2>2. CASE i > n
    <3>1. i - n \in 1 .. c /\ n + (i - n) = i
      BY <1>1, <2>2
    <3>2. R2[n + (i - n)] = bytes[i - n] /\ bytes[i - n].pos = n + (i - n)
      BY <1>3, <1>6, <3>1, Zenon
    <3> QED
      BY <3>1, <3>2
  <2> QED
    BY <1>1, <2>1, <2>2
<1>9. \A k \in 1 .. u + c : all[k] = R2[gone + k]
  <2> TAKE k \in 1 .. u + c
  <2>1. CASE k <= u
    <3>1. k \in 1 .. u /\ gone + k \in 1 .. n
      BY <1>1, <1>7, <1>h, <2>1
    <3> QED
      BY <1>2, <1>3, <1>4, <3>1
  <2>2. CASE k > u
    <3>1. k - u \in 1 .. c /\ u + (k - u) = k /\ n + (k - u) = gone + k
      BY <1>1, <1>7, <1>h, <2>2
    <3> QED
      BY <1>3, <1>4, <3>1
  <2> QED
    BY <1>1, <2>1, <2>2
<1>10. \A k \in 1 .. Len(p) : p[k] = R2[m + k]
  <2> TAKE k \in 1 .. Len(p)
  <2>1. CASE k <= v
    <3>1. k \in 1 .. v /\ m + k \in 1 .. n
      BY <1>n, <1>7, <1>h, <2>1
    <3> QED
      BY <1>2, <1>3, <1>5, <1>7, <3>1
  <2>2. CASE k > v
    <3>1. k - v \in 1 .. g /\ k - v \in 1 .. u + c /\ v + (k - v) = k /\ gone + (k - v) = m + k
      BY <1>1, <1>5, <1>6, <1>7, <1>h, <2>2
    <3> QED
      BY <1>5, <1>6, <1>9, <3>1
  <2> QED
    BY <1>1, <1>5, <2>1, <2>2
<1>11. Packed(p, m, 1, r)
  <2>1. ASSUME NEW i \in 1 .. Len(p) PROVE p[i].pos = m + i
    <3>1. m + i \in 1 .. n + c
      BY <1>1, <1>7
    <3> QED
      BY <1>8, <1>10, <3>1
  <2>2. r = Scan(p)
    BY DEF p
  <2> QED
    BY <1>5, <1>7, <2>1, <2>2, ScanGood
<1>12. /\ r.stop \in 1 .. Len(p) + 1 /\ r.stop >= Len(p) - 1
       /\ \A j \in 1 .. r.stop - 1 : j >= Len(p) - 1 => p[j].frame
  BY <1>11 DEF Packed
<1> DEFINE t == r.stop
           N == Len(p)
           sv2 == SubSeq(p, t, Len(p))
           v2 == Len(sv2)
<1>13. t \in Nat /\ t >= 1 /\ Len(p) \in Nat /\ t <= Len(p) + 1
  BY <1>1, <1>5, <1>12
<1> HIDE DEF t
<1>14. sv2 \in Seq(Byte) /\ v2 = Len(p) + 1 - t /\ \A k \in 1 .. v2 : sv2[k] = p[t - 1 + k]
  BY <1>5, <1>13
<1>l. N \in Nat /\ N = gone2 - m /\ t \in Nat /\ t >= 1 /\ t <= N + 1 /\ t >= N - 1 /\ v2 = N + 1 - t
  BY <1>7, <1>12, <1>13, <1>14 DEF t
<1> HIDE DEF N, sv2, v2
<1>15. /\ v2 \in Nat /\ v2 <= 2 /\ v2 <= gone2 /\ gone2 - v2 = m + t - 1
       /\ \A k \in 1 .. v2 : t - 1 + k \in 1 .. N /\ m + (t - 1 + k) = gone2 - v2 + k
       /\ \A j \in 1 .. gone2 - v2 : j >= gone2 - 1 /\ j > m =>
            j - m \in 1 .. t - 1 /\ j - m >= N - 1 /\ j - m \in 1 .. N /\ m + (j - m) = j
  <2>1. gone2 \in Nat /\ m \in Nat /\ N \in Nat /\ t \in Nat
    BY <1>7, <1>l
  <2>2. N = gone2 - m /\ t >= 1 /\ t <= N + 1 /\ t >= N - 1 /\ v2 = N + 1 - t
    BY <1>l
  <2> QED
    <3>1. v2 \in Nat /\ v2 <= 2 /\ v2 <= gone2 /\ gone2 - v2 = m + t - 1
      BY <2>1, <2>2, SavedCount
    <3>2. \A k \in 1 .. v2 : t - 1 + k \in 1 .. N /\ m + (t - 1 + k) = gone2 - v2 + k
      BY <2>1, <2>2, SavedCount
    <3>3. \A j \in 1 .. gone2 - v2 : j >= gone2 - 1 /\ j > m =>
            j - m \in 1 .. t - 1 /\ j - m >= N - 1 /\ j - m \in 1 .. N /\ m + (j - m) = j
      BY <2>1, <2>2, SavedCount
    <3> QED
      BY <3>1, <3>2, <3>3
<1>16. \A k \in 1 .. w : rest[k] = R2[gone2 + k]
  <2> TAKE k \in 1 .. w
  <2>1. g + k \in 1 .. u + c /\ gone + (g + k) = gone2 + k
    BY <1>1, <1>6, <1>7
  <2> QED
    BY <1>6, <1>9, <2>1
<1>17. \A k \in 1 .. v2 : sv2[k] = R2[gone2 - v2 + k]
  <2> TAKE k \in 1 .. v2
  <2>1. t - 1 + k \in 1 .. N /\ m + (t - 1 + k) = gone2 - v2 + k
    BY <1>15
  <2> QED
    BY <1>10, <1>14, <2>1 DEF N
<1>18. \A j \in 1 .. gone2 - v2 : j >= gone2 - 1 => R2[j].frame
  <2> SUFFICES ASSUME NEW j \in 1 .. gone2 - v2, j >= gone2 - 1 PROVE R2[j].frame
    OBVIOUS
  <2>1. CASE j <= m
    <3>1. j \in 1 .. gone - v /\ j >= gone - 1 /\ j \in 1 .. n
      BY <1>n, <1>7, <1>15, <2>1
    <3> QED
      BY <1>2, <1>3, <3>1
  <2>2. CASE j > m
    <3>1. j - m \in 1 .. t - 1 /\ j - m >= N - 1 /\ j - m \in 1 .. N /\ m + (j - m) = j
      BY <1>15, <2>2
    <3>2. p[j - m].frame
      BY <1>12, <3>1 DEF t, N
    <3> QED
      BY <1>10, <3>1, <3>2 DEF N
  <2> QED
    BY <1>7, <1>15, <2>1, <2>2
<1>19. Delivered(P \o r.found, R2, gone2)
  <2>1. /\ Len(R) <= Len(R2) /\ \A j \in 1 .. Len(R) : R2[j] = R[j]
        /\ gone \in 0 .. Len(R) /\ gone2 \in gone .. Len(R2) /\ m \in 0 .. gone
    <3>1. n <= n + c /\ gone \in 0 .. n /\ gone2 \in gone .. n + c /\ m \in 0 .. gone
      BY <1>n, <1>7
    <3>2. Len(R) = n /\ Len(R2) = n + c /\ \A j \in 1 .. n : R2[j] = R[j]
      BY <1>3 DEF n
    <3> QED
      BY <3>1, <3>2, Zenon
  <2>2. \A j \in 1 .. m : j >= gone - 1 => R[j].frame
    BY <1>2, <1>7
  <2> QED
    BY <1>1, <1>2, <1>3, <1>5, <1>7, <1>10, <1>11, <2>1, <2>2, DeliversMore, ZenonT(40)
<1>20. Assembled(rest, sv2, R2, P \o r.found)
  <2>1. Len(R2) - Len(rest) = gone2 /\ Len(rest) = w /\ Len(sv2) = v2 /\ Len(R2) = n + c
    BY <1>3, <1>7 DEF w, v2
  <2> QED
    BY <1>3, <1>8, <1>14, <1>15, <1>16, <1>17, <1>18, <1>19, <2>1 DEF Assembled
<1> QED
  BY <1>20 DEF sv2, t, p, R2


\* got is the front of ring, and rest is what stays.
Parted(S, ring, got, rest) ==
  /\ ring \in Seq(S) /\ got \in Seq(S) /\ rest \in Seq(S)
  /\ Len(got) <= Len(ring) /\ Len(ring) < B
  /\ Len(rest) = Len(ring) - Len(got)
  /\ \A k \in 1 .. Len(got) : got[k] = ring[k]
  /\ \A k \in 1 .. Len(rest) : rest[k] = ring[Len(got) + k]
  /\ got \o rest = ring

\* The parts are determined by their elements.
LEMMA PartedIs ==
  ASSUME NEW S, NEW ring \in Seq(S), NEW got \in Seq(S), NEW rest \in Seq(S),
         NEW u \in Nat, NEW g \in Nat, Len(ring) = u, Len(got) = g, Len(rest) = u - g, g <= u, u < B,
         \A k \in 1 .. g : got[k] = ring[k], \A k \in 1 .. u - g : rest[k] = ring[g + k]
  PROVE  Parted(S, ring, got, rest)
<1> DEFINE both == got \o rest
<1>1. both \in Seq(S) /\ Len(both) = Len(got) + Len(rest)
  BY Joined, Zenon
<1>2. \A k \in 1 .. Len(got) : both[k] = got[k]
  BY Joined
<1>3. \A k \in 1 .. Len(rest) : both[Len(got) + k] = rest[k]
  BY Joined
<1> HIDE DEF both
<1>4. Len(both) = u
  BY <1>1
<1>5. ASSUME NEW k \in 1 .. u PROVE both[k] = ring[k]
  <2>1. CASE k <= g
    <3>1. k \in 1 .. g
      BY <2>1
    <3> QED
      BY <1>2, <3>1
  <2>2. CASE k > g
    <3>1. k - g \in 1 .. u - g /\ g + (k - g) = k
      BY <2>2
    <3>2. both[g + (k - g)] = rest[k - g] /\ rest[k - g] = ring[g + (k - g)]
      BY <1>3, <3>1
    <3> QED
      BY <3>1, <3>2
  <2>3. k <= g \/ k > g
    OBVIOUS
  <2> QED
    BY <2>1, <2>2, <2>3
<1>6. both = ring
  BY <1>1, <1>4, <1>5, SeqEqual
<1> QED
  BY <1>6 DEF Parted, both

\* A get on a ring: the bytes it returns and those that stay are what the ring held.
LEMMA RingGives ==
  ASSUME NEW S, NEW buf \in [Slots -> S], NEW s \in Slots, NEW e \in Slots, NEW n \in Nat
  PROVE  LET ring == Content(buf, s, e)
             got  == Got(ring, n)
             t    == buf_incidx(s, Len(got))
         IN  t \in Slots /\ Len(got) <= n /\ Parted(S, ring, got, Content(buf, t, e))
<1> DEFINE u    == buf_used(s, e)
           ring == Content(buf, s, e)
           got  == Got(ring, n)
           g    == Len(got)
           t    == buf_incidx(s, g)
           rest == Content(buf, t, e)
<1>1. ring \in Seq(S)
  BY ContentType, ZenonT(40)
<1>2. Len(ring) = u
  BY ContentType, ZenonT(40)
<1>3. u \in 0 .. B - 1
  BY Used
<1>4. /\ got \in Seq(S) /\ g \in 0 .. Len(ring) /\ g <= n
      /\ \A k \in 1 .. g : got[k] = ring[k]
  BY <1>1, GotType, Zenon
<1>5. g \in 0 .. u
  BY <1>2, <1>4, Zenon
<1> HIDE DEF got, g
<1>6. t \in Slots
  BY <1>5, RingTakes, ZenonT(40)
<1>7. buf_used(t, e) = u - g
  BY <1>5, RingTakes, ZenonT(40)
<1>8. \A k \in 1 .. u - g : rest[k] = ring[g + k]
  BY <1>5, RingTakes, ZenonT(40)
<1> HIDE DEF t
<1>9. rest \in Seq(S)
  BY <1>6, ContentType, ZenonT(40)
<1>10. Len(rest) = buf_used(t, e)
  BY <1>6, ContentType, ZenonT(40)
<1>11. Len(rest) = u - g
  BY <1>7, <1>10, Zenon
<1> HIDE DEF u, ring, rest
<1>12. u \in Nat /\ g \in Nat /\ g <= u /\ u < B /\ Len(got) = g
  BY <1>3, <1>5, Size DEF g
<1>13. Parted(S, ring, got, rest)
  BY <1>1, <1>2, <1>4, <1>8, <1>9, <1>11, <1>12, PartedIs, Zenon
<1> QED
  BY <1>4, <1>6, <1>13, Zenon DEF t, g, rest, got, ring

\* A receive interrupt keeps the receiving half of the invariant.
LEMMA Receives ==
  ASSUME RxInv, tuxctl_ldisc_rcv_buf
  PROVE  RxInv'
<1>1. PICK count \in 1 .. MaxChunk : \E frames \in [1 .. count -> BOOLEAN] :
        LET c     == AtMost(count, buf_room(rx_start, rx_end))
            bytes == [k \in 1 .. c |-> [frame |-> frames[k], pos |-> Len(received) + k]]
            ring  == Content(Stored(rx_buf, rx_end, bytes), rx_start, buf_incidx(rx_end, c))
            got   == Got(ring, PACKET - Len(saved))
            p     == saved \o got
            scan  == Scan(p)
        IN  /\ rx_buf' = Stored(rx_buf, rx_end, bytes)
            /\ rx_end' = buf_incidx(rx_end, c)
            /\ rx_start' = buf_incidx(rx_start, Len(got))
            /\ received' = received \o bytes
            /\ packets' = packets \o scan.found
            /\ saved' = SubSeq(p, scan.stop, Len(p))
  BY Zenon DEF tuxctl_ldisc_rcv_buf
<1> DEFINE c     == AtMost(count, buf_room(rx_start, rx_end))
           n     == PACKET - Len(saved)
<1>2. PICK frames \in [1 .. count -> BOOLEAN] :
        LET bytes == [k \in 1 .. c |-> [frame |-> frames[k], pos |-> Len(received) + k]]
            ring  == Content(Stored(rx_buf, rx_end, bytes), rx_start, buf_incidx(rx_end, c))
            got   == Got(ring, n)
            p     == saved \o got
            scan  == Scan(p)
        IN  /\ rx_buf' = Stored(rx_buf, rx_end, bytes)
            /\ rx_end' = buf_incidx(rx_end, c)
            /\ rx_start' = buf_incidx(rx_start, Len(got))
            /\ received' = received \o bytes
            /\ packets' = packets \o scan.found
            /\ saved' = SubSeq(p, scan.stop, Len(p))
  BY <1>1, Zenon
<1> DEFINE bytes == [k \in 1 .. c |-> [frame |-> frames[k], pos |-> Len(received) + k]]
           ring  == Content(rx_buf', rx_start, rx_end')
           got   == Got(ring, n)
           r     == Scan(saved \o got)
<1>3. /\ rx_buf' = Stored(rx_buf, rx_end, bytes) /\ rx_end' = buf_incidx(rx_end, c)
      /\ received' = received \o bytes
  BY <1>2, Zenon
<1>4. /\ rx_start' = buf_incidx(rx_start, Len(got)) /\ packets' = packets \o r.found
      /\ saved' = SubSeq(saved \o got, r.stop, Len(saved \o got))
  BY <1>2, <1>3, Zenon
<1>5. /\ rx_buf \in [Slots -> Byte] /\ rx_start \in Slots /\ rx_end \in Slots
      /\ Assembled(rxRing, saved, received, packets)
  BY DEF RxInv
<1>6. /\ saved \in Seq(Byte) /\ received \in Seq(Byte) /\ Len(saved) <= 2
  BY <1>5 DEF Assembled
<1>7. Len(saved) \in Nat /\ Len(received) \in Nat
  BY <1>6, LenProperties
<1>8. n \in Nat
  BY <1>6, <1>7, TuxAssumption
<1>9. c \in Nat /\ c <= count /\ count \in Nat /\ c <= buf_room(rx_start, rx_end)
  <2>1. buf_used(rx_start, rx_end) \in 0 .. B - 1
    BY <1>5, Used
  <2>2. buf_room(rx_start, rx_end) = B - 1 - buf_used(rx_start, rx_end)
    BY <1>5, Used
  <2>3. count \in Nat
    BY TuxAssumption
  <2>4. buf_room(rx_start, rx_end) \in Nat
    BY <2>1, <2>2, Size
  <2> QED
    BY <2>3, <2>4 DEF AtMost
<1> HIDE DEF c, n
<1>10. /\ bytes \in Seq(Byte) /\ Len(bytes) = c
       /\ \A k \in 1 .. Len(bytes) : bytes[k].pos = Len(received) + k
  <2>1. ASSUME NEW k \in 1 .. c PROVE [frame |-> frames[k], pos |-> Len(received) + k] \in Byte
    <3>1. k \in 1 .. count /\ Len(received) + k \in Nat
      BY <1>7, <1>9
    <3>2. frames[k] \in BOOLEAN
      BY <3>1
    <3> QED
      BY <3>1, <3>2 DEF Byte
  <2>2. bytes \in [1 .. c -> Byte]
    BY <2>1
  <2>3. \A k \in 1 .. c : bytes[k].pos = Len(received) + k
    OBVIOUS
  <2> HIDE DEF bytes
  <2>4. bytes \in Seq(Byte) /\ Len(bytes) = c
    BY <1>9, <2>2
  <2> QED
    BY <2>3, <2>4, Zenon
<1> HIDE DEF bytes
<1>11. Len(bytes) <= buf_room(rx_start, rx_end)
  BY <1>9, <1>10, Zenon
<1>12. rx_buf' \in [Slots -> Byte]
  BY <1>3, <1>5, <1>10, <1>11, RingStores, Zenon
<1>13. rx_end' \in Slots
  BY <1>3, <1>5, <1>10, <1>11, RingStores, Zenon
<1>14. ring = rxRing \o bytes
  <2>1. Content(Stored(rx_buf, rx_end, bytes), rx_start, buf_incidx(rx_end, Len(bytes)))
          = Content(rx_buf, rx_start, rx_end) \o bytes
    <3>1. bytes \in Seq(Byte)
      BY <1>10
    <3> QED
      BY <1>5, <1>11, <3>1, RingStores
  <2> QED
    BY <1>3, <1>10, <2>1, Zenon DEF rxRing
<1>r. rxRing' = Content(rx_buf', rx_start', rx_end')
  BY DEF rxRing
<1> DEFINE s2 == rx_start'
           e2 == rx_end'
           b2 == rx_buf'
           rest == rxRing'
<1> HIDE DEF s2, e2, b2, rest
<1>15. /\ ring = Content(b2, rx_start, e2) /\ got = Got(ring, n) /\ s2 = buf_incidx(rx_start, Len(got))
       /\ rest = Content(b2, s2, e2) /\ b2 \in [Slots -> Byte] /\ e2 \in Slots
  BY <1>4, <1>12, <1>13, <1>r, Zenon DEF s2, e2, b2, rest
<1> HIDE DEF ring, got, r
<1>g. s2 \in Slots /\ Parted(Byte, ring, got, rest)
  <2>1. /\ buf_incidx(rx_start, Len(Got(Content(b2, rx_start, e2), n))) \in Slots
        /\ Parted(Byte, Content(b2, rx_start, e2), Got(Content(b2, rx_start, e2), n),
                  Content(b2, buf_incidx(rx_start, Len(Got(Content(b2, rx_start, e2), n))), e2))
    BY <1>5, <1>8, <1>15, RingGives, Zenon
  <2> QED
    BY <1>15, <2>1, Zenon
<1>16. /\ s2 \in Slots /\ ring \in Seq(Byte) /\ got \in Seq(Byte) /\ rest \in Seq(Byte)
       /\ Len(got) <= Len(ring) /\ Len(rest) = Len(ring) - Len(got)
       /\ \A k \in 1 .. Len(got) : got[k] = ring[k]
       /\ \A k \in 1 .. Len(rest) : rest[k] = ring[Len(got) + k]
  BY <1>g DEF Parted
<1>17. rxRing \in Seq(Byte)
  BY <1>5 DEF Assembled
<1>18. Len(ring) = Len(rxRing) + Len(bytes)
  BY <1>10, <1>14, <1>17, ConcatProperties, Zenon
<1>19. Assembled(rest, SubSeq(saved \o got, r.stop, Len(saved \o got)), received \o bytes, packets \o r.found)
  <2>1. /\ Len(got) <= Len(rxRing) + Len(bytes) /\ Len(rest) = Len(rxRing) + Len(bytes) - Len(got)
        /\ \A k \in 1 .. Len(got) : got[k] = (rxRing \o bytes)[k]
        /\ \A k \in 1 .. Len(rest) : rest[k] = (rxRing \o bytes)[Len(got) + k]
    <3>1. Len(got) <= Len(rxRing) + Len(bytes) /\ Len(rest) = Len(rxRing) + Len(bytes) - Len(got)
      <4>1. Len(got) <= Len(ring) /\ Len(rest) = Len(ring) - Len(got)
        BY <1>16
      <4> QED
        BY <1>18, <4>1
    <3> QED
      BY <1>14, <1>16, <3>1, Zenon
  <2>2. r = Scan(saved \o got)
    BY DEF r
  <2> QED
    BY <1>5, <1>10, <1>16, <2>1, <2>2, Assembles, ZenonT(40)
<1>20. Assembled(rxRing', saved', received', packets')
  BY <1>3, <1>4, <1>19, Zenon DEF rest, r
<1> QED
  BY <1>12, <1>13, <1>16, <1>20 DEF RxInv, s2


\* Emptying the receive ring takes its bytes from the end of the stream and nothing else.
LEMMA Forgets ==
  ASSUME NEW ring, NEW sv, NEW R, NEW P, Assembled(ring, sv, R, P),
         NEW none \in Seq(Byte), Len(none) = 0
  PROVE  Assembled(none, sv, SubSeq(R, 1, Len(R) - Len(ring)), P)
<1> DEFINE gone == Len(R) - Len(ring)
           R2 == SubSeq(R, 1, gone)
<1>1. ring \in Seq(Byte) /\ sv \in Seq(Byte) /\ R \in Seq(Byte)
  BY DEF Assembled
<1>2. Len(ring) \in Nat /\ Len(sv) \in Nat /\ Len(R) \in Nat
  BY <1>1, LenProperties
<1>3. Len(sv) <= 2 /\ Len(sv) <= gone
  BY DEF Assembled
<1>4. /\ \A i \in 1 .. Len(R) : R[i].pos = i
      /\ \A k \in 1 .. Len(sv) : sv[k] = R[gone - Len(sv) + k]
      /\ \A j \in 1 .. gone - Len(sv) : j >= gone - 1 => R[j].frame
      /\ Delivered(P, R, gone)
  BY DEF Assembled
<1>5. gone \in Nat /\ gone <= Len(R)
  BY <1>2, <1>3
<1> HIDE DEF gone
<1>6. R2 \in Seq(Byte) /\ Len(R2) = gone /\ \A i \in 1 .. gone : R2[i] = R[i] /\ i \in 1 .. Len(R)
  BY <1>1, <1>2, <1>5
<1> HIDE DEF R2
<1>7. \A k \in 1 .. Len(sv) : gone - Len(sv) + k \in 1 .. gone
  BY <1>2, <1>3, <1>5
<1>8. \A j \in 1 .. gone - Len(sv) : j \in 1 .. gone
  BY <1>2, <1>3, <1>5
<1>9. ASSUME NEW a \in 1 .. gone - 2
      PROVE  (IsPacket(R2, a) <=> IsPacket(R, a)) /\ SubSeq(R2, a, a + 2) = SubSeq(R, a, a + 2)
  <2>1. 0 + a = a /\ 0 \in Nat /\ a \in 1 .. Len(R2) - 2 /\ Len(R2) + 0 <= Len(R)
    BY <1>2, <1>5, <1>6
  <2>2. \A k \in 1 .. Len(R2) : 0 + k = k
    BY <1>5, <1>6
  <2>3. \A k \in 1 .. Len(R2) : R2[k] = R[0 + k]
    BY <1>6, <2>2
  <2>4. (IsPacket(R2, a) <=> IsPacket(R, 0 + a)) /\ SubSeq(R2, a, a + 2) = SubSeq(R, 0 + a, 0 + a + 2)
    BY <1>1, <1>6, <2>1, <2>3, SameThree, ZenonT(40)
  <2> QED
    BY <2>1, <2>4
<1>10. Delivered(P, R2, gone)
  BY <1>4, <1>9 DEF Delivered
<1>11. Len(R2) - Len(none) = gone
  BY <1>5, <1>6
<1>12. Assembled(none, sv, R2, P)
  <2>1. \A i \in 1 .. Len(R2) : R2[i].pos = i
    BY <1>4, <1>6
  <2>2. \A k \in 1 .. Len(none) : none[k] = R2[gone + k]
    OBVIOUS
  <2>3. \A k \in 1 .. Len(sv) : sv[k] = R2[gone - Len(sv) + k]
    BY <1>4, <1>6, <1>7
  <2>4. \A j \in 1 .. gone - Len(sv) : j >= gone - 1 => R2[j].frame
    BY <1>4, <1>6, <1>8
  <2> QED
    BY <1>1, <1>3, <1>6, <1>10, <1>11, <2>1, <2>2, <2>3, <2>4, Zenon DEF Assembled
<1> QED
  BY <1>12 DEF R2, gone

\* Closing and opening again keeps the receiving half of the invariant.
LEMMA ReopenReceives ==
  ASSUME RxInv, Reopen
  PROVE  RxInv'
<1>1. /\ rx_buf \in [Slots -> Byte] /\ rx_start \in Slots /\ rx_end \in Slots
      /\ Assembled(rxRing, saved, received, packets)
  BY DEF RxInv
<1>2. /\ rx_buf' = rx_buf /\ rx_start' = 0 /\ rx_end' = 0 /\ saved' = saved /\ packets' = packets
      /\ received' = SubSeq(received, 1, Len(received) - buf_used(rx_start, rx_end))
  BY DEF Reopen
<1>3. 0 \in Slots
  BY Size
<1>4. buf_used(0, 0) = 0
  BY DEF buf_used
<1> DEFINE none == Content(rx_buf, 0, 0)
<1>5. none \in Seq(Byte)
  BY <1>1, <1>3, ContentType, ZenonT(40)
<1>6. Len(none) = buf_used(0, 0)
  BY <1>1, <1>3, ContentType, ZenonT(40)
<1>7. Len(rxRing) = buf_used(rx_start, rx_end)
  BY <1>1, ContentType, ZenonT(40) DEF rxRing
<1>8. rxRing' = none
  BY <1>2 DEF rxRing
<1> HIDE DEF none
<1>9. Assembled(none, saved, SubSeq(received, 1, Len(received) - Len(rxRing)), packets)
  BY <1>1, <1>4, <1>5, <1>6, Forgets
<1>10. Assembled(rxRing', saved', received', packets')
  BY <1>2, <1>7, <1>8, <1>9, Zenon
<1> QED
  BY <1>1, <1>2, <1>3, <1>10 DEF RxInv

\* The receiving half of the invariant is inductive.
LEMMA RxStep == RxInv /\ [Next]_vars => RxInv'
<1> SUFFICES ASSUME RxInv, [Next]_vars PROVE RxInv'
  OBVIOUS
<1>1. CASE tuxctl_ldisc_rcv_buf
  BY <1>1, Receives
<1>2. CASE Reopen
  BY <1>2, ReopenReceives
<1>3. CASE UNCHANGED rxVars
  BY <1>3 DEF RxInv, rxRing, rxVars
<1>4. tuxctl_ldisc_rcv_buf \/ Reopen \/ UNCHANGED rxVars
  BY DEF Next, tuxctl_ldisc_put, TransmitInterrupt, write_wakeup, WakeupRoom, WakeupTake,
         WakeupWrite, DriverSends, vars
<1> QED
  BY <1>1, <1>2, <1>3, <1>4

-----------------------------------------------------------------------------
(***************************************************************************)
(* Transmitting.                                                           *)
(***************************************************************************)

\* Concatenation is associative.
LEMMA Regroup ==
  ASSUME NEW a \in Seq(Nat), NEW b \in Seq(Nat), NEW c \in Seq(Nat)
  PROVE  (a \o b) \o c = a \o (b \o c)
BY ConcatAssociative

\* put appends to the ring what it appends to the accepted bytes.
LEMMA Puts ==
  ASSUME TxInv, tuxctl_ldisc_put
  PROVE  TxInv'
<1>1. PICK n \in 1 .. MaxChunk :
        LET c     == AtMost(n, buf_room(tx_start, tx_end))
            bytes == [k \in 1 .. c |-> Len(accepted) + k]
        IN  /\ tx_buf' = Stored(tx_buf, tx_end, bytes)
            /\ tx_end' = buf_incidx(tx_end, c)
            /\ accepted' = accepted \o bytes
  BY DEF tuxctl_ldisc_put
<1> DEFINE c     == AtMost(n, buf_room(tx_start, tx_end))
           bytes == [k \in 1 .. c |-> Len(accepted) + k]
<1>2. /\ tx_buf' = Stored(tx_buf, tx_end, bytes) /\ tx_end' = buf_incidx(tx_end, c)
      /\ accepted' = accepted \o bytes
  BY <1>1
<1>3. /\ wakeup' = [wakeup EXCEPT !["put"].at = "room"]
      /\ tx_start' = tx_start /\ fifo' = fifo /\ owed' = owed /\ taken' = taken
  BY DEF tuxctl_ldisc_put, PutContinues
<1>4. TxTypes /\ taken \o txRing = accepted
  BY DEF TxInv, TxTypes, TransmitRingFifo
<1>5. /\ tx_buf \in [Slots -> Nat] /\ tx_start \in Slots /\ tx_end \in Slots
      /\ accepted \in Seq(Nat) /\ taken \in Seq(Nat) /\ Len(accepted) \in Nat
  BY <1>4 DEF TxTypes
<1>6. c \in Nat /\ c <= buf_room(tx_start, tx_end)
  <2>1. buf_used(tx_start, tx_end) \in 0 .. B - 1
    BY <1>5, Used
  <2>2. buf_room(tx_start, tx_end) = B - 1 - buf_used(tx_start, tx_end)
    BY <1>5, Used
  <2>3. n \in Nat
    BY TuxAssumption
  <2>4. buf_room(tx_start, tx_end) \in Nat
    BY <2>1, <2>2, Size
  <2> QED
    BY <2>3, <2>4 DEF AtMost
<1> HIDE DEF c
<1>7. bytes \in Seq(Nat) /\ Len(bytes) = c
  <2>1. bytes \in [1 .. c -> Nat]
    BY <1>5, <1>6
  <2> HIDE DEF bytes
  <2> QED
    BY <1>6, <2>1
<1> HIDE DEF bytes
<1>8. bytes \in Seq(Nat) /\ Len(bytes) <= buf_room(tx_start, tx_end)
  BY <1>6, <1>7
<1>9. tx_buf' \in [Slots -> Nat]
  BY <1>2, <1>5, <1>8, RingStores
<1>10. tx_end' \in Slots
  BY <1>2, <1>5, <1>7, <1>8, RingStores
<1>11. txRing' = txRing \o bytes
  <2>1. Content(Stored(tx_buf, tx_end, bytes), tx_start, buf_incidx(tx_end, Len(bytes)))
          = Content(tx_buf, tx_start, tx_end) \o bytes
    <3>1. tx_buf \in [Slots -> Nat] /\ tx_start \in Slots /\ tx_end \in Slots
      BY <1>5
    <3> QED
      BY <1>8, <3>1, RingStores
  <2>2. txRing' = Content(tx_buf', tx_start', tx_end')
    BY DEF txRing
  <2> QED
    BY <1>2, <1>3, <1>7, <2>1, <2>2, Zenon DEF txRing
<1>12. txRing \in Seq(Nat)
  BY <1>5, ContentType, ZenonT(40) DEF txRing
<1>13. taken \o (txRing \o bytes) = (taken \o txRing) \o bytes
  <2>1. taken \in Seq(Nat) /\ txRing \in Seq(Nat) /\ bytes \in Seq(Nat)
    BY <1>5, <1>8, <1>12
  <2> HIDE DEF txRing
  <2> QED
    BY <2>1, Regroup
<1>14. TransmitRingFifo'
  <2>1. taken' \o txRing' = accepted'
    BY <1>2, <1>3, <1>4, <1>11, <1>13, Zenon
  <2> QED
    BY <2>1 DEF TransmitRingFifo
<1>15. accepted' \in Seq(Nat)
  BY <1>2, <1>5, <1>8, ConcatProperties, Zenon
<1> QED
  BY <1>3, <1>4, <1>5, <1>9, <1>10, <1>14, <1>15 DEF TxInv, TxTypes, Contexts

\* The driver's interrupt, and the request for its room, only move write_wakeup on.
LEMMA Wakes ==
  ASSUME TxInv, TransmitInterrupt \/ \E c \in Contexts : WakeupRoom(c)
  PROVE  TxInv'
<1>1. /\ tx_buf' = tx_buf /\ tx_start' = tx_start /\ tx_end' = tx_end /\ fifo' = fifo
      /\ accepted' = accepted /\ taken' = taken
  BY DEF TransmitInterrupt, WakeupRoom
<1>2. TxTypes /\ TransmitRingFifo
  BY DEF TxInv, TxTypes
<1>3. TransmitRingFifo'
  BY <1>1, <1>2 DEF TransmitRingFifo, txRing
<1>4. owed' \in BOOLEAN
  BY <1>2 DEF TransmitInterrupt, WakeupRoom, TxTypes
<1>5. /\ wakeup' \in [Contexts -> [at : {"idle", "room", "take", "write"}, room : 0 .. ROOM, buf : Seq(Nat)]]
      /\ \A c \in Contexts : Len(wakeup'[c].buf) <= B
  <2>1. CASE TransmitInterrupt
    BY <1>2, <2>1 DEF TransmitInterrupt, TxTypes, Contexts
  <2>2. ASSUME NEW c \in Contexts, WakeupRoom(c)
        PROVE  /\ wakeup' \in [Contexts -> [at : {"idle", "room", "take", "write"}, room : 0 .. ROOM, buf : Seq(Nat)]]
               /\ \A d \in Contexts : Len(wakeup'[d].buf) <= B
    <3>1. ROOM - Len(fifo) \in 0 .. ROOM
      BY <1>2, TuxAssumption DEF TxTypes
    <3> DEFINE room == ROOM - Len(fifo)
    <3>2. wakeup' = [wakeup EXCEPT ![c].at = "take", ![c].room = room]
      BY <2>2 DEF WakeupRoom
    <3> HIDE DEF room
    <3> QED
      BY <1>2, <3>1, <3>2 DEF TxTypes, room
  <2> QED
    BY <2>1, <2>2
<1> QED
  BY <1>1, <1>2, <1>3, <1>4, <1>5 DEF TxInv, TxTypes

\* write_wakeup takes the oldest bytes of the ring, whatever room it was told of.
LEMMA Takes ==
  ASSUME TxInv, NEW c \in Contexts, WakeupTake(c)
  PROVE  TxInv'
<1> DEFINE n    == WakeupWants(wakeup[c].room)
           ring == Content(tx_buf, tx_start, tx_end)
           got  == Got(ring, n)
           t    == buf_incidx(tx_start, Len(got))
           rest == Content(tx_buf, t, tx_end)
<1>1. /\ wakeup' = [wakeup EXCEPT ![c].at = "write", ![c].buf = got]
      /\ tx_start' = t /\ taken' = taken \o got
      /\ tx_buf' = tx_buf /\ tx_end' = tx_end /\ fifo' = fifo /\ owed' = owed /\ accepted' = accepted
  BY DEF WakeupTake
<1>2. TxTypes /\ taken \o ring = accepted
  BY DEF TxInv, TxTypes, TransmitRingFifo, txRing
<1>3. /\ tx_buf \in [Slots -> Nat] /\ tx_start \in Slots /\ tx_end \in Slots /\ taken \in Seq(Nat)
      /\ wakeup[c].room \in 0 .. ROOM
  BY <1>2 DEF TxTypes
<1>4. n \in Nat
  BY <1>3, TuxAssumption DEF WakeupWants
<1> HIDE DEF n
<1>5. t \in Slots /\ Parted(Nat, ring, got, rest)
  BY <1>3, <1>4, RingGives, Zenon
<1>6. txRing' = rest
  BY <1>1 DEF txRing
<1> HIDE DEF t, got, ring, rest
<1>7. got \in Seq(Nat) /\ rest \in Seq(Nat) /\ Len(got) <= Len(ring) /\ Len(ring) < B /\ got \o rest = ring
      /\ ring \in Seq(Nat)
  BY <1>5 DEF Parted
<1>8. (taken \o got) \o rest = taken \o (got \o rest)
  <2>1. taken \in Seq(Nat) /\ got \in Seq(Nat) /\ rest \in Seq(Nat)
    BY <1>3, <1>7
  <2> QED
    BY <2>1, Regroup
<1>9. TransmitRingFifo'
  <2>1. taken' \o txRing' = accepted'
    BY <1>1, <1>2, <1>6, <1>7, <1>8, Zenon
  <2> QED
    BY <2>1 DEF TransmitRingFifo
<1>10. Len(got) <= B
  BY <1>7, Size
<1>11. /\ wakeup' \in [Contexts -> [at : {"idle", "room", "take", "write"}, room : 0 .. ROOM, buf : Seq(Nat)]]
       /\ \A d \in Contexts : Len(wakeup'[d].buf) <= B
  BY <1>1, <1>2, <1>7, <1>10 DEF TxTypes
<1>12. taken' \in Seq(Nat)
  BY <1>1, <1>3, <1>7, ConcatProperties, Zenon
<1> QED
  BY <1>1, <1>2, <1>5, <1>9, <1>11, <1>12 DEF TxInv, TxTypes


\* The driver's queue takes what it has room for, and sends from its front.
LEMMA Drives ==
  ASSUME TxInv, DriverSends \/ \E c \in Contexts : WakeupWrite(c)
  PROVE  TxInv'
<1>1. /\ tx_buf' = tx_buf /\ tx_start' = tx_start /\ tx_end' = tx_end
      /\ accepted' = accepted /\ taken' = taken
  BY DEF DriverSends, WakeupWrite
<1>2. TxTypes /\ TransmitRingFifo
  BY DEF TxInv, TxTypes
<1>3. TransmitRingFifo'
  BY <1>1, <1>2 DEF TransmitRingFifo, txRing
<1>4. owed' \in BOOLEAN
  BY <1>2 DEF DriverSends, WakeupWrite, TxTypes
<1>5. fifo \in Seq(Nat) /\ Len(fifo) \in Nat /\ Len(fifo) <= ROOM /\ ROOM \in Nat
  BY <1>2, TuxAssumption DEF TxTypes
<1>6. CASE DriverSends
  <2>1. fifo # <<>> /\ fifo' = Tail(fifo) /\ wakeup' = wakeup
    BY <1>6 DEF DriverSends
  <2>2. fifo' \in Seq(Nat) /\ Len(fifo') = Len(fifo) - 1
    BY <1>5, <2>1, HeadTailProperties
  <2>3. Len(fifo') <= ROOM
    BY <1>5, <2>2
  <2> QED
    BY <1>1, <1>2, <1>3, <1>4, <2>1, <2>2, <2>3 DEF TxInv, TxTypes
<1>7. ASSUME NEW c \in Contexts, WakeupWrite(c) PROVE TxInv'
  <2> DEFINE n   == ROOM - Len(fifo)
             b   == wakeup[c].buf
             got == Got(b, n)
  <2>1. fifo' = fifo \o got /\ wakeup' = [wakeup EXCEPT ![c] = [at |-> "idle", room |-> 0, buf |-> <<>>]]
    BY <1>7 DEF WakeupWrite
  <2>2. b \in Seq(Nat) /\ n \in Nat
    BY <1>2, <1>5 DEF TxTypes
  <2>3. got \in Seq(Nat) /\ Len(got) <= n
    <3> HIDE DEF b, n
    <3> QED
      BY <2>2, GotType
  <2> HIDE DEF got
  <2>4. fifo' \in Seq(Nat) /\ Len(fifo') = Len(fifo) + Len(got) /\ Len(got) \in Nat
    BY <1>5, <2>1, <2>3, ConcatProperties, LenProperties
  <2>5. Len(fifo') <= ROOM
    BY <1>5, <2>3, <2>4
  <2>6. /\ wakeup' \in [Contexts -> [at : {"idle", "room", "take", "write"}, room : 0 .. ROOM, buf : Seq(Nat)]]
        /\ \A d \in Contexts : Len(wakeup'[d].buf) <= B
    <3>1. 0 \in 0 .. ROOM /\ <<>> \in Seq(Nat) /\ Len(<<>>) <= B
      BY <1>5, Size
    <3> QED
      BY <1>2, <2>1, <3>1 DEF TxTypes
  <2> QED
    BY <1>1, <1>2, <1>3, <1>4, <2>4, <2>5, <2>6 DEF TxInv, TxTypes
<1> QED
  BY <1>6, <1>7

\* Emptying the transmit ring drops the bytes accepted last.
LEMMA ReopenTransmits ==
  ASSUME TxInv, Reopen
  PROVE  TxInv'
<1> DEFINE u    == buf_used(tx_start, tx_end)
           none == Content(tx_buf, 0, 0)
<1>1. /\ tx_start' = 0 /\ tx_end' = 0 /\ accepted' = SubSeq(accepted, 1, Len(accepted) - u)
      /\ tx_buf' = tx_buf /\ wakeup' = wakeup /\ fifo' = fifo /\ owed' = owed /\ taken' = taken
  BY DEF Reopen
<1>2. TxTypes /\ taken \o txRing = accepted
  BY DEF TxInv, TxTypes, TransmitRingFifo
<1>3. /\ tx_buf \in [Slots -> Nat] /\ tx_start \in Slots /\ tx_end \in Slots /\ taken \in Seq(Nat)
  BY <1>2 DEF TxTypes
<1>4. 0 \in Slots
  BY Size
<1>5. buf_used(0, 0) = 0
  BY DEF buf_used
<1>6. none \in Seq(Nat)
  BY <1>3, <1>4, ContentType, ZenonT(40)
<1>7. Len(none) = buf_used(0, 0)
  BY <1>3, <1>4, ContentType, ZenonT(40)
<1>8. txRing \in Seq(Nat)
  BY <1>3, ContentType, ZenonT(40) DEF txRing
<1>9. Len(txRing) = u
  BY <1>3, ContentType, ZenonT(40) DEF txRing
<1>10. txRing' = none
  BY <1>1 DEF txRing
<1> HIDE DEF u, none
<1>11. SubSeq(accepted, 1, Len(accepted) - u) = taken
  <2> DEFINE front == SubSeq(accepted, 1, Len(accepted) - u)
  <2>1. /\ accepted \in Seq(Nat) /\ Len(accepted) = Len(taken) + Len(txRing)
        /\ Len(taken) \in Nat /\ Len(txRing) \in Nat
        /\ \A k \in 1 .. Len(taken) : accepted[k] = taken[k]
    <3> HIDE DEF txRing
    <3>1. /\ taken \o txRing \in Seq(Nat) /\ Len(taken) \in Nat /\ Len(txRing) \in Nat
          /\ Len(taken \o txRing) = Len(taken) + Len(txRing)
          /\ \A k \in 1 .. Len(taken) : (taken \o txRing)[k] = taken[k]
      BY <1>3, <1>8, Joined
    <3> QED
      BY <1>2, <3>1, Zenon
  <2>2. Len(accepted) - u = Len(taken)
    BY <1>9, <2>1
  <2>3. front \in Seq(Nat) /\ Len(front) = Len(taken) /\ \A k \in 1 .. Len(taken) : front[k] = accepted[k]
    <3>1. front = SubSeq(accepted, 1, Len(taken))
      BY <2>2
    <3>2. Len(taken) <= Len(accepted)
      BY <2>1
    <3> HIDE DEF front
    <3> QED
      BY <2>1, <3>1, <3>2
  <2> HIDE DEF front
  <2>4. front = taken
    BY <1>3, <2>1, <2>3, SeqEqual
  <2> QED
    BY <2>4 DEF front
<1>12. taken \o none = taken
  <2>1. none = <<>>
    BY <1>5, <1>6, <1>7, EmptySeq
  <2> QED
    BY <1>3, <2>1, ConcatEmptySeq
<1>13. TransmitRingFifo'
  <2>1. taken' \o txRing' = accepted'
    BY <1>1, <1>10, <1>11, <1>12, Zenon
  <2> QED
    BY <2>1 DEF TransmitRingFifo
<1>14. accepted' \in Seq(Nat)
  BY <1>1, <1>3, <1>11
<1> QED
  BY <1>1, <1>2, <1>4, <1>13, <1>14 DEF TxInv, TxTypes

\* The transmitting half of the invariant is inductive.
LEMMA TxStep == TxInv /\ [Next]_vars => TxInv'
<1> SUFFICES ASSUME TxInv, [Next]_vars PROVE TxInv'
  OBVIOUS
<1>1. CASE tuxctl_ldisc_put
  BY <1>1, Puts
<1>2. CASE TransmitInterrupt \/ \E c \in Contexts : WakeupRoom(c)
  BY <1>2, Wakes
<1>3. CASE \E c \in Contexts : WakeupTake(c)
  BY <1>3, Takes
<1>4. CASE DriverSends \/ \E c \in Contexts : WakeupWrite(c)
  BY <1>4, Drives
<1>5. CASE Reopen
  BY <1>5, ReopenTransmits
<1>6. CASE UNCHANGED txVars
  BY <1>6 DEF TxInv, TxTypes, TransmitRingFifo, txRing, txVars
<1>7. tuxctl_ldisc_rcv_buf => UNCHANGED txVars
  BY DEF tuxctl_ldisc_rcv_buf
<1> QED
  BY <1>1, <1>2, <1>3, <1>4, <1>5, <1>6, <1>7 DEF Next, write_wakeup, vars

-----------------------------------------------------------------------------
(***************************************************************************)
(* The theorems.                                                           *)
(***************************************************************************)

\* Both halves of the invariant hold in every state.
LEMMA Invariance == Spec => [](RxInv /\ TxInv)
<1>1. Init => RxInv /\ TxInv
  BY RxInit, TxInit
<1>2. RxInv /\ TxInv /\ [Next]_vars => (RxInv /\ TxInv)'
  BY RxStep, TxStep
<1> QED
  BY <1>1, <1>2, PTL DEF Spec

\* The indices of both rings stay in range, data_callback never saves more than the two bytes its
\* static array holds, and neither write_wakeup's buffer nor the driver's queue is overrun.
THEOREM TypeCorrect == Spec => []TypeOK
<1>1. RxInv /\ TxInv => TypeOK
  <2> SUFFICES ASSUME RxInv, TxInv PROVE TypeOK
    OBVIOUS
  <2>1. {rx_start, rx_end, tx_start, tx_end} \subseteq Slots
    BY DEF RxInv, TxInv, TxTypes
  <2>2. Len(saved) <= 2
    BY DEF RxInv, Assembled
  <2>3. /\ \A c \in Contexts : /\ wakeup[c].at \in {"idle", "room", "take", "write"}
                               /\ wakeup[c].room \in 0 .. ROOM
                               /\ Len(wakeup[c].buf) <= B
        /\ Len(fifo) <= ROOM /\ owed \in BOOLEAN
    BY DEF TxInv, TxTypes
  <2> QED
    BY <2>1, <2>2, <2>3 DEF TypeOK, B
<1> QED
  BY <1>1, Invariance, PTL

\* The transmit ring is first in, first out, for any number of wake-ups in both contexts acting on
\* whatever room they were told of.
THEOREM FirstInFirstOut == Spec => []TransmitRingFifo
<1>1. TxInv => TransmitRingFifo
  BY DEF TxInv, TxTypes
<1> QED
  BY <1>1, Invariance, PTL

\* A sequence is a suffix of another that ends with its elements.
LEMMA SuffixIs ==
  ASSUME NEW S, NEW a \in Seq(S), NEW b \in Seq(S), NEW d \in Nat, Len(b) = d + Len(a),
         \A k \in 1 .. Len(a) : a[k] = b[d + k]
  PROVE  IsSuffix(a, b)
<1> DEFINE n == Len(a)
           ra == Reverse(a)
           rb == Reverse(b)
<1>1. n \in Nat /\ Len(b) = d + n /\ Len(b) \in Nat
  BY LenProperties
<1>2. \A i \in 1 .. n : (n - i) + 1 \in 1 .. n /\ (Len(b) - i) + 1 = d + ((n - i) + 1)
  BY <1>1
<1>3. ra \in Seq(S) /\ Len(ra) = n /\ \A i \in 1 .. n : ra[i] = a[(n - i) + 1]
  <2>1. ra \in [1 .. n -> S]
    BY <1>1, <1>2, ElementOfSeq DEF Reverse
  <2>2. \A i \in 1 .. n : ra[i] = a[(n - i) + 1]
    BY DEF Reverse
  <2> HIDE DEF ra, n
  <2> QED
    BY <1>1, <2>1, <2>2
<1>4. rb \in Seq(S) /\ Len(rb) = Len(b) /\ \A i \in 1 .. Len(b) : rb[i] = b[(Len(b) - i) + 1]
  <2>0. \A i \in 1 .. Len(b) : (Len(b) - i) + 1 \in 1 .. Len(b)
    BY <1>1
  <2>1. rb \in [1 .. Len(b) -> S]
    BY <1>1, <2>0, ElementOfSeq DEF Reverse
  <2>2. \A i \in 1 .. Len(b) : rb[i] = b[(Len(b) - i) + 1]
    BY DEF Reverse
  <2> HIDE DEF rb
  <2> QED
    BY <1>1, <2>1, <2>2
<1> HIDE DEF ra, rb, n
<1>5. n <= Len(b) /\ \A i \in 1 .. n : i \in 1 .. Len(b)
  BY <1>1
<1>6. \A i \in 1 .. n : ra[i] = rb[i]
  <2> TAKE i \in 1 .. n
  <2>1. ra[i] = a[(n - i) + 1] /\ rb[i] = b[(Len(b) - i) + 1]
    BY <1>3, <1>4, <1>5
  <2>2. a[(n - i) + 1] = b[d + ((n - i) + 1)]
    BY <1>2 DEF n
  <2> QED
    BY <1>2, <2>1, <2>2, Zenon
<1> DEFINE x == SubSeq(ra, 1, n)
           y == SubSeq(rb, 1, n)
<1>7. x \in Seq(S) /\ Len(x) = n /\ \A i \in 1 .. n : x[i] = ra[i]
  BY <1>1, <1>3
<1>8. y \in Seq(S) /\ Len(y) = n /\ \A i \in 1 .. n : y[i] = rb[i]
  BY <1>1, <1>4, <1>5
<1> HIDE DEF x, y
<1>9. x = y
  BY <1>6, <1>7, <1>8, SeqEqual
<1> QED
  BY <1>3, <1>4, <1>5, <1>9 DEF IsSuffix, IsPrefix, x, y, ra, rb

\* The saved bytes and the receive ring are exactly the last bytes received: data_callback loses,
\* repeats and reorders nothing between them.
THEOREM InOrder == Spec => []ReceivedInOrder
<1>1. ASSUME RxInv PROVE ReceivedInOrder
  <2> DEFINE u == Len(rxRing)
             v == Len(saved)
             n == Len(received)
             all == saved \o rxRing
  <2>1. /\ rxRing \in Seq(Byte) /\ saved \in Seq(Byte) /\ received \in Seq(Byte)
        /\ v <= n - u
        /\ \A k \in 1 .. u : rxRing[k] = received[n - u + k]
        /\ \A k \in 1 .. v : saved[k] = received[n - u - v + k]
    BY <1>1 DEF RxInv, Assembled
  <2>2. u \in Nat /\ v \in Nat /\ n \in Nat
    BY <2>1, LenProperties
  <2> HIDE DEF rxRing
  <2>3. /\ all \in Seq(Byte) /\ Len(all) = v + u
        /\ \A k \in 1 .. v : all[k] = saved[k]
        /\ \A k \in 1 .. u : all[v + k] = rxRing[k]
    BY <2>1, Joined
  <2> DEFINE d == n - u - v
  <2>4. d \in Nat /\ n = d + (v + u)
    BY <2>1, <2>2
  <2>5. n = d + Len(all)
    BY <2>3, <2>4
  <2>d. d = n - u - v
    OBVIOUS
  <2> HIDE DEF u, v, n, all, d
  <2>6. \A k \in 1 .. v + u : all[k] = received[d + k]
    <3> TAKE k \in 1 .. v + u
    <3>1. CASE k <= v
      <4>1. k \in 1 .. v
        BY <2>2, <3>1
      <4> QED
        BY <2>1, <2>3, <2>d, <4>1
    <3>2. CASE k > v
      <4>1. k - v \in 1 .. u /\ v + (k - v) = k /\ n - u + (k - v) = d + k
        BY <2>2, <2>d, <3>2
      <4>2. all[v + (k - v)] = rxRing[k - v] /\ rxRing[k - v] = received[n - u + (k - v)]
        BY <2>1, <2>3, <4>1
      <4> QED
        BY <4>1, <4>2
    <3> QED
      BY <2>2, <3>1, <3>2
  <2>7. IsSuffix(all, received)
    BY <2>1, <2>3, <2>4, <2>5, <2>6, SuffixIs DEF n
  <2> QED
    BY <2>7 DEF ReceivedInOrder, all
<1> QED
  BY <1>1, Invariance, PTL

\* However the interrupts cut the stream, whatever is dropped because the ring is full and
\* however often the discipline is reopened, data_callback has delivered every packet of the bytes
\* that have left the ring, once and in order, and nothing else.
THEOREM PacketsRight == Spec => []PacketsExact
<1>1. ASSUME RxInv PROVE PacketsExact
  <2> DEFINE gone == Len(received) - Len(rxRing)
             R2   == SubSeq(received, 1, gone)
             at(k) == packets[k][1].pos
  <2>1. Assembled(rxRing, saved, received, packets)
    BY <1>1 DEF RxInv
  <2> DEFINE none == <<>>
  <2>2. none \in Seq(Byte) /\ Len(none) = 0
    OBVIOUS
  <2> HIDE DEF none
  <2>3. Assembled(none, saved, R2, packets)
    BY <2>1, <2>2, Forgets
  <2>4. received \in Seq(Byte) /\ rxRing \in Seq(Byte) /\ saved \in Seq(Byte) /\ Len(saved) <= gone
    BY <2>1 DEF Assembled
  <2>5. gone \in Nat /\ gone <= Len(received)
    BY <2>4, LenProperties
  <2>6. R2 \in Seq(Byte) /\ Len(R2) = gone
    <3> HIDE DEF gone
    <3> QED
      BY <2>4, <2>5
  <2> HIDE DEF gone, R2
  <2>7. Delivered(packets, R2, gone)
    <3>1. Len(R2) - Len(none) = gone
      BY <2>2, <2>5, <2>6
    <3>2. Delivered(packets, R2, Len(R2) - Len(none))
      BY <2>3, Zenon DEF Assembled
    <3> QED
      BY <3>1, <3>2, Zenon
  <2>8. /\ packets \in Seq(Seq(Byte))
        /\ \A k \in 1 .. Len(packets) :
             at(k) \in 1 .. gone - 2 /\ IsPacket(R2, at(k)) /\ packets[k] = SubSeq(R2, at(k), at(k) + 2)
        /\ \A k, l \in 1 .. Len(packets) : k < l => at(k) < at(l)
        /\ \A j \in 1 .. gone - 2 : IsPacket(R2, j) => \E k \in 1 .. Len(packets) : at(k) = j
    BY <2>7 DEF Delivered
  <2>9. DOMAIN packets = 1 .. Len(packets)
    BY <2>8, LenProperties
  <2>10. PacketStarts(R2) = {j \in 1 .. gone - 2 : IsPacket(R2, j)}
    BY <2>6 DEF PacketStarts, IsPacket, Framed
  <2> HIDE DEF at
  <2>11. {at(k) : k \in DOMAIN packets} = PacketStarts(R2)
    BY <2>8, <2>9, <2>10
  <2> QED
    BY <2>8, <2>9, <2>11, Zenon DEF PacketsExact, at, R2, gone
<1> QED
  BY <1>1, Invariance, PTL
=============================================================================
