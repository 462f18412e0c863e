----------------------------- MODULE Files_proofs -----------------------------
(***************************************************************************)
(* Proofs about Files, for any file system image, any sizes of blocks and  *)
(* names, any number of processes and any lengths of reads: an open        *)
(* descriptor delivers its file without gap or repetition, and the clock   *)
(* runs at the frequency that was asked for.                               *)
(***************************************************************************)
EXTENDS Files, NatSets, FiniteSetTheorems, SequenceTheorems

-----------------------------------------------------------------------------
(***************************************************************************)
(* How many bytes a read copies.                                           *)
(***************************************************************************)

\* The number of i below length that are at most last.
Count(length, last) == IF length <= last THEN length ELSE last + 1

\* Counting an initial part of an interval.
LEMMA CountUpTo ==
  ASSUME NEW length \in Nat, NEW last \in Int, last >= -1
  PROVE  /\ Cardinality({i \in 0 .. length - 1 : i <= last}) = Count(length, last)
         /\ Count(length, last) \in Nat
<1> DEFINE k == Count(length, last)
<1>1. k \in Nat /\ {i \in 0 .. length - 1 : i <= last} = 0 .. k - 1
  BY DEF Count
<1>2. Cardinality(0 .. k - 1) = k
  <2> HIDE DEF k
  <2>1. 0 \in Int /\ k - 1 \in Int
    BY <1>1
  <2>2. Cardinality(0 .. k - 1) = IF 0 > k - 1 THEN 0 ELSE k - 1 - 0 + 1
    BY <2>1, FS_Interval
  <2> QED
    BY <1>1, <2>2
<1> QED
  BY <1>1, <1>2

\* The entry a byte of the directory belongs to.
LEMMA EntryOf ==
  ASSUME NEW x \in Nat, NEW m \in Nat \ {0}, NEW d \in Nat
  PROVE  x \div m < d <=> x < d * m
OBVIOUS

\* The total size of the directory.
DirSize == dir_count * FILENAME_LEN

\* The size of the directory is a number.
LEMMA DirSizeType == DirSize \in Nat /\ dir_count \in Nat /\ FILENAME_LEN \in Nat \ {0}
BY FilesAssumption DEF DirSize, dir_count

\* read_data copies up to the byte behind the end, and comes short only there.
LEMMA DataCopied ==
  ASSUME NEW k \in DOMAIN Inodes, NEW offset \in Nat, NEW length \in Nat,
         offset <= Inodes[k].length + 1
  PROVE  \E n \in Nat :
           /\ read_data(k, offset, length) = [i \in 1 .. n |-> Byte(k, offset + i - 1)]
           /\ offset + n <= Inodes[k].length + 1
           /\ n < length => offset + n >= Inodes[k].length
<1> DEFINE L == Inodes[k].length
           last == L - offset
           n == Count(length, last)
           S == {i \in 0 .. length - 1 : L >= offset + i}
<1>1. L \in Nat
  BY FilesAssumption
<1> HIDE DEF L
<1>2. last \in Int /\ last >= -1
  BY <1>1 DEF L
<1>3. S = {i \in 0 .. length - 1 : i <= last}
  BY <1>1
<1>4. Cardinality(S) = n /\ n \in Nat
  <2> HIDE DEF S, last
  <2> QED
    BY <1>2, <1>3, CountUpTo
<1>5. offset + n <= L + 1 /\ (n < length => offset + n >= L)
  BY <1>1, <1>2 DEF Count
<1>6. read_data(k, offset, length) = [i \in 1 .. Cardinality(S) |-> Byte(k, offset + i - 1)]
  BY DEF read_data, L
<1> HIDE DEF n, S
<1> QED
  BY <1>4, <1>5, <1>6 DEF L

\* directory_read copies up to the byte behind the last name, and comes short only there.
LEMMA NamesCopied ==
  ASSUME NEW offset \in Nat, NEW length \in Nat, offset <= DirSize + 1
  PROVE  \E n \in Nat :
           /\ directory_read(offset, length) = [i \in 1 .. n |-> Letter(offset + i - 1)]
           /\ offset + n <= DirSize + 1
           /\ n < length => offset + n >= DirSize
<1> DEFINE Tested(i) == IF i = 0 THEN offset ELSE offset + i - 1
           S == {i \in 0 .. length - 1 : Tested(i) \div FILENAME_LEN < dir_count}
           last == IF offset < DirSize THEN DirSize - offset ELSE -1
           n == Count(length, last)
<1>1. DirSize \in Nat
  BY DirSizeType
<1>2. last \in Int /\ last >= -1
  BY <1>1
<1>3. \A i \in 0 .. length - 1 : Tested(i) \div FILENAME_LEN < dir_count <=> i <= last
  <2> TAKE i \in 0 .. length - 1
  <2>1. Tested(i) \in Nat
    OBVIOUS
  <2>2. Tested(i) < DirSize <=> i <= last
    BY <1>1
  <2> HIDE DEF Tested
  <2>3. Tested(i) \div FILENAME_LEN < dir_count <=> Tested(i) < dir_count * FILENAME_LEN
    BY <2>1, DirSizeType, EntryOf
  <2> QED
    BY <2>2, <2>3 DEF DirSize
<1>4. Cardinality(S) = n /\ n \in Nat
  <2>1. S = {i \in 0 .. length - 1 : i <= last}
    BY <1>3
  <2> HIDE DEF S, last
  <2> QED
    BY <1>2, <2>1, CountUpTo
<1>5. offset + n <= DirSize + 1 /\ (n < length => offset + n >= DirSize)
  BY <1>1, <1>2 DEF Count
<1>6. directory_read(offset, length) = [i \in 1 .. Cardinality(S) |-> Letter(offset + i - 1)]
  BY DEF directory_read
<1> HIDE DEF n, S
<1> QED
  BY <1>4, <1>5, <1>6

-----------------------------------------------------------------------------
(***************************************************************************)
(* The inductive invariant.                                                *)
(***************************************************************************)

Descriptors ==
  [flags : {0, 1}, operations : {"none", "file", "dir", "rtc"},
   inode : DOMAIN Inodes \cup {0}, file_position : Nat]

\* The bytes a descriptor can deliver.
Delivery == {Stream(f, pos) : f \in Descriptors, pos \in Nat}

\* ReadsExact is not inductive: the position has to be the number of bytes delivered, it is at
\* most one byte behind the end, and a descriptor of the clock has delivered nothing.
DescriptorOK(f, g, s) ==
  f.flags = 1 =>
    /\ f.operations = "file" => f.inode \in DOMAIN Inodes
    /\ g = [i \in 1 .. Len(g) |-> Stream(f, i - 1)]
    /\ f.file_position = Len(g)
    /\ IF f.operations \in {"file", "dir"}
         THEN Len(g) <= Size(f) + 1 /\ (s => Len(g) >= Size(f))
         ELSE Len(g) = 0 /\ s = FALSE

FilesInv ==
  /\ pcb_arr \in [Proc -> [Fds -> Descriptors]]
  /\ got \in [Proc -> [Fds -> Seq(Delivery)]]
  /\ short \in [Proc -> [Fds -> BOOLEAN]]
  /\ \A p \in Proc : \A fd \in Fds : DescriptorOK(pcb_arr[p][fd], got[p][fd], short[p][fd])

\* The size of a file or of the directory is a number.
LEMMA SizeType ==
  ASSUME NEW f, f.operations = "file" => f.inode \in DOMAIN Inodes
  PROVE  Size(f) \in Nat
BY FilesAssumption, DirSizeType DEF Size, DirSize

\* An entry that open finds is one of the directory.
LEMMA FoundEntry ==
  ASSUME NEW fname, read_dentry_by_name(fname).filetype # "none"
  PROVE  /\ read_dentry_by_name(fname).filetype \in {"file", "dir", "rtc"}
         /\ read_dentry_by_name(fname).filetype = "file" =>
              read_dentry_by_name(fname).inode_num \in DOMAIN Inodes
<1> DEFINE i == SelectInSeq(direntries, LAMBDA d : d.filename = fname)
<1>1. i = 0 \/ i \in 1 .. Len(direntries)
  <2> DEFINE I == {j \in 1 .. Len(direntries) : direntries[j].filename = fname}
  <2>1. i = IF I # {} THEN Min(I) ELSE 0
    BY DEF SelectInSeq
  <2>2. ASSUME I # {} PROVE Min(I) \in I
    <3>1. I \subseteq Nat
      OBVIOUS
    <3>2. PICK m \in I : \A j \in I : m <= j
      BY <2>2, <3>1, SmallestInSet
    <3> QED
      BY <3>2 DEF Min
  <2> HIDE DEF i
  <2> QED
    BY <2>1, <2>2
<1>2. read_dentry_by_name(fname) = IF i = 0 THEN [filetype |-> "none"] ELSE direntries[i]
  BY DEF read_dentry_by_name
<1> HIDE DEF i
<1>3. i \in DOMAIN direntries
  BY <1>1, <1>2, FilesAssumption
<1> QED
  BY <1>1, <1>2, <1>3, FilesAssumption

\* What a read of a descriptor returns continues what the descriptor has delivered.
LEMMA ReadContinues ==
  ASSUME NEW f \in Descriptors, NEW g \in Seq(Delivery), NEW s \in BOOLEAN, NEW nbytes \in Nat,
         DescriptorOK(f, g, s), f.flags = 1, f.operations \in {"file", "dir"},
         NEW buf, buf = IF f.operations = "file" THEN file_read(f, nbytes)
                                                 ELSE directory_read(f.file_position, nbytes),
         NEW f2, f2 = [f EXCEPT !.file_position = @ + Len(buf)]
  PROVE  /\ f2 \in Descriptors /\ g \o buf \in Seq(Delivery)
         /\ DescriptorOK(f2, g \o buf, s \/ Len(buf) < nbytes)
<1> DEFINE o == Len(g)
           L == Size(f)
<1>1. /\ f.operations = "file" => f.inode \in DOMAIN Inodes
      /\ g = [i \in 1 .. o |-> Stream(f, i - 1)]
      /\ f.file_position = o /\ o <= L + 1 /\ (s => o >= L)
  BY DEF DescriptorOK
<1>2. o \in Nat /\ L \in Nat
  BY <1>1, SizeType, LenProperties
<1>3. PICK n \in Nat : /\ buf = [i \in 1 .. n |-> Stream(f, o + i - 1)]
                       /\ o + n <= L + 1 /\ (n < nbytes => o + n >= L)
  <2> HIDE DEF o
  <2>1. CASE f.operations = "file"
    <3>1. buf = read_data(f.inode, o, nbytes) /\ L = Inodes[f.inode].length
      BY <1>1, <2>1 DEF file_read, Size
    <3>2. \A i : Stream(f, i) = Byte(f.inode, i)
      BY <2>1 DEF Stream
    <3> HIDE DEF L
    <3>3. PICK n \in Nat : /\ read_data(f.inode, o, nbytes) = [i \in 1 .. n |-> Byte(f.inode, o + i - 1)]
                           /\ o + n <= L + 1 /\ (n < nbytes => o + n >= L)
      <4> DEFINE k == f.inode
      <4>1. k \in DOMAIN Inodes /\ o <= Inodes[k].length + 1 /\ L = Inodes[k].length
        BY <1>1, <2>1, <3>1
      <4> HIDE DEF k
      <4>2. \E n \in Nat : /\ read_data(k, o, nbytes) = [i \in 1 .. n |-> Byte(k, o + i - 1)]
                           /\ o + n <= Inodes[k].length + 1
                           /\ n < nbytes => o + n >= Inodes[k].length
        BY <1>2, <4>1, DataCopied
      <4> QED
        BY <4>1, <4>2 DEF k
    <3> QED
      BY <3>1, <3>2, <3>3
  <2>2. CASE f.operations = "dir"
    <3>1. buf = directory_read(o, nbytes) /\ L = DirSize
      BY <1>1, <2>2 DEF Size, DirSize
    <3>2. \A i : Stream(f, i) = Letter(i)
      BY <2>2 DEF Stream
    <3> HIDE DEF L
    <3>3. PICK n \in Nat : /\ directory_read(o, nbytes) = [i \in 1 .. n |-> Letter(o + i - 1)]
                           /\ o + n <= L + 1 /\ (n < nbytes => o + n >= L)
      BY <1>1, <1>2, <3>1, NamesCopied
    <3> QED
      BY <3>1, <3>2, <3>3
  <2> QED
    BY <2>1, <2>2
<1> HIDE DEF L, o
<1>4. buf \in Seq(Delivery) /\ Len(buf) = n
  <2>1. \A i \in 1 .. n : o + i - 1 \in Nat
    BY <1>2
  <2>2. \A i \in 1 .. n : Stream(f, o + i - 1) \in Delivery
    BY <2>1 DEF Delivery
  <2>3. buf \in [1 .. n -> Delivery]
    BY <1>3, <2>2
  <2> QED
    BY <2>3
<1> DEFINE h == g \o buf
<1>5. /\ h \in Seq(Delivery) /\ Len(h) = o + n
      /\ \A i \in 1 .. o + n : h[i] = IF i <= o THEN g[i] ELSE buf[i - o]
  BY <1>4, ConcatProperties DEF o
<1> HIDE DEF h
<1>6. \A i \in 1 .. o + n : h[i] = Stream(f, i - 1)
  <2> TAKE i \in 1 .. o + n
  <2>1. CASE i <= o
    <3>1. i \in 1 .. o
      BY <1>2, <2>1
    <3>2. g[i] = Stream(f, i - 1)
      BY <1>1, <3>1
    <3> QED
      BY <1>5, <2>1, <3>2
  <2>2. CASE ~ (i <= o)
    <3>1. i - o \in 1 .. n /\ o + (i - o) - 1 = i - 1
      BY <1>2, <2>2
    <3>2. buf[i - o] = Stream(f, o + (i - o) - 1)
      BY <1>3, <3>1
    <3> QED
      BY <1>5, <2>2, <3>1, <3>2
  <2> QED
    BY <2>1, <2>2
<1>7. h = [i \in 1 .. o + n |-> Stream(f, i - 1)]
  <2>1. h = [i \in 1 .. o + n |-> h[i]]
    BY <1>5
  <2> QED
    BY <1>6, <2>1
<1>8. /\ f2 \in Descriptors /\ f2.flags = 1 /\ f2.operations = f.operations /\ f2.inode = f.inode
      /\ f2.file_position = o + n
  <2> DEFINE q == o + n
  <2>1. q \in Nat
    BY <1>2
  <2>2. f2 = [f EXCEPT !.file_position = q]
    <3>1. f2 = [f EXCEPT !.file_position = f.file_position + Len(buf)]
      OBVIOUS
    <3> QED
      BY <1>1, <1>4, <3>1, Zenon
  <2> HIDE DEF q
  <2>3. f2 \in Descriptors /\ f2.flags = 1 /\ f2.operations = f.operations /\ f2.inode = f.inode
        /\ f2.file_position = q
    BY <2>1, <2>2 DEF Descriptors
  <2> QED
    BY <2>3 DEF q
<1>9. Size(f2) = L /\ \A i : Stream(f2, i) = Stream(f, i)
  BY <1>8 DEF Size, Stream, L
<1>10. o + n <= L + 1 /\ (s \/ n < nbytes => o + n >= L)
  BY <1>1, <1>2, <1>3
<1>11. DescriptorOK(f2, h, s \/ n < nbytes)
  <2>1. h = [i \in 1 .. Len(h) |-> Stream(f2, i - 1)]
    BY <1>5, <1>7, <1>9
  <2> QED
    BY <1>1, <1>5, <1>8, <1>9, <1>10, <2>1 DEF DescriptorOK
<1> QED
  BY <1>4, <1>5, <1>8, <1>11 DEF h

-----------------------------------------------------------------------------
(***************************************************************************)
(* The steps.                                                              *)
(***************************************************************************)

\* No descriptor is open at the start.
LEMMA InitFiles == Init => FilesInv
<1> SUFFICES ASSUME Init PROVE FilesInv
  OBVIOUS
<1>1. Closed \in Descriptors /\ Closed.flags = 0
  BY DEF Closed, Descriptors
<1>2. /\ pcb_arr = [p \in Proc |-> [fd \in Fds |-> Closed]]
      /\ got = [p \in Proc |-> [fd \in Fds |-> <<>>]]
      /\ short = [p \in Proc |-> [fd \in Fds |-> FALSE]]
  BY DEF Init
<1>3. <<>> \in Seq(Delivery)
  OBVIOUS
<1> QED
  BY <1>1, <1>2, <1>3 DEF FilesInv, DescriptorOK

\* A step that changes the descriptor fd of process p, to f2, g2 and s2, and no other.
LEMMA OneChanges ==
  ASSUME FilesInv, NEW p \in Proc, NEW fd \in Fds,
         NEW f2 \in Descriptors, NEW g2 \in Seq(Delivery), NEW s2 \in BOOLEAN,
         DescriptorOK(f2, g2, s2),
         pcb_arr' = [pcb_arr EXCEPT ![p][fd] = f2],
         got' = [got EXCEPT ![p][fd] = g2],
         short' = [short EXCEPT ![p][fd] = s2]
  PROVE  FilesInv'
<1>1. /\ pcb_arr' \in [Proc -> [Fds -> Descriptors]]
      /\ got' \in [Proc -> [Fds -> Seq(Delivery)]]
      /\ short' \in [Proc -> [Fds -> BOOLEAN]]
  BY DEF FilesInv
<1>2. ASSUME NEW q \in Proc, NEW e \in Fds
      PROVE  DescriptorOK(pcb_arr'[q][e], got'[q][e], short'[q][e])
  <2>1. CASE q = p /\ e = fd
    <3>1. pcb_arr'[q][e] = f2 /\ got'[q][e] = g2 /\ short'[q][e] = s2
      BY <2>1 DEF FilesInv
    <3> QED
      BY <3>1
  <2>2. CASE ~ (q = p /\ e = fd)
    <3>1. /\ pcb_arr'[q][e] = pcb_arr[q][e] /\ got'[q][e] = got[q][e]
          /\ short'[q][e] = short[q][e]
      BY <2>2 DEF FilesInv
    <3>2. DescriptorOK(pcb_arr[q][e], got[q][e], short[q][e])
      BY DEF FilesInv
    <3> QED
      BY <3>1, <3>2
  <2> QED
    BY <2>1, <2>2
<1> QED
  BY <1>1, <1>2 DEF FilesInv

\* open starts a descriptor at the first byte, whatever it was used for before.
LEMMA Opens ==
  ASSUME FilesInv, NEW p \in Proc, NEW n \in Names, open_handler(p, n)
  PROVE  FilesInv'
<1> DEFINE d  == read_dentry_by_name(n)
           fd == CHOOSE f \in Free(p) : \A g \in Free(p) : f <= g
           f2 == Opened(p, fd, d)
<1>1. /\ d.filetype # "none" /\ Free(p) # {}
      /\ pcb_arr' = [pcb_arr EXCEPT ![p][fd] = f2]
      /\ got' = [got EXCEPT ![p][fd] = <<>>]
      /\ short' = [short EXCEPT ![p][fd] = FALSE]
  BY DEF open_handler
<1>2. fd \in Fds
  <2>1. Free(p) \subseteq Fds /\ Free(p) \subseteq Nat
    BY FilesAssumption DEF Free, Fds
  <2>2. \E f \in Free(p) : \A g \in Free(p) : f <= g
    BY <1>1, <2>1, SmallestInSet
  <2>3. fd \in Free(p)
    BY <2>2
  <2> QED
    BY <2>1, <2>3
<1> HIDE DEF fd
<1>3. d.filetype \in {"file", "dir", "rtc"} /\ (d.filetype = "file" => d.inode_num \in DOMAIN Inodes)
  BY <1>1, FoundEntry
<1> HIDE DEF d
<1>4. /\ f2 \in Descriptors /\ f2.file_position = 0
      /\ f2.operations = "file" => f2.inode \in DOMAIN Inodes
  BY <1>3 DEF Opened, Descriptors
<1> HIDE DEF f2
<1> DEFINE g2 == <<>>
<1>5. /\ g2 \in Seq(Delivery) /\ Len(g2) = 0 /\ g2 = [i \in 1 .. 0 |-> Stream(f2, i - 1)]
  OBVIOUS
<1>6. got' = [got EXCEPT ![p][fd] = g2]
  BY <1>1
<1> HIDE DEF g2
<1>7. DescriptorOK(f2, g2, FALSE)
  <2>1. Size(f2) \in Nat
    BY <1>4, SizeType
  <2> QED
    BY <1>4, <1>5, <2>1 DEF DescriptorOK
<1> QED
  BY <1>1, <1>2, <1>4, <1>5, <1>6, <1>7, OneChanges

\* A read goes on where the last one of the same descriptor ended.
LEMMA Reads ==
  ASSUME FilesInv, NEW p \in Proc, NEW fd \in Fds, NEW nbytes \in Lengths,
         read_handler(p, fd, nbytes)
  PROVE  FilesInv'
<1> DEFINE f   == pcb_arr[p][fd]
           g   == got[p][fd]
           s   == short[p][fd]
           buf == IF f.operations = "file" THEN file_read(f, nbytes)
                                           ELSE directory_read(f.file_position, nbytes)
           f2  == [f EXCEPT !.file_position = @ + Len(buf)]
           s2  == s \/ Len(buf) < nbytes
<1>1. f.flags = 1 /\ f.operations \in {"file", "dir"}
  BY DEF read_handler
<1>2. /\ pcb_arr' = [pcb_arr EXCEPT ![p][fd] = f2]
      /\ got' = [got EXCEPT ![p][fd] = g \o buf]
      /\ short' = [short EXCEPT ![p][fd] = s2]
  BY DEF read_handler, FilesInv
<1>3. f \in Descriptors /\ g \in Seq(Delivery) /\ s \in BOOLEAN /\ nbytes \in Nat
  BY FilesAssumption DEF FilesInv
<1>4. DescriptorOK(f, g, s)
  BY DEF FilesInv
<1> HIDE DEF f, g, s
<1>5. f2 \in Descriptors /\ g \o buf \in Seq(Delivery) /\ DescriptorOK(f2, g \o buf, s2)
  <2> DEFINE b == buf
             h == f2
  <2>1. /\ b = IF f.operations = "file" THEN file_read(f, nbytes)
                                        ELSE directory_read(f.file_position, nbytes)
        /\ h = [f EXCEPT !.file_position = @ + Len(b)]
    OBVIOUS
  <2> HIDE DEF b, h
  <2>2. h \in Descriptors /\ g \o b \in Seq(Delivery) /\ DescriptorOK(h, g \o b, s \/ Len(b) < nbytes)
    BY <1>1, <1>3, <1>4, <2>1, ReadContinues
  <2> QED
    BY <2>2 DEF b, h
<1> DEFINE g2 == g \o buf
<1>6. s2 \in BOOLEAN /\ got' = [got EXCEPT ![p][fd] = g2]
  BY <1>2, <1>3
<1>7. g2 \in Seq(Delivery) /\ DescriptorOK(f2, g2, s2)
  BY <1>5
<1>8. pcb_arr' = [pcb_arr EXCEPT ![p][fd] = f2] /\ short' = [short EXCEPT ![p][fd] = s2]
  BY <1>2
<1>9. f2 \in Descriptors
  BY <1>5
<1> HIDE DEF f2, g2, s2
<1> QED
  BY <1>6, <1>7, <1>8, <1>9, OneChanges, ZenonT(40)

\* A closed descriptor delivers nothing.
LEMMA Closes ==
  ASSUME FilesInv, NEW p \in Proc, NEW fd \in Fds, close_handler(p, fd)
  PROVE  FilesInv'
<1> DEFINE f2 == [pcb_arr[p][fd] EXCEPT !.flags = 0]
<1>1. /\ pcb_arr' = [pcb_arr EXCEPT ![p][fd] = f2] /\ got' = got /\ short' = short
  BY DEF close_handler, FilesInv
<1>2. f2 \in Descriptors /\ f2.flags = 0
  <2> DEFINE f == pcb_arr[p][fd]
  <2>1. f \in Descriptors
    BY DEF FilesInv
  <2> HIDE DEF f
  <2>2. [f EXCEPT !.flags = 0] \in Descriptors /\ [f EXCEPT !.flags = 0].flags = 0
    BY <2>1 DEF Descriptors
  <2> QED
    BY <2>2 DEF f
<1>3. DescriptorOK(f2, got[p][fd], short[p][fd])
  BY <1>2 DEF DescriptorOK
<1>4. got[p][fd] \in Seq(Delivery) /\ short[p][fd] \in BOOLEAN
  BY DEF FilesInv
<1>5. got' = [got EXCEPT ![p][fd] = got[p][fd]] /\ short' = [short EXCEPT ![p][fd] = short[p][fd]]
  BY <1>1 DEF FilesInv
<1>6. pcb_arr' = [pcb_arr EXCEPT ![p][fd] = f2]
  BY <1>1
<1> DEFINE g2 == got[p][fd]
           s2 == short[p][fd]
<1>7. /\ f2 \in Descriptors /\ g2 \in Seq(Delivery) /\ s2 \in BOOLEAN /\ DescriptorOK(f2, g2, s2)
      /\ got' = [got EXCEPT ![p][fd] = g2] /\ short' = [short EXCEPT ![p][fd] = s2]
  BY <1>2, <1>3, <1>4, <1>5
<1> HIDE DEF f2, g2, s2
<1> QED
  BY <1>6, <1>7, OneChanges, ZenonT(40)

\* The invariant is inductive.
LEMMA StepFiles == FilesInv /\ [Next]_vars => FilesInv'
<1> SUFFICES ASSUME FilesInv, [Next]_vars PROVE FilesInv'
  OBVIOUS
<1>1. ASSUME NEW p \in Proc, NEW n \in Names, open_handler(p, n) PROVE FilesInv'
  BY <1>1, Opens
<1>2. ASSUME NEW p \in Proc, NEW fd \in Fds, NEW n \in Lengths, read_handler(p, fd, n) PROVE FilesInv'
  BY <1>2, Reads
<1>3. ASSUME NEW p \in Proc, NEW fd \in Fds, close_handler(p, fd) PROVE FilesInv'
  BY <1>3, Closes
<1>4. CASE UNCHANGED <<pcb_arr, got, short>>
  BY <1>4 DEF FilesInv
<1>5. \/ \E p \in Proc : \E n \in Names : open_handler(p, n)
      \/ \E p \in Proc : \E fd \in Fds : \/ \E n \in Lengths : read_handler(p, fd, n)
                                         \/ close_handler(p, fd)
      \/ UNCHANGED <<pcb_arr, got, short>>
  BY DEF Next, rtc_interrupt_handler, write_handler, rtc_read, SeeTick, ClearTick, vars
<1> QED
  BY <1>1, <1>2, <1>3, <1>4, <1>5

\* The reads of an open descriptor deliver its file from the first byte on, without gap or
\* repetition, and a read comes short only when all of it has been delivered.
THEOREM ReadsRight == Spec => []ReadsExact
<1>1. Init => FilesInv
  BY InitFiles
<1>2. FilesInv /\ [Next]_vars => FilesInv'
  BY StepFiles
<1>3. ASSUME FilesInv PROVE ReadsExact
  <2>1. ASSUME NEW p \in Proc, NEW fd \in Fds, pcb_arr[p][fd].flags = 1
        PROVE  LET f == pcb_arr[p][fd]
                   n == Len(got[p][fd])
               IN  /\ got[p][fd] = [i \in 1 .. n |-> Stream(f, i - 1)]
                   /\ short[p][fd] => n >= Size(f)
    <3> DEFINE f == pcb_arr[p][fd]
               g == got[p][fd]
               s == short[p][fd]
    <3>1. DescriptorOK(f, g, s) /\ f.flags = 1
      BY <1>3, <2>1 DEF FilesInv
    <3> HIDE DEF f, g, s
    <3>2. Size(f) \in Nat
      BY <3>1, SizeType DEF DescriptorOK
    <3>3. /\ g = [i \in 1 .. Len(g) |-> Stream(f, i - 1)]
          /\ s => Len(g) >= Size(f)
      BY <3>1, <3>2 DEF DescriptorOK
    <3> QED
      BY <3>3 DEF f, g, s
  <2> QED
    BY <2>1 DEF ReadsExact
<1> QED
  BY <1>1, <1>2, <1>3, PTL DEF Spec

-----------------------------------------------------------------------------
(***************************************************************************)
(* The clock.                                                              *)
(***************************************************************************)

Power(k) == 2^k

\* The frequency that the loop of set_frequency compares with in turn k.
Tried(k) == 1024 \div Power(k)

\* The frequencies that set_frequency tries, and the rates it counts for them.
LEMMA Rates ==
  \A k \in 0 .. 9 : Tried(k) = Power(10 - k) /\ Frequency(6 + k) = Power(10 - k)
<1>1. /\ Power(0) = 1 /\ Power(1) = 2 /\ Power(2) = 4 /\ Power(3) = 8 /\ Power(4) = 16
      /\ Power(5) = 32 /\ Power(6) = 64 /\ Power(7) = 128 /\ Power(8) = 256 /\ Power(9) = 512
      /\ Power(10) = 1024
  BY DEF Power
<1>2. ASSUME NEW k \in 0 .. 9 PROVE Tried(k) = Power(10 - k)
  <2>1. CASE k = 0
    <3>1. Power(k) = 1 /\ 10 - k = 10
      BY <1>1, <2>1 DEF Power
    <3>2. 1024 \div 1 = 1024
      OBVIOUS
    <3> QED
      BY <1>1, <3>1, <3>2 DEF Tried
  <2>2. CASE k = 1
    <3>1. Power(k) = 2 /\ 10 - k = 9
      BY <1>1, <2>2 DEF Power
    <3>2. 1024 \div 2 = 512
      OBVIOUS
    <3> QED
      BY <1>1, <3>1, <3>2 DEF Tried
  <2>3. CASE k = 2
    <3>1. Power(k) = 4 /\ 10 - k = 8
      BY <1>1, <2>3 DEF Power
    <3>2. 1024 \div 4 = 256
      OBVIOUS
    <3> QED
      BY <1>1, <3>1, <3>2 DEF Tried
  <2>4. CASE k = 3
    <3>1. Power(k) = 8 /\ 10 - k = 7
      BY <1>1, <2>4 DEF Power
    <3>2. 1024 \div 8 = 128
      OBVIOUS
    <3> QED
      BY <1>1, <3>1, <3>2 DEF Tried
  <2>5. CASE k = 4
    <3>1. Power(k) = 16 /\ 10 - k = 6
      BY <1>1, <2>5 DEF Power
    <3>2. 1024 \div 16 = 64
      OBVIOUS
    <3> QED
      BY <1>1, <3>1, <3>2 DEF Tried
  <2>6. CASE k = 5
    <3>1. Power(k) = 32 /\ 10 - k = 5
      BY <1>1, <2>6 DEF Power
    <3>2. 1024 \div 32 = 32
      OBVIOUS
    <3> QED
      BY <1>1, <3>1, <3>2 DEF Tried
  <2>7. CASE k = 6
    <3>1. Power(k) = 64 /\ 10 - k = 4
      BY <1>1, <2>7 DEF Power
    <3>2. 1024 \div 64 = 16
      OBVIOUS
    <3> QED
      BY <1>1, <3>1, <3>2 DEF Tried
  <2>8. CASE k = 7
    <3>1. Power(k) = 128 /\ 10 - k = 3
      BY <1>1, <2>8 DEF Power
    <3>2. 1024 \div 128 = 8
      OBVIOUS
    <3> QED
      BY <1>1, <3>1, <3>2 DEF Tried
  <2>9. CASE k = 8
    <3>1. Power(k) = 256 /\ 10 - k = 2
      BY <1>1, <2>9 DEF Power
    <3>2. 1024 \div 256 = 4
      OBVIOUS
    <3> QED
      BY <1>1, <3>1, <3>2 DEF Tried
  <2>10. CASE k = 9
    <3>1. Power(k) = 512 /\ 10 - k = 1
      BY <1>1, <2>10 DEF Power
    <3>2. 1024 \div 512 = 2
      OBVIOUS
    <3> QED
      BY <1>1, <3>1, <3>2 DEF Tried
  <2> QED
    BY <2>1, <2>2, <2>3, <2>4, <2>5, <2>6, <2>7, <2>8, <2>9, <2>10
<1>3. ASSUME NEW k \in 0 .. 9 PROVE Frequency(6 + k) = Power(10 - k)
  <2>1. 16 - (6 + k) = 10 - k
    OBVIOUS
  <2> QED
    BY <2>1 DEF Frequency, Power
<1> QED
  BY <1>2, <1>3

\* set_frequency makes the clock run at a frequency it has, and leaves it alone otherwise.
LEMMA Sets ==
  ASSUME NEW freq
  PROVE  IF freq \in {2^k : k \in 1 .. 10} THEN Frequency(set_frequency(freq)) = freq
                                           ELSE set_frequency(freq) = rate
<1> DEFINE I == {k \in 0 .. 9 : Tried(k) = freq}
           j == CHOOSE k \in I : TRUE
<1>1. set_frequency(freq) = IF I = {} THEN rate ELSE 6 + j
  BY DEF set_frequency, Tried, Power
<1>2. freq \in {2^k : k \in 1 .. 10} <=> \E k \in 1 .. 10 : freq = Power(k)
  BY DEF Power
<1>3. CASE \E k \in 1 .. 10 : freq = Power(k)
  <2>1. PICK k \in 1 .. 10 : freq = Power(k)
    BY <1>3
  <2>2. 10 - k \in 0 .. 9 /\ 10 - (10 - k) = k
    OBVIOUS
  <2>3. 10 - k \in I
    BY <2>1, <2>2, Rates
  <2>4. j \in I
    BY <2>3, Zenon
  <2>5. j \in 0 .. 9 /\ Tried(j) = freq
    BY <2>4
  <2> HIDE DEF j, I
  <2>6. set_frequency(freq) = 6 + j
    BY <1>1, <2>4
  <2>7. Frequency(6 + j) = freq
    BY <2>5, Rates
  <2> QED
    BY <1>2, <1>3, <2>6, <2>7
<1>4. CASE ~ \E k \in 1 .. 10 : freq = Power(k)
  <2>1. ASSUME NEW k \in 0 .. 9, Tried(k) = freq PROVE FALSE
    <3>1. freq = Power(10 - k) /\ 10 - k \in 1 .. 10
      BY <2>1, Rates
    <3> QED
      BY <1>4, <3>1
  <2>2. I = {}
    BY <2>1
  <2> HIDE DEF j, I
  <2> QED
    BY <1>1, <1>2, <1>4, <2>2
<1> QED
  BY <1>3, <1>4

\* The clock runs at the last frequency of its own that was asked for; a frequency that is
\* refused changes nothing.
THEOREM RateRight == Spec => []RateAsAsked
<1>1. Init => RateAsAsked
  <2>1. 2^10 = 1024 /\ 16 - 6 = 10
    OBVIOUS
  <2> QED
    BY <2>1 DEF Init, RateAsAsked, Frequency
<1>2. ASSUME RateAsAsked, [Next]_vars PROVE RateAsAsked'
  <2>1. CASE \E freq \in Freqs : rtc_write(freq)
    <3>1. PICK freq : rtc_write(freq)
      BY <2>1
    <3>2. rate' = set_frequency(freq) /\ asked' = IF freq \in {2^k : k \in 1 .. 10} THEN freq ELSE asked
      BY <3>1 DEF rtc_write
    <3> QED
      BY <1>2, <3>2, Sets DEF RateAsAsked, Frequency
  <2>2. CASE rtc_open
    <3>1. 2 \in {2^k : k \in 1 .. 10}
      <4>1. 2 = 2^1 /\ 1 \in 1 .. 10
        OBVIOUS
      <4> QED
        BY <4>1
    <3>2. rate' = set_frequency(2) /\ asked' = 2
      BY <2>2 DEF rtc_open
    <3> QED
      BY <3>1, <3>2, Sets DEF RateAsAsked, Frequency
  <2>3. CASE UNCHANGED <<rate, asked>>
    BY <1>2, <2>3 DEF RateAsAsked, Frequency
  <2>4. (\E freq \in Freqs : rtc_write(freq)) \/ rtc_open \/ UNCHANGED <<rate, asked>>
    <3> DEFINE Same == UNCHANGED <<rate, asked>>
    <3>1. ASSUME NEW p \in Proc, NEW n \in Names, open_handler(p, n) PROVE rtc_open \/ Same
      BY <3>1 DEF open_handler
    <3>2. ASSUME NEW p \in Proc, NEW fd \in Fds, NEW n \in Lengths, read_handler(p, fd, n) PROVE Same
      BY <3>2 DEF read_handler
    <3>3. ASSUME NEW p \in Proc, NEW fd \in Fds, NEW f \in Freqs, write_handler(p, fd, f) PROVE rtc_write(f)
      BY <3>3 DEF write_handler
    <3>4. ASSUME NEW p \in Proc, NEW fd \in Fds, rtc_read(p, fd) \/ close_handler(p, fd) PROVE Same
      BY <3>4 DEF rtc_read, close_handler
    <3>5. ASSUME NEW p \in Proc, SeeTick(p) \/ ClearTick(p) PROVE Same
      BY <3>5 DEF SeeTick, ClearTick
    <3>6. rtc_interrupt_handler \/ UNCHANGED vars => Same
      BY DEF rtc_interrupt_handler, vars
    <3> HIDE DEF Same
    <3>7. (\E freq \in Freqs : rtc_write(freq)) \/ rtc_open \/ Same
      BY <1>2, <3>1, <3>2, <3>3, <3>4, <3>5, <3>6, Zenon DEF Next
    <3> QED
      BY <3>7 DEF Same
  <2> QED
    BY <2>1, <2>2, <2>3, <2>4
<1> QED
  BY <1>1, <1>2, PTL DEF Spec
=============================================================================
