--------------------------- MODULE Adventure_proofs ---------------------------
(***************************************************************************)
(* Proofs about Adventure.tla and the two modules under it.  The first     *)
(* half is about operators: the lines of Photo are what Look says, the     *)
(* pixels of a window have different addresses inside the build buffer,    *)
(* the copy of ModeX moves bytes whether or not the areas overlap, and     *)
(* drawing and moving the window keep what they have to keep.  The second  *)
(* half is the inductive invariants of the game loop and of the cleanups.  *)
(***************************************************************************)
EXTENDS Adventure, NatSets, TLAPS

-----------------------------------------------------------------------------
(***************************************************************************)
(* Numbers.                                                                *)
(***************************************************************************)

\* The sizes of the window and of the buffer.
LEMMA Sizes ==
  /\ SCROLL_X_DIM \in Nat /\ SCROLL_Y_DIM \in Nat /\ SCROLL_X_WIDTH \in Nat
  /\ SCROLL_SIZE \in Nat /\ BUILD_BASE_INIT \in Nat /\ BUILD_BUF_SIZE \in Nat
  /\ SCROLL_X_DIM = 4 * SCROLL_X_WIDTH /\ SCROLL_X_WIDTH >= 1 /\ SCROLL_Y_DIM >= 1
  /\ SCROLL_SIZE = SCROLL_X_WIDTH * SCROLL_Y_DIM
  /\ BUILD_BASE_INIT + 4 * SCROLL_SIZE < BUILD_BUF_SIZE
<1>1. /\ SCROLL_X_DIM \in Nat /\ SCROLL_X_DIM >= 1 /\ SCROLL_X_DIM % 4 = 0
      /\ SCROLL_Y_DIM \in Nat /\ SCROLL_Y_DIM >= 1 /\ EXTRA \in Nat
  BY DimAssumption, BufferAssumption
<1>2. SCROLL_X_WIDTH \in Nat /\ SCROLL_X_DIM = 4 * SCROLL_X_WIDTH /\ SCROLL_X_WIDTH >= 1
  BY <1>1 DEF SCROLL_X_WIDTH
<1>3. SCROLL_SIZE \in Nat
  BY <1>1, <1>2 DEF SCROLL_SIZE
<1>4. BUILD_BUF_SIZE = SCROLL_SIZE * 4 + 1 + EXTRA
  BY <1>1, <1>3 DEF BUILD_BUF_SIZE, SCREEN_SIZE
<1>5. BUILD_BASE_INIT = EXTRA \div 2
  <2>1. BUILD_BUF_SIZE - SCREEN_SIZE = EXTRA
    BY <1>1, <1>3 DEF BUILD_BUF_SIZE, SCREEN_SIZE
  <2> QED
    BY <2>1 DEF BUILD_BASE_INIT
<1>6. BUILD_BASE_INIT \in Nat /\ BUILD_BASE_INIT <= EXTRA
  BY <1>1, <1>5
<1> QED
  BY <1>1, <1>2, <1>3, <1>4, <1>6 DEF SCROLL_SIZE

\* Products with a natural number keep the order.
LEMMA TimesKeepsOrder ==
  ASSUME NEW a \in Int, NEW b \in Int, NEW c \in Nat, a <= b
  PROVE  a * c <= b * c
OBVIOUS

\* Products distribute.
LEMMA TimesSum ==
  ASSUME NEW a \in Int, NEW b \in Int, NEW c \in Int
  PROVE  (a + b) * c = a * c + b * c /\ a * c \in Int
OBVIOUS

\* The smaller and the larger of two numbers.
LEMMA MinMaxOfTwo ==
  ASSUME NEW a \in Int, NEW b \in Int
  PROVE  /\ Min({a, b}) = (IF a <= b THEN a ELSE b)
         /\ Max({a, b}) = (IF a >= b THEN a ELSE b)
<1>1. \E x \in {a, b} : \A y \in {a, b} : x <= y
  OBVIOUS
<1>2. \E x \in {a, b} : \A y \in {a, b} : x >= y
  OBVIOUS
<1>3. /\ Min({a, b}) \in {a, b} /\ \A y \in {a, b} : Min({a, b}) <= y
  BY <1>1, Zenon DEF Min
<1>4. /\ Max({a, b}) \in {a, b} /\ \A y \in {a, b} : Max({a, b}) >= y
  BY <1>2, Zenon DEF Max
<1> QED
  BY <1>3, <1>4

-----------------------------------------------------------------------------
(***************************************************************************)
(* Addresses of the pixels in the window.                                  *)
(***************************************************************************)

\* Where column x of a window that begins at x0 lies in its plane: the column number in
\* groups of four, corrected by one for the planes in which the window begins later.
Shift(x0, x) == IF x % 4 < x0 % 4 THEN 1 ELSE 0

\* Columns of one plane lie in as many places as a plane has bytes in a line.
LEMMA ColumnPlace ==
  ASSUME NEW x0 \in Nat, NEW i \in 0 .. SCROLL_X_DIM - 1
  PROVE  /\ (x0 + i) \div 4 - x0 \div 4 - Shift(x0, x0 + i) \in 0 .. SCROLL_X_WIDTH - 1
         /\ (x0 + i) \div 4 \in Nat /\ (x0 + i) % 4 \in 0 .. 3 /\ x0 \div 4 \in Nat
         /\ x0 + i = 4 * ((x0 + i) \div 4) + ((x0 + i) % 4)
         /\ Shift(x0, x0 + i) \in 0 .. 1
<1> DEFINE w == SCROLL_X_WIDTH
           x == x0 + i
<1>1. w \in Nat /\ i \in 0 .. 4 * w - 1
  BY Sizes
<1>2. PICK q0 \in Nat, r0 \in 0 .. 3 : x0 \div 4 = q0 /\ x0 % 4 = r0 /\ x0 = 4 * q0 + r0
  OBVIOUS
<1>3. PICK q \in Nat, r \in 0 .. 3 : x \div 4 = q /\ x % 4 = r /\ x = 4 * q + r
  OBVIOUS
<1> HIDE DEF w
<1>4. q - q0 - (IF r < r0 THEN 1 ELSE 0) \in 0 .. w - 1
  BY <1>1, <1>2, <1>3
<1>5. Shift(x0, x) = IF r < r0 THEN 1 ELSE 0
  BY <1>2, <1>3 DEF Shift
<1>6. x \div 4 - x0 \div 4 - Shift(x0, x) \in 0 .. w - 1
  BY <1>2, <1>3, <1>4, <1>5, Zenon
<1>7. Shift(x0, x) \in 0 .. 1
  BY <1>5
<1> QED
  BY <1>2, <1>3, <1>6, <1>7 DEF w

\* A place in a line and the line are found from the place in the plane.
LEMMA PlaceDecomposes ==
  ASSUME NEW w \in Nat, NEW u \in 0 .. w - 1, NEW t \in 0 .. w - 1, NEW j \in Nat, NEW k \in Nat,
         u + j * w = t + k * w
  PROVE  u = t /\ j = k
<1>1. w \in Int /\ j * w \in Int /\ k * w \in Int /\ (j + 1) * w = j * w + w
      /\ (k + 1) * w = k * w + w
  OBVIOUS
<1>2. CASE j < k
  <2>1. (j + 1) * w <= k * w
    BY <1>2, TimesKeepsOrder
  <2> QED
    BY <1>1, <2>1
<1>3. CASE k < j
  <2>1. (k + 1) * w <= j * w
    BY <1>3, TimesKeepsOrder
  <2> QED
    BY <1>1, <2>1
<1>4. CASE j = k
  BY <1>1, <1>4
<1> QED
  BY <1>2, <1>3, <1>4

\* The place in the plane is less than the size of the plane.
LEMMA PlaneSize ==
  ASSUME NEW u \in 0 .. SCROLL_X_WIDTH - 1, NEW j \in 0 .. SCROLL_Y_DIM - 1
  PROVE  u + j * SCROLL_X_WIDTH \in 0 .. SCROLL_SIZE - 1
<1> USE Sizes
<1>1. (j + 1) * SCROLL_X_WIDTH <= SCROLL_Y_DIM * SCROLL_X_WIDTH
  BY TimesKeepsOrder
<1>2. j * SCROLL_X_WIDTH \in Nat /\ (j + 1) * SCROLL_X_WIDTH = j * SCROLL_X_WIDTH + SCROLL_X_WIDTH
  OBVIOUS
<1>3. SCROLL_Y_DIM * SCROLL_X_WIDTH = SCROLL_SIZE
  OBVIOUS
<1> QED
  BY <1>1, <1>2, <1>3

\* Two planes do not meet: a higher plane begins behind the end of a lower one.
LEMMA PlanesApart ==
  ASSUME NEW z \in Nat, NEW t1 \in 0 .. z - 1, NEW t2 \in 0 .. z - 1, NEW d1 \in 0 .. 1, NEW d2 \in 0 .. 1,
         NEW r1 \in 0 .. 3, NEW r2 \in 0 .. 3, r1 < r2, d1 >= d2
  PROVE  t1 + d1 + (3 - r1) * z # t2 + d2 + (3 - r2) * z
<1>1. (3 - r1) * z \in Nat /\ (3 - r2) * z \in Nat /\ (3 - r2 + 1) * z = (3 - r2) * z + z
  OBVIOUS
<1>2. (3 - r2 + 1) * z <= (3 - r1) * z
  BY TimesKeepsOrder
<1> QED
  BY <1>1, <1>2

\* The view as a record; a byte of the buffer is a pixel or belongs to a fence.
Byte == Pixel \cup {MEM_FENCE_MAGIC}
View == [x : Nat, y : Nat, off : Int, build : [Fenced -> Byte]]

\* A view whose window lies in the build buffer and whose fences stand.
Sound(v) == v \in View /\ Fits(v, v.x, v.y) /\ FencesStand(v)

\* The pixels of the window.
Window == (0 .. SCROLL_X_DIM - 1) \X (0 .. SCROLL_Y_DIM - 1)

\* The pixels of a window have different addresses: what the code gains by storing the
\* planes in reverse order.
LEMMA PixelsDiffer ==
  ASSUME NEW v \in View, NEW p \in Window, NEW s \in Window, PixelAt(v, p) = PixelAt(v, s)
  PROVE  p = s
<1> DEFINE x0 == v.x
           y0 == v.y
           i == p[1]
           j == p[2]
           k == s[1]
           m == s[2]
<1>a. /\ v.off \in Int /\ x0 \in Nat /\ y0 \in Nat
      /\ i \in 0 .. SCROLL_X_DIM - 1 /\ j \in 0 .. SCROLL_Y_DIM - 1
      /\ k \in 0 .. SCROLL_X_DIM - 1 /\ m \in 0 .. SCROLL_Y_DIM - 1
  BY DEF View, Window
<1>b. i = k /\ j = m => p = s
  BY DEF Window
<1>c. Address(v, x0 + i, y0 + j) = Address(v, x0 + k, y0 + m)
  BY DEF PixelAt
<1> HIDE DEF x0, y0, i, j, k, m
<1> DEFINE w == SCROLL_X_WIDTH
           z == SCROLL_SIZE
           q1 == (x0 + i) \div 4
           r1 == (x0 + i) % 4
           d1 == Shift(x0, x0 + i)
           u1 == q1 - x0 \div 4 - d1
           q2 == (x0 + k) \div 4
           r2 == (x0 + k) % 4
           d2 == Shift(x0, x0 + k)
           u2 == q2 - x0 \div 4 - d2
           t1 == u1 + j * w
           t2 == u2 + m * w
<1>1. u1 \in 0 .. w - 1 /\ q1 \in Nat /\ r1 \in 0 .. 3 /\ x0 \div 4 \in Nat /\ d1 \in 0 .. 1
      /\ x0 + i = 4 * q1 + r1
  BY <1>a, ColumnPlace, Zenon
<1>2. u2 \in 0 .. w - 1 /\ q2 \in Nat /\ r2 \in 0 .. 3 /\ d2 \in 0 .. 1 /\ x0 + k = 4 * q2 + r2
  BY <1>a, ColumnPlace, Zenon
<1>3. /\ r1 < r2 => d1 >= d2
      /\ r2 < r1 => d2 >= d1
      /\ r1 = r2 => d1 = d2
  <2>1. x0 % 4 \in 0 .. 3
    BY <1>a
  <2> HIDE DEF r1, r2
  <2>2. d1 = (IF r1 < x0 % 4 THEN 1 ELSE 0) /\ d2 = (IF r2 < x0 % 4 THEN 1 ELSE 0)
    BY DEF Shift, r1, r2
  <2> HIDE DEF d1, d2
  <2> QED
    BY <1>1, <1>2, <2>1, <2>2
<1>4. v.off + q1 + (y0 + j) * w + (3 - r1) * z = v.off + q2 + (y0 + m) * w + (3 - r2) * z
  BY <1>c DEF Address
<1>5. w \in Nat /\ z \in Nat
  BY Sizes
<1>6. t1 \in 0 .. z - 1 /\ t2 \in 0 .. z - 1
  <2> HIDE DEF u1, u2
  <2> QED
    BY <1>1, <1>2, <1>a, PlaneSize
<1>7. t1 + d1 + (3 - r1) * z = t2 + d2 + (3 - r2) * z
  <2>1. (y0 + j) * w = y0 * w + j * w /\ (y0 + m) * w = y0 * w + m * w
        /\ y0 * w \in Int /\ j * w \in Int /\ m * w \in Int
    BY <1>5, <1>a, TimesSum
  <2>2. (3 - r1) * z \in Int /\ (3 - r2) * z \in Int
    BY <1>1, <1>2, <1>5
  <2> HIDE DEF q1, q2, r1, r2, d1, d2, w, z
  <2> QED
    BY <1>1, <1>2, <1>4, <1>a, <2>1, <2>2
<1> HIDE DEF q1, q2, r1, r2, d1, d2, u1, u2, t1, t2, w, z
<1>8. r1 = r2
  <2>1. CASE r1 < r2
    BY <1>1, <1>2, <1>3, <1>5, <1>6, <1>7, <2>1, PlanesApart
  <2>2. CASE r2 < r1
    BY <1>1, <1>2, <1>3, <1>5, <1>6, <1>7, <2>2, PlanesApart
  <2> QED
    BY <1>1, <1>2, <2>1, <2>2
<1>9. t1 = t2
  <2>1. (3 - r1) * z \in Int /\ (3 - r1) * z = (3 - r2) * z
    BY <1>1, <1>2, <1>5, <1>8
  <2> QED
    BY <1>1, <1>2, <1>3, <1>6, <1>7, <1>8, <2>1
<1>10. u1 = u2 /\ j = m
  BY <1>1, <1>2, <1>5, <1>9, <1>a, PlaceDecomposes DEF t1, t2
<1>11. q1 = q2
  BY <1>1, <1>2, <1>3, <1>8, <1>10 DEF u1, u2
<1>12. i = k
  BY <1>1, <1>2, <1>8, <1>11, <1>a
<1> QED
  BY <1>10, <1>12, <1>b

\* What Fits says is what it is meant to say: all pixels of the window have their address
\* in the buffer.
LEMMA AddressInBuffer ==
  ASSUME NEW v, v.off \in Int, NEW x \in Nat, NEW y \in Nat, Fits(v, x, y),
         NEW i \in 0 .. SCROLL_X_DIM - 1, NEW j \in 0 .. SCROLL_Y_DIM - 1
  PROVE  /\ Address(v, x + i, y + j) \in Buffer
         /\ Address(v, x + i, y + j) \in Fenced
<1> DEFINE w == SCROLL_X_WIDTH
           z == SCROLL_SIZE
           r == (x + i) % 4
           q == (x + i) \div 4
           last == (x + SCROLL_X_DIM - 1) \div 4
<1>1. /\ v.off + x \div 4 + y * w >= 0
      /\ v.off + 3 * z + last + (y + SCROLL_Y_DIM - 1) * w < BUILD_BUF_SIZE
  BY DEF Fits
<1>2. /\ r \in 0 .. 3 /\ q \in Nat /\ x \div 4 \in Nat /\ last \in Nat
      /\ x \div 4 <= q /\ q <= last
  BY Sizes
<1>3. w \in Nat /\ z \in Nat /\ BUILD_BUF_SIZE \in Nat /\ SCROLL_Y_DIM \in Nat
  BY Sizes
<1>4. Address(v, x + i, y + j) = v.off + q + (y + j) * w + (3 - r) * z
  BY DEF Address
<1> HIDE DEF w, z, r, q, last
<1>5. y * w <= (y + j) * w /\ (y + j) * w <= (y + SCROLL_Y_DIM - 1) * w
  BY <1>3, TimesKeepsOrder
<1>6. 0 * z <= (3 - r) * z /\ (3 - r) * z <= 3 * z
  BY <1>2, <1>3, TimesKeepsOrder
<1>7. y * w \in Int /\ (y + j) * w \in Int /\ (y + SCROLL_Y_DIM - 1) * w \in Int
      /\ (3 - r) * z \in Int /\ 0 * z = 0
  BY <1>2, <1>3
<1>8. Address(v, x + i, y + j) \in 0 .. BUILD_BUF_SIZE - 1
  BY <1>1, <1>2, <1>3, <1>4, <1>5, <1>6, <1>7
<1>9. MEM_FENCE_WIDTH \in Nat
  BY BufferAssumption
<1> QED
  BY <1>3, <1>8, <1>9 DEF Buffer, Fenced

\* The address of a pixel of the window depends on the offset and the position only.
LEMMA PixelInBuffer ==
  ASSUME NEW v \in View, Fits(v, v.x, v.y), NEW p \in Window
  PROVE  PixelAt(v, p) \in Buffer /\ PixelAt(v, p) \in Fenced
<1>1. v.x \in Nat /\ v.y \in Nat /\ v.off \in Int
  BY DEF View
<1>2. p[1] \in 0 .. SCROLL_X_DIM - 1 /\ p[2] \in 0 .. SCROLL_Y_DIM - 1
  BY DEF Window
<1> QED
  BY <1>1, <1>2, AddressInBuffer, Zenon DEF PixelAt

\* A view with another buffer, whose fences stand.
LEMMA NewBuffer ==
  ASSUME NEW v \in View, Fits(v, v.x, v.y), NEW b \in [Fenced -> Byte],
         \A a \in Fenced \ Buffer : b[a] = MEM_FENCE_MAGIC,
         NEW w, w = [v EXCEPT !.build = b]
  PROVE  /\ Sound(w) /\ w.x = v.x /\ w.y = v.y /\ w.off = v.off /\ w.build = b
         /\ \A p \in Window : PixelAt(w, p) = PixelAt(v, p)
<1>1. w \in View /\ w.x = v.x /\ w.y = v.y /\ w.off = v.off /\ w.build = b
  BY DEF View
<1>2. Fits(w, w.x, w.y)
  BY <1>1 DEF Fits
<1>3. FencesStand(w)
  BY <1>1 DEF FencesStand
<1>4. \A p \in Window : PixelAt(w, p) = PixelAt(v, p)
  BY <1>1 DEF PixelAt, Address
<1> QED
  BY <1>1, <1>2, <1>3, <1>4 DEF Sound

\* Draw stores the pixels it is given, leaves the others, and writes inside the buffer.
LEMMA DrawGood ==
  ASSUME NEW v, Sound(v), NEW P \in SUBSET Window, NEW pixels \in [P -> Pixel],
         NEW w, w = Draw(v, pixels)
  PROVE  /\ Sound(w) /\ w.x = v.x /\ w.y = v.y /\ w.off = v.off
         /\ \A p \in Window : PixelAt(w, p) = PixelAt(v, p)
         /\ \A p \in P : w.build[PixelAt(w, p)] = pixels[p]
         /\ \A p \in Window \ P : w.build[PixelAt(w, p)] = v.build[PixelAt(v, p)]
<1> DEFINE Here(a) == CHOOSE p \in P : PixelAt(v, p) = a
           b == [a \in Fenced |-> IF \E p \in P : PixelAt(v, p) = a THEN pixels[Here(a)]
                                   ELSE v.build[a]]
<1>1. v \in View /\ Fits(v, v.x, v.y) /\ FencesStand(v) /\ v.build \in [Fenced -> Byte]
  BY DEF Sound, View
<1>2. w = [v EXCEPT !.build = b]
  BY DEF Draw
<1>3. \A p \in P : Here(PixelAt(v, p)) = p
  <2> SUFFICES ASSUME NEW p \in P PROVE Here(PixelAt(v, p)) = p
    OBVIOUS
  <2>1. /\ Here(PixelAt(v, p)) \in P
        /\ PixelAt(v, Here(PixelAt(v, p))) = PixelAt(v, p)
    BY Zenon
  <2> HIDE DEF Here
  <2> QED
    BY <1>1, <2>1, PixelsDiffer, Zenon
<1>4. b \in [Fenced -> Byte]
  <2> SUFFICES ASSUME NEW a \in Fenced
               PROVE  (IF \E p \in P : PixelAt(v, p) = a THEN pixels[Here(a)] ELSE v.build[a])
                        \in Byte
    OBVIOUS
  <2>1. CASE \E p \in P : PixelAt(v, p) = a
    <3>1. PICK p \in P : PixelAt(v, p) = a
      BY <2>1
    <3>2. Here(a) = p
      BY <1>3, <3>1
    <3> HIDE DEF Here
    <3> QED
      BY <2>1, <3>2 DEF Byte
  <2>2. CASE ~ \E p \in P : PixelAt(v, p) = a
    BY <1>1, <2>2
  <2> QED
    BY <2>1, <2>2
<1>5. \A p \in P : b[PixelAt(v, p)] = pixels[p]
  <2> SUFFICES ASSUME NEW p \in P PROVE b[PixelAt(v, p)] = pixels[p]
    OBVIOUS
  <2>1. PixelAt(v, p) \in Fenced /\ Here(PixelAt(v, p)) = p
    BY <1>1, <1>3, PixelInBuffer
  <2> HIDE DEF Here
  <2> QED
    BY <2>1
<1>6. \A a \in Fenced : (~ \E p \in P : PixelAt(v, p) = a) => b[a] = v.build[a]
  OBVIOUS
<1>7. \A p \in Window \ P : b[PixelAt(v, p)] = v.build[PixelAt(v, p)]
  <2> SUFFICES ASSUME NEW p \in Window \ P PROVE b[PixelAt(v, p)] = v.build[PixelAt(v, p)]
    OBVIOUS
  <2> HIDE DEF b
  <2>1. PixelAt(v, p) \in Fenced
    BY <1>1, PixelInBuffer
  <2>2. ~ \E r \in P : PixelAt(v, r) = PixelAt(v, p)
    BY <1>1, PixelsDiffer
  <2> QED
    BY <1>6, <2>1, <2>2
<1>8. \A a \in Fenced \ Buffer : b[a] = MEM_FENCE_MAGIC
  <2> SUFFICES ASSUME NEW a \in Fenced \ Buffer PROVE b[a] = MEM_FENCE_MAGIC
    OBVIOUS
  <2> HIDE DEF b
  <2>1. ~ \E p \in P : PixelAt(v, p) = a
    BY <1>1, PixelInBuffer
  <2> QED
    BY <1>1, <1>6, <2>1 DEF FencesStand
<1> HIDE DEF b
<1>9. /\ Sound(w) /\ w.x = v.x /\ w.y = v.y /\ w.off = v.off /\ w.build = b
      /\ \A p \in Window : PixelAt(w, p) = PixelAt(v, p)
  BY <1>1, <1>2, <1>4, <1>8, NewBuffer
<1> QED
  BY <1>5, <1>7, <1>9

-----------------------------------------------------------------------------
(***************************************************************************)
(* The copy in the build buffer.                                           *)
(***************************************************************************)

\* The turns h of the copy loop.
CopyTurns(h, b, from, to, ix, n) ==
  /\ Copy(b, from, to, ix) = h[n] /\ h[0] = b
  /\ \A k \in 1 .. n : h[k] = CopyByte(h[k - 1], from + ix[k], to + ix[k])

\* There are such turns.
LEMMA CopyUnfolds ==
  ASSUME NEW b \in [Fenced -> Byte], NEW from \in Int, NEW to \in Int, NEW n \in Nat,
         NEW ix \in [1 .. n -> Int], Len(ix) = n, \A k \in 1 .. n : from + ix[k] \in Fenced
  PROVE  \E h : CopyTurns(h, b, from, to, ix, n)
<1> DEFINE S == [Fenced -> Byte]
           step == [q \in S \X (1 .. n) |-> CopyByte(q[1], from + ix[q[2]], to + ix[q[2]])]
           F(h) == [k \in 0 .. n |->
                      IF k = 0 THEN b ELSE CopyByte(h[k - 1], from + ix[k], to + ix[k])]
<1>1. step \in [S \X (1 .. n) -> S]
  BY DEF CopyByte
<1>2. PICK f : Loop(f, S, b, step, n)
  <2>1. b \in S
    OBVIOUS
  <2> HIDE DEF step, S
  <2> QED
    BY <1>1, <2>1, LoopExists, Zenon
<1>3. f = F(f)
  <2>1. ASSUME NEW k \in 1 .. n PROVE f[k] = CopyByte(f[k - 1], from + ix[k], to + ix[k])
    <3>1. f[k - 1] \in S /\ f[k] = step[<<f[k - 1], k>>]
      <4> HIDE DEF S, step
      <4> QED
        BY <1>2 DEF Loop
    <3> HIDE DEF S
    <3> QED
      BY <3>1, Zenon
  <2>2. f = [k \in 0 .. n |-> f[k]] /\ f[0] = b
    BY <1>2 DEF Loop
  <2>3. \A k \in 0 .. n :
          f[k] = IF k = 0 THEN b ELSE CopyByte(f[k - 1], from + ix[k], to + ix[k])
    <3> SUFFICES ASSUME NEW k \in 0 .. n, k # 0
                 PROVE  f[k] = CopyByte(f[k - 1], from + ix[k], to + ix[k])
      BY <2>2, Zenon
    <3>1. k \in 1 .. n
      OBVIOUS
    <3> QED
      BY <2>1, <3>1, Zenon
  <2>4. F(f) = [k \in 0 .. n |-> f[k]]
    BY <2>3, Zenon
  <2> QED
    BY <2>2, <2>4, Zenon
<1> DEFINE h == CHOOSE h : h = F(h)
<1>4. Copy(b, from, to, ix) = h[n]
  BY DEF Copy
<1>5. h = F(h)
  <2> HIDE DEF F
  <2> QED
    BY <1>3
<1> HIDE DEF h
<1>6. h[0] = b /\ \A k \in 1 .. n : h[k] = CopyByte(h[k - 1], from + ix[k], to + ix[k])
  BY <1>5
<1> QED
  BY <1>4, <1>6 DEF CopyTurns

\* Buffer c is b, but for the bytes from lo to hi - 1 behind to, which are those behind from.
Moved(c, b, from, to, lo, hi) ==
  /\ c \in [Fenced -> Byte]
  /\ \A a \in Fenced : c[a] = IF a \in to + lo .. to + hi - 1 THEN b[a - to + from] ELSE b[a]

\* Another byte that has not been overwritten yet, at either end.
LEMMA MovesOne ==
  ASSUME NEW b \in [Fenced -> Byte], NEW from \in Int, NEW to \in Int,
         NEW lo \in Int, NEW hi \in Int, lo <= hi, NEW c, Moved(c, b, from, to, lo, hi),
         NEW i \in {lo - 1, hi}, from + i \in Fenced, to + i \in Fenced,
         from + i \notin to + lo .. to + hi - 1,
         NEW lo2 \in Int, NEW hi2 \in Int,
         \/ i = hi /\ lo2 = lo /\ hi2 = hi + 1
         \/ i = lo - 1 /\ lo2 = lo - 1 /\ hi2 = hi
  PROVE  Moved(CopyByte(c, from + i, to + i), b, from, to, lo2, hi2)
<1> DEFINE d == CopyByte(c, from + i, to + i)
<1>1. c \in [Fenced -> Byte] /\ c[from + i] = b[from + i] /\ i \in Int
  BY DEF Moved
<1>2. d \in [Fenced -> Byte] /\ d[to + i] = b[from + i]
      /\ \A a \in Fenced : a # to + i => d[a] = c[a]
  BY <1>1 DEF CopyByte
<1>3. Fenced \subseteq Int
  BY Sizes, BufferAssumption DEF Fenced
<1> HIDE DEF d
<1>4. ASSUME NEW a \in Fenced
      PROVE  d[a] = IF a \in to + lo2 .. to + hi2 - 1 THEN b[a - to + from] ELSE b[a]
  <2>1. a \in Int
    BY <1>3
  <2>2. CASE a = to + i
    <3>1. a \in to + lo2 .. to + hi2 - 1 /\ a - to + from = from + i
      BY <1>1, <2>1, <2>2
    <3> QED
      BY <1>2, <2>2, <3>1
  <2>3. CASE a # to + i
    <3>1. a \in to + lo .. to + hi - 1 <=> a \in to + lo2 .. to + hi2 - 1
      BY <1>1, <2>1, <2>3
    <3>2. d[a] = c[a]
      BY <1>2, <2>3
    <3>3. c[a] = IF a \in to + lo .. to + hi - 1 THEN b[a - to + from] ELSE b[a]
      BY Zenon DEF Moved
    <3> QED
      BY <3>1, <3>2, <3>3, Zenon
  <2> QED
    BY <2>2, <2>3
<1> QED
  BY <1>2, <1>4 DEF Moved, d

\* The copy of set_view_window moves all bytes, though the areas may overlap.
LEMMA CopyMoves ==
  ASSUME NEW b \in [Fenced -> Byte], NEW from \in Int, NEW to \in Int, NEW n \in Nat,
         \A i \in 0 .. n - 1 : from + i \in Fenced /\ to + i \in Fenced
  PROVE  Moved(Copy(b, from, to, Order(from, to, n)), b, from, to, 0, n)
<1> DEFINE ix == Order(from, to, n)
<1>1. /\ ix \in [1 .. n -> Int] /\ Len(ix) = n
      /\ \A k \in 1 .. n : ix[k] = IF from < to THEN n - k ELSE k - 1
  <2>1. Upto(n) = [i \in 1 .. n |-> i - 1] /\ Upto(n) \in Seq(Int) /\ Len(Upto(n)) = n
    BY DEF Upto
  <2>2. CASE from < to
    <3>1. ix = [i \in 1 .. n |-> Upto(n)[(n - i) + 1]]
      BY <2>1, <2>2 DEF Order, Reverse
    <3>2. ix = [i \in 1 .. n |-> n - i]
      BY <2>1, <3>1
    <3> QED
      BY <2>2, <3>2
  <2>3. CASE ~ (from < to)
    BY <2>1, <2>3 DEF Order
  <2> QED
    BY <2>2, <2>3
<1> HIDE DEF ix
<1>2. \A k \in 1 .. n : ix[k] \in 0 .. n - 1
  BY <1>1
<1>a. PICK h : CopyTurns(h, b, from, to, ix, n)
  <2>1. \A k \in 1 .. n : from + ix[k] \in Fenced
    BY <1>2
  <2>2. ix \in [1 .. n -> Int] /\ Len(ix) = n
    BY <1>1
  <2> QED
    BY <2>1, <2>2, CopyUnfolds, Zenon
<1>3. /\ Copy(b, from, to, ix) = h[n] /\ h[0] = b
      /\ \A k \in 1 .. n : h[k] = CopyByte(h[k - 1], from + ix[k], to + ix[k])
  BY <1>a DEF CopyTurns
<1> DEFINE lo(k) == IF from < to THEN n - k ELSE 0
           hi(k) == IF from < to THEN n ELSE k
           T == {k \in 0 .. n : Moved(h[k], b, from, to, lo(k), hi(k))}
<1>4. 0 \in T
  <2>1. lo(0) = hi(0) /\ hi(0) \in Int /\ 0 \in 0 .. n
    OBVIOUS
  <2> HIDE DEF lo, hi
  <2>2. to + lo(0) .. to + hi(0) - 1 = {}
    BY <2>1
  <2>3. Moved(h[0], b, from, to, lo(0), hi(0))
    BY <1>3, <2>2 DEF Moved
  <2> QED
    BY <2>1, <2>3
<1>5. ASSUME NEW k \in 0 .. n - 1, k \in T PROVE k + 1 \in T
  <2> DEFINE i == ix[k + 1]
             l1 == lo(k)
             h1 == hi(k)
             l2 == lo(k + 1)
             h2 == hi(k + 1)
  <2>1. k + 1 \in 1 .. n /\ k + 1 \in 0 .. n /\ k + 1 - 1 = k
    OBVIOUS
  <2>2. h[k + 1] = CopyByte(h[k], from + i, to + i)
    BY <1>3, <2>1
  <2>3. i = IF from < to THEN n - (k + 1) ELSE k
    BY <1>1, <2>1
  <2>4. from + i \in Fenced /\ to + i \in Fenced
    BY <1>2, <2>1
  <2> HIDE DEF i
  <2>5. /\ l1 \in Int /\ h1 \in Int /\ l1 <= h1 /\ i \in {l1 - 1, h1}
        /\ from + i \notin to + l1 .. to + h1 - 1 /\ l2 \in Int /\ h2 \in Int
        /\ \/ i = h1 /\ l2 = l1 /\ h2 = h1 + 1
           \/ i = l1 - 1 /\ l2 = l1 - 1 /\ h2 = h1
    BY <2>1, <2>3
  <2>6. Moved(h[k], b, from, to, l1, h1)
    BY <1>5
  <2> HIDE DEF l1, h1, l2, h2
  <2>7. Moved(h[k + 1], b, from, to, l2, h2)
    <3>1. Moved(CopyByte(h[k], from + i, to + i), b, from, to, l2, h2)
      BY <2>4, <2>5, <2>6, MovesOne
    <3> QED
      BY <2>2, <3>1
  <2> QED
    BY <2>1, <2>7 DEF l2, h2
<1>6. n \in T
  <2> HIDE DEF T
  <2>1. 0 .. n \subseteq T
    BY <1>4, <1>5, InductionUpTo
  <2> QED
    BY <2>1
<1>7. Moved(h[n], b, from, to, 0, n)
  <2>1. lo(n) = 0 /\ hi(n) = n
    OBVIOUS
  <2> HIDE DEF lo, hi
  <2> QED
    BY <1>6, <2>1
<1> QED
  BY <1>3, <1>7 DEF ix

-----------------------------------------------------------------------------
(***************************************************************************)
(* Moving the window.                                                      *)
(***************************************************************************)

\* What a window retains of an earlier one.
Retained(v, w) ==
  \A p \in Window :
    LET r == <<w.x + p[1] - v.x, w.y + p[2] - v.y>>
    IN  r \in Window => w.build[PixelAt(w, p)] = v.build[PixelAt(v, r)]

\* The address of a point, from the offset of the view.
Offset(x, y) == (x \div 4) + y * SCROLL_X_WIDTH + (3 - (x % 4)) * SCROLL_SIZE

\* The first and the last byte of the area between two corners, from the offset.
FirstByte(x, y) == (x \div 4) + y * SCROLL_X_WIDTH
LastByte(x, y) == FirstByte(x, y) + 3 * SCROLL_SIZE

\* They are numbers, and larger for larger coordinates.
LEMMA BytesInOrder ==
  ASSUME NEW a \in Nat, NEW b \in Nat, NEW c \in Nat, NEW d \in Nat, a <= c, b <= d
  PROVE  /\ FirstByte(a, b) \in Nat /\ FirstByte(c, d) \in Nat
         /\ FirstByte(a, b) <= FirstByte(c, d)
<1>1. SCROLL_X_WIDTH \in Nat /\ SCROLL_SIZE \in Nat
  BY Sizes
<1>2. b * SCROLL_X_WIDTH <= d * SCROLL_X_WIDTH
  BY <1>1, TimesKeepsOrder
<1>3. b * SCROLL_X_WIDTH \in Nat /\ d * SCROLL_X_WIDTH \in Nat
  BY <1>1
<1>4. a \div 4 \in Nat /\ c \div 4 \in Nat /\ a \div 4 <= c \div 4
  OBVIOUS
<1> QED
  BY <1>1, <1>2, <1>3, <1>4 DEF FirstByte

\* A point between two corners has its address between those of the corners.
LEMMA OffsetBetween ==
  ASSUME NEW x \in Nat, NEW y \in Nat, NEW a \in Nat, NEW b \in Nat, NEW c \in Nat, NEW d \in Nat,
         a <= x, x <= c, b <= y, y <= d
  PROVE  Offset(x, y) \in FirstByte(a, b) .. LastByte(c, d)
<1>1. SCROLL_SIZE \in Nat
  BY Sizes
<1>2. /\ FirstByte(a, b) \in Nat /\ FirstByte(x, y) \in Nat /\ FirstByte(c, d) \in Nat
      /\ FirstByte(a, b) <= FirstByte(x, y) /\ FirstByte(x, y) <= FirstByte(c, d)
      /\ LastByte(c, d) = FirstByte(c, d) + 3 * SCROLL_SIZE
  <2>1. /\ FirstByte(a, b) \in Nat /\ FirstByte(x, y) \in Nat
        /\ FirstByte(a, b) <= FirstByte(x, y)
    BY BytesInOrder, Zenon
  <2>2. FirstByte(c, d) \in Nat /\ FirstByte(x, y) <= FirstByte(c, d)
    BY BytesInOrder, Zenon
  <2> QED
    BY <2>1, <2>2 DEF LastByte
<1> DEFINE r == x % 4
           plane == (3 - r) * SCROLL_SIZE
<1>3. r \in 0 .. 3
  OBVIOUS
<1> HIDE DEF r
<1>4. plane \in Int /\ 0 * SCROLL_SIZE <= plane /\ plane <= 3 * SCROLL_SIZE /\ 0 * SCROLL_SIZE = 0
  BY <1>1, <1>3, TimesKeepsOrder
<1>5. Offset(x, y) = FirstByte(x, y) + plane
  BY DEF Offset, FirstByte, r
<1> HIDE DEF plane
<1> QED
  BY <1>1, <1>2, <1>4, <1>5

\* The address, in these terms.
LEMMA AddressOffset ==
  ASSUME NEW v, v.off \in Int, NEW x \in Nat, NEW y \in Nat
  PROVE  Address(v, x, y) = v.off + Offset(x, y) /\ Offset(x, y) \in Int
<1> DEFINE q == x \div 4
           e == y * SCROLL_X_WIDTH
           z == (3 - (x % 4)) * SCROLL_SIZE
<1>1. q \in Int /\ e \in Int
  BY Sizes
<1>2. z \in Int
  <2>1. x % 4 \in Int /\ SCROLL_SIZE \in Int
    BY Sizes
  <2> QED
    BY <2>1
<1>3. Address(v, x, y) = v.off + q + e + z /\ Offset(x, y) = q + e + z
  BY DEF Address, Offset
<1> HIDE DEF q, e, z
<1> QED
  BY <1>1, <1>2, <1>3

\* Fits, in these terms.
LEMMA FitsBytes ==
  ASSUME NEW v, v.off \in Int, NEW x \in Nat, NEW y \in Nat
  PROVE  Fits(v, x, y) <=>
           /\ v.off + FirstByte(x, y) >= 0
           /\ v.off + LastByte(x + SCROLL_X_DIM - 1, y + SCROLL_Y_DIM - 1) < BUILD_BUF_SIZE
<1> DEFINE q == x \div 4
           r == (x + SCROLL_X_DIM - 1) \div 4
           e == y * SCROLL_X_WIDTH
           f == (y + SCROLL_Y_DIM - 1) * SCROLL_X_WIDTH
<1>1. q \in Int /\ r \in Int /\ e \in Int /\ f \in Int /\ SCROLL_SIZE \in Int
  BY Sizes
<1>2. Fits(v, x, y) <=> v.off + q + e >= 0 /\ v.off + 3 * SCROLL_SIZE + r + f < BUILD_BUF_SIZE
  BY DEF Fits
<1>3. FirstByte(x, y) = q + e
      /\ LastByte(x + SCROLL_X_DIM - 1, y + SCROLL_Y_DIM - 1) = r + f + 3 * SCROLL_SIZE
  BY DEF FirstByte, LastByte
<1> HIDE DEF q, r, e, f
<1> QED
  BY <1>1, <1>2, <1>3

\* In the middle of the buffer every window fits.
LEMMA MiddleFits ==
  ASSUME NEW v, NEW x \in Nat, NEW y \in Nat,
         v.off = BUILD_BASE_INIT - (x \div 4) - y * SCROLL_X_WIDTH
  PROVE  v.off \in Int /\ Fits(v, x, y)
<1> DEFINE w == SCROLL_X_WIDTH
           z == SCROLL_SIZE
           q == x \div 4
           r == (x + SCROLL_X_DIM - 1) \div 4
           n == SCROLL_Y_DIM
           base == BUILD_BASE_INIT
<1>1. /\ w \in Nat /\ z \in Nat /\ n \in Nat /\ n >= 1 /\ z = w * n /\ base \in Nat
      /\ BUILD_BUF_SIZE \in Nat /\ base + 4 * z < BUILD_BUF_SIZE
  BY Sizes
<1>2. q \in Nat /\ r \in Nat /\ r <= q + w
  BY Sizes
<1>3. (y + n - 1) * w = y * w + (n - 1) * w /\ y * w \in Nat /\ (n - 1) * w \in Int
  BY <1>1
<1>4. (n - 1) * w = z - w
  BY <1>1
<1>5. v.off = base - q - y * w
  OBVIOUS
<1> HIDE DEF w, z, q, r, n, base
<1>6. v.off \in Int /\ v.off + q + y * w >= 0
      /\ v.off + 3 * z + r + (y + n - 1) * w < BUILD_BUF_SIZE
  BY <1>1, <1>2, <1>3, <1>4, <1>5
<1> QED
  BY <1>6 DEF Fits, w, z, q, r, n, base

\* The area that set_view_window copies lies in the buffer, seen from a window of which it
\* is a part.
LEMMA AreaInBuffer ==
  ASSUME NEW v, v.off \in Int, NEW x \in Nat, NEW y \in Nat, Fits(v, x, y),
         NEW a \in Nat, NEW b \in Nat, NEW c \in Nat, NEW d \in Nat,
         x <= a, y <= b, c <= x, d <= y,
         NEW i \in 0 .. LastByte(c + SCROLL_X_DIM - 1, d + SCROLL_Y_DIM - 1) - FirstByte(a, b)
  PROVE  /\ v.off + FirstByte(a, b) + i \in Buffer
         /\ v.off + FirstByte(a, b) + i \in Fenced
<1> DEFINE end == LastByte(c + SCROLL_X_DIM - 1, d + SCROLL_Y_DIM - 1)
           far == LastByte(x + SCROLL_X_DIM - 1, y + SCROLL_Y_DIM - 1)
<1>0. SCROLL_X_DIM \in Nat /\ SCROLL_Y_DIM \in Nat /\ SCROLL_X_DIM >= 1 /\ SCROLL_Y_DIM >= 1
      /\ SCROLL_SIZE \in Nat /\ BUILD_BUF_SIZE \in Nat /\ MEM_FENCE_WIDTH \in Nat
  BY Sizes, BufferAssumption
<1>1. v.off + FirstByte(x, y) >= 0 /\ v.off + far < BUILD_BUF_SIZE
  BY FitsBytes
<1>2. FirstByte(x, y) \in Nat /\ FirstByte(a, b) \in Nat /\ FirstByte(x, y) <= FirstByte(a, b)
  BY BytesInOrder
<1>3. end \in Nat /\ far \in Nat /\ end <= far
  <2>1. c + SCROLL_X_DIM - 1 \in Nat /\ x + SCROLL_X_DIM - 1 \in Nat
        /\ d + SCROLL_Y_DIM - 1 \in Nat /\ y + SCROLL_Y_DIM - 1 \in Nat
        /\ c + SCROLL_X_DIM - 1 <= x + SCROLL_X_DIM - 1
        /\ d + SCROLL_Y_DIM - 1 <= y + SCROLL_Y_DIM - 1
    BY <1>0
  <2> DEFINE f == FirstByte(c + SCROLL_X_DIM - 1, d + SCROLL_Y_DIM - 1)
             g == FirstByte(x + SCROLL_X_DIM - 1, y + SCROLL_Y_DIM - 1)
  <2>2. f \in Nat /\ g \in Nat /\ f <= g
    BY <2>1, BytesInOrder, Zenon
  <2>3. end = f + 3 * SCROLL_SIZE /\ far = g + 3 * SCROLL_SIZE
    BY DEF LastByte
  <2> HIDE DEF f, g, end, far
  <2> QED
    BY <1>0, <2>2, <2>3
<1>4. i \in 0 .. end - FirstByte(a, b)
  OBVIOUS
<1> HIDE DEF end, far
<1>5. v.off + FirstByte(a, b) + i \in 0 .. BUILD_BUF_SIZE - 1
  BY <1>0, <1>1, <1>2, <1>3, <1>4
<1> QED
  BY <1>0, <1>5 DEF Buffer, Fenced

\* set_view_window moves the window anywhere: it lies in the buffer again, nothing is
\* written outside of it, and the part of the picture that stays visible is there.
LEMMA WindowMoves ==
  ASSUME NEW v, Sound(v), NEW x \in Nat, NEW y \in Nat, NEW w, w = set_view_window(v, x, y)
  PROVE  Sound(w) /\ w.x = x /\ w.y = y /\ Retained(v, w)
<1>0. /\ v \in View /\ Fits(v, v.x, v.y) /\ FencesStand(v)
      /\ v.x \in Nat /\ v.y \in Nat /\ v.off \in Int /\ v.build \in [Fenced -> Byte]
  BY DEF Sound, View
<1>d. SCROLL_X_DIM \in Nat /\ SCROLL_Y_DIM \in Nat /\ SCROLL_X_DIM >= 1 /\ SCROLL_Y_DIM >= 1
  BY Sizes
<1> DEFINE off == BUILD_BASE_INIT - (x \div 4) - y * SCROLL_X_WIDTH
           moved == [v EXCEPT !.x = x, !.y = y]
<1>1. CASE Fits(v, x, y)
  <2>1. w = moved
    BY <1>1 DEF set_view_window
  <2>2. /\ w \in View /\ w.x = x /\ w.y = y /\ w.off = v.off /\ w.build = v.build
    BY <1>0, <2>1 DEF View
  <2>3. Sound(w)
    BY <1>0, <1>1, <2>2 DEF Sound, Fits, FencesStand
  <2>4. Retained(v, w)
    <3> SUFFICES ASSUME NEW p \in Window
                 PROVE  PixelAt(w, p) = PixelAt(v, <<w.x + p[1] - v.x, w.y + p[2] - v.y>>)
      BY <2>2, Zenon DEF Retained
    <3>1. p[1] \in Int /\ p[2] \in Int
      BY <1>d DEF Window
    <3>2. v.x + (w.x + p[1] - v.x) = w.x + p[1] /\ v.y + (w.y + p[2] - v.y) = w.y + p[2]
      BY <1>0, <2>2, <3>1
    <3> QED
      BY <2>2, <3>2 DEF PixelAt, Address
  <2> QED
    BY <2>2, <2>3, <2>4
<1>2. CASE ~ Fits(v, x, y) /\ Disjoint(v, x, y)
  <2>1. w = [moved EXCEPT !.off = off]
    BY <1>2 DEF set_view_window
  <2>2. off \in Int
    BY Sizes
  <2>3. /\ w \in View /\ w.x = x /\ w.y = y /\ w.off = off /\ w.build = v.build
    <3> HIDE DEF off
    <3> QED
      BY <1>0, <2>1, <2>2 DEF View
  <2>4. Fits(w, x, y)
    BY <2>3, MiddleFits
  <2>5. Sound(w)
    BY <1>0, <2>3, <2>4 DEF Sound, FencesStand
  <2>6. Retained(v, w)
    <3> SUFFICES ASSUME NEW p \in Window
                 PROVE  <<w.x + p[1] - v.x, w.y + p[2] - v.y>> \notin Window
      BY Zenon DEF Retained
    <3>1. p[1] \in 0 .. SCROLL_X_DIM - 1 /\ p[2] \in 0 .. SCROLL_Y_DIM - 1
      BY DEF Window
    <3>2. \/ w.x + p[1] - v.x \notin 0 .. SCROLL_X_DIM - 1
          \/ w.y + p[2] - v.y \notin 0 .. SCROLL_Y_DIM - 1
      BY <1>0, <1>2, <1>d, <2>3, <3>1 DEF Disjoint
    <3> QED
      BY <3>2 DEF Window
  <2> QED
    BY <2>3, <2>5, <2>6
<1>3. CASE ~ Fits(v, x, y) /\ ~ Disjoint(v, x, y)
  <2> DEFINE mx == Max({x, v.x})
             my == Max({y, v.y})
             nx == Min({x, v.x})
             ny == Min({y, v.y})
             start == FirstByte(mx, my)
             end == LastByte(nx + SCROLL_X_DIM - 1, ny + SCROLL_Y_DIM - 1)
             length == end - start + 1
             from == v.off + start
             to == off + start
             c == Copy(v.build, from, to, Order(from, to, length))
  <2>1. /\ mx \in Nat /\ my \in Nat /\ nx \in Nat /\ ny \in Nat
        /\ x <= mx /\ v.x <= mx /\ y <= my /\ v.y <= my
        /\ nx <= x /\ nx <= v.x /\ ny <= y /\ ny <= v.y
        /\ mx \in {x, v.x} /\ my \in {y, v.y} /\ nx \in {x, v.x} /\ ny \in {y, v.y}
    <3>0. x \in Int /\ y \in Int /\ v.x \in Int /\ v.y \in Int
      BY <1>0
    <3>1. mx = (IF x >= v.x THEN x ELSE v.x) /\ nx = (IF x <= v.x THEN x ELSE v.x)
      BY <3>0, MinMaxOfTwo, Zenon
    <3>2. my = (IF y >= v.y THEN y ELSE v.y) /\ ny = (IF y <= v.y THEN y ELSE v.y)
      BY <3>0, MinMaxOfTwo, Zenon
    <3> HIDE DEF mx, my, nx, ny
    <3> QED
      BY <1>0, <3>1, <3>2
  <2> HIDE DEF mx, my, nx, ny
  <2>2. mx <= nx + SCROLL_X_DIM - 1 /\ my <= ny + SCROLL_Y_DIM - 1
        /\ nx + SCROLL_X_DIM - 1 \in Nat /\ ny + SCROLL_Y_DIM - 1 \in Nat
    BY <1>0, <1>3, <1>d, <2>1 DEF Disjoint
  <2>3. start \in Nat /\ end \in Nat /\ length \in Nat
    <3>1. start \in Nat /\ FirstByte(nx + SCROLL_X_DIM - 1, ny + SCROLL_Y_DIM - 1) \in Nat
          /\ start <= FirstByte(nx + SCROLL_X_DIM - 1, ny + SCROLL_Y_DIM - 1)
      BY <2>1, <2>2, BytesInOrder, Zenon
    <3>2. SCROLL_SIZE \in Nat
      BY Sizes
    <3> HIDE DEF start
    <3> QED
      BY <3>1, <3>2 DEF LastByte
  <2>4. off \in Int
    BY Sizes
  <2>5. w = [moved EXCEPT !.off = off, !.build = c]
    <3> DEFINE len == ((nx + SCROLL_X_DIM - 1) \div 4) + (ny + SCROLL_Y_DIM - 1) * SCROLL_X_WIDTH
                        + 1 - start + 3 * SCROLL_SIZE
    <3>1. w = [moved EXCEPT !.off = off,
                 !.build = Copy(v.build, from, to, Order(from, to, len))]
      BY <1>3, Zenon DEF set_view_window, FirstByte, mx, my, nx, ny
    <3>2. len = length
      <4> DEFINE f == (nx + SCROLL_X_DIM - 1) \div 4
                 g == (ny + SCROLL_Y_DIM - 1) * SCROLL_X_WIDTH
      <4>1. f \in Int /\ g \in Int /\ SCROLL_SIZE \in Int
        BY <2>2, Sizes
      <4>2. end = f + g + 3 * SCROLL_SIZE
        BY DEF LastByte, FirstByte
      <4> HIDE DEF f, g, end, start
      <4>3. f + g + 1 - start + 3 * SCROLL_SIZE = end - start + 1
        BY <2>3, <4>1, <4>2
      <4> QED
        BY <4>3 DEF f, g
    <3> HIDE DEF len, length
    <3> QED
      BY <3>1, <3>2
  <2> DEFINE m == [moved EXCEPT !.off = off]
  <2>6. m \in View /\ m.x = x /\ m.y = y /\ m.off = off /\ m.build = v.build
    <3> HIDE DEF off
    <3> QED
      BY <1>0, <2>4 DEF View
  <2>7. Fits(m, x, y)
    BY <2>6, MiddleFits
  <2>8. \A i \in 0 .. length - 1 : from + i \in Buffer /\ from + i \in Fenced
    <3> SUFFICES ASSUME NEW i \in 0 .. end - start
                 PROVE  from + i \in Buffer /\ from + i \in Fenced
      <4> HIDE DEF end, start, from
      <4> QED
        BY <2>3
    <3> QED
      BY <1>0, <2>1, AreaInBuffer, Zenon
  <2>9. \A i \in 0 .. length - 1 : to + i \in Buffer /\ to + i \in Fenced
    <3> SUFFICES ASSUME NEW i \in 0 .. end - start
                 PROVE  to + i \in Buffer /\ to + i \in Fenced
      <4> HIDE DEF end, start, to
      <4> QED
        BY <2>3
    <3>1. m.off + FirstByte(mx, my) + i \in Buffer /\ m.off + FirstByte(mx, my) + i \in Fenced
      <4>1. m.off \in Int
        BY <2>4, <2>6
      <4> HIDE DEF m
      <4> QED
        BY <2>1, <2>7, <4>1, AreaInBuffer, Zenon
    <3> QED
      BY <2>6, <3>1
  <2>10. Moved(c, v.build, from, to, 0, length)
    <3>1. from \in Int /\ to \in Int
      <4> HIDE DEF start, off
      <4> QED
        BY <1>0, <2>3, <2>4
    <3> HIDE DEF from, to, length
    <3> QED
      BY <1>0, <2>3, <2>8, <2>9, <3>1, CopyMoves
  <2> HIDE DEF c
  <2>11. w = [m EXCEPT !.build = c]
    <3> HIDE DEF off
    <3> QED
      BY <1>0, <2>5, <2>6 DEF View
  <2>12. \A a \in Fenced \ Buffer : c[a] = MEM_FENCE_MAGIC
    <3> SUFFICES ASSUME NEW a \in Fenced \ Buffer PROVE c[a] = MEM_FENCE_MAGIC
      OBVIOUS
    <3>1. Fenced \subseteq Int
      BY Sizes, BufferAssumption DEF Fenced
    <3>2. to \in Int
      <4> HIDE DEF start, off
      <4> QED
        BY <2>3, <2>4
    <3> HIDE DEF to, from, length
    <3>3. a \notin to + 0 .. to + length - 1
      <4> SUFFICES ASSUME a \in to + 0 .. to + length - 1 PROVE FALSE
        OBVIOUS
      <4>1. a - to \in 0 .. length - 1 /\ to + (a - to) = a
        BY <2>3, <3>1, <3>2
      <4> QED
        BY <2>9, <4>1
    <3> QED
      BY <1>0, <2>10, <3>3 DEF Moved, FencesStand
  <2>13. Sound(w) /\ w.x = x /\ w.y = y /\ w.off = off /\ w.build = c
    <3>1. Fits(m, m.x, m.y)
      BY <2>6, <2>7
    <3>2. c \in [Fenced -> Byte]
      BY <2>10 DEF Moved
    <3>3. /\ Sound(w) /\ w.x = m.x /\ w.y = m.y /\ w.off = m.off /\ w.build = c
      <4> HIDE DEF m
      <4> QED
        BY <2>6, <2>11, <2>12, <3>1, <3>2, NewBuffer
    <3> QED
      BY <2>6, <3>3
  <2>14. Retained(v, w)
    <3> SUFFICES ASSUME NEW p \in Window,
                        <<w.x + p[1] - v.x, w.y + p[2] - v.y>> \in Window
                 PROVE  w.build[PixelAt(w, p)] =
                          v.build[PixelAt(v, <<w.x + p[1] - v.x, w.y + p[2] - v.y>>)]
      BY Zenon DEF Retained
    <3> DEFINE ax == x + p[1]
               ay == y + p[2]
               A == Offset(ax, ay)
    <3>1. /\ p[1] \in 0 .. SCROLL_X_DIM - 1 /\ p[2] \in 0 .. SCROLL_Y_DIM - 1
          /\ ax - v.x \in 0 .. SCROLL_X_DIM - 1 /\ ay - v.y \in 0 .. SCROLL_Y_DIM - 1
      <4>a. p[1] \in Int /\ p[2] \in Int
        BY <1>d DEF Window
      <4>0. w.x + p[1] - v.x = ax - v.x /\ w.y + p[2] - v.y = ay - v.y
        BY <1>0, <2>13, <4>a
      <4>1. <<ax - v.x, ay - v.y>> \in Window
        <5> HIDE DEF ax, ay
        <5> QED
          BY <4>0, Zenon
      <4> HIDE DEF ax, ay
      <4> QED
        BY <4>1 DEF Window
    <3>2. /\ ax \in Nat /\ ay \in Nat /\ mx <= ax /\ my <= ay
          /\ ax <= nx + SCROLL_X_DIM - 1 /\ ay <= ny + SCROLL_Y_DIM - 1
      BY <1>0, <1>d, <2>1, <3>1
    <3>3. A \in start .. end
      <4> HIDE DEF ax, ay
      <4> QED
        BY <2>1, <2>2, <3>2, OffsetBetween, Zenon
    <3>4. PixelAt(w, p) = off + A
      <4>1. PixelAt(w, p) = Address(w, ax, ay)
        BY <2>13 DEF PixelAt
      <4> QED
        BY <2>13, <4>1, AddressOffset, <2>4, <3>2
    <3>5. PixelAt(v, <<w.x + p[1] - v.x, w.y + p[2] - v.y>>) = v.off + A
      <4>1. v.x + (w.x + p[1] - v.x) = ax /\ v.y + (w.y + p[2] - v.y) = ay
        BY <1>0, <1>d, <2>13, <3>1
      <4>2. PixelAt(v, <<w.x + p[1] - v.x, w.y + p[2] - v.y>>) = Address(v, ax, ay)
        BY <4>1 DEF PixelAt
      <4> QED
        BY <1>0, <3>2, <4>2, AddressOffset
    <3>6. off + A \in Fenced /\ off + A \in to + 0 .. to + length - 1
          /\ (off + A) - to + from = v.off + A
      <4>1. A - start \in 0 .. length - 1
        <5> HIDE DEF A, start, end
        <5> QED
          BY <2>3, <3>3
      <4>2. off + A = to + (A - start)
        <5> HIDE DEF A, start, end, off
        <5> QED
          BY <2>3, <2>4, <3>3
      <4>3. off + A \in Fenced
        <5> HIDE DEF A, start, off, to, length
        <5> QED
          BY <2>9, <4>1, <4>2
      <4> HIDE DEF A, start, end, off
      <4> QED
        BY <1>0, <2>3, <2>4, <3>3, <4>1, <4>2, <4>3
    <3>7. c[off + A] = v.build[v.off + A]
      <4> HIDE DEF A, off, to, from, length
      <4>1. \A a \in Fenced : c[a] = IF a \in to + 0 .. to + length - 1
                                     THEN v.build[a - to + from] ELSE v.build[a]
        BY <2>10, Zenon DEF Moved
      <4> SUFFICES ASSUME NEW a, a = off + A PROVE c[a] = v.build[v.off + A]
        OBVIOUS
      <4>2. a \in Fenced /\ a \in to + 0 .. to + length - 1 /\ a - to + from = v.off + A
        BY <3>6
      <4> QED
        BY <4>1, <4>2, Zenon
    <3> HIDE DEF A, off
    <3> QED
      BY <2>13, <3>4, <3>5, <3>7
  <2> QED
    BY <2>13, <2>14
<1> QED
  BY <1>1, <1>2, <1>3

\* The same, with a name for what holds of the new view.
Arrived(w, v, x, y) == Sound(w) /\ w.x = x /\ w.y = y /\ Retained(v, w)

\* The window arrives where it is moved to.
LEMMA WindowArrives ==
  ASSUME NEW v, Sound(v), NEW x \in Nat, NEW y \in Nat
  PROVE  Arrived(set_view_window(v, x, y), v, x, y)
<1> DEFINE w == set_view_window(v, x, y)
<1>1. w = set_view_window(v, x, y)
  OBVIOUS
<1> HIDE DEF w
<1>2. Sound(w) /\ w.x = x /\ w.y = y /\ Retained(v, w)
  BY <1>1, WindowMoves
<1> QED
  BY <1>1, <1>2 DEF Arrived

-----------------------------------------------------------------------------
(***************************************************************************)
(* The lines of a room picture.                                            *)
(***************************************************************************)

\* What is seen at a point of a scene when the first n objects have been drawn.
Seen(s, n, x, y) ==
  LET there == {k \in 1 .. n : Covers(s.contents[k], x, y)}
      top == s.contents[Max(there)]
  IN  IF there = {} THEN <<s.photo, x, y>> ELSE <<top.name, x - top.x, y - top.y>>

\* The pixel of an object drawn over another pixel.
Over(pixel, o, x, y) == IF Covers(o, x, y) THEN <<o.name, x - o.x, y - o.y>> ELSE pixel

\* The largest number of a set.
LEMMA MaxIs ==
  ASSUME NEW S, S \subseteq Int, NEW m \in S, \A k \in S : k <= m
  PROVE  Max(S) = m
<1>1. \E a \in S : \A b \in S : a >= b
  OBVIOUS
<1>2. Max(S) \in S /\ \A b \in S : Max(S) >= b
  BY <1>1, Zenon DEF Max
<1>3. Max(S) \in Int /\ m \in Int /\ Max(S) >= m /\ Max(S) <= m
  BY <1>2
<1> QED
  BY <1>3

\* The next object covers what is below it.
LEMMA SeenNext ==
  ASSUME NEW s, NEW n \in Nat, NEW x, NEW y
  PROVE  /\ Seen(s, 0, x, y) = <<s.photo, x, y>>
         /\ Seen(s, n + 1, x, y) = Over(Seen(s, n, x, y), s.contents[n + 1], x, y)
<1> DEFINE There(k) == {j \in 1 .. k : Covers(s.contents[j], x, y)}
           Top(k) == s.contents[Max(There(k))]
<1>0. \A k : Seen(s, k, x, y) = IF There(k) = {} THEN <<s.photo, x, y>>
                                 ELSE <<Top(k).name, x - Top(k).x, y - Top(k).y>>
  BY DEF Seen
<1>1. There(0) = {}
  OBVIOUS
<1>2. CASE Covers(s.contents[n + 1], x, y)
  <2>1. n + 1 \in There(n + 1) /\ There(n + 1) \subseteq Int
    BY <1>2
  <2>2. \A k \in There(n + 1) : k <= n + 1
    OBVIOUS
  <2> HIDE DEF There
  <2>3. Max(There(n + 1)) = n + 1
    BY <2>1, <2>2, MaxIs
  <2> QED
    BY <1>0, <1>1, <1>2, <2>1, <2>3 DEF Over
<1>3. CASE ~ Covers(s.contents[n + 1], x, y)
  <2>1. There(n + 1) = There(n)
    <3>1. \A k \in 1 .. n + 1 : k = n + 1 \/ k \in 1 .. n
      OBVIOUS
    <3>2. 1 .. n \subseteq 1 .. n + 1
      OBVIOUS
    <3> QED
      BY <1>3, <3>1, <3>2, Zenon
  <2> HIDE DEF There
  <2> QED
    BY <1>0, <1>1, <1>3, <2>1 DEF Over
<1> QED
  BY <1>2, <1>3

\* All objects drawn, that is what Look says.
LEMMA SeenAll ==
  ASSUME NEW s, IsScene(s), NEW x, NEW y
  PROVE  Seen(s, Len(s.contents), x, y) = Look(s, x, y)
<1>1. DOMAIN s.contents = 1 .. Len(s.contents)
  BY DEF IsScene
<1> QED
  BY <1>1, Zenon DEF Seen, Look

\* A line of pixels: the place of its pixel i in the scene is at[i].  Over a line of the
\* photograph the objects of the scene are drawn in turn.
Painted(f, s, D, at, n) ==
  /\ \A i \in D : f[0][i] = <<s.photo, at[i][1], at[i][2]>>
  /\ \A k \in 1 .. n, i \in D :
       f[k][i] = Over(f[k - 1][i], s.contents[k], at[i][1], at[i][2])

\* A line that shows the scene.
Looks(line, s, D, at) == \A i \in D : line[i] = Look(s, at[i][1], at[i][2])

\* In the end the line shows the scene.
LEMMA PaintedLooks ==
  ASSUME NEW s, IsScene(s), NEW D, NEW at, NEW f, Painted(f, s, D, at, Len(s.contents))
  PROVE  Looks(f[Len(s.contents)], s, D, at)
<1> DEFINE n == Len(s.contents)
<1>1. n \in Nat
  BY DEF IsScene
<1> SUFFICES ASSUME NEW i \in D PROVE f[n][i] = Look(s, at[i][1], at[i][2])
  BY DEF Looks
<1> HIDE DEF n
<1> DEFINE x == at[i][1]
           y == at[i][2]
           T == {k \in 0 .. n : f[k][i] = Seen(s, k, x, y)}
<1>2. f[0][i] = <<s.photo, x, y>>
      /\ \A k \in 1 .. n : f[k][i] = Over(f[k - 1][i], s.contents[k], x, y)
  BY Zenon DEF Painted, n
<1> HIDE DEF x, y
<1>3. 0 \in T
  <2>1. 0 \in Nat /\ 0 \in 0 .. n
    BY <1>1
  <2>2. Seen(s, 0, x, y) = <<s.photo, x, y>>
    BY <2>1, SeenNext, Zenon
  <2> QED
    BY <1>2, <2>1, <2>2, Zenon
<1>4. ASSUME NEW k \in 0 .. n - 1, k \in T PROVE k + 1 \in T
  <2>1. k \in Nat /\ k + 1 \in 1 .. n /\ k + 1 \in 0 .. n /\ k + 1 - 1 = k
    BY <1>1
  <2>2. f[k][i] = Seen(s, k, x, y)
    BY <1>4
  <2>3. f[k + 1][i] = Over(f[k][i], s.contents[k + 1], x, y)
    BY <1>2, <2>1
  <2>4. Seen(s, k + 1, x, y) = Over(Seen(s, k, x, y), s.contents[k + 1], x, y)
    BY <2>1, SeenNext, ZenonT(40)
  <2> QED
    BY <2>1, <2>2, <2>3, <2>4, Zenon
<1>5. n \in T
  <2> HIDE DEF T
  <2>1. 0 .. n \subseteq T
    BY <1>1, <1>3, <1>4, InductionUpTo
  <2> QED
    BY <1>1, <2>1
<1> QED
  BY <1>5, SeenAll DEF x, y, n

\* An object drawn over a horizontal line.
LEMMA HorizObject ==
  ASSUME NEW o \in Object, NEW x \in Int, NEW y \in Int, NEW line \in [0 .. SCROLL_X_DIM - 1 -> Pixel]
  PROVE  /\ horiz_object(line, o, x, y) \in [0 .. SCROLL_X_DIM - 1 -> Pixel]
         /\ \A i \in 0 .. SCROLL_X_DIM - 1 :
              horiz_object(line, o, x, y)[i] = Over(line[i], o, x + i, y)
<1> DEFINE D == 0 .. SCROLL_X_DIM - 1
           first == IF x <= o.x THEN o.x - x ELSE 0
           imgx(i) == (IF x <= o.x THEN 0 ELSE x - o.x) + i - first
           outside == \/ y < o.y \/ y >= o.y + o.height
                      \/ x + SCROLL_X_DIM <= o.x \/ x >= o.x + o.width
           drawn == [i \in D |->
                IF i >= first /\ o.width > imgx(i) /\ <<imgx(i), y - o.y>> \notin o.clear
                  THEN <<o.name, imgx(i), y - o.y>> ELSE line[i]]
<1>0. SCROLL_X_DIM \in Nat /\ o.x \in Int /\ o.y \in Int /\ o.width \in Nat /\ o.height \in Nat
      /\ o.name \in STRING
  BY Sizes DEF Object
<1>1. horiz_object(line, o, x, y) = IF outside THEN line ELSE drawn
  BY DEF horiz_object
<1>2. \A i \in D : /\ imgx(i) = (x + i) - o.x /\ (x + i) - o.x \in Int /\ y - o.y \in Int
                   /\ i >= first <=> (x + i) - o.x >= 0
  BY <1>0
<1>3. \A i \in D : Covers(o, x + i, y) <=>
        /\ (x + i) - o.x >= 0 /\ o.width > (x + i) - o.x /\ ~ (y < o.y) /\ ~ (y >= o.y + o.height)
        /\ <<(x + i) - o.x, y - o.y>> \notin o.clear
  <2> SUFFICES ASSUME NEW i \in D
               PROVE  Covers(o, x + i, y) <=>
                        /\ (x + i) - o.x >= 0 /\ o.width > (x + i) - o.x /\ ~ (y < o.y) /\ ~ (y >= o.y + o.height)
                        /\ <<(x + i) - o.x, y - o.y>> \notin o.clear
    OBVIOUS
  <2>1. i \in Int
    BY <1>0
  <2>2. ((x + i) - o.x) \in 0 .. o.width - 1 <=> (x + i) - o.x >= 0 /\ o.width > (x + i) - o.x
    BY <1>0, <2>1
  <2>3. (y - o.y) \in 0 .. o.height - 1 <=> ~ (y < o.y) /\ ~ (y >= o.y + o.height)
    BY <1>0
  <2> QED
    BY <2>2, <2>3, Zenon DEF Covers
<1>4. CASE outside
  <2>1. \A i \in D : ~ Covers(o, x + i, y)
    <3> SUFFICES ASSUME NEW i \in D PROVE ~ Covers(o, x + i, y)
      OBVIOUS
    <3>1. ~ ((x + i) - o.x >= 0 /\ o.width > (x + i) - o.x /\ ~ (y < o.y) /\ ~ (y >= o.y + o.height))
      BY <1>0, <1>4
    <3> QED
      BY <1>3, <3>1, Zenon
  <2> QED
    BY <1>1, <1>4, <2>1 DEF Over
<1>5. CASE ~ outside
  <2>1. \A i \in D : drawn[i] = Over(line[i], o, x + i, y)
    <3> SUFFICES ASSUME NEW i \in D PROVE drawn[i] = Over(line[i], o, x + i, y)
      OBVIOUS
    <3>1. i >= first /\ o.width > imgx(i) /\ <<imgx(i), y - o.y>> \notin o.clear
            <=> Covers(o, x + i, y)
      <4> HIDE DEF first, imgx
      <4> QED
        BY <1>2, <1>3, <1>5
    <3>2. imgx(i) = (x + i) - o.x
      BY <1>2
    <3> HIDE DEF first, imgx
    <3> QED
      BY <3>1, <3>2 DEF Over
  <2>2. drawn \in [D -> Pixel]
    <3> HIDE DEF first, imgx
    <3> QED
      BY <1>0, <1>2 DEF Pixel
  <2> HIDE DEF drawn, outside
  <2> QED
    BY <1>1, <1>5, <2>1, <2>2
<1> QED
  BY <1>4, <1>5

\* An object drawn over a vertical line.
LEMMA VertObject ==
  ASSUME NEW o \in Object, NEW x \in Int, NEW y \in Int, NEW line \in [0 .. SCROLL_Y_DIM - 1 -> Pixel]
  PROVE  /\ vert_object(line, o, x, y) \in [0 .. SCROLL_Y_DIM - 1 -> Pixel]
         /\ \A i \in 0 .. SCROLL_Y_DIM - 1 :
              vert_object(line, o, x, y)[i] = Over(line[i], o, x, y + i)
<1> DEFINE D == 0 .. SCROLL_Y_DIM - 1
           first == IF y <= o.y THEN o.y - y ELSE 0
           imgy(i) == (IF y <= o.y THEN 0 ELSE y - o.y) + i - first
           outside == \/ x < o.x \/ x >= o.x + o.width
                      \/ y + SCROLL_Y_DIM <= o.y \/ y >= o.y + o.height
           drawn == [i \in D |->
                IF i >= first /\ o.height > imgy(i) /\ <<x - o.x, imgy(i)>> \notin o.clear
                  THEN <<o.name, x - o.x, imgy(i)>> ELSE line[i]]
<1>0. SCROLL_Y_DIM \in Nat /\ o.x \in Int /\ o.y \in Int /\ o.width \in Nat /\ o.height \in Nat
      /\ o.name \in STRING
  BY Sizes DEF Object
<1>1. vert_object(line, o, x, y) = IF outside THEN line ELSE drawn
  BY DEF vert_object
<1>2. \A i \in D : /\ imgy(i) = (y + i) - o.y /\ (y + i) - o.y \in Int /\ x - o.x \in Int
                   /\ i >= first <=> (y + i) - o.y >= 0
  BY <1>0
<1>3. \A i \in D : Covers(o, x, y + i) <=>
        /\ (y + i) - o.y >= 0 /\ o.height > (y + i) - o.y /\ ~ (x < o.x) /\ ~ (x >= o.x + o.width)
        /\ <<x - o.x, (y + i) - o.y>> \notin o.clear
  <2> SUFFICES ASSUME NEW i \in D
               PROVE  Covers(o, x, y + i) <=>
                        /\ (y + i) - o.y >= 0 /\ o.height > (y + i) - o.y /\ ~ (x < o.x) /\ ~ (x >= o.x + o.width)
                        /\ <<x - o.x, (y + i) - o.y>> \notin o.clear
    OBVIOUS
  <2>1. i \in Int
    BY <1>0
  <2>2. ((y + i) - o.y) \in 0 .. o.height - 1 <=> (y + i) - o.y >= 0 /\ o.height > (y + i) - o.y
    BY <1>0, <2>1
  <2>3. (x - o.x) \in 0 .. o.width - 1 <=> ~ (x < o.x) /\ ~ (x >= o.x + o.width)
    BY <1>0
  <2> QED
    BY <2>2, <2>3, Zenon DEF Covers
<1>4. CASE outside
  <2>1. \A i \in D : ~ Covers(o, x, y + i)
    <3> SUFFICES ASSUME NEW i \in D PROVE ~ Covers(o, x, y + i)
      OBVIOUS
    <3>1. ~ ((y + i) - o.y >= 0 /\ o.height > (y + i) - o.y /\ ~ (x < o.x) /\ ~ (x >= o.x + o.width))
      BY <1>0, <1>4
    <3> QED
      BY <1>3, <3>1, Zenon
  <2> QED
    BY <1>1, <1>4, <2>1 DEF Over
<1>5. CASE ~ outside
  <2>1. \A i \in D : drawn[i] = Over(line[i], o, x, y + i)
    <3> SUFFICES ASSUME NEW i \in D PROVE drawn[i] = Over(line[i], o, x, y + i)
      OBVIOUS
    <3>1. i >= first /\ o.height > imgy(i) /\ <<x - o.x, imgy(i)>> \notin o.clear
            <=> Covers(o, x, y + i)
      <4> HIDE DEF first, imgy
      <4> QED
        BY <1>2, <1>3, <1>5
    <3>2. imgy(i) = (y + i) - o.y
      BY <1>2
    <3> HIDE DEF first, imgy
    <3> QED
      BY <3>1, <3>2 DEF Over
  <2>2. drawn \in [D -> Pixel]
    <3> HIDE DEF first, imgy
    <3> QED
      BY <1>0, <1>2 DEF Pixel
  <2> HIDE DEF drawn, outside
  <2> QED
    BY <1>1, <1>5, <2>1, <2>2
<1> QED
  BY <1>4, <1>5

\* The turns h of the loop over the objects, for a horizontal line.
HorizTurns(h, s, x, y, n) ==
  /\ fill_horiz_buffer(s, x, y) = h[n] /\ h[0] = horiz_photo(s, x, y)
  /\ h \in [0 .. n -> [0 .. SCROLL_X_DIM - 1 -> Pixel]]
  /\ \A k \in 1 .. n : h[k] = horiz_object(h[k - 1], s.contents[k], x, y)

\* A horizontal line of the photograph shows the photograph.
LEMMA HorizPhoto ==
  ASSUME NEW s, IsScene(s), NEW x \in Nat, NEW y \in Int, x + SCROLL_X_DIM <= s.width
  PROVE  /\ horiz_photo(s, x, y) \in [0 .. SCROLL_X_DIM - 1 -> Pixel]
         /\ \A i \in 0 .. SCROLL_X_DIM - 1 : horiz_photo(s, x, y)[i] = <<s.photo, x + i, y>>
<1>1. s.photo \in STRING /\ s.width \in Nat /\ SCROLL_X_DIM \in Nat
  BY Sizes DEF IsScene
<1>2. \A i \in 0 .. SCROLL_X_DIM - 1 : 0 <= x + i /\ s.width > x + i /\ x + i \in Int
  BY <1>1
<1>3. horiz_photo(s, x, y) = [i \in 0 .. SCROLL_X_DIM - 1 |-> <<s.photo, x + i, y>>]
  BY <1>2, Zenon DEF horiz_photo
<1>4. \A i \in 0 .. SCROLL_X_DIM - 1 : <<s.photo, x + i, y>> \in Pixel
  BY <1>1, <1>2 DEF Pixel
<1> QED
  BY <1>3, <1>4, Zenon

\* There are such turns.
LEMMA HorizUnfolds ==
  ASSUME NEW s, IsScene(s), NEW x \in Nat, NEW y \in Int, x + SCROLL_X_DIM <= s.width
  PROVE  \E h : HorizTurns(h, s, x, y, Len(s.contents))
<1> DEFINE n == Len(s.contents)
           S == [0 .. SCROLL_X_DIM - 1 -> Pixel]
           b == horiz_photo(s, x, y)
           step == [q \in S \X (1 .. n) |-> horiz_object(q[1], s.contents[q[2]], x, y)]
           F(h) == [k \in 0 .. n |->
                      IF k = 0 THEN b ELSE horiz_object(h[k - 1], s.contents[k], x, y)]
<1>0. n \in Nat /\ \A k \in 1 .. n : s.contents[k] \in Object
  BY DEF IsScene
<1> HIDE DEF n
<1>1. step \in [S \X (1 .. n) -> S]
  <2>1. \A c \in S, k \in 1 .. n : horiz_object(c, s.contents[k], x, y) \in S
    BY <1>0, HorizObject
  <2> HIDE DEF S
  <2> QED
    BY <2>1
<1>b. b \in S
  BY HorizPhoto, Zenon
<1>2. PICK f : Loop(f, S, b, step, n)
  <2> HIDE DEF step, S, b
  <2> QED
    BY <1>0, <1>1, <1>b, LoopExists, Zenon
<1>3. f = F(f)
  <2>1. ASSUME NEW k \in 1 .. n PROVE f[k] = horiz_object(f[k - 1], s.contents[k], x, y)
    <3>1. f[k - 1] \in S /\ f[k] = step[<<f[k - 1], k>>]
      <4> HIDE DEF S, step
      <4> QED
        BY <1>0, <1>2 DEF Loop
    <3> HIDE DEF S
    <3> QED
      BY <3>1, Zenon
  <2>2. f = [k \in 0 .. n |-> f[k]] /\ f[0] = b
    BY <1>2 DEF Loop
  <2>3. \A k \in 0 .. n :
          f[k] = IF k = 0 THEN b ELSE horiz_object(f[k - 1], s.contents[k], x, y)
    <3> SUFFICES ASSUME NEW k \in 0 .. n, k # 0
                 PROVE  f[k] = horiz_object(f[k - 1], s.contents[k], x, y)
      BY <2>2, Zenon
    <3>1. k \in 1 .. n
      BY <1>0
    <3> QED
      BY <2>1, <3>1, Zenon
  <2>4. F(f) = [k \in 0 .. n |-> f[k]]
    BY <2>3, Zenon
  <2> QED
    BY <2>2, <2>4, Zenon
<1> DEFINE h == CHOOSE h : h = F(h)
<1>4. fill_horiz_buffer(s, x, y) = h[n]
  BY DEF fill_horiz_buffer, n
<1>5. h = F(h)
  <2> HIDE DEF F
  <2> QED
    BY <1>3
<1> HIDE DEF h
<1>6. h[0] = b /\ \A k \in 1 .. n : h[k] = horiz_object(h[k - 1], s.contents[k], x, y)
  <2> HIDE DEF b
  <2> QED
    BY <1>0, <1>5
<1>7. h \in [0 .. n -> S]
  <2> DEFINE T == {k \in 0 .. n : h[k] \in S}
  <2>1. 0 \in T
    BY <1>0, <1>6, <1>b
  <2>2. ASSUME NEW k \in 0 .. n - 1, k \in T PROVE k + 1 \in T
    <3>1. k + 1 \in 1 .. n /\ k + 1 \in 0 .. n /\ k + 1 - 1 = k
      BY <1>0
    <3>2. h[k + 1] = horiz_object(h[k], s.contents[k + 1], x, y)
      BY <1>6, <3>1
    <3>3. s.contents[k + 1] \in Object /\ h[k] \in S
      BY <1>0, <2>2, <3>1
    <3>4. horiz_object(h[k], s.contents[k + 1], x, y) \in S
      <4>1. x \in Int /\ y \in Int
        OBVIOUS
      <4> QED
        BY <3>3, <4>1, HorizObject, Zenon
    <3> HIDE DEF S
    <3> QED
      BY <3>1, <3>2, <3>4
  <2>3. 0 .. n \subseteq T
    <3> HIDE DEF T
    <3> QED
      BY <1>0, <2>1, <2>2, InductionUpTo
  <2>4. h = [k \in 0 .. n |-> h[k]]
    <3> HIDE DEF b
    <3> QED
      BY <1>5
  <2> HIDE DEF S
  <2> QED
    BY <2>3, <2>4
<1> QED
  BY <1>4, <1>6, <1>7, Zenon DEF HorizTurns, n

\* A horizontal line inside the photograph is what Look says.
LEMMA HorizLooks ==
  ASSUME NEW s, IsScene(s), NEW x \in Nat, NEW y \in Int, x + SCROLL_X_DIM <= s.width
  PROVE  /\ fill_horiz_buffer(s, x, y) \in [0 .. SCROLL_X_DIM - 1 -> Pixel]
         /\ \A i \in 0 .. SCROLL_X_DIM - 1 : fill_horiz_buffer(s, x, y)[i] = Look(s, x + i, y)
<1> DEFINE n == Len(s.contents)
           D == 0 .. SCROLL_X_DIM - 1
           at == [i \in D |-> <<x + i, y>>]
<1>0. n \in Nat /\ \A k \in 1 .. n : s.contents[k] \in Object
  BY DEF IsScene
<1>1. PICK h : HorizTurns(h, s, x, y, n)
  BY HorizUnfolds, Zenon
<1> HIDE DEF n
<1>2. /\ fill_horiz_buffer(s, x, y) = h[n] /\ h[0] = horiz_photo(s, x, y) /\ h \in [0 .. n -> [D -> Pixel]]
      /\ \A k \in 1 .. n : h[k] = horiz_object(h[k - 1], s.contents[k], x, y)
  BY <1>1, Zenon DEF HorizTurns
<1>3. \A i \in D : at[i][1] = <<x + i, y>>[1] /\ at[i][2] = <<x + i, y>>[2]
  BY Zenon
<1>4. \A i \in D : h[0][i] = <<s.photo, at[i][1], at[i][2]>>
  <2> HIDE DEF at
  <2> SUFFICES ASSUME NEW i \in D PROVE h[0][i] = <<s.photo, at[i][1], at[i][2]>>
    OBVIOUS
  <2>1. h[0][i] = <<s.photo, x + i, y>>
    BY <1>2, HorizPhoto
  <2> QED
    BY <1>3, <2>1
<1>5. \A k \in 1 .. n, i \in D :
        h[k][i] = Over(h[k - 1][i], s.contents[k], at[i][1], at[i][2])
  <2> HIDE DEF at
  <2> SUFFICES ASSUME NEW k \in 1 .. n, NEW i \in D
               PROVE  h[k][i] = Over(h[k - 1][i], s.contents[k], at[i][1], at[i][2])
    OBVIOUS
  <2>1. h[k - 1] \in [D -> Pixel] /\ s.contents[k] \in Object
    <3> HIDE DEF D
    <3> QED
      BY <1>0, <1>2
  <2>2. h[k] = horiz_object(h[k - 1], s.contents[k], x, y)
    BY <1>2
  <2> DEFINE l == h[k - 1]
             o == s.contents[k]
  <2> HIDE DEF l, o
  <2>3. h[k][i] = Over(l[i], o, x + i, y)
    <3>1. l \in [D -> Pixel] /\ o \in Object /\ h[k] = horiz_object(l, o, x, y)
      BY <2>1, <2>2, Zenon DEF l, o
    <3>2. horiz_object(l, o, x, y)[i] = Over(l[i], o, x + i, y)
      <4>1. x \in Int /\ y \in Int
        OBVIOUS
      <4> QED
        BY <3>1, <4>1, HorizObject, Zenon
    <3> QED
      BY <3>1, <3>2
  <2> QED
    BY <1>3, <2>3 DEF l, o
<1>6. Painted(h, s, D, at, n)
  <2> HIDE DEF D, at
  <2> QED
    BY <1>4, <1>5, Zenon DEF Painted
<1>7. \A i \in D : h[n][i] = Look(s, at[i][1], at[i][2])
  <2> HIDE DEF D, at
  <2>1. Painted(h, s, D, at, Len(s.contents))
    BY <1>6 DEF n
  <2>2. Looks(h[Len(s.contents)], s, D, at)
    BY <2>1, PaintedLooks, Zenon
  <2> QED
    BY <2>2 DEF n, Looks
<1>8. h[n] \in [D -> Pixel]
  <2> HIDE DEF D
  <2> QED
    BY <1>0, <1>2
<1> HIDE DEF at
<1> QED
  BY <1>2, <1>3, <1>7, <1>8

\* The turns h of the loop over the objects, for a vertical line.
VertTurns(h, s, x, y, n) ==
  /\ fill_vert_buffer(s, x, y) = h[n] /\ h[0] = vert_photo(s, x, y)
  /\ h \in [0 .. n -> [0 .. SCROLL_Y_DIM - 1 -> Pixel]]
  /\ \A k \in 1 .. n : h[k] = vert_object(h[k - 1], s.contents[k], x, y)

\* A vertical line of the photograph shows the photograph.
LEMMA VertPhoto ==
  ASSUME NEW s, IsScene(s), NEW x \in Int, NEW y \in Nat, y + SCROLL_Y_DIM <= s.height
  PROVE  /\ vert_photo(s, x, y) \in [0 .. SCROLL_Y_DIM - 1 -> Pixel]
         /\ \A i \in 0 .. SCROLL_Y_DIM - 1 : vert_photo(s, x, y)[i] = <<s.photo, x, y + i>>
<1>1. s.photo \in STRING /\ s.height \in Nat /\ SCROLL_Y_DIM \in Nat
  BY Sizes DEF IsScene
<1>2. \A i \in 0 .. SCROLL_Y_DIM - 1 : 0 <= y + i /\ s.height > y + i /\ y + i \in Int
  BY <1>1
<1>3. vert_photo(s, x, y) = [i \in 0 .. SCROLL_Y_DIM - 1 |-> <<s.photo, x, y + i>>]
  BY <1>2, Zenon DEF vert_photo
<1>4. \A i \in 0 .. SCROLL_Y_DIM - 1 : <<s.photo, x, y + i>> \in Pixel
  BY <1>1, <1>2 DEF Pixel
<1> QED
  BY <1>3, <1>4, Zenon

\* There are such turns.
LEMMA VertUnfolds ==
  ASSUME NEW s, IsScene(s), NEW x \in Int, NEW y \in Nat, y + SCROLL_Y_DIM <= s.height
  PROVE  \E h : VertTurns(h, s, x, y, Len(s.contents))
<1> DEFINE n == Len(s.contents)
           S == [0 .. SCROLL_Y_DIM - 1 -> Pixel]
           b == vert_photo(s, x, y)
           step == [q \in S \X (1 .. n) |-> vert_object(q[1], s.contents[q[2]], x, y)]
           F(h) == [k \in 0 .. n |->
                      IF k = 0 THEN b ELSE vert_object(h[k - 1], s.contents[k], x, y)]
<1>0. n \in Nat /\ \A k \in 1 .. n : s.contents[k] \in Object
  BY DEF IsScene
<1> HIDE DEF n
<1>1. step \in [S \X (1 .. n) -> S]
  <2>1. \A c \in S, k \in 1 .. n : vert_object(c, s.contents[k], x, y) \in S
    BY <1>0, VertObject
  <2> HIDE DEF S
  <2> QED
    BY <2>1
<1>b. b \in S
  BY VertPhoto, Zenon
<1>2. PICK f : Loop(f, S, b, step, n)
  <2> HIDE DEF step, S, b
  <2> QED
    BY <1>0, <1>1, <1>b, LoopExists, Zenon
<1>3. f = F(f)
  <2>1. ASSUME NEW k \in 1 .. n PROVE f[k] = vert_object(f[k - 1], s.contents[k], x, y)
    <3>1. f[k - 1] \in S /\ f[k] = step[<<f[k - 1], k>>]
      <4> HIDE DEF S, step
      <4> QED
        BY <1>0, <1>2 DEF Loop
    <3> HIDE DEF S
    <3> QED
      BY <3>1, Zenon
  <2>2. f = [k \in 0 .. n |-> f[k]] /\ f[0] = b
    BY <1>2 DEF Loop
  <2>3. \A k \in 0 .. n :
          f[k] = IF k = 0 THEN b ELSE vert_object(f[k - 1], s.contents[k], x, y)
    <3> SUFFICES ASSUME NEW k \in 0 .. n, k # 0
                 PROVE  f[k] = vert_object(f[k - 1], s.contents[k], x, y)
      BY <2>2, Zenon
    <3>1. k \in 1 .. n
      BY <1>0
    <3> QED
      BY <2>1, <3>1, Zenon
  <2>4. F(f) = [k \in 0 .. n |-> f[k]]
    BY <2>3, Zenon
  <2> QED
    BY <2>2, <2>4, Zenon
<1> DEFINE h == CHOOSE h : h = F(h)
<1>4. fill_vert_buffer(s, x, y) = h[n]
  BY DEF fill_vert_buffer, n
<1>5. h = F(h)
  <2> HIDE DEF F
  <2> QED
    BY <1>3
<1> HIDE DEF h
<1>6. h[0] = b /\ \A k \in 1 .. n : h[k] = vert_object(h[k - 1], s.contents[k], x, y)
  <2> HIDE DEF b
  <2> QED
    BY <1>0, <1>5
<1>7. h \in [0 .. n -> S]
  <2> DEFINE T == {k \in 0 .. n : h[k] \in S}
  <2>1. 0 \in T
    BY <1>0, <1>6, <1>b
  <2>2. ASSUME NEW k \in 0 .. n - 1, k \in T PROVE k + 1 \in T
    <3>1. k + 1 \in 1 .. n /\ k + 1 \in 0 .. n /\ k + 1 - 1 = k
      BY <1>0
    <3>2. h[k + 1] = vert_object(h[k], s.contents[k + 1], x, y)
      BY <1>6, <3>1
    <3>3. s.contents[k + 1] \in Object /\ h[k] \in S
      BY <1>0, <2>2, <3>1
    <3>4. vert_object(h[k], s.contents[k + 1], x, y) \in S
      <4>1. x \in Int /\ y \in Int
        OBVIOUS
      <4> QED
        BY <3>3, <4>1, VertObject, Zenon
    <3> HIDE DEF S
    <3> QED
      BY <3>1, <3>2, <3>4
  <2>3. 0 .. n \subseteq T
    <3> HIDE DEF T
    <3> QED
      BY <1>0, <2>1, <2>2, InductionUpTo
  <2>4. h = [k \in 0 .. n |-> h[k]]
    <3> HIDE DEF b
    <3> QED
      BY <1>5
  <2> HIDE DEF S
  <2> QED
    BY <2>3, <2>4
<1> QED
  BY <1>4, <1>6, <1>7, Zenon DEF VertTurns, n

\* A vertical line inside the photograph is what Look says.
LEMMA VertLooks ==
  ASSUME NEW s, IsScene(s), NEW x \in Int, NEW y \in Nat, y + SCROLL_Y_DIM <= s.height
  PROVE  /\ fill_vert_buffer(s, x, y) \in [0 .. SCROLL_Y_DIM - 1 -> Pixel]
         /\ \A i \in 0 .. SCROLL_Y_DIM - 1 : fill_vert_buffer(s, x, y)[i] = Look(s, x, y + i)
<1> DEFINE n == Len(s.contents)
           D == 0 .. SCROLL_Y_DIM - 1
           at == [i \in D |-> <<x, y + i>>]
<1>0. n \in Nat /\ \A k \in 1 .. n : s.contents[k] \in Object
  BY DEF IsScene
<1>1. PICK h : VertTurns(h, s, x, y, n)
  BY VertUnfolds, Zenon
<1> HIDE DEF n
<1>2. /\ fill_vert_buffer(s, x, y) = h[n] /\ h[0] = vert_photo(s, x, y) /\ h \in [0 .. n -> [D -> Pixel]]
      /\ \A k \in 1 .. n : h[k] = vert_object(h[k - 1], s.contents[k], x, y)
  BY <1>1, Zenon DEF VertTurns
<1>3. \A i \in D : at[i][1] = <<x, y + i>>[1] /\ at[i][2] = <<x, y + i>>[2]
  BY Zenon
<1>4. \A i \in D : h[0][i] = <<s.photo, at[i][1], at[i][2]>>
  <2> HIDE DEF at
  <2> SUFFICES ASSUME NEW i \in D PROVE h[0][i] = <<s.photo, at[i][1], at[i][2]>>
    OBVIOUS
  <2>1. h[0][i] = <<s.photo, x, y + i>>
    BY <1>2, VertPhoto
  <2> QED
    BY <1>3, <2>1
<1>5. \A k \in 1 .. n, i \in D :
        h[k][i] = Over(h[k - 1][i], s.contents[k], at[i][1], at[i][2])
  <2> HIDE DEF at
  <2> SUFFICES ASSUME NEW k \in 1 .. n, NEW i \in D
               PROVE  h[k][i] = Over(h[k - 1][i], s.contents[k], at[i][1], at[i][2])
    OBVIOUS
  <2>1. h[k - 1] \in [D -> Pixel] /\ s.contents[k] \in Object
    <3> HIDE DEF D
    <3> QED
      BY <1>0, <1>2
  <2>2. h[k] = vert_object(h[k - 1], s.contents[k], x, y)
    BY <1>2
  <2> DEFINE l == h[k - 1]
             o == s.contents[k]
  <2> HIDE DEF l, o
  <2>3. h[k][i] = Over(l[i], o, x, y + i)
    <3>1. l \in [D -> Pixel] /\ o \in Object /\ h[k] = vert_object(l, o, x, y)
      BY <2>1, <2>2, Zenon DEF l, o
    <3>2. vert_object(l, o, x, y)[i] = Over(l[i], o, x, y + i)
      <4>1. x \in Int /\ y \in Int
        OBVIOUS
      <4> QED
        BY <3>1, <4>1, VertObject, Zenon
    <3> QED
      BY <3>1, <3>2
  <2> QED
    BY <1>3, <2>3 DEF l, o
<1>6. Painted(h, s, D, at, n)
  <2> HIDE DEF D, at
  <2> QED
    BY <1>4, <1>5, Zenon DEF Painted
<1>7. \A i \in D : h[n][i] = Look(s, at[i][1], at[i][2])
  <2> HIDE DEF D, at
  <2>1. Painted(h, s, D, at, Len(s.contents))
    BY <1>6 DEF n
  <2>2. Looks(h[Len(s.contents)], s, D, at)
    BY <2>1, PaintedLooks, Zenon
  <2> QED
    BY <2>2 DEF n, Looks
<1>8. h[n] \in [D -> Pixel]
  <2> HIDE DEF D
  <2> QED
    BY <1>0, <1>2
<1> HIDE DEF at
<1> QED
  BY <1>2, <1>3, <1>7, <1>8

-----------------------------------------------------------------------------
(***************************************************************************)
(* The picture in the build buffer and on the display.                     *)
(***************************************************************************)

\* A window inside the photograph of a scene.
Inside(s, x, y) ==
  x \in Nat /\ y \in Nat /\ x + SCROLL_X_DIM <= s.width /\ y + SCROLL_Y_DIM <= s.height

\* The view w is v with the pixels of the set P drawn from scene s.
Drawn(w, v, s, P) ==
  /\ Sound(w) /\ w.x = v.x /\ w.y = v.y
  /\ \A p \in P : w.build[PixelAt(w, p)] = Look(s, v.x + p[1], v.y + p[2])
  /\ \A p \in Window \ P : w.build[PixelAt(w, p)] = v.build[PixelAt(v, p)]

\* The build buffer holds the window of scene s.
Shows(v, s) == \A p \in Window : v.build[PixelAt(v, p)] = Look(s, v.x + p[1], v.y + p[2])

\* Drawing lines.
LEMMA DrawsRows ==
  ASSUME NEW v, Sound(v), NEW s, IsScene(s), Inside(s, v.x, v.y), NEW ys
  PROVE  Drawn(draw_horiz_line(v, s, ys), v, s, {p \in Window : p[2] \in ys})
<1> DEFINE rows == ys \cap (0 .. SCROLL_Y_DIM - 1)
           P == (0 .. SCROLL_X_DIM - 1) \X rows
           pixels == [p \in P |-> fill_horiz_buffer(s, v.x, v.y + p[2])[p[1]]]
           w == Draw(v, pixels)
<1>1. draw_horiz_line(v, s, ys) = w
  BY DEF draw_horiz_line
<1>2. P = {p \in Window : p[2] \in ys} /\ P \in SUBSET Window
  BY DEF Window
<1>3. \A p \in P : /\ fill_horiz_buffer(s, v.x, v.y + p[2])[p[1]] = Look(s, v.x + p[1], v.y + p[2])
                   /\ fill_horiz_buffer(s, v.x, v.y + p[2])[p[1]] \in Pixel
  <2> SUFFICES ASSUME NEW i \in 0 .. SCROLL_X_DIM - 1, NEW j \in 0 .. SCROLL_Y_DIM - 1
               PROVE  /\ fill_horiz_buffer(s, v.x, v.y + j)[i] = Look(s, v.x + i, v.y + j)
                      /\ fill_horiz_buffer(s, v.x, v.y + j)[i] \in Pixel
    OBVIOUS
  <2>1. v.x \in Nat /\ v.y + j \in Int /\ v.x + SCROLL_X_DIM <= s.width
    BY DEF Inside
  <2>2. /\ fill_horiz_buffer(s, v.x, v.y + j) \in [0 .. SCROLL_X_DIM - 1 -> Pixel]
        /\ \A k \in 0 .. SCROLL_X_DIM - 1 :
             fill_horiz_buffer(s, v.x, v.y + j)[k] = Look(s, v.x + k, v.y + j)
    BY <2>1, HorizLooks, Zenon
  <2> QED
    BY <2>2
<1>4. pixels \in [P -> Pixel] /\ \A p \in P : pixels[p] = Look(s, v.x + p[1], v.y + p[2])
  <2> HIDE DEF P
  <2> QED
    BY <1>3
<1> HIDE DEF pixels
<1>5. /\ Sound(w) /\ w.x = v.x /\ w.y = v.y
      /\ \A p \in P : w.build[PixelAt(w, p)] = pixels[p]
      /\ \A p \in Window \ P : w.build[PixelAt(w, p)] = v.build[PixelAt(v, p)]
  <2>1. w = Draw(v, pixels) /\ P \in SUBSET Window /\ pixels \in [P -> Pixel]
    BY <1>2, <1>4
  <2> HIDE DEF P, w
  <2> QED
    BY <2>1, DrawGood
<1> HIDE DEF P, w
<1>6. Drawn(w, v, s, P)
  BY <1>4, <1>5 DEF Drawn
<1> QED
  BY <1>1, <1>2, <1>6

\* Drawing columns.
LEMMA DrawsColumns ==
  ASSUME NEW v, Sound(v), NEW s, IsScene(s), Inside(s, v.x, v.y), NEW xs
  PROVE  Drawn(draw_vert_line(v, s, xs), v, s, {p \in Window : p[1] \in xs})
<1> DEFINE columns == xs \cap (0 .. SCROLL_X_DIM - 1)
           P == columns \X (0 .. SCROLL_Y_DIM - 1)
           pixels == [p \in P |-> fill_vert_buffer(s, v.x + p[1], v.y)[p[2]]]
           w == Draw(v, pixels)
<1>1. draw_vert_line(v, s, xs) = w
  BY DEF draw_vert_line
<1>2. P = {p \in Window : p[1] \in xs} /\ P \in SUBSET Window
  BY DEF Window
<1>3. \A p \in P : /\ fill_vert_buffer(s, v.x + p[1], v.y)[p[2]] = Look(s, v.x + p[1], v.y + p[2])
                   /\ fill_vert_buffer(s, v.x + p[1], v.y)[p[2]] \in Pixel
  <2> SUFFICES ASSUME NEW i \in 0 .. SCROLL_X_DIM - 1, NEW j \in 0 .. SCROLL_Y_DIM - 1
               PROVE  /\ fill_vert_buffer(s, v.x + i, v.y)[j] = Look(s, v.x + i, v.y + j)
                      /\ fill_vert_buffer(s, v.x + i, v.y)[j] \in Pixel
    OBVIOUS
  <2>1. v.x + i \in Int /\ v.y \in Nat /\ v.y + SCROLL_Y_DIM <= s.height
    BY DEF Inside
  <2>2. /\ fill_vert_buffer(s, v.x + i, v.y) \in [0 .. SCROLL_Y_DIM - 1 -> Pixel]
        /\ \A k \in 0 .. SCROLL_Y_DIM - 1 :
             fill_vert_buffer(s, v.x + i, v.y)[k] = Look(s, v.x + i, v.y + k)
    BY <2>1, VertLooks, Zenon
  <2> QED
    BY <2>2
<1>4. pixels \in [P -> Pixel] /\ \A p \in P : pixels[p] = Look(s, v.x + p[1], v.y + p[2])
  <2> HIDE DEF P
  <2> QED
    BY <1>3
<1> HIDE DEF pixels
<1>5. /\ Sound(w) /\ w.x = v.x /\ w.y = v.y
      /\ \A p \in P : w.build[PixelAt(w, p)] = pixels[p]
      /\ \A p \in Window \ P : w.build[PixelAt(w, p)] = v.build[PixelAt(v, p)]
  <2>1. w = Draw(v, pixels) /\ P \in SUBSET Window /\ pixels \in [P -> Pixel]
    BY <1>2, <1>4
  <2> HIDE DEF P, w
  <2> QED
    BY <2>1, DrawGood
<1> HIDE DEF P, w
<1>6. Drawn(w, v, s, P)
  BY <1>4, <1>5 DEF Drawn
<1> QED
  BY <1>1, <1>2, <1>6

\* A room drawn from top to bottom is shown.
LEMMA RedrawShows ==
  ASSUME NEW v, Sound(v), NEW s, IsScene(s), Inside(s, v.x, v.y), NEW w, w = redraw_room(v, s)
  PROVE  Sound(w) /\ w.x = v.x /\ w.y = v.y /\ Shows(w, s)
<1>1. Drawn(w, v, s, {p \in Window : p[2] \in 0 .. SCROLL_Y_DIM - 1})
  BY DrawsRows DEF redraw_room
<1>2. Window = {p \in Window : p[2] \in 0 .. SCROLL_Y_DIM - 1}
  BY DEF Window
<1>3. Drawn(w, v, s, Window)
  BY <1>1, <1>2, Zenon
<1> QED
  BY <1>3 DEF Drawn, Shows

\* A window moved, and what it did not retain drawn.
LEMMA MoveShows ==
  ASSUME NEW v, Sound(v), NEW s, Shows(v, s), NEW x \in Nat, NEW y \in Nat,
         NEW w, w = set_view_window(v, x, y), NEW P, NEW u, Drawn(u, w, s, P),
         \A p \in Window \ P : <<w.x + p[1] - v.x, w.y + p[2] - v.y>> \in Window
  PROVE  Sound(u) /\ u.x = x /\ u.y = y /\ Shows(u, s)
<1>1. Sound(w) /\ w.x = x /\ w.y = y /\ Retained(v, w)
  BY WindowMoves
<1>2. Sound(u) /\ u.x = w.x /\ u.y = w.y
  BY DEF Drawn
<1>3. ASSUME NEW p \in Window
      PROVE  u.build[PixelAt(u, p)] = Look(s, u.x + p[1], u.y + p[2])
  <2>1. CASE p \in P
    BY <1>2, <2>1 DEF Drawn
  <2>2. CASE p \notin P
    <3> DEFINE r == <<w.x + p[1] - v.x, w.y + p[2] - v.y>>
    <3>1. u.build[PixelAt(u, p)] = w.build[PixelAt(w, p)]
      BY <2>2 DEF Drawn
    <3>2. r \in Window
      BY <2>2
    <3>3. w.build[PixelAt(w, p)] = v.build[PixelAt(v, r)]
      BY <1>1, <3>2, Zenon DEF Retained
    <3>4. v.build[PixelAt(v, r)] = Look(s, v.x + r[1], v.y + r[2])
      <4> HIDE DEF r
      <4> QED
        BY <3>2, Zenon DEF Shows
    <3>5. v.x + r[1] = u.x + p[1] /\ v.y + r[2] = u.y + p[2]
      <4>1. v.x \in Int /\ v.y \in Int
        BY DEF Sound, View
      <4>2. p[1] \in Int /\ p[2] \in Int
        BY Sizes DEF Window
      <4>3. v.x + (w.x + p[1] - v.x) = u.x + p[1] /\ v.y + (w.y + p[2] - v.y) = u.y + p[2]
        BY <1>1, <1>2, <4>1, <4>2
      <4> QED
        BY <4>3
    <3> HIDE DEF r
    <3> QED
      BY <3>1, <3>3, <3>4, <3>5
  <2> QED
    BY <2>1, <2>2
<1> QED
  BY <1>1, <1>2, <1>3 DEF Shows

\* The four planes put on the display, taken in turn, are the pixels of the window.
LEMMA DisplaysWindow ==
  ASSUME NEW v, Sound(v)
  PROVE  show_screen(v) = [p \in Window |-> v.build[PixelAt(v, p)]]
<1> DEFINE p_off == 3 - (v.x % 4)
           Plane(i) == v.off + (v.x \div 4) + v.y * SCROLL_X_WIDTH
                    + ((p_off - i + 4) % 4) * SCROLL_SIZE + (IF p_off < i THEN 1 ELSE 0)
<1>1. show_screen(v) =
        [p \in Window |-> v.build[Plane(p[1] % 4) + (p[1] \div 4) + p[2] * SCROLL_X_WIDTH]]
  BY DEF show_screen, Window
<1> SUFFICES ASSUME NEW p \in Window
             PROVE  Plane(p[1] % 4) + (p[1] \div 4) + p[2] * SCROLL_X_WIDTH = PixelAt(v, p)
  <2> HIDE DEF Plane
  <2> QED
    BY <1>1
<1> DEFINE a == p[1]
           b == p[2]
           x == v.x
           y == v.y
           W == SCROLL_X_WIDTH
           Z == SCROLL_SIZE
<1>2. a \in Nat /\ b \in Nat /\ x \in Nat /\ y \in Nat /\ v.off \in Int /\ W \in Nat /\ Z \in Nat
  BY Sizes DEF Window, Sound, View
<1>3. PixelAt(v, p) = v.off + ((x + a) \div 4) + (y + b) * W + (3 - ((x + a) % 4)) * Z
  BY DEF PixelAt, Address
<1>4. Plane(a % 4) = v.off + (x \div 4) + y * W + ((3 - (x % 4) - (a % 4) + 4) % 4) * Z
                       + (IF 3 - (x % 4) < a % 4 THEN 1 ELSE 0)
  OBVIOUS
<1> HIDE DEF a, b, x, y, W, Z, Plane
<1>5. PICK q \in Nat, r \in 0 .. 3 : x \div 4 = q /\ x % 4 = r /\ x = 4 * q + r
  BY <1>2
<1>6. PICK k \in Nat, i \in 0 .. 3 : a \div 4 = k /\ a % 4 = i /\ a = 4 * k + i
  BY <1>2
<1> DEFINE c == IF r + i < 4 THEN 0 ELSE 1
<1>7. (x + a) \div 4 = q + k + c /\ (x + a) % 4 = r + i - 4 * c
  BY <1>5, <1>6
<1>8. (3 - r - i + 4) % 4 = 3 - (r + i - 4 * c) /\ (IF 3 - r < i THEN 1 ELSE 0) = c
  OBVIOUS
<1>9. (y + b) * W = y * W + b * W /\ y * W \in Int /\ b * W \in Int
  BY <1>2, TimesSum
<1>10. c \in Int
  OBVIOUS
<1> HIDE DEF c
<1> DEFINE h == (3 - (r + i - 4 * c)) * Z
<1>11. h \in Int
  BY <1>2, <1>10
<1>12. PixelAt(v, p) = v.off + (q + k + c) + (y * W + b * W) + h
  BY <1>3, <1>7, <1>9, Zenon
<1>13. Plane(a % 4) = v.off + q + y * W + h + c
  BY <1>4, <1>5, <1>6, <1>8, Zenon
<1>14. Plane(a % 4) + (a \div 4) + b * W = PixelAt(v, p)
  <2> DEFINE e == y * W
             g == b * W
  <2>1. e \in Int /\ g \in Int /\ PixelAt(v, p) = v.off + (q + k + c) + (e + g) + h
        /\ Plane(a % 4) = v.off + q + e + h + c
    BY <1>9, <1>12, <1>13, Zenon
  <2> HIDE DEF h, e, g
  <2>2. v.off + q + e + h + c + k + g = v.off + (q + k + c) + (e + g) + h
    BY <1>2, <1>5, <1>6, <1>10, <1>11, <2>1
  <2> QED
    BY <1>6, <2>1, <2>2, Zenon DEF g
<1> QED
  BY <1>14, Zenon DEF a, b, W

-----------------------------------------------------------------------------
(***************************************************************************)
(* The picture follows the game.                                           *)
(***************************************************************************)

\* The build buffer holds what is to be seen of the room the player is in.
Right ==
  /\ cur_room = where /\ view.x = map.x /\ view.y = map.y
  /\ Inside(where, map.x, map.y) /\ Shows(view, where)

\* The picture.  From the moment a room has been drawn until another is entered the build
\* buffer is right; main waits only then, with the display showing it.
PictureInv ==
  /\ load \in Loads /\ where \in load.scenes /\ Sound(view) /\ enter_room \in BOOLEAN
  /\ map \in [x : Nat, y : Nat] /\ speed \in [x : Nat, y : Nat]
  /\ pc \in {"acquire", "fcntl", "push"} => enter_room
  /\ pc \in {"wait", "get"} => ~ enter_room
  /\ ~ enter_room => Right
  /\ pc = "wait" => shown = [p \in Window |-> Look(where, map.x + p[1], map.y + p[2])]


\* A new build buffer.
LEMMA NewView == Sound(set_mode_X) /\ set_mode_X.x = 0 /\ set_mode_X.y = 0
<1> DEFINE v == set_mode_X
           b == [a \in Fenced |-> IF a \in Buffer THEN Black ELSE MEM_FENCE_MAGIC]
<1>1. /\ v.x = 0 /\ v.y = 0 /\ v.off = BUILD_BASE_INIT /\ v.build = b
      /\ v = [x |-> 0, y |-> 0, off |-> BUILD_BASE_INIT, build |-> b]
  BY DEF set_mode_X
<1>2. b \in [Fenced -> Byte]
  <2>1. Black \in Byte /\ MEM_FENCE_MAGIC \in Byte
    BY DEF Pixel, Byte
  <2> QED
    BY <2>1
<1>3. FencesStand(v)
  BY <1>1 DEF FencesStand
<1> HIDE DEF v, b
<1>4. BUILD_BASE_INIT = BUILD_BASE_INIT - (0 \div 4) - 0 * SCROLL_X_WIDTH /\ BUILD_BASE_INIT \in Int
  BY Sizes
<1>5. Fits(v, 0, 0)
  <2>1. v.off = BUILD_BASE_INIT - (0 \div 4) - 0 * SCROLL_X_WIDTH /\ 0 \in Nat
    BY <1>1, <1>4
  <2> QED
    BY <2>1, MiddleFits
<1>6. v \in View
  BY <1>1, <1>2, <1>4 DEF View
<1> QED
  BY <1>1, <1>3, <1>5, <1>6 DEF Sound, v

\* The scenes of a session.
LEMMA Scenes ==
  ASSUME load \in Loads, NEW s \in load.scenes
  PROVE  IsScene(s) /\ Inside(s, 0, 0)
<1>1. IsScene(s)
  BY AdventureAssumption
<1>2. s.width >= SCROLL_X_DIM /\ s.height >= SCROLL_Y_DIM /\ SCROLL_X_DIM \in Nat /\ SCROLL_Y_DIM \in Nat
  BY <1>1, Sizes DEF IsScene
<1> QED
  BY <1>1, <1>2 DEF Inside

\* It holds at the beginning.
LEMMA PictureInit == Init => PictureInv
<1> SUFFICES ASSUME Init PROVE PictureInv
  OBVIOUS
<1>1. Sound(view)
  BY NewView DEF Init
<1>2. load \in Loads /\ where \in load.scenes
  BY AdventureAssumption DEF Init
<1> QED
  BY <1>1, <1>2 DEF Init, PictureInv, MOTION_SPEED

\* Steps that leave the picture alone.
LEMMA PictureKept ==
  ASSUME PictureInv, UNCHANGED <<load, where, cur_room, map, speed, enter_room, view, shown>>,
         pc' \in {"acquire", "fcntl", "push"} => pc \in {"acquire", "fcntl", "push"},
         pc' \in {"wait", "get"} => pc \in {"wait", "get"},
         pc' = "wait" => pc = "wait"
  PROVE  PictureInv'
<1>1. Right' <=> Right
  BY DEF Right, Shows, Inside, PixelAt, Address
<1> QED
  BY <1>1 DEF PictureInv, Sound, Fits, FencesStand

\* main acquires a resource, mode X perhaps.
LEMMA PictureAcquire == PictureInv /\ Acquire => PictureInv'
<1> SUFFICES ASSUME PictureInv, Acquire PROVE PictureInv'
  OBVIOUS
<1>1. Sound(view')
  <2>1. view' = view \/ view' = set_mode_X
    BY DEF Acquire
  <2>2. Sound(view) /\ Sound(set_mode_X)
    BY NewView DEF PictureInv
  <2> QED
    BY <2>1, <2>2
<1>2. /\ UNCHANGED <<load, where, map, speed, enter_room>> /\ pc' = "push" /\ enter_room
  BY DEF Acquire, PictureInv
<1> QED
  BY <1>1, <1>2 DEF PictureInv

\* A room is entered and drawn, and the screen shown.
LEMMA PictureShow == PictureInv /\ Show => PictureInv'
<1> SUFFICES ASSUME PictureInv, Show PROVE PictureInv'
  OBVIOUS
<1>0. load \in Loads /\ where \in load.scenes /\ Sound(view)
  BY DEF PictureInv
<1>1. UNCHANGED <<load, where, speed>> /\ pc' = "wait" /\ enter_room' = FALSE
      /\ shown' = show_screen(view')
  BY DEF Show
<1>2. Sound(view') /\ map' \in [x : Nat, y : Nat] /\ Right'
  <2>1. CASE enter_room
    <3> DEFINE v == set_view_window(view, 0, 0)
    <3>1. map' = [x |-> 0, y |-> 0] /\ cur_room' = where /\ view' = redraw_room(v, where)
      BY <2>1 DEF Show
    <3>2. Sound(v) /\ v.x = 0 /\ v.y = 0
      <4>1. 0 \in Nat
        OBVIOUS
      <4> QED
        BY <1>0, <4>1, WindowMoves
    <3>3. IsScene(where) /\ Inside(where, 0, 0)
      BY <1>0, Scenes
    <3> HIDE DEF v
    <3>4. Sound(view') /\ view'.x = v.x /\ view'.y = v.y /\ Shows(view', where)
      <4>1. Inside(where, v.x, v.y)
        BY <3>2, <3>3
      <4> QED
        BY <3>1, <3>2, <3>3, <4>1, RedrawShows, Zenon
    <3> QED
      BY <1>1, <3>1, <3>2, <3>3, <3>4 DEF Right
  <2>2. CASE ~ enter_room
    <3>1. UNCHANGED <<map, cur_room, view>>
      BY <2>2 DEF Show
    <3>2. Right
      BY <2>2 DEF PictureInv
    <3> QED
      BY <1>0, <1>1, <3>1, <3>2 DEF Right, PictureInv
  <2> QED
    BY <2>1, <2>2 DEF PictureInv
<1>3. shown' = [p \in Window |-> Look(where', map'.x + p[1], map'.y + p[2])]
  <2>1. shown' = [p \in Window |-> view'.build[PixelAt(view', p)]]
    BY <1>1, <1>2, DisplaysWindow
  <2>2. \A p \in Window : view'.build[PixelAt(view', p)] = Look(where', map'.x + p[1], map'.y + p[2])
    BY <1>2, Zenon DEF Right, Shows
  <2> QED
    BY <2>1, <2>2, Zenon
<1> QED
  BY <1>0, <1>1, <1>2, <1>3 DEF PictureInv

\* A move of the window over the room: w is the window after the move, P what is drawn.
LEMMA PictureMoves ==
  ASSUME PictureInv, pc = "get", NEW x \in Nat, NEW y \in Nat, Inside(where, x, y),
         NEW P, Drawn(view', set_view_window(view, x, y), cur_room, P),
         \A p \in Window \ P : <<x + p[1] - map.x, y + p[2] - map.y>> \in Window,
         map' = [x |-> x, y |-> y], pc' \in {"top", "pop"},
         UNCHANGED <<load, where, cur_room, speed, enter_room>>
  PROVE  PictureInv'
<1>1. ~ enter_room /\ Right /\ Sound(view) /\ load \in Loads /\ where \in load.scenes
      /\ speed \in [x : Nat, y : Nat] /\ enter_room \in BOOLEAN
  BY DEF PictureInv
<1>2. cur_room = where /\ view.x = map.x /\ view.y = map.y /\ Shows(view, where)
  BY <1>1 DEF Right
<1> DEFINE w == set_view_window(view, x, y)
<1>3. w.x = x /\ w.y = y
  <2> HIDE DEF w
  <2>1. w = set_view_window(view, x, y)
    BY DEF w
  <2>2. Arrived(w, view, x, y)
    BY <1>1, <2>1, WindowArrives
  <2> QED
    BY <2>2 DEF Arrived
<1>4. \A p \in Window \ P : <<w.x + p[1] - view.x, w.y + p[2] - view.y>> \in Window
  <2> HIDE DEF w
  <2> QED
    BY <1>2, <1>3
<1>5. Drawn(view', w, where, P)
  BY <1>2
<1>6. Sound(view') /\ view'.x = x /\ view'.y = y /\ Shows(view', where)
  <2>1. w = set_view_window(view, x, y)
    OBVIOUS
  <2> HIDE DEF w
  <2> QED
    BY <1>1, <1>2, <1>4, <1>5, <2>1, MoveShows
<1>7. map' \in [x : Nat, y : Nat] /\ map'.x = x /\ map'.y = y
  OBVIOUS
<1>8. Right'
  BY <1>2, <1>6, <1>7 DEF Right
<1> QED
  BY <1>1, <1>6, <1>7, <1>8 DEF PictureInv

\* The photograph moves down.
LEMMA PictureMovesDown ==
  ASSUME PictureInv, pc = "get", move_photo_down, pc' \in {"top", "pop"},
         UNCHANGED <<load, where, cur_room, speed, enter_room>>
  PROVE  PictureInv'
<1> DEFINE delta == Min({speed.y, map.y})
           x == map.x
           y == map.y - delta
           ls == 0 .. delta - 1
           P == {p \in Window : p[2] \in ls}
           w == set_view_window(view, x, y)
<1>1. /\ Right /\ Sound(view) /\ load \in Loads /\ where \in load.scenes
      /\ map \in [x : Nat, y : Nat] /\ speed \in [x : Nat, y : Nat]
  BY DEF PictureInv
<1>2. cur_room = where /\ Inside(where, map.x, map.y) /\ IsScene(where)
  BY <1>1, Scenes DEF Right
<1>3. SCROLL_X_DIM \in Nat /\ SCROLL_Y_DIM \in Nat /\ where.width \in Nat /\ where.height \in Nat
      /\ map.x \in Nat /\ map.y \in Nat /\ speed.x \in Nat /\ speed.y \in Nat
      /\ map.x + SCROLL_X_DIM <= where.width /\ map.y + SCROLL_Y_DIM <= where.height
  BY <1>1, <1>2, Sizes DEF IsScene, Inside
<1>4. delta \in Nat /\ delta <= map.y
  <2> DEFINE c == speed.y
             d == map.y
  <2>1. c \in Int /\ d \in Int /\ c >= 0 /\ d >= 0
    BY <1>3
  <2>2. delta = IF c <= d THEN c ELSE d
    <3>1. Min({c, d}) = IF c <= d THEN c ELSE d
      <4> HIDE DEF c, d
      <4> QED
        BY <2>1, MinMaxOfTwo, Zenon
    <3> QED
      BY <3>1, Zenon
  <2> HIDE DEF c, d, delta
  <2>3. delta \in Nat /\ delta <= d
    BY <2>1, <2>2
  <2> QED
    BY <2>3 DEF d
<1>5. /\ map' = [map EXCEPT !.y = y]
      /\ view' = draw_horiz_line(w, cur_room, ls)
  BY Zenon DEF move_photo_down
<1> HIDE DEF delta
<1>6. x \in Nat /\ y \in Nat /\ Inside(where, x, y)
  BY <1>3, <1>4 DEF Inside
<1>7. map' = [x |-> x, y |-> y]
  BY <1>1, <1>5
<1>8. \A p \in Window \ P : <<x + p[1] - map.x, y + p[2] - map.y>> \in Window
  <2> SUFFICES ASSUME NEW i \in 0 .. SCROLL_X_DIM - 1, NEW j \in 0 .. SCROLL_Y_DIM - 1,
                      j \notin ls
               PROVE  x + i - map.x \in 0 .. SCROLL_X_DIM - 1 /\ y + j - map.y \in 0 .. SCROLL_Y_DIM - 1
    BY DEF Window
  <2> QED
    BY <1>3, <1>4
<1> HIDE DEF x, y, ls
<1>9. Drawn(view', w, cur_room, P)
  <2>1. Sound(w) /\ w.x = x /\ w.y = y
    <3>1. Arrived(w, view, x, y)
      BY <1>1, <1>6, WindowArrives
    <3> QED
      BY <3>1, Zenon DEF Arrived
  <2> HIDE DEF w
  <2>2. Inside(cur_room, w.x, w.y) /\ IsScene(cur_room)
    BY <1>2, <1>6, <2>1
  <2> QED
    BY <1>5, <2>1, <2>2, DrawsRows
<1> HIDE DEF P
<1> QED
  BY <1>6, <1>7, <1>8, <1>9, PictureMoves

\* The photograph moves to the left.
LEMMA PictureMovesLeft ==
  ASSUME PictureInv, pc = "get", move_photo_left, pc' \in {"top", "pop"},
         UNCHANGED <<load, where, cur_room, speed, enter_room>>
  PROVE  PictureInv'
<1> DEFINE delta == Min({speed.x, where.width - SCROLL_X_DIM - map.x})
           x == map.x + delta
           y == map.y
           ls == SCROLL_X_DIM - delta .. SCROLL_X_DIM - 1
           P == {p \in Window : p[1] \in ls}
           w == set_view_window(view, x, y)
<1>1. /\ Right /\ Sound(view) /\ load \in Loads /\ where \in load.scenes
      /\ map \in [x : Nat, y : Nat] /\ speed \in [x : Nat, y : Nat]
  BY DEF PictureInv
<1>2. cur_room = where /\ Inside(where, map.x, map.y) /\ IsScene(where)
  BY <1>1, Scenes DEF Right
<1>3. SCROLL_X_DIM \in Nat /\ SCROLL_Y_DIM \in Nat /\ where.width \in Nat /\ where.height \in Nat
      /\ map.x \in Nat /\ map.y \in Nat /\ speed.x \in Nat /\ speed.y \in Nat
      /\ map.x + SCROLL_X_DIM <= where.width /\ map.y + SCROLL_Y_DIM <= where.height
  BY <1>1, <1>2, Sizes DEF IsScene, Inside
<1>4. delta \in Nat /\ delta <= where.width - SCROLL_X_DIM - map.x
  <2> DEFINE c == speed.x
             d == where.width - SCROLL_X_DIM - map.x
  <2>1. c \in Int /\ d \in Int /\ c >= 0 /\ d >= 0
    BY <1>3
  <2>2. delta = IF c <= d THEN c ELSE d
    <3>1. Min({c, d}) = IF c <= d THEN c ELSE d
      <4> HIDE DEF c, d
      <4> QED
        BY <2>1, MinMaxOfTwo, Zenon
    <3> QED
      BY <3>1, Zenon
  <2> HIDE DEF c, d, delta
  <2>3. delta \in Nat /\ delta <= d
    BY <2>1, <2>2
  <2> QED
    BY <2>3 DEF d
<1>5. /\ map' = [map EXCEPT !.x = x]
      /\ view' = draw_vert_line(w, cur_room, ls)
  BY Zenon DEF move_photo_left
<1> HIDE DEF delta
<1>6. x \in Nat /\ y \in Nat /\ Inside(where, x, y)
  BY <1>3, <1>4 DEF Inside
<1>7. map' = [x |-> x, y |-> y]
  BY <1>1, <1>5
<1>8. \A p \in Window \ P : <<x + p[1] - map.x, y + p[2] - map.y>> \in Window
  <2> SUFFICES ASSUME NEW i \in 0 .. SCROLL_X_DIM - 1, NEW j \in 0 .. SCROLL_Y_DIM - 1,
                      i \notin ls
               PROVE  x + i - map.x \in 0 .. SCROLL_X_DIM - 1 /\ y + j - map.y \in 0 .. SCROLL_Y_DIM - 1
    BY DEF Window
  <2> QED
    BY <1>3, <1>4
<1> HIDE DEF x, y, ls
<1>9. Drawn(view', w, cur_room, P)
  <2>1. Sound(w) /\ w.x = x /\ w.y = y
    <3>1. Arrived(w, view, x, y)
      BY <1>1, <1>6, WindowArrives
    <3> QED
      BY <3>1, Zenon DEF Arrived
  <2> HIDE DEF w
  <2>2. Inside(cur_room, w.x, w.y) /\ IsScene(cur_room)
    BY <1>2, <1>6, <2>1
  <2> QED
    BY <1>5, <2>1, <2>2, DrawsColumns
<1> HIDE DEF P
<1> QED
  BY <1>6, <1>7, <1>8, <1>9, PictureMoves

\* The photograph moves to the right.
LEMMA PictureMovesRight ==
  ASSUME PictureInv, pc = "get", move_photo_right, pc' \in {"top", "pop"},
         UNCHANGED <<load, where, cur_room, speed, enter_room>>
  PROVE  PictureInv'
<1> DEFINE delta == Min({speed.x, map.x})
           x == map.x - delta
           y == map.y
           ls == 0 .. delta - 1
           P == {p \in Window : p[1] \in ls}
           w == set_view_window(view, x, y)
<1>1. /\ Right /\ Sound(view) /\ load \in Loads /\ where \in load.scenes
      /\ map \in [x : Nat, y : Nat] /\ speed \in [x : Nat, y : Nat]
  BY DEF PictureInv
<1>2. cur_room = where /\ Inside(where, map.x, map.y) /\ IsScene(where)
  BY <1>1, Scenes DEF Right
<1>3. SCROLL_X_DIM \in Nat /\ SCROLL_Y_DIM \in Nat /\ where.width \in Nat /\ where.height \in Nat
      /\ map.x \in Nat /\ map.y \in Nat /\ speed.x \in Nat /\ speed.y \in Nat
      /\ map.x + SCROLL_X_DIM <= where.width /\ map.y + SCROLL_Y_DIM <= where.height
  BY <1>1, <1>2, Sizes DEF IsScene, Inside
<1>4. delta \in Nat /\ delta <= map.x
  <2> DEFINE c == speed.x
             d == map.x
  <2>1. c \in Int /\ d \in Int /\ c >= 0 /\ d >= 0
    BY <1>3
  <2>2. delta = IF c <= d THEN c ELSE d
    <3>1. Min({c, d}) = IF c <= d THEN c ELSE d
      <4> HIDE DEF c, d
      <4> QED
        BY <2>1, MinMaxOfTwo, Zenon
    <3> QED
      BY <3>1, Zenon
  <2> HIDE DEF c, d, delta
  <2>3. delta \in Nat /\ delta <= d
    BY <2>1, <2>2
  <2> QED
    BY <2>3 DEF d
<1>5. /\ map' = [map EXCEPT !.x = x]
      /\ view' = draw_vert_line(w, cur_room, ls)
  BY Zenon DEF move_photo_right
<1> HIDE DEF delta
<1>6. x \in Nat /\ y \in Nat /\ Inside(where, x, y)
  BY <1>3, <1>4 DEF Inside
<1>7. map' = [x |-> x, y |-> y]
  BY <1>1, <1>5
<1>8. \A p \in Window \ P : <<x + p[1] - map.x, y + p[2] - map.y>> \in Window
  <2> SUFFICES ASSUME NEW i \in 0 .. SCROLL_X_DIM - 1, NEW j \in 0 .. SCROLL_Y_DIM - 1,
                      i \notin ls
               PROVE  x + i - map.x \in 0 .. SCROLL_X_DIM - 1 /\ y + j - map.y \in 0 .. SCROLL_Y_DIM - 1
    BY DEF Window
  <2> QED
    BY <1>3, <1>4
<1> HIDE DEF x, y, ls
<1>9. Drawn(view', w, cur_room, P)
  <2>1. Sound(w) /\ w.x = x /\ w.y = y
    <3>1. Arrived(w, view, x, y)
      BY <1>1, <1>6, WindowArrives
    <3> QED
      BY <3>1, Zenon DEF Arrived
  <2> HIDE DEF w
  <2>2. Inside(cur_room, w.x, w.y) /\ IsScene(cur_room)
    BY <1>2, <1>6, <2>1
  <2> QED
    BY <1>5, <2>1, <2>2, DrawsColumns
<1> HIDE DEF P
<1> QED
  BY <1>6, <1>7, <1>8, <1>9, PictureMoves

\* The photograph moves up.
LEMMA PictureMovesUp ==
  ASSUME PictureInv, pc = "get", move_photo_up, pc' \in {"top", "pop"},
         UNCHANGED <<load, where, cur_room, speed, enter_room>>
  PROVE  PictureInv'
<1> DEFINE delta == Min({speed.y, where.height - SCROLL_Y_DIM - map.y})
           x == map.x
           y == map.y + delta
           ls == SCROLL_Y_DIM - delta .. SCROLL_Y_DIM - 1
           P == {p \in Window : p[2] \in ls}
           w == set_view_window(view, x, y)
<1>1. /\ Right /\ Sound(view) /\ load \in Loads /\ where \in load.scenes
      /\ map \in [x : Nat, y : Nat] /\ speed \in [x : Nat, y : Nat]
  BY DEF PictureInv
<1>2. cur_room = where /\ Inside(where, map.x, map.y) /\ IsScene(where)
  BY <1>1, Scenes DEF Right
<1>3. SCROLL_X_DIM \in Nat /\ SCROLL_Y_DIM \in Nat /\ where.width \in Nat /\ where.height \in Nat
      /\ map.x \in Nat /\ map.y \in Nat /\ speed.x \in Nat /\ speed.y \in Nat
      /\ map.x + SCROLL_X_DIM <= where.width /\ map.y + SCROLL_Y_DIM <= where.height
  BY <1>1, <1>2, Sizes DEF IsScene, Inside
<1>4. delta \in Nat /\ delta <= where.height - SCROLL_Y_DIM - map.y
  <2> DEFINE c == speed.y
             d == where.height - SCROLL_Y_DIM - map.y
  <2>1. c \in Int /\ d \in Int /\ c >= 0 /\ d >= 0
    BY <1>3
  <2>2. delta = IF c <= d THEN c ELSE d
    <3>1. Min({c, d}) = IF c <= d THEN c ELSE d
      <4> HIDE DEF c, d
      <4> QED
        BY <2>1, MinMaxOfTwo, Zenon
    <3> QED
      BY <3>1, Zenon
  <2> HIDE DEF c, d, delta
  <2>3. delta \in Nat /\ delta <= d
    BY <2>1, <2>2
  <2> QED
    BY <2>3 DEF d
<1>5. /\ map' = [map EXCEPT !.y = y]
      /\ view' = draw_horiz_line(w, cur_room, ls)
  BY Zenon DEF move_photo_up
<1> HIDE DEF delta
<1>6. x \in Nat /\ y \in Nat /\ Inside(where, x, y)
  BY <1>3, <1>4 DEF Inside
<1>7. map' = [x |-> x, y |-> y]
  BY <1>1, <1>5
<1>8. \A p \in Window \ P : <<x + p[1] - map.x, y + p[2] - map.y>> \in Window
  <2> SUFFICES ASSUME NEW i \in 0 .. SCROLL_X_DIM - 1, NEW j \in 0 .. SCROLL_Y_DIM - 1,
                      j \notin ls
               PROVE  x + i - map.x \in 0 .. SCROLL_X_DIM - 1 /\ y + j - map.y \in 0 .. SCROLL_Y_DIM - 1
    BY DEF Window
  <2> QED
    BY <1>3, <1>4
<1> HIDE DEF x, y, ls
<1>9. Drawn(view', w, cur_room, P)
  <2>1. Sound(w) /\ w.x = x /\ w.y = y
    <3>1. Arrived(w, view, x, y)
      BY <1>1, <1>6, WindowArrives
    <3> QED
      BY <3>1, Zenon DEF Arrived
  <2> HIDE DEF w
  <2>2. Inside(cur_room, w.x, w.y) /\ IsScene(cur_room)
    BY <1>2, <1>6, <2>1
  <2> QED
    BY <1>5, <2>1, <2>2, DrawsRows
<1> HIDE DEF P
<1> QED
  BY <1>6, <1>7, <1>8, <1>9, PictureMoves

\* The arrow keys.
LEMMA ArrowKeys == Range(Arrow) = {"UP", "DOWN", "RIGHT", "LEFT"}
BY DEF Arrow, Range

\* What a turn does with the command.
Does(in) ==
  \/ in.pushed \in Range(Arrow) /\ Scroll(in)
  \/ ChangeRoom(in) \/ RedrawRoom(in) \/ DiscardText(in) \/ Refused(in) \/ Nothing(in)

\* A turn does one of these, and leaves the rest.
LEMMA TurnDoes ==
  ASSUME NEW bytes, Turn(bytes)
  PROVE  /\ Does(get_command(input, bytes)) /\ pc = "get" /\ pc' \in {"top", "pop"}
         /\ UNCHANGED <<load, endvars, shown, bar, due>>
<1> DEFINE in == get_command(input, bytes)
<1>1. /\ pc = "get" /\ pc' \in {"top", "pop"} /\ UNCHANGED <<load, endvars, shown, bar, due>>
  BY DEF Turn
<1>2. \/ in.pushed \in Range(Arrow) /\ Scroll(in)
      \/ Walk(in) \/ handle_typing(in) \/ Nothing(in)
  BY DEF Turn
<1> HIDE DEF in
<1>3. Does(in)
  BY <1>2 DEF Walk, handle_typing, Does
<1> QED
  BY <1>1, <1>3 DEF in

\* An arrow key is one of the four moves.
LEMMA ScrollMoves ==
  ASSUME NEW in, in.pushed \in Range(Arrow), Scroll(in)
  PROVE  move_photo_down \/ move_photo_left \/ move_photo_up \/ move_photo_right
<1>1. in.pushed = "UP" \/ in.pushed = "RIGHT" \/ in.pushed = "DOWN" \/ in.pushed = "LEFT"
  BY ArrowKeys
<1>2. CASE in.pushed = "UP"
  BY <1>2 DEF Scroll
<1>3. CASE in.pushed = "RIGHT"
  BY <1>3 DEF Scroll
<1>4. CASE in.pushed = "DOWN"
  BY <1>4 DEF Scroll
<1>5. CASE in.pushed = "LEFT"
  BY <1>5 DEF Scroll
<1> QED
  BY <1>1, <1>2, <1>3, <1>4, <1>5

\* The lower half of a turn.
LEMMA PictureTurn ==
  ASSUME PictureInv, NEW bytes, Turn(bytes)
  PROVE  PictureInv'
<1> DEFINE in == get_command(input, bytes)
<1>1. /\ Does(in) /\ pc = "get" /\ pc' \in {"top", "pop"} /\ UNCHANGED <<load, shown>>
  BY TurnDoes DEF endvars
<1> HIDE DEF in
<1>0. /\ load \in Loads /\ where \in load.scenes /\ Sound(view) /\ Right /\ ~ enter_room
      /\ enter_room \in BOOLEAN /\ map \in [x : Nat, y : Nat] /\ speed \in [x : Nat, y : Nat]
  BY <1>1 DEF PictureInv
<1>2. CASE in.pushed \in Range(Arrow) /\ Scroll(in)
  <2>1. UNCHANGED <<load, where, cur_room, speed, enter_room>>
    BY <1>1, <1>2 DEF Scroll
  <2>2. move_photo_down \/ move_photo_left \/ move_photo_up \/ move_photo_right
    BY <1>2, ScrollMoves
  <2>3. CASE move_photo_down
    BY <1>1, <2>1, <2>3, PictureMovesDown
  <2>4. CASE move_photo_left
    BY <1>1, <2>1, <2>4, PictureMovesLeft
  <2>5. CASE move_photo_up
    BY <1>1, <2>1, <2>5, PictureMovesUp
  <2>6. CASE move_photo_right
    BY <1>1, <2>1, <2>6, PictureMovesRight
  <2> QED
    BY <2>2, <2>3, <2>4, <2>5, <2>6
<1>3. CASE ChangeRoom(in)
  <2>1. where' \in load.scenes /\ enter_room' = TRUE /\ UNCHANGED <<map, speed, view>>
    BY <1>3 DEF ChangeRoom
  <2> QED
    BY <1>0, <1>1, <2>1 DEF PictureInv
<1>4. CASE RedrawRoom(in)
  <2>1. /\ where' \in load.scenes /\ where'.photo = where.photo /\ cur_room' = where'
        /\ speed' \in [x : load.speeds, y : load.speeds]
        /\ view' = redraw_room(view, where') /\ UNCHANGED <<map, enter_room>>
    BY <1>4 DEF RedrawRoom
  <2>2. where'.width = where.width /\ where'.height = where.height
    <3>1. \A r, t \in load.scenes : r.photo = t.photo => r.width = t.width /\ r.height = t.height
      BY <1>0, AdventureAssumption, Zenon
    <3> QED
      BY <1>0, <2>1, <3>1, Zenon
  <2>3. view.x = map.x /\ view.y = map.y /\ Inside(where', map.x, map.y)
    BY <1>0, <2>2 DEF Right, Inside
  <2>4. IsScene(where')
    <3>1. \A r \in load.scenes : IsScene(r)
      BY <1>0, AdventureAssumption, Zenon
    <3> QED
      BY <2>1, <3>1, Zenon
  <2>5. Sound(view') /\ view'.x = view.x /\ view'.y = view.y /\ Shows(view', where')
    <3>1. Inside(where', view.x, view.y)
      BY <2>3
    <3> QED
      BY <1>0, <2>1, <2>4, <3>1, RedrawShows
  <2>6. Right'
    BY <2>1, <2>3, <2>5 DEF Right
  <2>7. speed' \in [x : Nat, y : Nat]
    <3>1. load.speeds \subseteq Nat
      BY <1>0, AdventureAssumption, Zenon
    <3> QED
      BY <2>1, <3>1
  <2> QED
    BY <1>0, <1>1, <2>1, <2>5, <2>6, <2>7 DEF PictureInv
<1>5. CASE DiscardText(in) \/ Refused(in) \/ Nothing(in)
  <2>1. UNCHANGED <<where, cur_room, map, speed, enter_room, view>>
    BY <1>5 DEF DiscardText, Refused, Nothing
  <2> QED
    BY <1>1, <2>1, PictureKept
<1> QED
  BY <1>1, <1>2, <1>3, <1>4, <1>5 DEF Does

\* Every step keeps the picture right.
LEMMA PictureNext == PictureInv /\ [Next]_vars => PictureInv'
<1> SUFFICES ASSUME PictureInv, [Next]_vars PROVE PictureInv'
  OBVIOUS
<1>1. CASE Acquire
  BY <1>1, PictureAcquire
<1>2. CASE Show
  BY <1>2, PictureShow
<1>3. CASE \E bytes \in load.bytes : Turn(bytes)
  BY <1>3, PictureTurn
<1>4. CASE \/ SetNonblocking \/ push_cleanup \/ OutOfMemory \/ Panic \/ NextTurn
           \/ pop_cleanup \/ Execute \/ End
  <2>1. /\ UNCHANGED <<load, where, cur_room, map, speed, enter_room, view, shown>>
        /\ pc' \in {"acquire", "fcntl", "push"} => pc \in {"acquire", "fcntl", "push"}
        /\ pc' \in {"wait", "get"} => pc \in {"wait", "get"}
        /\ pc' # "wait"
    BY <1>4 DEF SetNonblocking, push_cleanup, OutOfMemory, Panic, NextTurn, pop_cleanup, Execute,
                End, loopvars
  <2> QED
    BY <2>1, PictureKept
<1>5. CASE \/ status_thread \/ Tick \/ UNCHANGED vars
           \/ \E k \in load.signals : catch_signal(k) \/ Killed(k)
  <2>1. /\ UNCHANGED <<load, where, cur_room, map, speed, enter_room, view, shown>>
        /\ pc' = pc \/ pc' \in {"pop", "ended"}
    BY <1>5 DEF status_thread, WaitForMessage, Restart, TimeOut, ClearMessage, catch_signal, Killed,
                Tick, vars, loopvars
  <2> QED
    BY <2>1, PictureKept
<1> QED
  BY <1>1, <1>2, <1>3, <1>4, <1>5 DEF Next, main, Ended

\* The invariant of the picture.
LEMMA PictureRight == Spec => []PictureInv
BY PictureInit, PictureNext, PTL DEF Spec

\* While the player looks at it, the display shows the window of the room that game_info
\* says it shows, pixel by pixel, for rooms, objects, speeds and buffers of any size.
THEOREM RoomShown == Spec => []ShowsRoom
<1>1. PictureInv => ShowsRoom
  BY DEF PictureInv, ShowsRoom
<1> QED
  BY <1>1, PictureRight, PTL

\* Nothing is ever written outside of the build buffer: the test that clear_mode_X makes
\* at the end succeeds.
THEOREM FencesNeverHit == Spec => []FenceIntact
<1>1. PictureInv => FenceIntact
  BY DEF PictureInv, FenceIntact, Sound
<1> QED
  BY <1>1, PictureRight, PTL

\* The window stays inside the photograph.
THEOREM StaysInside == Spec => []WindowInside
<1>1. PictureInv => WindowInside
  <2> SUFFICES ASSUME PictureInv, ~ enter_room
               PROVE  map.x \in 0 .. where.width - SCROLL_X_DIM
                      /\ map.y \in 0 .. where.height - SCROLL_Y_DIM
    BY DEF PictureInv, WindowInside
  <2>1. Inside(where, map.x, map.y)
    BY DEF PictureInv, Right
  <2>2. where.width \in Nat /\ where.height \in Nat
    BY Scenes DEF PictureInv, IsScene
  <2> QED
    BY <2>1, <2>2, Sizes DEF Inside
<1> QED
  BY <1>1, PictureRight, PTL

-----------------------------------------------------------------------------
(***************************************************************************)
(* Cleanups run once each.                                                 *)
(***************************************************************************)

\* The stacks of cleanups, by their size.
Stacks == {<<>>, <<"thread">>, <<"modeX", "thread">>, <<"tty", "modeX", "thread">>}

\* The cleanups.  What is on the stack or in main's hands is held, what is held is there,
\* lost, or the mode of stdin, and nothing is in two places.
CleanupInv ==
  /\ stack \in Stacks
  /\ Range(stack) \cup InHand \subseteq held
  /\ held \subseteq Range(stack) \cup InHand \cup lost \cup {"nonblock"}
  /\ Range(stack) \cap InHand = {}
  /\ pc \in {"acquire", "fcntl", "push"} => Len(stack) < 3
  /\ pc = "ended" /\ stack # <<>> => killed

\* The four stacks: what is on them, and what comes next.
LEMMA StackFacts ==
  /\ Range(<<>>) = {} /\ Range(<<"thread">>) = {"thread"}
  /\ Range(<<"modeX", "thread">>) = {"modeX", "thread"}
  /\ Range(<<"tty", "modeX", "thread">>) = {"tty", "modeX", "thread"}
BY DEF Range

\* What is acquired next, by the stack.
LEMMA NextIs ==
  ASSUME stack \in Stacks, Len(stack) < 3
  PROVE  \/ stack = <<>> /\ NextResource = "thread"
         \/ stack = <<"thread">> /\ NextResource = "modeX"
         \/ stack = <<"modeX", "thread">> /\ NextResource = "tty"
<1>1. CASE stack = <<>>
  BY <1>1 DEF NextResource, Acquired
<1>2. CASE stack = <<"thread">>
  BY <1>2 DEF NextResource, Acquired
<1>3. CASE stack = <<"modeX", "thread">>
  BY <1>3 DEF NextResource, Acquired
<1>4. CASE stack = <<"tty", "modeX", "thread">>
  BY <1>4
<1> QED
  BY <1>1, <1>2, <1>3, <1>4 DEF Stacks

\* A cleanup pushed onto one other.
LEMMA OntoOne ==
  ASSUME NEW S, NEW a \in S, NEW b \in S
  PROVE  <<a>> \o <<b>> = <<a, b>>
<1> DEFINE s == <<a>> \o <<b>>
           t == <<a, b>>
<1>1. <<a>> \in Seq(S) /\ <<b>> \in Seq(S) /\ Len(<<a>>) = 1 /\ Len(<<b>>) = 1
  OBVIOUS
<1>2. Len(s) = 2 /\ s \in Seq(S)
  BY <1>1
<1>3. s[1] = a /\ s[2] = b
  BY <1>1
<1>4. t[1] = a /\ t[2] = b /\ t = [i \in 1 .. 2 |-> t[i]]
  OBVIOUS
<1> HIDE DEF s, t
<1>5. s = [i \in 1 .. 2 |-> s[i]]
  BY <1>2
<1>6. \A i \in 1 .. 2 : s[i] = t[i]
  BY <1>3, <1>4
<1> QED
  BY <1>4, <1>5, <1>6, Zenon DEF s, t

\* A cleanup pushed onto two others.
LEMMA OntoTwo ==
  ASSUME NEW S, NEW a \in S, NEW b \in S, NEW c \in S
  PROVE  <<a>> \o <<b, c>> = <<a, b, c>>
<1> DEFINE s == <<a>> \o <<b, c>>
           t == <<a, b, c>>
<1>1. <<a>> \in Seq(S) /\ <<b, c>> \in Seq(S) /\ Len(<<a>>) = 1 /\ Len(<<b, c>>) = 2
  OBVIOUS
<1>2. Len(s) = 3 /\ s \in Seq(S)
  BY <1>1
<1>3. s[1] = a /\ s[2] = b /\ s[3] = c
  BY <1>1
<1>4. t[1] = a /\ t[2] = b /\ t[3] = c /\ t = [i \in 1 .. 3 |-> t[i]]
  OBVIOUS
<1> HIDE DEF s, t
<1>5. s = [i \in 1 .. 3 |-> s[i]]
  BY <1>2
<1>6. \A i \in 1 .. 3 : s[i] = t[i]
  BY <1>3, <1>4
<1> QED
  BY <1>4, <1>5, <1>6, Zenon DEF s, t

\* Pushing what comes next.
LEMMA PushesNext ==
  ASSUME stack \in Stacks, Len(stack) < 3, stack' = <<NextResource>> \o stack
  PROVE  /\ stack' \in Stacks /\ Range(stack') = Range(stack) \cup {NextResource}
         /\ NextResource # "tty" => Len(stack') < 3
         /\ NextResource \in Resources /\ NextResource \notin Range(stack)
<1>1. CASE stack = <<>> /\ NextResource = "thread"
  <2>1. stack' = <<"thread">>
    BY <1>1
  <2> QED
    BY <1>1, <2>1, StackFacts DEF Stacks, Resources
<1>2. CASE stack = <<"thread">> /\ NextResource = "modeX"
  <2>1. stack' = <<"modeX", "thread">>
    <3>1. "modeX" \in Resources /\ "thread" \in Resources
      BY DEF Resources
    <3>2. <<"modeX">> \o <<"thread">> = <<"modeX", "thread">>
      BY <3>1, OntoOne
    <3> QED
      BY <1>2, <3>2
  <2>2. Len(stack') = 2
    <3>1. Len(<<"modeX", "thread">>) = 2
      OBVIOUS
    <3> QED
      BY <2>1, <3>1, Zenon
  <2>3. stack' \in Stacks
    BY <2>1, Zenon DEF Stacks
  <2>4. Range(stack') = {"modeX", "thread"} /\ Range(stack) = {"thread"}
    BY <1>2, <2>1, StackFacts, Zenon
  <2> QED
    BY <1>2, <2>2, <2>3, <2>4 DEF Resources
<1>3. CASE stack = <<"modeX", "thread">> /\ NextResource = "tty"
  <2>1. stack' = <<"tty", "modeX", "thread">>
    <3>1. "tty" \in Resources /\ "modeX" \in Resources /\ "thread" \in Resources
      BY DEF Resources
    <3>2. <<"tty">> \o <<"modeX", "thread">> = <<"tty", "modeX", "thread">>
      BY <3>1, OntoTwo
    <3> QED
      BY <1>3, <3>2
  <2> QED
    BY <1>3, <2>1, StackFacts DEF Stacks, Resources
<1> QED
  BY <1>1, <1>2, <1>3, NextIs

\* Popping.
LEMMA Pops ==
  ASSUME stack \in Stacks, stack # <<>>, stack' = Tail(stack)
  PROVE  /\ stack' \in Stacks /\ Range(stack) = Range(stack') \cup {Head(stack)}
         /\ Head(stack) \notin Range(stack')
<1>1. CASE stack = <<"thread">>
  <2>1. stack' = <<>> /\ Head(stack) = "thread"
    BY <1>1
  <2> QED
    BY <1>1, <2>1, StackFacts DEF Stacks
<1>2. CASE stack = <<"modeX", "thread">>
  <2>1. stack' = <<"thread">> /\ Head(stack) = "modeX"
    BY <1>2
  <2> QED
    BY <1>2, <2>1, StackFacts DEF Stacks
<1>3. CASE stack = <<"tty", "modeX", "thread">>
  <2>1. stack' = <<"modeX", "thread">> /\ Head(stack) = "tty"
    BY <1>3
  <2> QED
    BY <1>3, <2>1, StackFacts DEF Stacks
<1> QED
  BY <1>1, <1>2, <1>3 DEF Stacks

\* It holds at the beginning.
LEMMA CleanupInit == Init => CleanupInv
<1> SUFFICES ASSUME Init PROVE CleanupInv
  OBVIOUS
<1>1. pc = "acquire" /\ stack = <<>> /\ held = {} /\ InHand = {} /\ Len(stack) = 0
  BY DEF Init, InHand
<1>2. Range(stack) = {}
  BY <1>1, StackFacts
<1> QED
  BY <1>1, <1>2 DEF CleanupInv, Stacks

\* Steps between places where main has nothing in its hands.
LEMMA CleanupKept ==
  ASSUME CleanupInv, UNCHANGED <<stack, held, running, lost, killed>>,
         \/ pc' = pc
         \/ /\ pc \notin {"push", "execute"}
            /\ pc' \in {"top", "wait", "get", "pop", "ended"}
            /\ pc' = "ended" => stack = <<>>
  PROVE  CleanupInv'
<1>1. InHand' = InHand
  BY DEF InHand, NextResource
<1> QED
  BY <1>1 DEF CleanupInv

\* Every step keeps the account.
LEMMA CleanupNext == CleanupInv /\ [Next]_vars => CleanupInv'
<1> SUFFICES ASSUME CleanupInv, [Next]_vars PROVE CleanupInv'
  OBVIOUS
<1>0. /\ stack \in Stacks /\ Range(stack) \cup InHand \subseteq held
      /\ held \subseteq Range(stack) \cup InHand \cup lost \cup {"nonblock"}
      /\ Range(stack) \cap InHand = {}
  BY DEF CleanupInv
<1>1. CASE Acquire
  <2>1. /\ pc = "acquire" /\ pc' = "push" /\ held' = held \cup {NextResource} /\ Len(stack) < 3
        /\ UNCHANGED <<stack, running, lost>>
    BY <1>1 DEF Acquire, CleanupInv
  <2>2. InHand = {} /\ InHand' = {NextResource}
    BY <2>1 DEF InHand, NextResource
  <2>3. NextResource \notin Range(stack)
    BY <1>0, <2>1, NextIs, StackFacts
  <2> QED
    BY <1>0, <2>1, <2>2, <2>3 DEF CleanupInv
<1>2. CASE push_cleanup
  <2>1. /\ pc = "push" /\ stack' = <<NextResource>> \o stack /\ Len(stack) < 3
        /\ pc' = (CASE NextResource = "thread" -> "acquire" [] NextResource = "modeX" -> "fcntl"
                   [] OTHER -> "top")
        /\ UNCHANGED <<held, running, lost>>
    BY <1>2 DEF push_cleanup, CleanupInv
  <2>a. NextResource \in {"thread", "modeX", "tty"}
    BY <1>0, <2>1, NextIs
  <2>b. pc' \in {"acquire", "fcntl", "top"} /\ (NextResource = "tty" => pc' = "top")
    BY <2>1, <2>a
  <2>2. InHand = {NextResource} /\ InHand' = {}
    BY <2>1, <2>b DEF InHand
  <2>3. /\ stack' \in Stacks /\ Range(stack') = Range(stack) \cup {NextResource}
        /\ NextResource # "tty" => Len(stack') < 3
    BY <1>0, <2>1, PushesNext
  <2> QED
    BY <1>0, <2>1, <2>2, <2>3, <2>b DEF CleanupInv
<1>3. CASE pop_cleanup
  <2>1. /\ pc = "pop" /\ stack # <<>> /\ running' = Head(stack) /\ stack' = Tail(stack)
        /\ pc' = "execute" /\ UNCHANGED <<held, lost>>
    BY <1>3 DEF pop_cleanup
  <2>2. InHand = {} /\ InHand' = {Head(stack)}
    BY <2>1 DEF InHand
  <2>3. /\ stack' \in Stacks /\ Range(stack) = Range(stack') \cup {Head(stack)}
        /\ Head(stack) \notin Range(stack')
    BY <1>0, <2>1, Pops
  <2> QED
    BY <1>0, <2>1, <2>2, <2>3 DEF CleanupInv
<1>4. CASE Execute
  <2>1. /\ pc = "execute" /\ held' = held \ {running} /\ pc' = "pop"
        /\ UNCHANGED <<stack, running, lost>>
    BY <1>4 DEF Execute
  <2>2. InHand = {running} /\ InHand' = {}
    BY <2>1 DEF InHand
  <2> QED
    BY <1>0, <2>1, <2>2 DEF CleanupInv
<1>5. CASE OutOfMemory \/ \E k \in load.signals : catch_signal(k) \/ Killed(k)
  <2>1. /\ lost' = lost \cup InHand /\ pc' \in {"pop", "ended"}
        /\ UNCHANGED <<stack, held, running>> /\ (pc' = "ended" => killed')
    BY <1>5 DEF OutOfMemory, catch_signal, Killed
  <2>2. InHand' = {}
    BY <2>1 DEF InHand
  <2> QED
    BY <1>0, <2>1, <2>2 DEF CleanupInv
<1>9. CASE SetNonblocking
  <2>1. /\ pc = "fcntl" /\ pc' = "acquire" /\ held' = held \cup {"nonblock"} /\ Len(stack) < 3
        /\ UNCHANGED <<stack, running, lost>>
    BY <1>9 DEF SetNonblocking, CleanupInv
  <2>2. InHand = {} /\ InHand' = {}
    BY <2>1 DEF InHand
  <2> QED
    BY <1>0, <2>1, <2>2 DEF CleanupInv
<1>6. CASE Panic \/ Show \/ NextTurn \/ End
  <2>1. /\ UNCHANGED <<stack, held, running, lost, killed>> /\ pc \notin {"push", "execute"}
        /\ pc' \in {"top", "wait", "get", "pop", "ended"}
        /\ pc' = "ended" => stack = <<>>
    BY <1>6 DEF Panic, Show, NextTurn, End, endvars
  <2> QED
    BY <2>1, CleanupKept
<1>7. CASE \E bytes \in load.bytes : Turn(bytes)
  <2>1. /\ UNCHANGED <<stack, held, running, lost, killed>> /\ pc = "get" /\ pc' \in {"top", "pop"}
    BY <1>7, TurnDoes DEF endvars
  <2> QED
    BY <2>1, CleanupKept
<1>8. CASE status_thread \/ Tick \/ UNCHANGED vars
  <2>1. UNCHANGED <<stack, held, running, lost, killed>> /\ pc' = pc
    BY <1>8 DEF status_thread, WaitForMessage, Restart, TimeOut, ClearMessage, Tick, vars, endvars
  <2> QED
    BY <2>1, CleanupKept
<1> QED
  BY <1>1, <1>2, <1>3, <1>4, <1>5, <1>6, <1>7, <1>8, <1>9 DEF Next, main, Ended

\* The invariant of the cleanups.
LEMMA CleanupRight == Spec => []CleanupInv
BY CleanupInit, CleanupNext, PTL DEF Spec

\* No cleanup is executed for something that is not held, whichever way the program ends
\* and however often a signal interrupts the cleanups.
THEOREM NeverTwice == Spec => []CleanupOnce
<1>1. CleanupInv => CleanupOnce
  BY DEF CleanupInv, CleanupOnce, InHand
<1> QED
  BY <1>1, CleanupRight, PTL

\* Unless a signal kills it, the program ends with its cleanups done, and leaves nothing
\* behind but what was in main's hands when a signal struck or the memory ran out, and the
\* non-blocking mode of stdin.
THEOREM NothingLeft == Spec => []CleanEnd
<1>1. CleanupInv => CleanEnd
  BY StackFacts DEF CleanupInv, CleanEnd, InHand
<1> QED
  BY <1>1, CleanupRight, PTL

-----------------------------------------------------------------------------
(***************************************************************************)
(* The typed line fits its buffer.                                         *)
(***************************************************************************)

\* The bytes of the keyboard, by name.
Chars == STRING

\* What a key may be taken for, and the states of the keyboard.
Keys == {"NONE", "QUIT", "TYPED", "ENTER", "MOVE_LEFT", "MOVE_RIGHT", "UP", "DOWN", "RIGHT", "LEFT"}
Inputs == {in \in [state : 0 .. 3, typing : Seq(Chars), pushed : Keys] :
             Len(in.typing) <= MAX_TYPED_LEN}

\* A typed character.
LEMMA TypedFits ==
  ASSUME NEW t \in Seq(Chars), Len(t) <= MAX_TYPED_LEN, NEW ch \in Chars
  PROVE  typed_a_char(t, ch) \in Seq(Chars) /\ Len(typed_a_char(t, ch)) <= MAX_TYPED_LEN
<1>0. MAX_TYPED_LEN \in Nat
  BY AdventureAssumption
<1>1. CASE t # <<>>
  <2>1. Len(t) >= 1 /\ Len(t) \in Nat
    BY <1>1
  <2>2. Front(t) \in Seq(Chars) /\ Len(Front(t)) = Len(t) - 1
    <3> DEFINE n == Len(t) - 1
    <3>1. n \in Nat /\ 1 \in Int /\ n \in Int /\ \A i \in 1 .. n : t[i] \in Chars
      BY <2>1
    <3>2. Front(t) = [i \in 1 .. n |-> t[i]]
      BY <2>1, <3>1 DEF Front
    <3> HIDE DEF n
    <3>3. Front(t) \in Seq(Chars) /\ Len(Front(t)) = n
      BY <3>1, <3>2
    <3> QED
      BY <3>3 DEF n
  <2>3. Append(t, ch) \in Seq(Chars) /\ Len(Append(t, ch)) = Len(t) + 1
    OBVIOUS
  <2> QED
    BY <1>0, <2>1, <2>2, <2>3 DEF typed_a_char
<1>2. CASE t = <<>>
  <2>1. Append(t, ch) \in Seq(Chars) /\ Len(Append(t, ch)) = Len(t) + 1 /\ Len(t) \in Nat
    OBVIOUS
  <2> QED
    BY <1>0, <1>2, <2>1 DEF typed_a_char
<1> QED
  BY <1>1, <1>2

\* An input with another state and line is an input.
Retyped(in, q, t, Q, L, K) ==
  LET r == [in EXCEPT !.state = q, !.typing = t]
  IN  r \in [state : Q, typing : L, pushed : K] /\ r.typing = t

\* It is, for any fields.
LEMMA RetypedRecord ==
  ASSUME NEW Q, NEW L, NEW K, NEW in \in [state : Q, typing : L, pushed : K], NEW q \in Q, NEW t \in L
  PROVE  Retyped(in, q, t, Q, L, K)
BY DEF Retyped

\* One byte through the automaton.
LEMMA ScanFits ==
  ASSUME NEW in \in Inputs, NEW ch \in Chars
  PROVE  Scan(in, ch) \in Inputs
<1>0. /\ in \in [state : 0 .. 3, typing : Seq(Chars), pushed : Keys]
      /\ in.typing \in Seq(Chars) /\ Len(in.typing) <= MAX_TYPED_LEN
  BY DEF Inputs
<1>1. ASSUME NEW q \in 0 .. 3, NEW k \in Keys
      PROVE  /\ [in EXCEPT !.state = q] \in Inputs
             /\ [in EXCEPT !.pushed = k] \in Inputs
             /\ [in EXCEPT !.state = q, !.pushed = k] \in Inputs
  BY <1>0 DEF Inputs
<1>2. Plain(in, ch) \in Inputs
  <2> DEFINE t == typed_a_char(in.typing, ch)
  <2>1. t \in Seq(Chars) /\ Len(t) <= MAX_TYPED_LEN
    BY <1>0, TypedFits, Zenon
  <2> HIDE DEF t
  <2>2. [in EXCEPT !.state = 0, !.typing = t] \in Inputs
    <3>1. 0 \in 0 .. 3 /\ t \in Seq(Chars)
      BY <2>1
    <3>2. Retyped(in, 0, t, 0 .. 3, Seq(Chars), Keys)
      BY <1>0, <3>1, RetypedRecord
    <3> QED
      BY <2>1, <3>2 DEF Retyped, Inputs
  <2>3. 0 \in 0 .. 3 /\ "TYPED" \in Keys
    BY DEF Keys
  <2>4. [in EXCEPT !.state = 0] \in Inputs /\ [in EXCEPT !.state = 0, !.pushed = "TYPED"] \in Inputs
    BY <1>1, <2>3
  <2> QED
    BY <2>2, <2>4, Zenon DEF Plain, t
<1>3. \A c \in DOMAIN Arrow : Arrow[c] \in Keys
  BY DEF Arrow, Keys
<1>4. \A c \in DOMAIN Paging : Paging[c] \in Keys
  BY DEF Paging, Keys
<1>5. "QUIT" \in Keys /\ 0 \in 0 .. 3 /\ 1 \in 0 .. 3 /\ 2 \in 0 .. 3 /\ 3 \in 0 .. 3
  BY DEF Keys
<1>6. /\ [in EXCEPT !.pushed = "QUIT"] \in Inputs /\ [in EXCEPT !.state = 1] \in Inputs
      /\ [in EXCEPT !.state = 2] \in Inputs
  BY <1>1, <1>5
<1>7. ch \in DOMAIN Arrow => [in EXCEPT !.state = 0, !.pushed = Arrow[ch]] \in Inputs
  BY <1>1, <1>3, <1>5, Zenon
<1>8. ch \in DOMAIN Paging => [in EXCEPT !.state = 3, !.pushed = Paging[ch]] \in Inputs
  BY <1>1, <1>4, <1>5, Zenon
<1> QED
  BY <1>2, <1>6, <1>7, <1>8, Zenon DEF Scan

\* The turns h of the loop over the bytes.
ScanTurns(h, in, bytes, n) ==
  /\ get_command(in, bytes) = h[n] /\ h[0] = [in EXCEPT !.pushed = "NONE"]
  /\ \A k \in 1 .. n : h[k] = Scan(h[k - 1], bytes[k])

\* There are such turns.
LEMMA ScanUnfolds ==
  ASSUME NEW in \in Inputs, NEW bytes \in Seq(Chars)
  PROVE  \E h : ScanTurns(h, in, bytes, Len(bytes))
<1> DEFINE n == Len(bytes)
           b == [in EXCEPT !.pushed = "NONE"]
           step == [q \in Inputs \X (1 .. n) |-> Scan(q[1], bytes[q[2]])]
           F(h) == [k \in 0 .. n |-> IF k = 0 THEN b ELSE Scan(h[k - 1], bytes[k])]
<1>0. n \in Nat /\ \A k \in 1 .. n : bytes[k] \in Chars
  OBVIOUS
<1> HIDE DEF n
<1>1. step \in [Inputs \X (1 .. n) -> Inputs]
  <2>1. \A c \in Inputs, k \in 1 .. n : Scan(c, bytes[k]) \in Inputs
    BY <1>0, ScanFits
  <2> QED
    BY <2>1
<1>b. b \in Inputs
  BY DEF Inputs, Keys
<1>2. PICK f : Loop(f, Inputs, b, step, n)
  <2> HIDE DEF step, b
  <2> QED
    BY <1>0, <1>1, <1>b, LoopExists, Zenon
<1>3. f = F(f)
  <2>1. ASSUME NEW k \in 1 .. n PROVE f[k] = Scan(f[k - 1], bytes[k])
    <3>1. f[k - 1] \in Inputs /\ f[k] = step[<<f[k - 1], k>>]
      <4> HIDE DEF step
      <4> QED
        BY <1>0, <1>2 DEF Loop
    <3> QED
      BY <3>1, Zenon
  <2>2. f = [k \in 0 .. n |-> f[k]] /\ f[0] = b
    BY <1>2 DEF Loop
  <2>3. \A k \in 0 .. n : f[k] = IF k = 0 THEN b ELSE Scan(f[k - 1], bytes[k])
    <3> SUFFICES ASSUME NEW k \in 0 .. n, k # 0 PROVE f[k] = Scan(f[k - 1], bytes[k])
      BY <2>2, Zenon
    <3>1. k \in 1 .. n
      BY <1>0
    <3> QED
      BY <2>1, <3>1, Zenon
  <2>4. F(f) = [k \in 0 .. n |-> f[k]]
    BY <2>3, Zenon
  <2> QED
    BY <2>2, <2>4, Zenon
<1> DEFINE h == CHOOSE h : h = F(h)
<1>4. get_command(in, bytes) = h[n]
  BY DEF get_command, n
<1>5. h = F(h)
  <2> HIDE DEF F
  <2> QED
    BY <1>3
<1> HIDE DEF h
<1>6. h[0] = b /\ \A k \in 1 .. n : h[k] = Scan(h[k - 1], bytes[k])
  <2> HIDE DEF b
  <2> QED
    BY <1>0, <1>5
<1> QED
  BY <1>4, <1>6, Zenon DEF ScanTurns, n

\* However many bytes have arrived.
LEMMA CommandFits ==
  ASSUME NEW in \in Inputs, NEW bytes \in Seq(Chars)
  PROVE  get_command(in, bytes) \in Inputs
<1> DEFINE n == Len(bytes)
<1>0. n \in Nat /\ \A k \in 1 .. n : bytes[k] \in Chars
  OBVIOUS
<1>1. PICK h : ScanTurns(h, in, bytes, n)
  BY ScanUnfolds, Zenon
<1> HIDE DEF n
<1>2. /\ get_command(in, bytes) = h[n] /\ h[0] = [in EXCEPT !.pushed = "NONE"]
      /\ \A k \in 1 .. n : h[k] = Scan(h[k - 1], bytes[k])
  BY <1>1, Zenon DEF ScanTurns
<1> DEFINE T == {k \in 0 .. n : h[k] \in Inputs}
<1>3. 0 \in T
  <2>1. [in EXCEPT !.pushed = "NONE"] \in Inputs
    BY DEF Inputs, Keys
  <2> QED
    BY <1>0, <1>2, <2>1
<1>4. ASSUME NEW k \in 0 .. n - 1, k \in T PROVE k + 1 \in T
  <2>1. k + 1 \in 1 .. n /\ k + 1 \in 0 .. n /\ k + 1 - 1 = k
    BY <1>0
  <2>2. h[k + 1] = Scan(h[k], bytes[k + 1])
    BY <1>2, <2>1
  <2>3. Scan(h[k], bytes[k + 1]) \in Inputs
    BY <1>0, <1>4, <2>1, ScanFits
  <2> QED
    BY <2>1, <2>2, <2>3
<1>5. 0 .. n \subseteq T
  <2> HIDE DEF T
  <2> QED
    BY <1>0, <1>3, <1>4, InductionUpTo
<1> QED
  BY <1>0, <1>2, <1>5

\* The line erased.
LEMMA ResetFits ==
  ASSUME NEW in \in Inputs
  PROVE  reset_typed_command(in) \in Inputs
<1> DEFINE r == [in EXCEPT !.typing = <<>>]
<1>1. MAX_TYPED_LEN \in Nat /\ <<>> \in Seq(Chars) /\ Len(<<>>) = 0
  BY AdventureAssumption
<1>2. in \in [state : 0 .. 3, typing : Seq(Chars), pushed : Keys]
  BY DEF Inputs
<1>3. r \in [state : 0 .. 3, typing : Seq(Chars), pushed : Keys] /\ r.typing = <<>>
  BY <1>1, <1>2
<1> HIDE DEF r
<1>4. r \in Inputs
  BY <1>1, <1>3 DEF Inputs
<1> QED
  BY <1>4 DEF reset_typed_command, r

\* The places of the helper.
Helpers == {"none", "look", "waiting", "restart", "timing", "timedout", "cancelled"}

\* Types, with the session and the whole of the input.
TypeInv ==
  /\ load \in Loads /\ input \in Inputs /\ pc \in Places /\ held \subseteq Resources
  /\ helper \in Helpers /\ left \in 0 .. MESSAGE_TICKS

\* They hold at the beginning.
LEMMA TypeInit == Init => TypeInv
<1> SUFFICES ASSUME Init PROVE TypeInv
  OBVIOUS
<1>1. MAX_TYPED_LEN \in Nat /\ MESSAGE_TICKS \in Nat /\ <<>> \in Seq(Chars) /\ Len(<<>>) = 0
  BY AdventureAssumption
<1>2. input \in Inputs
  BY <1>1 DEF Init, Inputs, Keys
<1> QED
  BY <1>1, <1>2 DEF Init, TypeInv, Places, Helpers

\* A message posted or not.
LEMMA TypeMessage ==
  ASSUME TypeInv, show_status \/ Silent
  PROVE  helper' \in Helpers /\ left' \in 0 .. MESSAGE_TICKS
<1>1. left' = left
  BY DEF show_status, Silent, msgvars
<1>2. helper' \in {helper, "look", "restart"}
  BY DEF show_status, Silent, msgvars
<1> QED
  BY <1>1, <1>2 DEF TypeInv, Helpers

\* Every step keeps them.
LEMMA TypeNext == TypeInv /\ CleanupInv /\ [Next]_vars => TypeInv'
<1> SUFFICES ASSUME TypeInv, CleanupInv, [Next]_vars PROVE TypeInv'
  OBVIOUS
<1>0. MESSAGE_TICKS \in Nat
  BY AdventureAssumption
<1>1. CASE Acquire
  <2>1. NextResource \in Resources
    BY <1>1, NextIs DEF Acquire, CleanupInv, Resources
  <2> QED
    BY <1>1, <2>1 DEF Acquire, TypeInv, Places, Helpers
<1>2. CASE \/ SetNonblocking \/ push_cleanup \/ OutOfMemory \/ Panic \/ NextTurn
           \/ pop_cleanup \/ Execute \/ End
  <2>1. /\ UNCHANGED <<load, input, left>> /\ held' \subseteq held \cup {"nonblock"}
        /\ pc' \in Places /\ (helper' = helper \/ helper' = "cancelled")
    BY <1>2 DEF SetNonblocking, push_cleanup, OutOfMemory, Panic, NextTurn, pop_cleanup, Execute, End,
                loopvars, endvars, msgvars, Places
  <2> QED
    BY <2>1 DEF TypeInv, Helpers, Resources
<1>3. CASE Show
  <2>1. /\ UNCHANGED <<load, held, helper, left>> /\ pc' = "wait"
        /\ input' = reset_typed_command(input) \/ input' = input
    BY <1>3 DEF Show, endvars, msgvars
  <2>2. input' \in Inputs
    BY <2>1, ResetFits DEF TypeInv
  <2> QED
    BY <2>1, <2>2 DEF TypeInv, Places
<1>4. CASE \E bytes \in load.bytes : Turn(bytes)
  <2>1. PICK bytes \in load.bytes : Turn(bytes)
    BY <1>4
  <2> DEFINE in == get_command(input, bytes)
  <2>2. Does(in) /\ pc' \in {"top", "pop"} /\ UNCHANGED <<load, held>>
    BY <2>1, TurnDoes DEF endvars
  <2>3. in \in Inputs
    <3>1. load.bytes \subseteq Seq(Chars)
      BY AdventureAssumption, Zenon DEF TypeInv, Chars
    <3>2. bytes \in Seq(Chars) /\ input \in Inputs
      BY <2>1, <3>1 DEF TypeInv
    <3> QED
      BY <3>2, CommandFits, Zenon
  <2> HIDE DEF in
  <2>4. input' = in \/ input' = reset_typed_command(in)
    BY <2>2 DEF Does, Scroll, ChangeRoom, RedrawRoom, DiscardText, Refused, Nothing
  <2>5. input' \in Inputs
    BY <2>3, <2>4, ResetFits
  <2>6. show_status \/ Silent
    BY <2>2 DEF Does, Scroll, ChangeRoom, RedrawRoom, DiscardText, Refused, Nothing, Silent, msgvars
  <2>7. helper' \in Helpers /\ left' \in 0 .. MESSAGE_TICKS
    BY <2>6, TypeMessage
  <2> QED
    BY <2>2, <2>5, <2>7 DEF TypeInv, Places
<1>5. CASE status_thread
  <2>1. UNCHANGED <<load, input, held, pc>>
    BY <1>5 DEF status_thread, WaitForMessage, Restart, TimeOut, ClearMessage, loopvars, endvars
  <2>2. helper' \in Helpers /\ left' \in {left, MESSAGE_TICKS}
    BY <1>5 DEF status_thread, WaitForMessage, Restart, TimeOut, ClearMessage, Helpers
  <2> QED
    BY <1>0, <2>1, <2>2 DEF TypeInv
<1>6. CASE UNCHANGED vars \/ \E k \in load.signals : catch_signal(k) \/ Killed(k)
  <2>1. /\ UNCHANGED <<load, input, held, helper, left>>
        /\ pc' = pc \/ pc' \in {"pop", "ended"}
    BY <1>6 DEF catch_signal, Killed, vars, loopvars, endvars, msgvars
  <2> QED
    BY <2>1 DEF TypeInv, Places
<1>7. CASE Tick
  <2>1. /\ UNCHANGED <<load, input, held, pc, helper>>
        /\ left' = IF left > 0 THEN left - 1 ELSE left
    BY <1>7 DEF Tick, loopvars, endvars
  <2> QED
    BY <1>0, <2>1 DEF TypeInv
<1> QED
  BY <1>1, <1>2, <1>3, <1>4, <1>5, <1>6, <1>7 DEF Next, main, Ended

\* The typed line never outgrows its buffer, whatever bytes arrive; the automaton of the
\* keyboard, main and the helper stay in their states.
THEOREM TypeCorrect == Spec => []TypeOK
<1>1. TypeInv /\ CleanupInv => TypeOK
  <2> SUFFICES ASSUME TypeInv, CleanupInv PROVE TypeOK
    OBVIOUS
  <2>1. Range(stack) \subseteq Resources
    BY StackFacts DEF CleanupInv, Stacks, Resources
  <2>2. /\ input.typing \in Seq(Chars) /\ Len(input.typing) <= MAX_TYPED_LEN
        /\ input.state \in 0 .. 3
    BY DEF TypeInv, Inputs
  <2>3. Len(input.typing) \in 0 .. MAX_TYPED_LEN
    BY <2>2, AdventureAssumption
  <2> QED
    BY <2>1, <2>2, <2>3 DEF TypeInv, TypeOK, Helpers
<1>2. Init => TypeInv /\ CleanupInv
  BY TypeInit, CleanupInit
<1>3. TypeInv /\ CleanupInv /\ [Next]_vars => TypeInv' /\ CleanupInv'
  BY TypeNext, CleanupNext
<1> QED
  BY <1>1, <1>2, <1>3, PTL DEF Spec
=============================================================================
