---------------------------- MODULE World_proofs -----------------------------
(***************************************************************************)
(* The properties of World, proved for every order of the quest and every  *)
(* choice of the objects that are taken and dropped: whatever commands the *)
(* player types, the lists of the rooms match the objects, what stands for *)
(* one thing stays one thing, and the game follows its plot.               *)
(***************************************************************************)
EXTENDS World, NatSets, FiniteSetTheorems, SequenceTheorems

-----------------------------------------------------------------------------
(***************************************************************************)
(* The lists.                                                              *)
(***************************************************************************)

\* A test on the elements of a list: the first index that passes, found as find_in_room and
\* remove_object find it, is the index of an element that passes.
LEMMA FirstIndex ==
  ASSUME NEW I, I \subseteq Nat, I # {}
  PROVE  Min(I) \in I /\ \A k \in I : Min(I) <= k
<1>1. \E m \in I : \A k \in I : m <= k
  BY SmallestInSet
<1> QED
  BY <1>1 DEF Min

\* Unlinking the only occurrence of an element leaves the others, each once.
LEMMA Unlinked ==
  ASSUME NEW S, NEW s \in Seq(S), NEW e, IsInjective(s), e \in Range(s)
  PROVE  /\ RemoveFirst(s, e) \in Seq(S)
         /\ IsInjective(RemoveFirst(s, e))
         /\ Range(RemoveFirst(s, e)) = Range(s) \ {e}
<1> DEFINE I == {i \in 1 .. Len(s) : s[i] = e}
           j == Min(I)
           t == SubSeq(s, 1, j - 1) \o SubSeq(s, j + 1, Len(s))
<1>1. I \subseteq Nat /\ I # {}
  BY DEF Range
<1>2. j \in 1 .. Len(s) /\ s[j] = e
  BY <1>1, FirstIndex
<1>3. RemoveFirst(s, e) = t
  <2>1. \E i \in 1 .. Len(s) : s[i] = e
    BY <1>1
  <2> QED
    BY <1>1, <2>1 DEF RemoveFirst, RemoveAt, SelectInSeq
<1> HIDE DEF I, j
<1>4. /\ t \in Seq(S)
      /\ Len(t) = Len(s) - 1
      /\ \A i \in 1 .. Len(t) : t[i] = IF i < j THEN s[i] ELSE s[i + 1]
  <2> DEFINE a == SubSeq(s, 1, j - 1)
             b == SubSeq(s, j + 1, Len(s))
  <2>1. a \in Seq(S) /\ Len(a) = j - 1 /\ \A i \in 1 .. j - 1 : a[i] = s[i]
    BY <1>2
  <2>2. b \in Seq(S) /\ Len(b) = Len(s) - j /\ \A i \in 1 .. Len(s) - j : b[i] = s[i + j]
    BY <1>2
  <2> HIDE DEF a, b
  <2>3. /\ a \o b \in Seq(S)
        /\ Len(a \o b) = Len(s) - 1
        /\ \A i \in 1 .. Len(s) - 1 : (a \o b)[i] = IF i < j THEN a[i] ELSE b[i - (j - 1)]
    <3>1. /\ a \o b \in Seq(S)
          /\ Len(a \o b) = Len(a) + Len(b)
          /\ \A i \in 1 .. Len(a) + Len(b) : (a \o b)[i] = IF i <= Len(a) THEN a[i] ELSE b[i - Len(a)]
      BY <2>1, <2>2, ConcatProperties
    <3>2. Len(a) + Len(b) = Len(s) - 1 /\ Len(a) = j - 1
      BY <1>2, <2>1, <2>2
    <3> HIDE DEF a, b
    <3> QED
      BY <1>2, <3>1, <3>2
  <2>4. \A i \in 1 .. Len(s) - 1 : (a \o b)[i] = IF i < j THEN s[i] ELSE s[i + 1]
    BY <1>2, <2>1, <2>2, <2>3
  <2> QED
    BY <2>3, <2>4 DEF a, b
<1> HIDE DEF t
<1>5. IsInjective(t)
  <2>1. DOMAIN s = 1 .. Len(s) /\ DOMAIN t = 1 .. Len(t)
    BY <1>4
  <2> SUFFICES ASSUME NEW p \in 1 .. Len(t), NEW q \in 1 .. Len(t), t[p] = t[q] PROVE p = q
    BY <2>1 DEF IsInjective
  <2> DEFINE at(i) == IF i < j THEN i ELSE i + 1
  <2>2. \A i \in 1 .. Len(t) : at(i) \in 1 .. Len(s) /\ t[i] = s[at(i)]
    BY <1>2, <1>4
  <2>3. s[at(p)] = s[at(q)]
    BY <2>2
  <2>4. at(p) = at(q)
    BY <2>1, <2>2, <2>3 DEF IsInjective
  <2> QED
    BY <1>2, <2>4
<1>6. Range(t) = Range(s) \ {e}
  <2>1. ASSUME NEW i \in 1 .. Len(t) PROVE t[i] \in Range(s) \ {e}
    BY <1>2, <1>4, SMTT(30) DEF IsInjective, Range
  <2>2. ASSUME NEW k \in 1 .. Len(s), s[k] # e PROVE \E i \in 1 .. Len(t) : t[i] = s[k]
    <3>1. CASE k < j
      BY <1>2, <1>4, <3>1
    <3>2. CASE k > j
      <4>1. k - 1 \in 1 .. Len(t) /\ t[k - 1] = s[k]
        BY <1>2, <1>4, <3>2
      <4> QED
        BY <4>1
    <3> QED
      BY <1>2, <2>2, <3>1, <3>2
  <2>3. DOMAIN s = 1 .. Len(s) /\ DOMAIN t = 1 .. Len(t)
    BY <1>4
  <2> QED
    BY <2>1, <2>2, <2>3, ZenonT(40) DEF Range
<1> QED
  BY <1>3, <1>4, <1>5, <1>6

\* The objects know their rooms, and the lists match.
GoodWorld(w) ==
  /\ w = [loc |-> w.loc, contents |-> w.contents]
  /\ w.loc \in [Objects -> Rooms \cup {NONE}]
  /\ w.contents \in [Rooms -> Seq(Objects)]
  /\ \A r \in Rooms : /\ IsInjective(w.contents[r])
                      /\ Range(w.contents[r]) = {o \in Objects : w.loc[o] = r}

\* remove_object leaves the lists good and the object in limbo.
LEMMA RemoveKeeps ==
  ASSUME NEW w, GoodWorld(w), NEW o \in Objects, NONE \notin Rooms
  PROVE  /\ GoodWorld(remove_object(w, o))
         /\ remove_object(w, o).loc = [w.loc EXCEPT ![o] = NONE]
<1>1. CASE w.loc[o] = NONE
  BY <1>1 DEF remove_object, GoodWorld
<1>2. CASE w.loc[o] # NONE
  <2> DEFINE p == w.loc[o]
             l == RemoveFirst(w.contents[p], o)
             v == remove_object(w, o)
  <2>1. p \in Rooms
    BY <1>2 DEF GoodWorld
  <2>2. l \in Seq(Objects) /\ IsInjective(l) /\ Range(l) = Range(w.contents[p]) \ {o}
    <3>1. w.contents[p] \in Seq(Objects) /\ IsInjective(w.contents[p]) /\ o \in Range(w.contents[p])
      BY <2>1 DEF GoodWorld
    <3> QED
      BY <3>1, Unlinked
  <2>3. v = [loc |-> [w.loc EXCEPT ![o] = NONE], contents |-> [w.contents EXCEPT ![p] = l]]
    BY <1>2 DEF remove_object
  <2> HIDE DEF l, v
  <2>4. v.loc = [w.loc EXCEPT ![o] = NONE] /\ v.contents = [w.contents EXCEPT ![p] = l]
    BY <2>3
  <2>5. v.loc \in [Objects -> Rooms \cup {NONE}] /\ v.contents \in [Rooms -> Seq(Objects)]
    BY <2>1, <2>2, <2>4 DEF GoodWorld
  <2>6. ASSUME NEW r \in Rooms
        PROVE  IsInjective(v.contents[r]) /\ Range(v.contents[r]) = {x \in Objects : v.loc[x] = r}
    <3>1. v.contents[r] = IF r = p THEN l ELSE w.contents[r]
      BY <2>1, <2>4 DEF GoodWorld
    <3>2. \A x \in Objects : v.loc[x] = r <=> w.loc[x] = r /\ x # o
      BY <2>4, <1>2, <2>6 DEF GoodWorld
    <3>3. CASE r = p
      BY <2>2, <3>1, <3>2, <3>3 DEF GoodWorld
    <3>4. CASE r # p
      <4>1. \A x \in Objects : v.loc[x] = r <=> w.loc[x] = r
        BY <3>2, <3>4
      <4> QED
        BY <3>1, <3>4, <4>1 DEF GoodWorld
    <3> QED
      BY <3>3, <3>4
  <2> QED
    BY <2>3, <2>4, <2>5, <2>6 DEF GoodWorld, v
<1> QED
  BY <1>1, <1>2

\* insert_object leaves the lists good and the object in the room.
LEMMA InsertKeeps ==
  ASSUME NEW w, GoodWorld(w), NEW o \in Objects, NEW r \in Rooms, NONE \notin Rooms
  PROVE  /\ GoodWorld(insert_object(w, o, r))
         /\ insert_object(w, o, r).loc = [w.loc EXCEPT ![o] = r]
<1> DEFINE u == remove_object(w, o)
           v == insert_object(w, o, r)
           l == <<o>> \o u.contents[r]
<1>1. GoodWorld(u) /\ u.loc = [w.loc EXCEPT ![o] = NONE]
  BY RemoveKeeps
<1>2. v = [loc |-> [u.loc EXCEPT ![o] = r], contents |-> [u.contents EXCEPT ![r] = l]]
  BY DEF insert_object
<1> HIDE DEF u, v
<1>3. u.contents[r] \in Seq(Objects) /\ IsInjective(u.contents[r]) /\ o \notin Range(u.contents[r])
  BY <1>1 DEF GoodWorld
<1>4. /\ l \in Seq(Objects) /\ Len(l) = Len(u.contents[r]) + 1
      /\ l[1] = o /\ \A i \in 2 .. Len(l) : l[i] = u.contents[r][i - 1]
  BY <1>3
<1> HIDE DEF l
<1>5. IsInjective(l)
  <2> DEFINE k == u.contents[r]
  <2>1. DOMAIN l = 1 .. Len(l) /\ DOMAIN k = 1 .. Len(k)
    BY <1>3, <1>4
  <2> SUFFICES ASSUME NEW p \in 1 .. Len(l), NEW q \in 1 .. Len(l), l[p] = l[q] PROVE p = q
    BY <2>1 DEF IsInjective
  <2>2. \A i \in 2 .. Len(l) : i - 1 \in 1 .. Len(k) /\ l[i] = k[i - 1] /\ l[i] # o
    <3>1. \A i \in 1 .. Len(k) : k[i] # o
      BY <1>3, <2>1 DEF Range
    <3>2. \A i \in 2 .. Len(l) : i - 1 \in 1 .. Len(k) /\ l[i] = k[i - 1]
      BY <1>3, <1>4
    <3> QED
      BY <3>1, <3>2
  <2>3. CASE p = 1 \/ q = 1
    BY <1>3, <1>4, <2>2, <2>3
  <2>4. CASE p # 1 /\ q # 1
    <3>1. p - 1 \in DOMAIN k /\ q - 1 \in DOMAIN k /\ k[p - 1] = k[q - 1]
      BY <1>3, <1>4, <2>1, <2>2, <2>4
    <3>2. p - 1 = q - 1
      BY <1>3, <3>1 DEF IsInjective
    <3> QED
      BY <1>3, <1>4, <3>2
  <2> QED
    BY <2>3, <2>4
<1>6. Range(l) = Range(u.contents[r]) \cup {o}
  <2>1. \A i \in 1 .. Len(u.contents[r]) : i + 1 \in 1 .. Len(l) /\ l[i + 1] = u.contents[r][i]
    BY <1>3, <1>4
  <2>2. \A i \in 1 .. Len(l) : l[i] \in Range(u.contents[r]) \cup {o}
    BY <1>3, <1>4, SMTT(30) DEF Range
  <2>3. 1 \in 1 .. Len(l)
    BY <1>3, <1>4
  <2>4. DOMAIN l = 1 .. Len(l) /\ DOMAIN u.contents[r] = 1 .. Len(u.contents[r])
    BY <1>3, <1>4
  <2>5. Range(l) \subseteq Range(u.contents[r]) \cup {o}
    BY <2>2, <2>4 DEF Range
  <2>6. Range(u.contents[r]) \subseteq Range(l)
    BY <2>1, <2>4, Zenon DEF Range
  <2>7. o \in Range(l)
    BY <1>4, <2>3, <2>4 DEF Range
  <2> QED
    BY <2>5, <2>6, <2>7
<1>7. /\ v.loc = [w.loc EXCEPT ![o] = r]
      /\ v.contents = [u.contents EXCEPT ![r] = l]
  BY <1>1, <1>2 DEF GoodWorld
<1>8. v.loc \in [Objects -> Rooms \cup {NONE}] /\ v.contents \in [Rooms -> Seq(Objects)]
  BY <1>1, <1>4, <1>7 DEF GoodWorld
<1>9. ASSUME NEW q \in Rooms
      PROVE  IsInjective(v.contents[q]) /\ Range(v.contents[q]) = {x \in Objects : v.loc[x] = q}
  <2>1. v.contents[q] = IF q = r THEN l ELSE u.contents[q]
    BY <1>1, <1>7 DEF GoodWorld
  <2>2. CASE q = r
    <3>1. \A x \in Objects : v.loc[x] = q <=> u.loc[x] = q \/ x = o
      BY <1>1, <1>7, <2>2 DEF GoodWorld
    <3> QED
      BY <1>1, <1>5, <1>6, <2>1, <2>2, <3>1 DEF GoodWorld
  <2>3. CASE q # r
    <3>1. \A x \in Objects : v.loc[x] = q <=> u.loc[x] = q
      BY <1>1, <1>7, <2>3 DEF GoodWorld
    <3> QED
      BY <1>1, <2>1, <2>3, <3>1 DEF GoodWorld
  <2> QED
    BY <2>2, <2>3
<1> QED
  BY <1>2, <1>7, <1>8, <1>9 DEF GoodWorld, v

-----------------------------------------------------------------------------
(***************************************************************************)
(* The rooms and the objects.                                              *)
(***************************************************************************)

Magnet == {"BECKLOBBY", "BECK_MRI"}
Park == {"ALLERTON", "FU_DOGS", "STATUE", "SUNSINGER"}
Remote == {"OVER_WILL", "AIR_RIO", "REM_ICE", "REM_LAB"}
Airport == {"WILLARD", "WILL_SIDE", "REM_PLANE", "COCKPIT"} \cup Remote

\* NONE names no room, and the rooms the commands name are rooms.
LEMMA RoomNames ==
  /\ NONE \notin Rooms
  /\ {"INVENTORY", "EAST_EVRT", "IN_CLEANR", "IN_395LAB", "CSL_LOBBY", "BECKLOBBY", "OVER_WILL",
      "ALLERTON", "WILLARD", "CAR_SITE", "CIRCLE_N", "COCKPIT"} \subseteq Rooms
BY DEF Rooms, room_data, NONE

\* No way in room_data leads into the clean room or the inventory, and none but from
\* inside to the magnet, to the park, to the airport and to the places reached by plane.
LEMMA Doors ==
  \A d \in room_data : \A c \in {2, 3, 4} :
     /\ d[c] \in (Rooms \ {"INVENTORY", "IN_CLEANR"}) \cup {NONE}
     /\ d[c] \in Magnet => d[1] \in Magnet
     /\ d[c] \in Park => d[1] \in Park
     /\ d[c] \in Remote => d[1] \in Remote
     /\ d[c] \in Airport => d[1] \in Airport
BY DEF room_data, Rooms, NONE, Magnet, Park, Remote, Airport

\* Each room has its row in room_data.
LEMMA RowOf ==
  ASSUME NEW r \in Rooms
  PROVE  Row[r] \in room_data /\ Row[r][1] = r
BY DEF Rooms, Row

\* The objects, by name.
LEMMA ObjectNames ==
  Objects = {"BOARD", "JETPACK", "TUX", "MP2", "BOOK_C", "BOOK_WODE", "GPS_BAD", "GPS_GOOD",
             "GPS_SPEC", "BUNNYSUIT", "BATT_EMPTY", "BATT_FULL", "BATT_CAR", "MTN_DEW", "FISH",
             "ICARD", "CAR_KEY", "ROBOT_DEAD", "ROBOT_LIVE", "MIMO_CARD"}
BY DEF Objects, obj_data, Range, NONE

\* Every object of the array starts in a room or in limbo, and is in the array once.
LEMMA ObjectData ==
  /\ Len(obj_data) = 20
  /\ \A i \in 1 .. 20 : obj_data[i][1] \in Objects /\ obj_data[i][3] \in Rooms \cup {NONE}
  /\ \A i, j \in 1 .. 20 : obj_data[i][1] = obj_data[j][1] => i = j
<1>1. Len(obj_data) = 20
  BY DEF obj_data
<1>2. \A i \in 1 .. 20 : obj_data[i][1] \in Objects
  BY <1>1 DEF obj_data, Objects, Range
<1>3. \A i \in 1 .. 20 : obj_data[i][3] \in Rooms \cup {NONE}
  BY DEF obj_data, Rooms, room_data, NONE
<1>4. \A i, j \in 1 .. 20 : obj_data[i][1] = obj_data[j][1] => i = j
  BY DEF obj_data
<1> QED
  BY <1>1, <1>2, <1>3, <1>4


-----------------------------------------------------------------------------
(***************************************************************************)
(* build_world.                                                            *)
(***************************************************************************)

Limbo == [loc |-> [o \in Objects |-> NONE], contents |-> [r \in Rooms |-> <<>>]]
BuildStep(w, i) ==
  IF obj_data[i][3] = NONE THEN w ELSE insert_object(w, obj_data[i][1], obj_data[i][3])

\* The loop of build_world is well defined.
LEMMA BuiltUnfolds ==
  \A i \in 0 .. 20 : Built[i] = IF i = 0 THEN Limbo ELSE BuildStep(Built[i - 1], i)
<1> DEFINE Unfolds(f, k) ==
             \A i \in 0 .. k : f[i] = IF i = 0 THEN Limbo ELSE BuildStep(f[i - 1], i)
           T == {k \in 0 .. 20 : \E f : Unfolds(f, k)}
<1>1. 0 \in T
  <2>1. Unfolds([i \in {0} |-> Limbo], 0)
    OBVIOUS
  <2> HIDE DEF Unfolds
  <2> QED
    BY <2>1
<1>2. ASSUME NEW k \in 0 .. 20 - 1, k \in T PROVE k + 1 \in T
  <2>1. PICK f : Unfolds(f, k)
    BY <1>2
  <2> DEFINE g == [i \in 0 .. k + 1 |-> IF i <= k THEN f[i] ELSE BuildStep(f[k], k + 1)]
  <2>2. Unfolds(g, k + 1)
    <3> SUFFICES ASSUME NEW i \in 0 .. k + 1
                 PROVE  g[i] = IF i = 0 THEN Limbo ELSE BuildStep(g[i - 1], i)
      OBVIOUS
    <3>1. CASE i <= k
      <4>1. g[i] = f[i] /\ (i # 0 => g[i - 1] = f[i - 1])
        BY <3>1
      <4> QED
        BY <2>1, <3>1, <4>1
    <3>2. CASE i = k + 1
      <4>1. g[i] = BuildStep(f[k], k + 1) /\ g[i - 1] = f[k] /\ i # 0
        BY <3>2
      <4> QED
        BY <3>2, <4>1
    <3> QED
      BY <3>1, <3>2
  <2> HIDE DEF Unfolds, g
  <2> QED
    BY <2>2
<1>3. 20 \in T
  <2> HIDE DEF T
  <2> QED
    BY <1>1, <1>2, InductionUpTo
<1>4. PICK f : Unfolds(f, 20)
  BY <1>3
<1> DEFINE F(b) == [i \in 0 .. 20 |-> IF i = 0 THEN Limbo ELSE BuildStep(b[i - 1], i)]
           g == [i \in 0 .. 20 |-> f[i]]
<1>5. g = F(g)
  <2>1. \A i \in 0 .. 20 : g[i] = IF i = 0 THEN Limbo ELSE BuildStep(g[i - 1], i)
    <3> SUFFICES ASSUME NEW i \in 0 .. 20
                 PROVE  g[i] = IF i = 0 THEN Limbo ELSE BuildStep(g[i - 1], i)
      OBVIOUS
    <3>1. g[i] = f[i] /\ (i # 0 => g[i - 1] = f[i - 1])
      OBVIOUS
    <3> QED
      BY <1>4, <3>1
  <2> QED
    BY <2>1
<1>6. Built = CHOOSE b : b = F(b)
  BY ObjectData DEF Built, Limbo, BuildStep
<1>7. Built = F(Built)
  <2> HIDE DEF F, g
  <2> QED
    BY <1>5, <1>6
<1> QED
  BY <1>7

\* After the first k objects, these are in their rooms, and the others in limbo.
LEMMA BuiltGood ==
  /\ GoodWorld(Built[Len(obj_data)])
  /\ \A i \in 1 .. 20 : Built[Len(obj_data)].loc[obj_data[i][1]] = obj_data[i][3]
<1> DEFINE Part(k) ==
             /\ GoodWorld(Built[k])
             /\ \A i \in 1 .. 20 :
                  Built[k].loc[obj_data[i][1]] = IF i <= k THEN obj_data[i][3] ELSE NONE
           T == {k \in 0 .. 20 : Part(k)}
<1>1. 0 \in T
  <2>1. Built[0] = Limbo
    BY BuiltUnfolds
  <2>2. Limbo.loc = [o \in Objects |-> NONE] /\ Limbo.contents = [r \in Rooms |-> <<>>]
    BY DEF Limbo
  <2>3. GoodWorld(Limbo)
    <3>1. Limbo = [loc |-> Limbo.loc, contents |-> Limbo.contents]
      BY <2>2 DEF Limbo
    <3>2. IsInjective(<<>>) /\ Range(<<>>) = {} /\ <<>> \in Seq(Objects)
      BY DEF IsInjective, Range
    <3> QED
      BY <2>2, <3>1, <3>2, RoomNames DEF GoodWorld
  <2>4. \A i \in 1 .. 20 : Limbo.loc[obj_data[i][1]] = NONE
    BY <2>2, ObjectData
  <2> QED
    BY <2>1, <2>3, <2>4
<1>2. ASSUME NEW k \in 0 .. 20 - 1, k \in T PROVE k + 1 \in T
  <2> DEFINE o == obj_data[k + 1][1]
             r == obj_data[k + 1][3]
  <2>0. k + 1 \in 1 .. 20 /\ k + 1 \in 0 .. 20 /\ k + 1 # 0 /\ (k + 1) - 1 = k
    OBVIOUS
  <2>1. Built[k + 1] = IF r = NONE THEN Built[k] ELSE insert_object(Built[k], o, r)
    BY <2>0, BuiltUnfolds DEF BuildStep
  <2>2. o \in Objects /\ r \in Rooms \cup {NONE}
    BY <2>0, ObjectData
  <2>3. Part(k)
    BY <1>2
  <2>4. GoodWorld(Built[k + 1])
        /\ Built[k + 1].loc = [Built[k].loc EXCEPT ![o] = r]
    <3>1. CASE r = NONE
      <4>1. Built[k].loc[o] = NONE
        BY <2>0, <2>3
      <4> QED
        BY <2>1, <2>3, <3>1, <4>1 DEF GoodWorld
    <3>2. CASE r # NONE
      BY <2>1, <2>2, <2>3, <3>2, InsertKeeps, RoomNames
    <3> QED
      BY <3>1, <3>2
  <2>5. ASSUME NEW i \in 1 .. 20
        PROVE  Built[k + 1].loc[obj_data[i][1]] = IF i <= k + 1 THEN obj_data[i][3] ELSE NONE
    <3>1. Built[k].loc \in [Objects -> Rooms \cup {NONE}]
      BY <2>3 DEF GoodWorld
    <3>2. obj_data[i][1] \in Objects /\ (obj_data[i][1] = o => i = k + 1)
      BY <2>0, ObjectData
    <3> HIDE DEF o, r
    <3>3. CASE i = k + 1
      BY <2>4, <3>1, <3>2, <3>3 DEF o, r
    <3>4. CASE i # k + 1
      <4>1. Built[k + 1].loc[obj_data[i][1]] = Built[k].loc[obj_data[i][1]]
        BY <2>4, <3>1, <3>2, <3>4
      <4> QED
        BY <2>3, <3>4, <4>1
    <3> QED
      BY <3>3, <3>4
  <2> QED
    BY <2>0, <2>4, <2>5
<1>3. 20 \in T
  <2> HIDE DEF T
  <2> QED
    BY <1>1, <1>2, InductionUpTo
<1>4. Part(20)
  BY <1>3
<1>5. \A i \in 1 .. 20 : i <= 20
  OBVIOUS
<1> HIDE DEF T
<1> QED
  BY <1>4, <1>5, ObjectData, Zenon


-----------------------------------------------------------------------------
(***************************************************************************)
(* The inductive invariant.                                                *)
(***************************************************************************)

Photos == {"circlen1", "circlen2", "carclosed", "caropen"}

Types ==
  /\ where \in Rooms \cup {NONE}
  /\ enter \in [{"INVENTORY", "COCKPIT"} -> Rooms \cup {NONE}]
  /\ enter["COCKPIT"] \in {NONE, "OVER_WILL"}
  /\ where = "INVENTORY" => enter["INVENTORY"] \in Rooms \ {"INVENTORY"}
  /\ flags \subseteq Flags
  /\ photo \in [view : [{"CIRCLE_N", "CAR_SITE"} -> Photos],
                swap : [{"CIRCLE", "CAR"} -> Photos]]

\* The battery: not before the car is opened and not after it is repaired, and once in between,
\* in the car until it is taken out.
OneBattery ==
  LET b == objs.loc IN
  /\ b["BATT_CAR"] \in {NONE, "CAR_SITE"}
  /\ "CAR_FIXED" \in flags => "CAR_OPEN" \in flags
  /\ "CAR_OPEN" \in flags /\ "CAR_FIXED" \notin flags =>
       \/ b["BATT_CAR"] # NONE /\ b["BATT_EMPTY"] = NONE /\ b["BATT_FULL"] = NONE
       \/ b["BATT_CAR"] = NONE /\ b["BATT_EMPTY"] # NONE /\ b["BATT_FULL"] = NONE
       \/ b["BATT_CAR"] = NONE /\ b["BATT_EMPTY"] = NONE /\ b["BATT_FULL"] # NONE
  /\ "CAR_OPEN" \notin flags \/ "CAR_FIXED" \in flags =>
       b["BATT_CAR"] = NONE /\ b["BATT_EMPTY"] = NONE /\ b["BATT_FULL"] = NONE

\* The other things, and what shows that they were used.
OneOfEach ==
  LET b == objs.loc IN
  /\ b["ROBOT_DEAD"] = NONE <=> b["ROBOT_LIVE"] # NONE
  /\ b["GPS_BAD"] = NONE <=> b["GPS_GOOD"] # NONE
  /\ b["CAR_KEY"] = NONE <=> "CAR_OPEN" \in flags
  /\ b["BUNNYSUIT"] = NONE <=> "WEARING_SUIT" \in flags
  /\ b["FISH"] = NONE <=> "LURED_TUX" \in flags
  /\ b["MIMO_CARD"] = NONE <=> enter["COCKPIT"] # NONE

\* What the player has done before standing in room r.
Way(r) ==
  /\ r = "IN_CLEANR" => "WEARING_SUIT" \in flags
  /\ r \in Magnet => objs.loc["ROBOT_LIVE"] # NONE
  /\ r \in Park => objs.loc["GPS_GOOD"] # NONE
  /\ r \in Airport => "CAR_FIXED" \in flags
  /\ r \in Remote => enter["COCKPIT"] # NONE

\* What the player has done before some object was moved.
Moved ==
  /\ objs.loc["BOOK_C"] # NONE => "HAS_EATEN" \in flags
  /\ objs.loc["TUX"] # "REM_LAB" => "LURED_TUX" \in flags
  /\ objs.loc["MIMO_CARD"] # "STATUE" => objs.loc["GPS_GOOD"] # NONE
  /\ enter["COCKPIT"] # NONE => "CAR_FIXED" \in flags
  /\ "LURED_TUX" \in flags => enter["COCKPIT"] # NONE

Inv ==
  /\ Types
  /\ GoodWorld(objs)
  /\ OneBattery
  /\ OneOfEach
  /\ Way(Standing)
  /\ Moved
  /\ PhotosMatch
  /\ DrawnCurrent
  /\ SpeedMatches


-----------------------------------------------------------------------------
(***************************************************************************)
(* The steps.  Each keeps the invariant and is a step of the plot.         *)
(***************************************************************************)

PlotStep == [Story!Next]_Accomplished
Keeps == Inv' /\ PlotStep

\* A command that reports a change leaves the picture of what is there now.
LEMMA HandleDraws ==
  ASSUME NEW result \in {"CHANGE_ROOM", "REDRAW_ROOM"}, Handle(result)
  PROVE  DrawnCurrent'
BY DEF Handle, DrawnCurrent, Picture, View

\* The objects named by the commands.
LEMMA Named ==
  {"BOARD", "JETPACK", "TUX", "MP2", "BOOK_C", "BOOK_WODE", "GPS_BAD", "GPS_GOOD",
   "GPS_SPEC", "BUNNYSUIT", "BATT_EMPTY", "BATT_FULL", "BATT_CAR", "MTN_DEW", "FISH",
   "ICARD", "CAR_KEY", "ROBOT_DEAD", "ROBOT_LIVE", "MIMO_CARD"} \subseteq Objects
BY ObjectNames

\* A milestone whose needs are met is a step of the plot.
LEMMA Reaches ==
  ASSUME NEW m \in {"Suit", "Gps", "Robot", "Eaten", "CarOpen", "BatteryOut", "Charged", "CarFixed",
                    "Transmitter", "Tux", "Won"},
         m \notin Accomplished, Story!needs[m] \subseteq Accomplished,
         Accomplished' = Accomplished \cup {m}
  PROVE  PlotStep
BY DEF PlotStep, Story!Next, Story!Accomplish, Story!Milestones, Story!needs

\* typed_cmd_wear keeps the world in order.
LEMMA Wear ==
  ASSUME Inv, where # NONE, typed_cmd_wear
  PROVE  Keeps
<1>1. /\ GoodWorld(objs)
      /\ objs.loc \in [Objects -> Rooms \cup {NONE}]
      /\ objs.loc["BUNNYSUIT"] # NONE
  BY RoomNames DEF Inv, GoodWorld, typed_cmd_wear, AtHand, Held, NONE
<1>2. GoodWorld(objs') /\ objs'.loc = [objs.loc EXCEPT !["BUNNYSUIT"] = NONE]
  BY <1>1, RemoveKeeps, Named, RoomNames DEF typed_cmd_wear
<1>3. UNCHANGED <<where, enter, photo, speed>> /\ flags' = flags \cup {"WEARING_SUIT"}
  BY DEF typed_cmd_wear
<1>4. Types' /\ PhotosMatch' /\ DrawnCurrent'
  BY <1>3, HandleDraws DEF typed_cmd_wear, Inv, Types, Flags, PhotosMatch
<1>5. (OneBattery /\ OneOfEach /\ Moved)'
  BY <1>1, <1>2, <1>3, Named DEF Inv, OneBattery, OneOfEach, Moved
<1>6. Way(Standing)' /\ SpeedMatches'
  BY <1>1, <1>2, <1>3, Named DEF Inv, Way, Standing, SpeedMatches, Held
<1>7. PlotStep
  <2>1. "Suit" \notin Accomplished /\ Accomplished' = Accomplished \cup {"Suit"}
    BY <1>1, <1>2, <1>3, Named DEF Inv, OneOfEach, Accomplished
  <2>2. Story!needs["Suit"] \subseteq Accomplished
    BY DEF Story!needs
  <2> QED
    BY <2>1, <2>2, Reaches
<1> QED
  BY <1>2, <1>4, <1>5, <1>6, <1>7 DEF Keeps, Inv


-----------------------------------------------------------------------------
(***************************************************************************)
(* Moving.                                                                 *)
(***************************************************************************)

\* Into a room that what was done allows.
LEMMA Moves ==
  ASSUME Inv, where # NONE, NEW r \in Rooms \ {"INVENTORY"}, Way(r), where' = r,
         photo' \in {photo, do_photo_swap(photo, "CIRCLE_N", "CIRCLE")},
         UNCHANGED <<enter, objs, flags, speed>>, Handle("CHANGE_ROOM")
  PROVE  Keeps
<1>1. GoodWorld(objs)' /\ OneBattery' /\ OneOfEach' /\ Moved' /\ SpeedMatches'
  BY DEF Inv, GoodWorld, OneBattery, OneOfEach, Moved, SpeedMatches, Held
<1>2. Types' /\ PhotosMatch'
  BY DEF Inv, Types, PhotosMatch, do_photo_swap
<1>3. DrawnCurrent'
  BY HandleDraws
<1>4. Way(Standing)'
  BY DEF Way, Standing
<1>5. PlotStep
  <2>1. where' # NONE
    BY RoomNames
  <2> QED
    BY <2>1 DEF PlotStep, Accomplished
<1> QED
  BY <1>1, <1>2, <1>3, <1>4, <1>5 DEF Keeps, Inv

\* room_data has no door out of the inventory.
LEMMA NoWayOut ==
  \A d \in room_data : d[1] = "INVENTORY" => d[2] = NONE /\ d[4] = NONE
BY DEF room_data, NONE

\* Going to another room keeps the world in order.
LEMMA GoesTo ==
  ASSUME Inv, where # NONE, NEW r \in Rooms \ {"INVENTORY"}, Way(r), GoTo(r)
  PROVE  Keeps
BY Moves DEF GoTo

\* Through a way of room_data, what was done before is still done.
LEMMA WayOn ==
  ASSUME Inv, where \in Rooms \ {"INVENTORY"}, NEW c \in {2, 3, 4}, Row[where][c] # NONE
  PROVE  Row[where][c] \in Rooms \ {"INVENTORY"} /\ Way(Row[where][c])
<1>1. Row[where] \in room_data /\ Row[where][1] = where
  BY RowOf
<1>2. Way(where)
  BY DEF Inv, Standing
<1> QED
  BY <1>1, <1>2, Doors DEF Way

\* So do try_to_move_left and try_to_move_right.
LEMMA MoveSideways ==
  ASSUME Inv, where # NONE, try_to_move_left \/ try_to_move_right
  PROVE  Keeps
<1>1. where \in Rooms
  BY DEF Inv, Types
<1>2. PICK c \in {2, 4} : Row[where][c] # NONE /\ GoTo(Row[where][c])
  BY DEF try_to_move_left, try_to_move_right
<1>3. where # "INVENTORY"
  BY <1>1, <1>2, RowOf, NoWayOut
<1> QED
  BY <1>1, <1>2, <1>3, WayOn, GoesTo

\* So does try_to_enter, with the doors that open only for some objects.
LEMMA EnterDoor ==
  ASSUME Inv, where # NONE, try_to_enter
  PROVE  Keeps
<1> DEFINE to == IF Enter(where) # NONE THEN Enter(where) ELSE Opened
<1>1. where \in Rooms /\ to # NONE /\ GoTo(to)
  BY DEF Inv, Types, try_to_enter
<1>2. to \in Rooms \ {"INVENTORY"} /\ Way(to)
  <2>1. CASE where = "INVENTORY"
    <3>1. to = Standing \/ (enter[where] = NONE /\ to = Opened)
      BY <2>1 DEF Enter, Standing, Inv, Types
    <3>2. enter[where] # NONE /\ enter[where] \in Rooms \ {"INVENTORY"}
      BY <2>1, RoomNames DEF Inv, Types
    <3> HIDE DEF to
    <3> QED
      BY <2>1, <3>1, <3>2 DEF Inv, Standing
  <2>2. CASE where = "COCKPIT" /\ Enter(where) # NONE
    <3>1. to = "OVER_WILL" /\ enter["COCKPIT"] # NONE
      BY <2>2 DEF Enter, Inv, Types
    <3>2. Way("OVER_WILL")
      BY <3>1 DEF Way, Inv, Moved, Magnet, Park, Airport, Remote
    <3> QED
      BY <3>1, <3>2, RoomNames
  <2>3. CASE where \notin {"INVENTORY", "COCKPIT"} /\ Enter(where) # NONE
    <3>1. to = Row[where][3] /\ Row[where][3] # NONE
      BY <2>3 DEF Enter, Inv, Types
    <3> QED
      BY <1>1, <2>3, <3>1, WayOn
  <2>4. CASE Enter(where) = NONE
    <3>1. Opened # NONE /\ to = Opened
      BY <1>1, <2>4
    <3>2. \/ Opened = "IN_CLEANR" /\ "WEARING_SUIT" \in flags
          \/ Opened = "IN_395LAB" \/ Opened = "CSL_LOBBY"
          \/ Opened = "BECKLOBBY" /\ objs.loc["ROBOT_LIVE"] # NONE
      BY <3>1 DEF Opened, Held, NONE
    <3>3. Way(Opened)
      BY <3>2 DEF Way, Magnet, Park, Airport, Remote
    <3> QED
      BY <3>1, <3>2, <3>3, RoomNames
  <2> QED
    BY <2>1, <2>2, <2>3, <2>4
<1> HIDE DEF to
<1> QED
  BY <1>1, <1>2, GoesTo

\* So does typed_cmd_go, to the places reached by plane or car.
LEMMA Go ==
  ASSUME Inv, where # NONE, NEW to \in {"ALLERTON", "WILLARD", "CAR_SITE"}, typed_cmd_go(to)
  PROVE  Keeps
<1>1. to \in Rooms \ {"INVENTORY"}
  BY RoomNames
<1>2. Way(to)
  BY DEF typed_cmd_go, Way, Held, NONE, Magnet, Park, Airport, Remote
<1> QED
  BY <1>1, <1>2, Moves DEF typed_cmd_go

\* The inventory view keeps the place where the player stands.
LEMMA Inventory ==
  ASSUME Inv, where # NONE, typed_cmd_inventory
  PROVE  Keeps
<1>1. CASE where = "INVENTORY"
  <2>1. enter[where] \in Rooms \ {"INVENTORY"} /\ Way(enter[where])
    BY <1>1 DEF Inv, Types, Standing
  <2> QED
    BY <1>1, <2>1, Moves DEF typed_cmd_inventory
<1>2. CASE where # "INVENTORY"
  <2>1. /\ where \in Rooms \ {"INVENTORY"} /\ where' = "INVENTORY"
        /\ enter' = [enter EXCEPT !["INVENTORY"] = where]
        /\ UNCHANGED <<objs, flags, photo, speed>>
    BY <1>2, WorldAssumption DEF typed_cmd_inventory
  <2>2. enter'["INVENTORY"] = where /\ enter'["COCKPIT"] = enter["COCKPIT"]
    BY <2>1 DEF Inv, Types
  <2>3. Types'
    BY <2>1, <2>2, RoomNames DEF Inv, Types
  <2>4. GoodWorld(objs)' /\ OneBattery' /\ OneOfEach' /\ Moved' /\ SpeedMatches' /\ PhotosMatch'
    BY <2>1, <2>2 DEF Inv, GoodWorld, OneBattery, OneOfEach, Moved, SpeedMatches, Held, PhotosMatch
  <2>5. DrawnCurrent'
    BY HandleDraws DEF typed_cmd_inventory
  <2>6. Standing' = Standing /\ Way(Standing)'
    BY <1>2, <2>1, <2>2 DEF Inv, Way, Standing
  <2>7. PlotStep
    BY <2>1, <2>2 DEF PlotStep, Accomplished, NONE
  <2> QED
    BY <2>3, <2>4, <2>5, <2>6, <2>7 DEF Keeps, Inv
<1> QED
  BY <1>1, <1>2


-----------------------------------------------------------------------------
(***************************************************************************)
(* Carrying.                                                               *)
(***************************************************************************)

\* What is found in a room says that it is there.
LEMMA FoundThere ==
  ASSUME GoodWorld(objs), NEW r \in Rooms, NEW n, find_in_room(r, n) # NONE
  PROVE  find_in_room(r, n) \in Objects /\ objs.loc[find_in_room(r, n)] = r
<1> DEFINE l == objs.contents[r]
           I == {i \in 1 .. Len(l) : Name[l[i]] = n}
<1>1. l \in Seq(Objects) /\ Range(l) = {o \in Objects : objs.loc[o] = r}
  BY DEF GoodWorld
<1>2. I # {} /\ find_in_room(r, n) = l[Min(I)]
  BY DEF find_in_room, SelectInSeq
<1>3. Min(I) \in 1 .. Len(l)
  <2>1. I \subseteq Nat
    BY <1>1
  <2>2. Min(I) \in I
    <3> HIDE DEF I
    <3> QED
      BY <1>2, <2>1, FirstIndex
  <2> QED
    BY <2>2
<1> HIDE DEF I, l
<1>4. l[Min(I)] \in Range(l)
  <2>1. DOMAIN l = 1 .. Len(l)
    BY <1>1
  <2> QED
    BY <1>3, <2>1, Zenon DEF Range
<1> QED
  BY <1>1, <1>2, <1>4

\* The parts that do not depend on what is carried.
LEMMA CarryFrame ==
  ASSUME Inv, UNCHANGED <<where, enter, flags, photo>>
  PROVE  Types' /\ PhotosMatch' /\ Standing' = Standing
BY DEF Inv, Types, PhotosMatch, Standing

\* After an object has been picked up the speeds match the inventory.
LEMMA SpeedAfterGet ==
  ASSUME Inv, GoodWorld(objs'), NEW o \in Objects, NEW v, v \in [Objects -> Rooms \cup {NONE}],
         \A x \in {"BOARD", "JETPACK"} : v[x] = objs.loc[x],
         objs'.loc = [v EXCEPT ![o] = "INVENTORY"],
         speed' = [x |-> IF objs'.loc["BOARD"] = "INVENTORY" THEN 3 * MOTION_SPEED ELSE speed.x,
                   y |-> IF objs'.loc["JETPACK"] = "INVENTORY" THEN 3 * MOTION_SPEED ELSE speed.y]
  PROVE  SpeedMatches'
BY Named DEF Inv, SpeedMatches, Held, GoodWorld

\* typed_cmd_get keeps the world in order, special objects included.
LEMMA Get ==
  ASSUME Inv, where # NONE, NEW n, typed_cmd_get(n)
  PROVE  Keeps
<1> DEFINE special == obj_special_get(Standing, n)
           o == IF special # NONE THEN special ELSE find_in_room(Standing, n)
<1>1. /\ o # NONE
      /\ o = "TUX" => "LURED_TUX" \in flags
      /\ objs' = insert_object(IF special # NONE THEN TakenOut(o) ELSE objs, o, "INVENTORY")
      /\ speed' = [x |-> IF objs'.loc["BOARD"] = "INVENTORY" THEN 3 * MOTION_SPEED ELSE speed.x,
                   y |-> IF objs'.loc["JETPACK"] = "INVENTORY" THEN 3 * MOTION_SPEED ELSE speed.y]
      /\ UNCHANGED <<where, enter, flags, photo>>
  BY DEF typed_cmd_get, move_object_to_inventory
<1>2. GoodWorld(objs) /\ objs.loc \in [Objects -> Rooms \cup {NONE}]
  BY DEF Inv, GoodWorld
<1>3. Standing \in Rooms
  BY DEF Inv, Types, Standing
<1>4. DrawnCurrent' /\ Types' /\ PhotosMatch' /\ Standing' = Standing
  BY <1>1, CarryFrame, HandleDraws DEF typed_cmd_get
<1>5. \/ special = "BOOK_C" /\ "HAS_EATEN" \in flags
      \/ special = "BOOK_WODE"
      \/ special = "BATT_EMPTY" /\ objs.loc["BATT_CAR"] = "CAR_SITE"
      \/ special = NONE /\ ~ (Standing = "CAR_SITE" /\ objs.loc["BATT_CAR"] = "CAR_SITE")
  BY DEF obj_special_get
<1> HIDE DEF special
<1>6. CASE special = "BATT_EMPTY" /\ objs.loc["BATT_CAR"] = "CAR_SITE"
  <2> DEFINE u == remove_object(objs, "BATT_CAR")
  <2>1. objs' = insert_object(u, "BATT_EMPTY", "INVENTORY")
    BY <1>1, <1>6 DEF TakenOut, NONE
  <2>2. GoodWorld(u) /\ u.loc = [objs.loc EXCEPT !["BATT_CAR"] = NONE]
    BY <1>2, RemoveKeeps, Named, RoomNames
  <2> HIDE DEF u
  <2>3. GoodWorld(objs') /\ objs'.loc = [u.loc EXCEPT !["BATT_EMPTY"] = "INVENTORY"]
    <3>1. "BATT_EMPTY" \in Objects /\ "INVENTORY" \in Rooms /\ NONE \notin Rooms
      BY Named, RoomNames
    <3> QED
      BY <2>1, <2>2, <3>1, InsertKeeps
  <2>4. u.loc \in [Objects -> Rooms \cup {NONE}]
    BY <2>2 DEF GoodWorld
  <2>5. SpeedMatches'
    BY <1>1, <1>2, <2>2, <2>3, <2>4, SpeedAfterGet, Named
  <2>6. (OneBattery /\ OneOfEach /\ Moved)' /\ Way(Standing)'
    BY <1>1, <1>2, <1>4, <1>6, <2>2, <2>3, Named DEF Inv, OneBattery, OneOfEach, Moved, Way, NONE
  <2>7. PlotStep
    <3>1. "BatteryOut" \notin Accomplished /\ Accomplished' = Accomplished \cup {"BatteryOut"}
      BY <1>1, <1>2, <1>6, <2>2, <2>3, Named DEF Inv, OneBattery, Accomplished, NONE
    <3>2. Story!needs["BatteryOut"] \subseteq Accomplished
      BY <1>6 DEF Inv, OneBattery, Accomplished, NONE, Story!needs
    <3> QED
      BY <3>1, <3>2, Reaches
  <2> QED
    BY <1>4, <2>3, <2>5, <2>6, <2>7 DEF Keeps, Inv
<1>7. CASE \/ special = "BOOK_C" /\ "HAS_EATEN" \in flags
           \/ special = "BOOK_WODE"
           \/ special = NONE /\ ~ (Standing = "CAR_SITE" /\ objs.loc["BATT_CAR"] = "CAR_SITE")
  <2>1. objs' = insert_object(objs, o, "INVENTORY")
    BY <1>1, <1>7 DEF TakenOut, NONE
  <2>2. /\ o \in Objects
        /\ o \in {"BOOK_C", "BOOK_WODE"} \/ objs.loc[o] = Standing
        /\ o = "BOOK_C" => "HAS_EATEN" \in flags
        /\ o # "BATT_CAR"
    <3>1. CASE special = NONE
      <4>1. o \in Objects /\ objs.loc[o] = Standing
        BY <1>1, <1>2, <1>3, <3>1, FoundThere
      <4> HIDE DEF o
      <4>2. o = "BOOK_C" => "HAS_EATEN" \in flags
        BY <1>3, <4>1, RoomNames DEF Inv, Moved
      <4>3. o # "BATT_CAR"
        BY <1>3, <1>7, <3>1, <4>1, RoomNames DEF Inv, OneBattery, NONE
      <4> QED
        BY <4>1, <4>2, <4>3
    <3>2. CASE special # NONE
      BY <1>7, <3>2, Named
    <3> QED
      BY <3>1, <3>2
  <2> HIDE DEF o
  <2>3. GoodWorld(objs') /\ objs'.loc = [objs.loc EXCEPT ![o] = "INVENTORY"]
    BY <1>2, <2>1, <2>2, InsertKeeps, RoomNames
  <2>4. SpeedMatches'
    BY <1>1, <1>2, <2>2, <2>3, SpeedAfterGet
  <2>5. \A x \in Objects : objs'.loc[x] = IF x = o THEN "INVENTORY" ELSE objs.loc[x]
    BY <1>2, <2>2, <2>3
  <2>6. \A x \in Objects \ {"BOOK_C", "BOOK_WODE"} : objs'.loc[x] = NONE <=> objs.loc[x] = NONE
    BY <1>3, <2>2, <2>5, RoomNames
  <2>7. objs'.loc["BATT_CAR"] = objs.loc["BATT_CAR"]
    BY <2>2, <2>5, Named
  <2>8. (OneBattery /\ OneOfEach)' /\ Way(Standing)'
    BY <1>1, <1>4, <2>6, <2>7, Named DEF Inv, OneBattery, OneOfEach, Way
  <2>9. Moved'
    <3>1. objs'.loc["BOOK_C"] # NONE => "HAS_EATEN" \in flags
      BY <2>2, <2>5, Named DEF Inv, Moved
    <3>2. objs'.loc["TUX"] # "REM_LAB" => "LURED_TUX" \in flags
      BY <1>1, <2>5, Named DEF Inv, Moved, o
    <3>3. objs'.loc["MIMO_CARD"] # "STATUE" => objs.loc["GPS_GOOD"] # NONE
      BY <2>2, <2>5, Named DEF Inv, Moved, Way, Park
    <3>4. objs'.loc["GPS_GOOD"] = NONE <=> objs.loc["GPS_GOOD"] = NONE
      BY <2>6, Named
    <3> QED
      BY <1>1, <3>1, <3>2, <3>3, <3>4 DEF Inv, Moved
  <2>10. PlotStep
    <3>1. Accomplished' = Accomplished
      BY <1>1, <2>6, <2>7, Named DEF Accomplished
    <3> QED
      BY <3>1 DEF PlotStep
  <2> QED
    BY <1>4, <2>3, <2>4, <2>8, <2>9, <2>10 DEF Keeps, Inv
<1> QED
  BY <1>5, <1>6, <1>7

\* So does typed_cmd_drop.
LEMMA Drop ==
  ASSUME Inv, where # NONE, NEW n, typed_cmd_drop(n)
  PROVE  Keeps
<1> DEFINE o == find_in_room("INVENTORY", n)
<1>1. /\ o \in Objects /\ Standing \in Rooms \ {"INVENTORY"}
      /\ objs' = insert_object(objs, o, Standing)
      /\ speed' = [x |-> IF objs'.loc["BOARD"] = "INVENTORY" THEN speed.x ELSE MOTION_SPEED,
                   y |-> IF objs'.loc["JETPACK"] = "INVENTORY" THEN speed.y ELSE MOTION_SPEED]
      /\ UNCHANGED <<where, enter, flags, photo>>
  BY WorldAssumption DEF typed_cmd_drop
<1>2. GoodWorld(objs) /\ objs.loc \in [Objects -> Rooms \cup {NONE}]
  BY DEF Inv, GoodWorld
<1>3. objs.loc[o] = "INVENTORY"
  <2>1. NONE \notin Objects
    BY ObjectNames DEF NONE
  <2> QED
    BY <1>1, <1>2, <2>1, FoundThere, RoomNames
<1> HIDE DEF o
<1>4. DrawnCurrent' /\ Types' /\ PhotosMatch' /\ Standing' = Standing
  BY <1>1, CarryFrame, HandleDraws DEF typed_cmd_drop
<1>5. GoodWorld(objs') /\ objs'.loc = [objs.loc EXCEPT ![o] = Standing]
  BY <1>1, <1>2, InsertKeeps, RoomNames
<1>6. \A x \in Objects : objs'.loc[x] = IF x = o THEN Standing ELSE objs.loc[x]
  BY <1>1, <1>2, <1>5
<1>7. SpeedMatches'
  BY <1>1, <1>3, <1>6, Named DEF Inv, SpeedMatches, Held
<1>8. \A x \in Objects : objs'.loc[x] = NONE <=> objs.loc[x] = NONE
  BY <1>1, <1>3, <1>6, RoomNames DEF NONE
<1>9. objs'.loc["BATT_CAR"] = objs.loc["BATT_CAR"]
  BY <1>3, <1>6, Named DEF Inv, OneBattery, NONE
<1>10. (OneBattery /\ OneOfEach)' /\ Way(Standing)'
  BY <1>1, <1>4, <1>8, <1>9, Named DEF Inv, OneBattery, OneOfEach, Way
<1>11. Moved'
  BY <1>1, <1>3, <1>6, <1>8, Named DEF Inv, Moved
<1>12. PlotStep
  BY <1>1, <1>8, Named DEF Accomplished, PlotStep
<1> QED
  BY <1>4, <1>5, <1>7, <1>10, <1>11, <1>12 DEF Keeps, Inv


-----------------------------------------------------------------------------
(***************************************************************************)
(* Doing things.                                                           *)
(***************************************************************************)

\* An object at hand is in some room.
LEMMA AtHandExists ==
  ASSUME where # NONE, NEW o, AtHand(o)
  PROVE  objs.loc[o] # NONE /\ objs.loc[o] \in {where, "INVENTORY"}
BY DEF AtHand, Held, NONE

\* One object used up and another made of it.
LEMMA Exchange ==
  ASSUME NEW w, GoodWorld(w), NEW a \in Objects, NEW b \in Objects, NEW r \in Rooms
  PROVE  /\ GoodWorld(insert_object(remove_object(w, a), b, r))
         /\ insert_object(remove_object(w, a), b, r).loc = [w.loc EXCEPT ![a] = NONE, ![b] = r]
<1>1. GoodWorld(remove_object(w, a)) /\ remove_object(w, a).loc = [w.loc EXCEPT ![a] = NONE]
  BY RemoveKeeps, RoomNames
<1> DEFINE u == remove_object(w, a)
<1>2. GoodWorld(insert_object(u, b, r)) /\ insert_object(u, b, r).loc = [u.loc EXCEPT ![b] = r]
  <2>1. GoodWorld(u) /\ NONE \notin Rooms
    BY <1>1, RoomNames
  <2> HIDE DEF u
  <2> QED
    BY <2>1, InsertKeeps
<1> QED
  BY <1>1, <1>2

\* So does typed_cmd_buy.
LEMMA BuyDew ==
  ASSUME Inv, where # NONE, buy_dew
  PROVE  Keeps
<1>1. GoodWorld(objs) /\ objs.loc \in [Objects -> Rooms \cup {NONE}]
  BY DEF Inv, GoodWorld
<1>2. GoodWorld(objs') /\ objs'.loc = [objs.loc EXCEPT !["MTN_DEW"] = "INVENTORY"]
  <2>1. "MTN_DEW" \in Objects /\ "INVENTORY" \in Rooms /\ NONE \notin Rooms
    BY Named, RoomNames
  <2> QED
    BY <1>1, <2>1, InsertKeeps DEF buy_dew, move_object_to_inventory
<1>3. UNCHANGED <<where, enter, flags, photo, speed>>
  BY DEF buy_dew
<1>4. DrawnCurrent' /\ Types' /\ PhotosMatch' /\ Standing' = Standing
  BY <1>3, CarryFrame, HandleDraws DEF buy_dew
<1>5. \A x \in Objects : x # "MTN_DEW" => objs'.loc[x] = objs.loc[x]
  BY <1>1, <1>2, Named
<1>6. (OneBattery /\ OneOfEach /\ Moved /\ SpeedMatches)' /\ Way(Standing)'
  BY <1>3, <1>4, <1>5, Named DEF Inv, OneBattery, OneOfEach, Moved, SpeedMatches, Held, Way
<1>7. PlotStep
  BY <1>3, <1>5, Named DEF Accomplished, PlotStep
<1> QED
  BY <1>2, <1>4, <1>6, <1>7 DEF Keeps, Inv

\* So does typed_cmd_drink.
LEMMA Drink ==
  ASSUME Inv, where # NONE, typed_cmd_drink
  PROVE  Keeps
<1>1. GoodWorld(objs) /\ objs.loc \in [Objects -> Rooms \cup {NONE}]
  BY DEF Inv, GoodWorld
<1>2. GoodWorld(objs') /\ objs'.loc = [objs.loc EXCEPT !["MTN_DEW"] = NONE]
  BY <1>1, RemoveKeeps, Named, RoomNames DEF typed_cmd_drink
<1>3. UNCHANGED <<where, enter, flags, photo, speed>>
  BY DEF typed_cmd_drink
<1>4. DrawnCurrent' /\ Types' /\ PhotosMatch' /\ Standing' = Standing
  BY <1>3, CarryFrame, HandleDraws DEF typed_cmd_drink
<1>5. \A x \in Objects : x # "MTN_DEW" => objs'.loc[x] = objs.loc[x]
  BY <1>1, <1>2, Named
<1>6. (OneBattery /\ OneOfEach /\ Moved /\ SpeedMatches)' /\ Way(Standing)'
  BY <1>3, <1>4, <1>5, Named DEF Inv, OneBattery, OneOfEach, Moved, SpeedMatches, Held, Way
<1>7. PlotStep
  BY <1>3, <1>5, Named DEF Accomplished, PlotStep
<1> QED
  BY <1>2, <1>4, <1>6, <1>7 DEF Keeps, Inv

\* The yogurt and the sigh.
LEMMA Eats ==
  ASSUME Inv, where # NONE, Eat
  PROVE  Keeps
<1>1. UNCHANGED <<where, enter, objs, photo, speed>> /\ flags' = flags \cup {"HAS_EATEN"}
  BY DEF Eat
<1>2. Types' /\ GoodWorld(objs)' /\ PhotosMatch' /\ SpeedMatches'
  BY <1>1 DEF Inv, Types, Flags, GoodWorld, PhotosMatch, SpeedMatches, Held
<1>3. DrawnCurrent'
  BY <1>1 DEF Eat, Handle, Inv, DrawnCurrent, Picture, View
<1>4. (OneBattery /\ OneOfEach /\ Moved)' /\ Way(Standing)'
  BY <1>1 DEF Inv, OneBattery, OneOfEach, Moved, Way, Standing
<1>5. PlotStep
  <2>1. CASE "HAS_EATEN" \in flags
    <3>1. UNCHANGED <<where, enter, objs, flags>>
      BY <1>1, <2>1
    <3> QED
      BY <3>1 DEF PlotStep, Accomplished
  <2>2. CASE "HAS_EATEN" \notin flags
    <3>1. "Eaten" \notin Accomplished /\ Accomplished' = Accomplished \cup {"Eaten"}
      BY <1>1, <2>2 DEF Accomplished
    <3>2. Story!needs["Eaten"] \subseteq Accomplished
      BY DEF Story!needs
    <3> QED
      BY <3>1, <3>2, Reaches
  <2> QED
    BY <2>1, <2>2
<1> QED
  BY <1>2, <1>3, <1>4, <1>5 DEF Keeps, Inv

\* So does typed_cmd_fix.
LEMMA Fix ==
  ASSUME Inv, where # NONE, typed_cmd_fix
  PROVE  Keeps
<1>1. GoodWorld(objs) /\ objs.loc \in [Objects -> Rooms \cup {NONE}]
  BY DEF Inv, GoodWorld
<1>2. GoodWorld(objs') /\ objs'.loc = [objs.loc EXCEPT !["GPS_BAD"] = NONE, !["GPS_SPEC"] = NONE,
                                                       !["GPS_GOOD"] = "INVENTORY"]
  <2> DEFINE u == remove_object(objs, "GPS_BAD")
  <2>1. GoodWorld(u) /\ u.loc = [objs.loc EXCEPT !["GPS_BAD"] = NONE]
    BY <1>1, RemoveKeeps, Named, RoomNames
  <2>2. objs' = insert_object(remove_object(u, "GPS_SPEC"), "GPS_GOOD", "INVENTORY")
    BY DEF typed_cmd_fix, move_object_to_inventory
  <2> HIDE DEF u
  <2>3. "GPS_SPEC" \in Objects /\ "GPS_GOOD" \in Objects /\ "INVENTORY" \in Rooms
    BY Named, RoomNames
  <2> QED
    BY <2>1, <2>2, <2>3, Exchange
<1>3. UNCHANGED <<where, enter, flags, photo, speed>>
  BY DEF typed_cmd_fix
<1>4. DrawnCurrent' /\ Types' /\ PhotosMatch' /\ Standing' = Standing
  BY <1>3, CarryFrame, HandleDraws DEF typed_cmd_fix
<1>5. /\ objs.loc["GPS_BAD"] # NONE /\ objs.loc["GPS_GOOD"] = NONE
      /\ "WEARING_SUIT" \in flags
  BY AtHandExists DEF typed_cmd_fix, Inv, OneOfEach, Way, Standing
<1>6. /\ objs'.loc["GPS_BAD"] = NONE /\ objs'.loc["GPS_GOOD"] = "INVENTORY"
      /\ \A x \in Objects : x \notin {"GPS_BAD", "GPS_SPEC", "GPS_GOOD"} => objs'.loc[x] = objs.loc[x]
  BY <1>1, <1>2, Named
<1>7. (OneBattery /\ OneOfEach /\ Moved /\ SpeedMatches)' /\ Way(Standing)'
  BY <1>3, <1>4, <1>5, <1>6, Named
     DEF Inv, OneBattery, OneOfEach, Moved, SpeedMatches, Held, Way, NONE
<1>8. PlotStep
  <2>1. "Gps" \notin Accomplished /\ Accomplished' = Accomplished \cup {"Gps"}
    BY <1>3, <1>5, <1>6, Named DEF Accomplished, NONE
  <2>2. Story!needs["Gps"] \subseteq Accomplished
    BY <1>5 DEF Accomplished, Story!needs
  <2> QED
    BY <2>1, <2>2, Reaches
<1> QED
  BY <1>2, <1>4, <1>7, <1>8 DEF Keeps, Inv

\* So does typed_cmd_flash.
LEMMA Flash ==
  ASSUME Inv, where # NONE, typed_cmd_flash
  PROVE  Keeps
<1>1. GoodWorld(objs) /\ objs.loc \in [Objects -> Rooms \cup {NONE}]
  BY DEF Inv, GoodWorld
<1>2. GoodWorld(objs') /\ objs'.loc = [objs.loc EXCEPT !["ROBOT_DEAD"] = NONE, !["ROBOT_LIVE"] = "INVENTORY"]
  <2>1. "ROBOT_DEAD" \in Objects /\ "ROBOT_LIVE" \in Objects /\ "INVENTORY" \in Rooms
    BY Named, RoomNames
  <2> QED
    BY <1>1, <2>1, Exchange DEF typed_cmd_flash, move_object_to_inventory
<1>3. UNCHANGED <<where, enter, flags, photo, speed>>
  BY DEF typed_cmd_flash
<1>4. DrawnCurrent' /\ Types' /\ PhotosMatch' /\ Standing' = Standing
  BY <1>3, CarryFrame, HandleDraws DEF typed_cmd_flash
<1>5. objs.loc["ROBOT_DEAD"] # NONE /\ objs.loc["ROBOT_LIVE"] = NONE
  BY AtHandExists DEF typed_cmd_flash, Inv, OneOfEach
<1>6. /\ objs'.loc["ROBOT_DEAD"] = NONE /\ objs'.loc["ROBOT_LIVE"] = "INVENTORY"
      /\ \A x \in Objects : x \notin {"ROBOT_DEAD", "ROBOT_LIVE"} => objs'.loc[x] = objs.loc[x]
  BY <1>1, <1>2, Named
<1>7. (OneBattery /\ OneOfEach /\ Moved /\ SpeedMatches)' /\ Way(Standing)'
  BY <1>3, <1>4, <1>5, <1>6, Named
     DEF Inv, OneBattery, OneOfEach, Moved, SpeedMatches, Held, Way, NONE
<1>8. PlotStep
  <2>1. "Robot" \notin Accomplished /\ Accomplished' = Accomplished \cup {"Robot"}
    BY <1>3, <1>5, <1>6, Named DEF Accomplished, NONE
  <2>2. Story!needs["Robot"] \subseteq Accomplished
    BY DEF Story!needs
  <2> QED
    BY <2>1, <2>2, Reaches
<1> QED
  BY <1>2, <1>4, <1>7, <1>8 DEF Keeps, Inv


\* So does typed_cmd_use with the car key.
LEMMA UseCar ==
  ASSUME Inv, where # NONE, use_car
  PROVE  Keeps
<1>1. GoodWorld(objs) /\ objs.loc \in [Objects -> Rooms \cup {NONE}]
  BY DEF Inv, GoodWorld
<1>2. GoodWorld(objs') /\ objs'.loc = [objs.loc EXCEPT !["CAR_KEY"] = NONE, !["BATT_CAR"] = "CAR_SITE"]
  <2>1. "CAR_KEY" \in Objects /\ "BATT_CAR" \in Objects /\ "CAR_SITE" \in Rooms
    BY Named, RoomNames
  <2> QED
    BY <1>1, <2>1, Exchange DEF use_car
<1>3. /\ UNCHANGED <<where, enter, speed>> /\ where = "CAR_SITE"
      /\ flags' = flags \cup {"CAR_OPEN"} /\ "CAR_OPEN" \notin flags /\ "CAR_FIXED" \notin flags
      /\ photo' = do_photo_swap(photo, "CAR_SITE", "CAR")
  BY DEF use_car
<1>4. DrawnCurrent'
  BY HandleDraws DEF use_car
<1>5. Types' /\ PhotosMatch'
  BY <1>3 DEF Inv, Types, Flags, PhotosMatch, do_photo_swap
<1>6. /\ objs'.loc["CAR_KEY"] = NONE /\ objs'.loc["BATT_CAR"] = "CAR_SITE"
      /\ \A x \in Objects : x \notin {"CAR_KEY", "BATT_CAR"} => objs'.loc[x] = objs.loc[x]
  BY <1>1, <1>2, Named
<1>7. (OneBattery /\ OneOfEach /\ Moved /\ SpeedMatches)' /\ Way(Standing)'
  BY <1>3, <1>6, Named
     DEF Inv, OneBattery, OneOfEach, Moved, SpeedMatches, Held, Way, Standing, NONE
<1>8. PlotStep
  <2>1. "CarOpen" \notin Accomplished /\ Accomplished' = Accomplished \cup {"CarOpen"}
    BY <1>3, <1>6, Named DEF Accomplished, NONE
  <2>2. Story!needs["CarOpen"] \subseteq Accomplished
    BY DEF Story!needs
  <2> QED
    BY <2>1, <2>2, Reaches
<1> QED
  BY <1>2, <1>4, <1>5, <1>7, <1>8 DEF Keeps, Inv

\* The charged battery is the one taken out of the car, at the magnet.
LEMMA Charge ==
  ASSUME Inv, where # NONE, typed_cmd_charge
  PROVE  Keeps
<1>1. GoodWorld(objs) /\ objs.loc \in [Objects -> Rooms \cup {NONE}]
  BY DEF Inv, GoodWorld
<1>2. GoodWorld(objs') /\ objs'.loc = [objs.loc EXCEPT !["BATT_EMPTY"] = NONE, !["BATT_FULL"] = "INVENTORY"]
  <2>1. "BATT_EMPTY" \in Objects /\ "BATT_FULL" \in Objects /\ "INVENTORY" \in Rooms
    BY Named, RoomNames
  <2> QED
    BY <1>1, <2>1, Exchange DEF typed_cmd_charge, move_object_to_inventory
<1>3. UNCHANGED <<where, enter, flags, photo, speed>>
  BY DEF typed_cmd_charge
<1>4. DrawnCurrent' /\ Types' /\ PhotosMatch' /\ Standing' = Standing
  BY <1>3, CarryFrame, HandleDraws DEF typed_cmd_charge
<1>5. objs.loc["BATT_EMPTY"] # NONE /\ objs.loc["ROBOT_LIVE"] # NONE
  BY AtHandExists DEF typed_cmd_charge, Inv, Way, Standing, Magnet
<1>6. /\ objs'.loc["BATT_EMPTY"] = NONE /\ objs'.loc["BATT_FULL"] = "INVENTORY"
      /\ \A x \in Objects : x \notin {"BATT_EMPTY", "BATT_FULL"} => objs'.loc[x] = objs.loc[x]
  BY <1>1, <1>2, Named
<1>7. (OneBattery /\ OneOfEach /\ Moved /\ SpeedMatches)' /\ Way(Standing)'
  BY <1>3, <1>4, <1>5, <1>6, Named
     DEF Inv, OneBattery, OneOfEach, Moved, SpeedMatches, Held, Way, NONE
<1>8. PlotStep
  <2>1. "Charged" \notin Accomplished /\ Accomplished' = Accomplished \cup {"Charged"}
    BY <1>3, <1>5, <1>6, Named DEF Inv, OneBattery, Accomplished, NONE
  <2>2. Story!needs["Charged"] \subseteq Accomplished
    BY <1>5 DEF Inv, OneBattery, Accomplished, Story!needs
  <2> QED
    BY <2>1, <2>2, Reaches
<1> QED
  BY <1>2, <1>4, <1>7, <1>8 DEF Keeps, Inv

\* So does typed_cmd_install.
LEMMA InstallBattery ==
  ASSUME Inv, where # NONE, install_battery
  PROVE  Keeps
<1>1. GoodWorld(objs) /\ objs.loc \in [Objects -> Rooms \cup {NONE}]
  BY DEF Inv, GoodWorld
<1>2. GoodWorld(objs') /\ objs'.loc = [objs.loc EXCEPT !["BATT_FULL"] = NONE]
  BY <1>1, RemoveKeeps, Named, RoomNames DEF install_battery
<1>3. /\ UNCHANGED <<where, enter, speed>> /\ where = "CAR_SITE"
      /\ flags' = flags \cup {"CAR_FIXED"}
      /\ photo' = do_photo_swap(photo, "CAR_SITE", "CAR")
  BY DEF install_battery
<1>4. DrawnCurrent'
  BY HandleDraws DEF install_battery
<1>5. objs.loc["BATT_FULL"] # NONE /\ "CAR_OPEN" \in flags /\ "CAR_FIXED" \notin flags
  BY AtHandExists DEF install_battery, Inv, OneBattery
<1>6. Types' /\ PhotosMatch'
  BY <1>3, <1>5 DEF Inv, Types, Flags, PhotosMatch, do_photo_swap
<1>7. /\ objs'.loc["BATT_FULL"] = NONE
      /\ \A x \in Objects : x # "BATT_FULL" => objs'.loc[x] = objs.loc[x]
  BY <1>1, <1>2, Named
<1>8. (OneBattery /\ OneOfEach /\ Moved /\ SpeedMatches)' /\ Way(Standing)'
  BY <1>3, <1>5, <1>7, Named
     DEF Inv, OneBattery, OneOfEach, Moved, SpeedMatches, Held, Way, Standing, NONE
<1>9. PlotStep
  <2>1. "CarFixed" \notin Accomplished /\ Accomplished' = Accomplished \cup {"CarFixed"}
    BY <1>3, <1>5, <1>7, Named DEF Accomplished, NONE
  <2>2. Story!needs["CarFixed"] \subseteq Accomplished
    BY <1>5 DEF Accomplished, Story!needs
  <2> QED
    BY <2>1, <2>2, Reaches
<1> QED
  BY <1>2, <1>4, <1>6, <1>8, <1>9 DEF Keeps, Inv

\* The card comes from the park and the cockpit from the airport.
LEMMA InstallMimo ==
  ASSUME Inv, where # NONE, install_mimo
  PROVE  Keeps
<1>1. GoodWorld(objs) /\ objs.loc \in [Objects -> Rooms \cup {NONE}]
  BY DEF Inv, GoodWorld
<1>2. GoodWorld(objs') /\ objs'.loc = [objs.loc EXCEPT !["MIMO_CARD"] = NONE]
  BY <1>1, RemoveKeeps, Named, RoomNames DEF install_mimo
<1>3. /\ UNCHANGED <<where, flags, photo, speed>> /\ where = "COCKPIT"
      /\ enter' = [enter EXCEPT !["COCKPIT"] = "OVER_WILL"]
  BY DEF install_mimo
<1>4. enter'["COCKPIT"] = "OVER_WILL" /\ enter'["INVENTORY"] = enter["INVENTORY"]
  BY <1>3 DEF Inv, Types
<1>5. DrawnCurrent'
  BY HandleDraws DEF install_mimo
<1>6. /\ objs.loc["MIMO_CARD"] # NONE /\ enter["COCKPIT"] = NONE
      /\ "CAR_FIXED" \in flags /\ objs.loc["GPS_GOOD"] # NONE
  <2>1. objs.loc["MIMO_CARD"] # NONE /\ objs.loc["MIMO_CARD"] \in {"COCKPIT", "INVENTORY"}
    BY <1>3, AtHandExists DEF install_mimo
  <2> QED
    BY <1>3, <2>1 DEF Inv, OneOfEach, Moved, Way, Standing, Airport
<1>7. Types' /\ PhotosMatch'
  BY <1>3, <1>4, RoomNames DEF Inv, Types, PhotosMatch
<1>8. /\ objs'.loc["MIMO_CARD"] = NONE
      /\ \A x \in Objects : x # "MIMO_CARD" => objs'.loc[x] = objs.loc[x]
  BY <1>1, <1>2, Named
<1>9. (OneBattery /\ OneOfEach /\ Moved /\ SpeedMatches)' /\ Way(Standing)'
  BY <1>3, <1>4, <1>6, <1>8, Named
     DEF Inv, OneBattery, OneOfEach, Moved, SpeedMatches, Held, Way, Standing, NONE
<1>10. PlotStep
  <2>1. "Transmitter" \notin Accomplished /\ Accomplished' = Accomplished \cup {"Transmitter"}
    BY <1>3, <1>4, <1>6, <1>8, Named DEF Accomplished, NONE
  <2>2. Story!needs["Transmitter"] \subseteq Accomplished
    BY <1>6 DEF Accomplished, Story!needs
  <2> QED
    BY <2>1, <2>2, Reaches
<1> QED
  BY <1>2, <1>5, <1>7, <1>9, <1>10 DEF Keeps, Inv

\* So does typed_cmd_use with the fish.
LEMMA UseFish ==
  ASSUME Inv, where # NONE, use_fish
  PROVE  Keeps
<1>1. GoodWorld(objs) /\ objs.loc \in [Objects -> Rooms \cup {NONE}]
  BY DEF Inv, GoodWorld
<1>2. GoodWorld(objs') /\ objs'.loc = [objs.loc EXCEPT !["FISH"] = NONE, !["TUX"] = "INVENTORY"]
  <2>1. "FISH" \in Objects /\ "TUX" \in Objects /\ "INVENTORY" \in Rooms
    BY Named, RoomNames
  <2> QED
    BY <1>1, <2>1, Exchange DEF use_fish, move_object_to_inventory
<1>3. /\ UNCHANGED <<where, enter, photo, speed>> /\ where = "REM_LAB"
      /\ flags' = flags \cup {"LURED_TUX"}
  BY DEF use_fish
<1>4. DrawnCurrent'
  BY HandleDraws DEF use_fish
<1>5. objs.loc["FISH"] # NONE /\ "LURED_TUX" \notin flags /\ enter["COCKPIT"] # NONE
  BY <1>3, AtHandExists DEF use_fish, Inv, OneOfEach, Way, Standing, Remote
<1>6. Types' /\ PhotosMatch'
  BY <1>3 DEF Inv, Types, Flags, PhotosMatch
<1>7. /\ objs'.loc["FISH"] = NONE /\ objs'.loc["TUX"] = "INVENTORY"
      /\ \A x \in Objects : x \notin {"FISH", "TUX"} => objs'.loc[x] = objs.loc[x]
  BY <1>1, <1>2, Named
<1>8. (OneBattery /\ OneOfEach /\ Moved /\ SpeedMatches)' /\ Way(Standing)'
  BY <1>3, <1>5, <1>7, Named
     DEF Inv, OneBattery, OneOfEach, Moved, SpeedMatches, Held, Way, Standing, NONE
<1>9. PlotStep
  <2>1. "Tux" \notin Accomplished /\ Accomplished' = Accomplished \cup {"Tux"}
    BY <1>3, <1>5, <1>7, Named DEF Accomplished, NONE
  <2>2. Story!needs["Tux"] \subseteq Accomplished
    BY <1>5 DEF Accomplished, Story!needs
  <2> QED
    BY <2>1, <2>2, Reaches
<1> QED
  BY <1>2, <1>4, <1>6, <1>8, <1>9 DEF Keeps, Inv

\* The game is won with the penguin and the right book.
LEMMA DoIt ==
  ASSUME Inv, where # NONE, typed_cmd_do
  PROVE  Keeps
<1>1. where' = NONE /\ UNCHANGED <<enter, objs, flags, photo, speed>>
  BY DEF typed_cmd_do
<1>2. "HAS_EATEN" \in flags /\ "LURED_TUX" \in flags
  BY DEF typed_cmd_do, Held, Inv, Moved, NONE
<1>3. Types' /\ GoodWorld(objs)' /\ PhotosMatch' /\ SpeedMatches' /\ DrawnCurrent'
  BY <1>1 DEF Inv, Types, GoodWorld, PhotosMatch, SpeedMatches, Held, DrawnCurrent, NONE
<1>4. (OneBattery /\ OneOfEach /\ Moved)'
  BY <1>1 DEF Inv, OneBattery, OneOfEach, Moved
<1>5. Way(Standing)'
  BY <1>1 DEF Standing, Way, Magnet, Park, Airport, Remote, NONE
<1>6. PlotStep
  <2>1. "Won" \notin Accomplished /\ Accomplished' = Accomplished \cup {"Won"}
    BY <1>1 DEF Accomplished
  <2>2. Story!needs["Won"] \subseteq Accomplished
    BY <1>2 DEF Accomplished, Story!needs
  <2> QED
    BY <2>1, <2>2, Reaches
<1> QED
  BY <1>3, <1>4, <1>5, <1>6 DEF Keeps, Inv

-----------------------------------------------------------------------------
(***************************************************************************)
(* The theorems.                                                           *)
(***************************************************************************)

\* build_world leaves the world in order, with nothing accomplished.
LEMMA InitHolds == Init => Inv /\ Accomplished = {}
<1> SUFFICES ASSUME Init PROVE Inv /\ Accomplished = {}
  OBVIOUS
<1>1. GoodWorld(objs) /\ \A i \in 1 .. 20 : objs.loc[obj_data[i][1]] = obj_data[i][3]
  BY BuiltGood DEF Init
<1>2. /\ objs.loc["BOARD"] = "IN_IEEE" /\ objs.loc["JETPACK"] = "TALBOT" /\ objs.loc["TUX"] = "REM_LAB"
      /\ objs.loc["BOOK_C"] = NONE /\ objs.loc["GPS_BAD"] = "TALBOT" /\ objs.loc["GPS_GOOD"] = NONE
      /\ objs.loc["BUNNYSUIT"] = "ALMAMATER" /\ objs.loc["BATT_EMPTY"] = NONE
      /\ objs.loc["BATT_FULL"] = NONE /\ objs.loc["BATT_CAR"] = NONE /\ objs.loc["FISH"] = "EAST_BONE"
      /\ objs.loc["CAR_KEY"] = "CARIBOU" /\ objs.loc["ROBOT_DEAD"] = "MNTL_LAB3"
      /\ objs.loc["ROBOT_LIVE"] = NONE /\ objs.loc["MIMO_CARD"] = "STATUE"
  BY <1>1 DEF obj_data
<1>3. enter = [r \in {"INVENTORY", "COCKPIT"} |-> NONE]
  <2>1. \A d \in room_data : d[1] \in {"INVENTORY", "COCKPIT"} => d[3] = NONE
    BY DEF room_data, NONE
  <2> QED
    BY <2>1, RowOf, RoomNames DEF Init
<1>4. Types /\ PhotosMatch
  BY <1>3, RoomNames DEF Init, Types, Photos, PhotosMatch, NONE
<1>5. OneBattery /\ OneOfEach /\ Moved
  BY <1>2, <1>3 DEF Init, OneBattery, OneOfEach, Moved, NONE
<1>6. Way(Standing) /\ SpeedMatches /\ DrawnCurrent
  BY <1>2 DEF Init, Way, Standing, Magnet, Park, Airport, Remote, SpeedMatches, Held, DrawnCurrent
<1>7. Accomplished = {}
  BY <1>2, <1>3 DEF Init, Accomplished, NONE
<1> QED
  BY <1>1, <1>4, <1>5, <1>6, <1>7 DEF Inv

\* Every step keeps the world in order and follows the plot.
LEMMA StepKeeps == Inv /\ [Next]_vars => Keeps
<1> SUFFICES ASSUME Inv, [Next]_vars PROVE Keeps
  OBVIOUS
<1>1. CASE UNCHANGED vars
  <2>1. UNCHANGED <<where, enter, objs, flags, photo, speed, drawn>>
    BY <1>1 DEF vars
  <2>2. (Types /\ PhotosMatch)'
    BY <2>1 DEF Inv, Types, PhotosMatch
  <2>3. GoodWorld(objs)' /\ (OneBattery /\ OneOfEach /\ Moved)'
    BY <2>1 DEF Inv, GoodWorld, OneBattery, OneOfEach, Moved
  <2>4. (DrawnCurrent /\ SpeedMatches)' /\ Way(Standing)'
    BY <2>1 DEF Inv, Way, Standing, DrawnCurrent, Picture, View, SpeedMatches, Held
  <2>5. PlotStep
    BY <2>1 DEF PlotStep, Accomplished
  <2> QED
    BY <2>2, <2>3, <2>4, <2>5 DEF Keeps, Inv
<1>2. CASE Next
  BY <1>2, MoveSideways, EnterDoor, Go, Inventory, Get, Drop, BuyDew, Eats, Drink, Wear, Fix, Flash,
     UseCar, Charge, InstallBattery, InstallMimo, UseFish, DoIt
     DEF Next, buy_yogurt, typed_cmd_sigh
<1> QED
  BY <1>1, <1>2

\* The inductive invariant holds always.
LEMMA Invariance == Spec => []Inv
<1>1. Init => Inv
  BY InitHolds
<1>2. Inv /\ [Next]_vars => Inv'
  BY StepKeeps DEF Keeps
<1> QED
  BY <1>1, <1>2, PTL DEF Spec

\* The player is always in a room, or views the inventory with a room to return to.
THEOREM TypeCorrect == Spec => []TypeOK
<1>1. Inv => TypeOK
  BY DEF Inv, Types, GoodWorld, TypeOK
<1> QED
  BY <1>1, Invariance, PTL

\* No sequence of commands breaks the lists: an object is in the list of the room it says
\* it is in, once, and in no other.
THEOREM ListsGood == Spec => []ListsMatchLoc
<1>1. Inv => ListsMatchLoc
  BY DEF Inv, GoodWorld, ListsMatchLoc
<1> QED
  BY <1>1, Invariance, PTL

\* What stands for one thing is never lost or doubled, in whatever order things are done.
THEOREM ThingsConserved == Spec => []Conserved
<1>1. Inv => Conserved
  <2> SUFFICES ASSUME Inv PROVE Conserved
    OBVIOUS
  <2> DEFINE Exist(S) == {o \in S : objs.loc[o] # NONE}
             open == "CAR_OPEN" \in flags /\ "CAR_FIXED" \notin flags
  <2>1. Cardinality(Exist({"BATT_CAR", "BATT_EMPTY", "BATT_FULL"})) = IF open THEN 1 ELSE 0
    <3>1. CASE ~ open
      <4>1. Exist({"BATT_CAR", "BATT_EMPTY", "BATT_FULL"}) = {}
        BY <3>1 DEF Inv, OneBattery
      <4> QED
        BY <3>1, <4>1, FS_EmptySet
    <3>2. CASE open
      <4>1. PICK b : Exist({"BATT_CAR", "BATT_EMPTY", "BATT_FULL"}) = {b}
        <5>1. CASE objs.loc["BATT_CAR"] # NONE
          <6>1. Exist({"BATT_CAR", "BATT_EMPTY", "BATT_FULL"}) = {"BATT_CAR"}
            BY <3>2, <5>1 DEF Inv, OneBattery
          <6> QED
            BY <6>1
        <5>2. CASE objs.loc["BATT_EMPTY"] # NONE
          <6>1. Exist({"BATT_CAR", "BATT_EMPTY", "BATT_FULL"}) = {"BATT_EMPTY"}
            BY <3>2, <5>2 DEF Inv, OneBattery
          <6> QED
            BY <6>1
        <5>3. CASE objs.loc["BATT_FULL"] # NONE
          <6>1. Exist({"BATT_CAR", "BATT_EMPTY", "BATT_FULL"}) = {"BATT_FULL"}
            BY <3>2, <5>3 DEF Inv, OneBattery
          <6> QED
            BY <6>1
        <5> QED
          BY <3>2, <5>1, <5>2, <5>3 DEF Inv, OneBattery
      <4> QED
        BY <3>2, <4>1, FS_Singleton
    <3> QED
      BY <3>1, <3>2
  <2>2. \A a, b : (objs.loc[a] = NONE <=> objs.loc[b] # NONE) => Cardinality(Exist({a, b})) = 1
    <3> SUFFICES ASSUME NEW a, NEW b, objs.loc[a] = NONE <=> objs.loc[b] # NONE
                 PROVE  Cardinality(Exist({a, b})) = 1
      OBVIOUS
    <3>1. Exist({a, b}) = {a} \/ Exist({a, b}) = {b}
      OBVIOUS
    <3> QED
      BY <3>1, FS_Singleton
  <2>3. \A a : Exist({a}) = {} <=> objs.loc[a] = NONE
    OBVIOUS
  <2> HIDE DEF Exist
  <2>4. /\ Cardinality(Exist({"ROBOT_DEAD", "ROBOT_LIVE"})) = 1
        /\ Cardinality(Exist({"GPS_BAD", "GPS_GOOD"})) = 1
    BY <2>2 DEF Inv, OneOfEach
  <2>5. /\ Exist({"CAR_KEY"}) = {} <=> "CAR_OPEN" \in flags
        /\ Exist({"BUNNYSUIT"}) = {} <=> "WEARING_SUIT" \in flags
        /\ Exist({"FISH"}) = {} <=> "LURED_TUX" \in flags
        /\ Exist({"MIMO_CARD"}) = {} <=> enter["COCKPIT"] # NONE
    BY <2>3 DEF Inv, OneOfEach
  <2> QED
    BY <2>1, <2>4, <2>5 DEF Conserved, Exist
<1> QED
  BY <1>1, Invariance, PTL

\* Each photograph is in one place, and the hood is shown open while the car is.
THEOREM PhotosRight == Spec => []PhotosMatch
<1>1. Inv => PhotosMatch
  BY DEF Inv
<1> QED
  BY <1>1, Invariance, PTL

\* The build buffer never shows a room as it was: every command that changes what is seen
\* reports so to the game loop.
THEOREM NeverStale == Spec => []DrawnCurrent
<1>1. Inv => DrawnCurrent
  BY DEF Inv
<1> QED
  BY <1>1, Invariance, PTL

\* The speed is that of what the player carries, after any sequence of get and drop.
THEOREM SpeedRight == Spec => []SpeedMatches
<1>1. Inv => SpeedMatches
  BY DEF Inv
<1> QED
  BY <1>1, Invariance, PTL

\* The world implements the plot, for every order in which the player takes the objects and
\* every choice of what is dropped where.
THEOREM PlotFollowed == Spec => FollowsPlot
<1>1. Init => Story!Init
  BY InitHolds DEF Story!Init
<1>2. Inv /\ [Next]_vars => [Story!Next]_Accomplished
  BY StepKeeps DEF Keeps, PlotStep
<1> QED
  BY <1>1, <1>2, Invariance, PTL DEF Spec, FollowsPlot, Story!Spec
=============================================================================
