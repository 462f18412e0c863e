------------------------------- MODULE NatSets -------------------------------
(***************************************************************************)
(* Induction for the proofs of this project.  A property of numbers is     *)
(* given as the set of the numbers that have it, and the body of a loop as *)
(* a function, so that the lemmas can be cited with any of them.           *)
(***************************************************************************)
EXTENDS Integers, WellFoundedInduction, TLAPS

\* Every set of natural numbers that is not empty has a smallest element.
LEMMA SmallestInSet ==
  ASSUME NEW T, T \subseteq Nat, T # {}
  PROVE  \E m \in T : \A k \in T : m <= k
<1> DEFINE less == OpToRel(<, Nat)
<1>1. IsWellFoundedOn(less, Nat)
  BY NatLessThanWellFounded
<1>2. \A x, y \in Nat : <<x, y>> \in less <=> x < y
  BY DEF OpToRel
<1> HIDE DEF less
<1>3. PICK m \in T : \A y \in T : ~ (<<y, m>> \in less)
  BY <1>1, WFMin
<1>4. \A y \in T : ~ (y < m)
  BY <1>2, <1>3, Zenon
<1>5. \A y \in T : m <= y
  BY <1>4
<1> QED
  BY <1>5

\* A set that contains 0, and with every number below a limit the next, contains all
\* numbers up to the limit.
LEMMA InductionUpTo ==
  ASSUME NEW T, NEW n \in Nat, 0 \in T,
         \A k \in 0 .. n - 1 : k \in T => k + 1 \in T
  PROVE  0 .. n \subseteq T
<1> DEFINE missing == {k \in 0 .. n : k \notin T}
<1> SUFFICES ASSUME missing # {} PROVE FALSE
  OBVIOUS
<1>1. PICK m \in missing : \A k \in missing : m <= k
  <2>1. missing \subseteq Nat
    OBVIOUS
  <2> QED
    BY <2>1, SmallestInSet
<1>2. m # 0 /\ m - 1 \in 0 .. n - 1
  BY <1>1
<1>3. m - 1 \in T
  BY <1>1, <1>2
<1> QED
  BY <1>1, <1>2, <1>3

\* The results f of the turns of a loop over values of S, as far as turn n.
Loop(f, S, start, step, n) ==
  /\ f \in [0 .. n -> S] /\ f[0] = start
  /\ \A k \in 1 .. n : f[k] = step[<<f[k - 1], k>>]

\* A loop with n turns has a result after each of them.
LEMMA LoopExists ==
  ASSUME NEW n \in Nat, NEW S, NEW start \in S, NEW step \in [S \X (1 .. n) -> S]
  PROVE  \E f : Loop(f, S, start, step, n)
<1> DEFINE Runs(f, d) == /\ f \in [0 .. d -> S] /\ f[0] = start
                         /\ \A k \in 1 .. d : f[k] = step[<<f[k - 1], k>>]
           T == {d \in 0 .. n : \E f : Runs(f, d)}
<1>1. 0 \in T
  <2> DEFINE f == [k \in 0 .. 0 |-> start]
  <2>1. Runs(f, 0)
    OBVIOUS
  <2>2. 0 \in 0 .. n
    OBVIOUS
  <2> HIDE DEF Runs, f
  <2> QED
    BY <2>1, <2>2
<1>2. ASSUME NEW d \in 0 .. n - 1, d \in T PROVE d + 1 \in T
  <2>1. PICK f : Runs(f, d)
    BY <1>2
  <2> DEFINE g == [k \in 0 .. d + 1 |-> IF k <= d THEN f[k] ELSE step[<<f[d], d + 1>>]]
  <2>2. step[<<f[d], d + 1>>] \in S /\ d + 1 \in 0 .. n
    BY <2>1
  <2>3. \A k \in 0 .. d : g[k] = f[k] /\ f[k] \in S
    BY <2>1
  <2>4. g[d + 1] = step[<<f[d], d + 1>>] /\ g \in [0 .. d + 1 -> S]
    BY <2>1, <2>2
  <2> HIDE DEF g
  <2>5. \A k \in 1 .. d + 1 : g[k] = step[<<g[k - 1], k>>]
    <3> SUFFICES ASSUME NEW k \in 1 .. d + 1 PROVE g[k] = step[<<g[k - 1], k>>]
      OBVIOUS
    <3>1. CASE k = d + 1
      BY <2>3, <2>4, <3>1
    <3>2. CASE k # d + 1
      <4>1. k \in 1 .. d /\ k - 1 \in 0 .. d
        BY <3>2
      <4> QED
        BY <2>1, <2>3, <4>1
    <3> QED
      BY <3>1, <3>2
  <2>6. Runs(g, d + 1)
    BY <2>1, <2>3, <2>4, <2>5
  <2> HIDE DEF Runs
  <2> QED
    BY <2>2, <2>6
<1>3. n \in T
  <2> HIDE DEF T
  <2>1. 0 .. n \subseteq T
    BY <1>1, <1>2, InductionUpTo
  <2> QED
    BY <2>1
<1> QED
  BY <1>3 DEF Loop
=============================================================================
