--------------------------- MODULE SmallestElements ---------------------------
(***************************************************************************)
(* Induction without an operator as a parameter: facts about sets that     *)
(* follow from inclusion being well-founded on finite sets.  The proofs    *)
(* about Search and ArchiveLinks rest on them.                             *)
(***************************************************************************)
EXTENDS Naturals, FiniteSets, FiniteSetTheorems, TLAPS

\* Of some subsets of a finite set, one contains no other.
LEMMA SmallestSet ==
  ASSUME NEW S, IsFiniteSet(S), NEW F, F \subseteq SUBSET S, F # {}
  PROVE  \E T \in F : \A U \in F : U \subseteq T => U = T
<1>1. F \subseteq FiniteSubsetsOf(S)
  BY FS_FiniteSubsetsOfFinite
<1>2. IsWellFoundedOn(StrictSubsetOrdering(S), FiniteSubsetsOf(S))
  BY FS_StrictSubsetOrderingWellFounded
<1>3. PICK T \in F : \A U \in F : <<U, T>> \notin StrictSubsetOrdering(S)
  BY <1>1, <1>2, WFMin
<1>4. ASSUME NEW U \in F, U \subseteq T PROVE U = T
  BY <1>3, <1>4 DEF StrictSubsetOrdering
<1> QED
  BY <1>4

\* Every set of natural numbers has a least element.
LEMMA LeastNumber ==
  ASSUME NEW T, T \subseteq Nat, T # {}
  PROVE  \E x \in T : \A y \in T : x <= y
<1>1. PICK t \in T : TRUE
  OBVIOUS
<1> DEFINE Below == {y \in T : y <= t}
           F == {0..y : y \in Below}
<1>2. IsFiniteSet(0..t)
  BY FS_Interval
<1>3. F \subseteq SUBSET (0..t) /\ F # {}
  <2>1. t \in Below /\ \A y \in Below : 0..y \in SUBSET (0..t)
    OBVIOUS
  <2> HIDE DEF Below
  <2> QED
    BY <2>1
<1>4. PICK I \in F : \A U \in F : U \subseteq I => U = I
  <2> DEFINE S == 0..t
  <2>1. IsFiniteSet(S) /\ F \subseteq SUBSET S /\ F # {}
    BY <1>2, <1>3
  <2> HIDE DEF F, S
  <2> QED
    BY <2>1, SmallestSet
<1>5. PICK x \in Below : I = 0..x
  BY <1>4
<1>6. ASSUME NEW y \in T PROVE x <= y
  <2>1. SUFFICES ASSUME y < x PROVE FALSE
    OBVIOUS
  <2>2. y \in Below /\ 0..y \in F /\ 0..y \subseteq 0..x
    BY <2>1
  <2>3. 0..y = 0..x
    BY <1>4, <1>5, <2>2
  <2>4. x \in 0..y
    BY <2>3
  <2> QED
    BY <2>1, <2>4
<1> QED
  BY <1>5, <1>6

\* Induction: a set with 0 and the successor of each of its numbers below n has all numbers up to n.
LEMMA UpTo ==
  ASSUME NEW n \in Nat, NEW S, 0 \in S, \A k \in 0..n - 1 : k \in S => k + 1 \in S
  PROVE  0..n \subseteq S
<1> DEFINE T == {k \in 0..n : k \notin S}
<1> SUFFICES ASSUME T # {} PROVE FALSE
  OBVIOUS
<1>1. PICK x \in T : \A y \in T : x <= y
  <2>1. T \subseteq Nat
    OBVIOUS
  <2> HIDE DEF T
  <2> QED
    BY <2>1, LeastNumber
<1>2. x # 0 /\ x \in 0..n
  BY <1>1
<1>3. x - 1 \in 0..n - 1 /\ x - 1 \notin T
  BY <1>1, <1>2
<1>4. x - 1 \in S
  BY <1>3
<1> QED
  BY <1>1, <1>2, <1>3, <1>4

\* f goes from first by one step after the other.
Follows(f, n, X, first, step) ==
  f \in [0..n -> X] /\ f[0] = first /\ \A k \in 1..n : f[k] = step[k][f[k - 1]]

\* Steps can be taken as often as wanted.
LEMMA Iteration ==
  ASSUME NEW n \in Nat, NEW X, NEW first \in X, NEW step \in [1..n -> [X -> X]]
  PROVE  \E f : Follows(f, n, X, first, step)
<1> DEFINE Steps(f, m) == Follows(f, m, X, first, step)
           S == {m \in 0..n : \E f : Steps(f, m)}
<1>1. 0 \in S
  <2>1. Steps([k \in 0..0 |-> first], 0)
    BY DEF Follows
  <2> HIDE DEF Steps
  <2> QED
    BY <2>1
<1>2. ASSUME NEW m \in 0..n - 1, m \in S PROVE m + 1 \in S
  <2>1. PICK f : Steps(f, m)
    BY <1>2
  <2> DEFINE g == [k \in 0..m + 1 |-> IF k = m + 1 THEN step[m + 1][f[m]] ELSE f[k]]
  <2>2. f[m] \in X /\ m \in Nat /\ m + 1 \in 1..n
    BY <2>1 DEF Follows
  <2>3. step[m + 1][f[m]] \in X
    BY <2>2
  <2>4. g \in [0..m + 1 -> X] /\ g[0] = first
    BY <2>1, <2>2, <2>3 DEF Follows
  <2>5. ASSUME NEW k \in 1..m + 1 PROVE g[k] = step[k][g[k - 1]]
    <3>1. k - 1 \in 0..m /\ k - 1 # m + 1 /\ g[k - 1] = f[k - 1]
      BY <2>2
    <3>2. CASE k = m + 1
      <4>1. g[k] = step[m + 1][f[m]] /\ k - 1 = m
        BY <2>2, <3>2
      <4> QED
        BY <3>1, <3>2, <4>1
    <3>3. CASE k \in 1..m
      <4>1. g[k] = f[k]
        BY <2>2, <3>3
      <4>2. f[k] = step[k][f[k - 1]]
        BY <2>1, <3>3 DEF Follows
      <4> QED
        BY <3>1, <4>1, <4>2
    <3> QED
      BY <2>2, <3>2, <3>3
  <2>6. Steps(g, m + 1)
    BY <2>4, <2>5 DEF Follows
  <2> HIDE DEF Steps, g
  <2> QED
    BY <2>2, <2>6
<1>3. n \in S
  <2>1. n \in 0..n
    OBVIOUS
  <2>2. 0..n \subseteq S
    <3> HIDE DEF S
    <3> QED
      BY <1>1, <1>2, UpTo
  <2> HIDE DEF S
  <2> QED
    BY <2>1, <2>2
<1> QED
  BY <1>3
=============================================================================
