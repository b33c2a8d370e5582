------------------------------ MODULE SearchProofs ------------------------------
(***************************************************************************)
(* Proofs about Search for every set of symbols, every setting of          *)
(* distances, file weights and matches, every number of results wanted,    *)
(* and every number of words and of snapshots.                             *)
(*                                                                         *)
(* The lemmas say what sorting, sums and scores do.  The invariant has a   *)
(* part for the types (Typed), for lists of hits (Listed), for the run     *)
(* that builds a snapshot (Built), for what a search has read (Watched),   *)
(* for the reads of a mode (Moded), and for the result of each mode        *)
(* (SemanticResult, LexicalResult, AutoResult).                            *)
(***************************************************************************)
EXTENDS Search, SmallestElements, FiniteSetTheorems, TLAPS

-----------------------------------------------------------------------------
(* Finite sets and sorting.  What would be shown by induction is shown by    *)
(* looking at a smallest counterexample (module SmallestElements).           *)

\* Min of a set of natural numbers.
LEMMA MinIsLeast ==
  ASSUME NEW T, T \subseteq Nat, T # {}
  PROVE  Min(T) \in T /\ \A y \in T : Min(T) <= y
BY LeastNumber DEF Min

\* Min of two numbers.
LEMMA MinOfTwo ==
  ASSUME NEW a \in Int, NEW b \in Int
  PROVE  Min({a, b}) = IF a <= b THEN a ELSE b
<1> DEFINE m == IF a <= b THEN a ELSE b
<1>1. m \in {a, b} /\ \A y \in {a, b} : m <= y
  OBVIOUS
<1>2. \A x \in {a, b} : (\A y \in {a, b} : x <= y) => x = m
  OBVIOUS
<1> QED
  BY <1>1, <1>2 DEF Min

\* A strict order on S.
StrictOrder(R, S) ==
  /\ \A x \in S : <<x, x>> \notin R
  /\ \A x, y, z \in S : <<x, y>> \in R /\ <<y, z>> \in R => <<x, z>> \in R

\* Some element is less than no other.
LEMMA GreatestElement ==
  ASSUME NEW S, IsFiniteSet(S), S # {}, NEW R, StrictOrder(R, S)
  PROVE  \E m \in S : \A y \in S : <<m, y>> \notin R
<1> DEFINE Has(T) == \E m \in T : \A y \in T : <<m, y>> \notin R
           F == {T \in SUBSET S : T # {} /\ ~Has(T)}
<1> SUFFICES ASSUME F # {} PROVE FALSE
  OBVIOUS
<1>1. PICK T \in F : \A U \in F : U \subseteq T => U = T
  <2>1. F \subseteq SUBSET S
    OBVIOUS
  <2> HIDE DEF F
  <2> QED
    BY <2>1, SmallestSet
<1>2. PICK x \in T : TRUE
  BY <1>1
<1>3. CASE T \ {x} = {}
  <2>1. T = {x} /\ x \in S
    BY <1>1, <1>2, <1>3
  <2> QED
    BY <1>1, <2>1 DEF StrictOrder
<1>4. CASE T \ {x} # {}
  <2>1. T \ {x} \notin F
    BY <1>1, <1>2
  <2>2. PICK m \in T \ {x} : \A y \in T \ {x} : <<m, y>> \notin R
    BY <1>1, <1>4, <2>1
  <2>3. m \in S /\ x \in S /\ T \subseteq S
    BY <1>1, <1>2, <2>2
  <2>4. CASE <<m, x>> \in R
    <3>1. ASSUME NEW y \in T, <<x, y>> \in R PROVE FALSE
      BY <2>2, <2>3, <2>4, <3>1 DEF StrictOrder
    <3> QED
      BY <1>1, <1>2, <3>1
  <2>5. CASE <<m, x>> \notin R
    BY <1>1, <2>2, <2>5
  <2> QED
    BY <2>4, <2>5
<1> QED
  BY <1>3, <1>4

\* A finite set can be listed so that no element comes before one that is less.
IsListing(q, S, R) ==
  /\ q \in [1..Cardinality(S) -> S] /\ IsInjective(q)
  /\ \A i, j \in 1..Cardinality(S) : i < j => <<q[j], q[i]>> \notin R

\* Every strict order on a finite set sorts it.
LEMMA ListingExists ==
  ASSUME NEW S, IsFiniteSet(S), NEW R, StrictOrder(R, S)
  PROVE  \E q : IsListing(q, S, R)
<1> DEFINE F == {T \in SUBSET S : ~ \E q : IsListing(q, T, R)}
<1> SUFFICES ASSUME F # {} PROVE FALSE
  OBVIOUS
<1>1. PICK T \in F : \A U \in F : U \subseteq T => U = T
  <2>1. F \subseteq SUBSET S
    OBVIOUS
  <2> HIDE DEF F
  <2> QED
    BY <2>1, SmallestSet
<1>2. IsFiniteSet(T) /\ T \subseteq S /\ StrictOrder(R, T)
  BY <1>1, FS_Subset DEF StrictOrder
<1>3. CASE T = {}
  <2>1. Cardinality(T) = 0 /\ 1..0 = {}
    BY <1>3, FS_EmptySet
  <2>2. IsListing([i \in 1..0 |-> i], T, R)
    BY <2>1 DEF IsListing, IsInjective
  <2> QED
    BY <1>1, <2>2
<1>4. CASE T # {}
  <2>1. PICK m \in T : \A y \in T : <<m, y>> \notin R
    BY <1>2, <1>4, GreatestElement
  <2> DEFINE U == T \ {m}
             n == Cardinality(U)
  <2>2. IsFiniteSet(U) /\ n \in Nat /\ Cardinality(T) = n + 1
    <3>1. IsFiniteSet(U) /\ n = Cardinality(T) - 1 /\ Cardinality(T) \in Nat
      BY <1>2, <2>1, FS_RemoveElement, FS_CardinalityType
    <3>2. n \in Nat
      BY <3>1, FS_CardinalityType
    <3> HIDE DEF n
    <3> QED
      BY <3>1, <3>2
  <2>3. U \notin F /\ U \subseteq S
    BY <1>1, <1>2, <2>1
  <2>4. PICK q : IsListing(q, U, R)
    BY <2>3
  <2> DEFINE r == [i \in 1..(n + 1) |-> IF i = n + 1 THEN m ELSE q[i]]
  <2> HIDE DEF n
  <2>5. q \in [1..n -> U] /\ IsInjective(q) /\ \A i, j \in 1..n : i < j => <<q[j], q[i]>> \notin R
    BY <2>4 DEF IsListing, n
  <2>6. \A i \in 1..(n + 1) : i = n + 1 \/ (i \in 1..n /\ q[i] \in T /\ q[i] # m)
    BY <2>2, <2>5
  <2>7. r \in [1..(n + 1) -> T]
    BY <2>1, <2>6
  <2>8. IsInjective(r)
    BY <2>2, <2>5, <2>6, <2>7 DEF IsInjective
  <2>9. ASSUME NEW i \in 1..(n + 1), NEW j \in 1..(n + 1), i < j PROVE <<r[j], r[i]>> \notin R
    <3>1. i \in 1..n /\ r[i] = q[i] /\ q[i] \in T
      BY <2>2, <2>6, <2>9
    <3> QED
      BY <2>1, <2>2, <2>5, <2>6, <2>9, <3>1
  <2>10. IsListing(r, T, R)
    BY <2>2, <2>7, <2>8, <2>9 DEF IsListing
  <2> QED
    BY <1>1, <2>10
<1> QED
  BY <1>3, <1>4

\* A listing has all elements.
LEMMA ListingIsComplete ==
  ASSUME NEW S, IsFiniteSet(S), NEW R, NEW q, IsListing(q, S, R)
  PROVE  \A x \in S : \E i \in 1..Cardinality(S) : q[i] = x
<1>1. Cardinality(S) \in Nat
  BY FS_CardinalityType
<1>2. IsFiniteSet(1..Cardinality(S)) /\ Cardinality(1..Cardinality(S)) = Cardinality(S)
  BY <1>1, FS_Interval
<1>3. q \in Injection(1..Cardinality(S), S)
  BY DEF IsListing, IsInjective, Injection
<1>4. q \in Surjection(1..Cardinality(S), S)
  BY <1>2, <1>3, FS_Injection
<1> QED
  BY <1>4 DEF Surjection

-----------------------------------------------------------------------------
(* Sums                                                                      *)

\* A number for each word.
Summand == [1..Words -> Nat]

\* f has the partial sums of w.
IsUpTo(f, w, n) ==
  /\ f \in [0..n -> Nat] /\ f[0] = 0
  /\ \A k \in 1..n : f[k] = f[k - 1] + w[k]

\* Partial sums exist up to every word.
LEMMA PartialSumsExist ==
  ASSUME NEW w \in Summand
  PROVE  \A n \in 0..Words : \E f : IsUpTo(f, w, n)
<1> DEFINE Bad == {n \in 0..Words : ~ \E f : IsUpTo(f, w, n)}
<1> SUFFICES ASSUME Bad # {} PROVE FALSE
  OBVIOUS
<1>0. Words \in Nat
  BY SearchAssumption
<1>1. PICK n \in Bad : \A k \in Bad : n <= k
  <2>1. Bad \subseteq Nat
    BY <1>0
  <2> HIDE DEF Bad
  <2> QED
    BY <2>1, LeastNumber
<1>2. n \in 0..Words /\ ~ \E f : IsUpTo(f, w, n)
  BY <1>1
<1>3. CASE n = 0
  <2>1. IsUpTo([k \in 0..0 |-> 0], w, 0)
    BY DEF IsUpTo
  <2> QED
    BY <1>2, <1>3, <2>1
<1>4. CASE n # 0
  <2>1. n - 1 \in 0..Words /\ n - 1 \notin Bad /\ n \in 1..Words
    BY <1>0, <1>1, <1>2, <1>4
  <2>2. PICK f : IsUpTo(f, w, n - 1)
    BY <2>1
  <2> DEFINE g == [k \in 0..n |-> IF k = n THEN f[n - 1] + w[n] ELSE f[k]]
  <2>3. w[n] \in Nat /\ f[n - 1] \in Nat
    BY <2>1, <2>2 DEF Summand, IsUpTo
  <2>4. g \in [0..n -> Nat] /\ g[0] = 0
    BY <2>1, <2>2, <2>3 DEF IsUpTo
  <2>5. ASSUME NEW k \in 1..n PROVE g[k] = g[k - 1] + w[k]
    BY <2>1, <2>2, <2>3 DEF IsUpTo
  <2>6. IsUpTo(g, w, n)
    BY <2>4, <2>5 DEF IsUpTo
  <2> QED
    BY <1>2, <2>6
<1> QED
  BY <1>3, <1>4

\* The recursion in Sum is well-founded: Sum is the last of the partial sums.
LEMMA SumIsLast ==
  ASSUME NEW w \in Summand
  PROVE  \E f : IsUpTo(f, w, Words) /\ Sum(w) = f[Words]
<1> DEFINE P(f) == f = [n \in 0..Words |-> IF n = 0 THEN 0 ELSE f[n - 1] + w[n]]
<1>0. Words \in Nat
  BY SearchAssumption
<1>1. PICK f : IsUpTo(f, w, Words)
  BY <1>0, PartialSumsExist
<1>2. P(f)
  BY <1>0, <1>1 DEF IsUpTo
<1>3. P(CHOOSE g : P(g))
  <2> HIDE DEF P
  <2> QED
    BY <1>2
<1>4. ASSUME NEW g, P(g) PROVE g = f
  <2> DEFINE Bad == {n \in 0..Words : g[n] # f[n]}
  <2>0. g = [n \in 0..Words |-> g[n]] /\ f = [n \in 0..Words |-> f[n]]
    BY <1>2, <1>4
  <2>1. SUFFICES ASSUME Bad # {} PROVE FALSE
    <3>1. (\A n \in 0..Words : g[n] = f[n]) => g = f
      <4> HIDE DEF P
      <4> QED
        BY <2>0
    <3> QED
      BY <3>1
  <2>2. PICK n \in Bad : \A k \in Bad : n <= k
    <3>1. Bad \subseteq Nat
      BY <1>0
    <3> HIDE DEF Bad
    <3> QED
      BY <2>1, <3>1, LeastNumber
  <2>3. n # 0 => n - 1 \in 0..Words /\ n \in 1..Words /\ g[n - 1] = f[n - 1]
    BY <1>0, <2>2
  <2>4. g[n] = f[n]
    BY <1>0, <1>1, <1>4, <2>2, <2>3 DEF IsUpTo
  <2> QED
    BY <2>2, <2>4
<1>5. Sum(w) = (CHOOSE g : P(g))[Words]
  BY DEF Sum
<1> QED
  BY <1>1, <1>3, <1>4, <1>5

\* A sum of smaller numbers is smaller.
LEMMA SumIsMonotonic ==
  ASSUME NEW v \in Summand, NEW w \in Summand, \A i \in 1..Words : v[i] <= w[i]
  PROVE  Sum(v) \in Nat /\ Sum(w) \in Nat /\ Sum(v) <= Sum(w)
<1>0. Words \in Nat
  BY SearchAssumption
<1>1. PICK f : IsUpTo(f, v, Words) /\ Sum(v) = f[Words]
  BY SumIsLast
<1>2. PICK g : IsUpTo(g, w, Words) /\ Sum(w) = g[Words]
  BY SumIsLast
<1> DEFINE Bad == {n \in 0..Words : ~(f[n] <= g[n])}
<1>3. Bad = {}
  <2>1. SUFFICES ASSUME Bad # {} PROVE FALSE
    OBVIOUS
  <2>2. PICK n \in Bad : \A k \in Bad : n <= k
    <3>1. Bad \subseteq Nat
      BY <1>0
    <3> HIDE DEF Bad
    <3> QED
      BY <2>1, <3>1, LeastNumber
  <2>3. n # 0
    BY <1>1, <1>2, <2>2 DEF IsUpTo
  <2>4. n - 1 \in 0..Words /\ n \in 1..Words /\ f[n - 1] <= g[n - 1]
    BY <1>0, <2>2, <2>3
  <2>5. /\ f[n] = f[n - 1] + v[n] /\ g[n] = g[n - 1] + w[n] /\ v[n] <= w[n]
        /\ v[n] \in Nat /\ w[n] \in Nat /\ f[n - 1] \in Nat /\ g[n - 1] \in Nat
    BY <1>1, <1>2, <2>4 DEF IsUpTo, Summand
  <2> QED
    BY <2>2, <2>4, <2>5
<1>4. f[Words] \in Nat /\ g[Words] \in Nat /\ f[Words] <= g[Words]
  BY <1>0, <1>1, <1>2, <1>3 DEF IsUpTo
<1> QED
  BY <1>1, <1>2, <1>4

\* Numbers up to 100 add up to at most 100 for each word.
LEMMA SumIsBounded ==
  ASSUME NEW v \in Summand, \A i \in 1..Words : v[i] <= 100
  PROVE  Sum(v) <= 100 * Words
<1>0. Words \in Nat
  BY SearchAssumption
<1>1. PICK f : IsUpTo(f, v, Words) /\ Sum(v) = f[Words]
  BY SumIsLast
<1> DEFINE Bad == {n \in 0..Words : ~(f[n] <= 100 * n)}
<1>2. Bad = {}
  <2>1. SUFFICES ASSUME Bad # {} PROVE FALSE
    OBVIOUS
  <2>2. PICK n \in Bad : \A k \in Bad : n <= k
    <3>1. Bad \subseteq Nat
      BY <1>0
    <3> HIDE DEF Bad
    <3> QED
      BY <2>1, <3>1, LeastNumber
  <2>3. n # 0
    BY <1>1, <2>2 DEF IsUpTo
  <2>4. n - 1 \in 0..Words /\ n \in 1..Words /\ f[n - 1] <= 100 * (n - 1)
    BY <1>0, <2>2, <2>3
  <2>5. f[n] = f[n - 1] + v[n] /\ v[n] <= 100 /\ v[n] \in Nat /\ f[n - 1] \in Nat
    BY <1>1, <2>4 DEF IsUpTo, Summand
  <2> QED
    BY <2>2, <2>4, <2>5
<1> QED
  BY <1>0, <1>1, <1>2

-----------------------------------------------------------------------------
(* Scores, weights and order                                                 *)

\* A field of the words of a match.
TextOf(m) == [i \in 1..Words |-> m.words[i].text]
DocOf(m)  == [i \in 1..Words |-> m.words[i].doc]
NameOf(m) == [i \in 1..Words |-> NameBonus(m.words[i])]

\* The words of a match give numbers to add up; text and document at most 100 for each.
LEMMA FieldsAreSummands ==
  ASSUME NEW m \in Match
  PROVE  /\ TextOf(m) \in Summand /\ DocOf(m) \in Summand /\ NameOf(m) \in Summand
         /\ \A i \in 1..Words : TextOf(m)[i] <= 100 /\ DocOf(m)[i] <= 100
         /\ Sum(TextOf(m)) \in 0..100 * Words /\ Sum(DocOf(m)) \in 0..100 * Words
         /\ Sum(NameOf(m)) \in Nat
<1>0. Words \in Nat
  BY SearchAssumption
<1>1. ASSUME NEW i \in 1..Words
      PROVE  /\ m.words[i].text \in 0..100 /\ m.words[i].doc \in 0..100
             /\ NameBonus(m.words[i]) \in Nat
  <2>1. m.words \in [1..Words -> [text : WordWeight, doc : WordWeight, base : WordWeight, path : WordWeight]]
    BY DEF Match
  <2>2. m.words[i] \in [text : WordWeight, doc : WordWeight, base : WordWeight, path : WordWeight]
    BY <2>1
  <2> DEFINE w == m.words[i]
  <2>3. w.text \in WordWeight /\ w.doc \in WordWeight /\ w.base \in WordWeight /\ w.path \in WordWeight
    BY <2>2
  <2> HIDE DEF w
  <2>4. w.text \in 0..100 /\ w.doc \in 0..100 /\ NameBonus(w) \in Nat
    BY <2>3 DEF WordWeight, NameBonus
  <2> QED
    BY <2>4 DEF w
<1>2. TextOf(m) \in Summand /\ DocOf(m) \in Summand /\ NameOf(m) \in Summand
  <2> DEFINE tx(i) == m.words[i].text
             dc(i) == m.words[i].doc
             nm(i) == NameBonus(m.words[i])
  <2>1. \A i \in 1..Words : tx(i) \in Nat /\ dc(i) \in Nat /\ nm(i) \in Nat
    <3>1. SUFFICES ASSUME NEW i \in 1..Words PROVE tx(i) \in Nat /\ dc(i) \in Nat /\ nm(i) \in Nat
      OBVIOUS
    <3>2. tx(i) \in 0..100 /\ dc(i) \in 0..100 /\ nm(i) \in Nat
      BY <1>1
    <3> HIDE DEF tx, dc, nm
    <3> QED
      BY <3>2
  <2>2. TextOf(m) = [i \in 1..Words |-> tx(i)] /\ DocOf(m) = [i \in 1..Words |-> dc(i)]
        /\ NameOf(m) = [i \in 1..Words |-> nm(i)]
    BY Zenon DEF TextOf, DocOf, NameOf
  <2> HIDE DEF tx, dc, nm
  <2> QED
    BY <2>1, <2>2 DEF Summand
<1>3. \A i \in 1..Words : TextOf(m)[i] <= 100 /\ DocOf(m)[i] <= 100
  <2> SUFFICES ASSUME NEW i \in 1..Words PROVE TextOf(m)[i] <= 100 /\ DocOf(m)[i] <= 100
    OBVIOUS
  <2>1. TextOf(m)[i] = m.words[i].text /\ DocOf(m)[i] = m.words[i].doc
    BY DEF TextOf, DocOf
  <2>2. m.words[i].text \in 0..100 /\ m.words[i].doc \in 0..100
    BY <1>1
  <2> DEFINE t == m.words[i].text
             d == m.words[i].doc
  <2>3. t <= 100 /\ d <= 100
    <3>1. t \in 0..100 /\ d \in 0..100
      BY <2>2
    <3> HIDE DEF t, d
    <3> QED
      BY <3>1
  <2> QED
    BY <2>1, <2>3
<1>4. ASSUME NEW v \in Summand PROVE Sum(v) \in Nat /\ ((\A i \in 1..Words : v[i] <= 100) => Sum(v) \in 0..100 * Words)
  <2>1. \A i \in 1..Words : v[i] <= v[i]
    BY DEF Summand
  <2>2. Sum(v) \in Nat
    BY <2>1, SumIsMonotonic
  <2>3. (\A i \in 1..Words : v[i] <= 100) => Sum(v) <= 100 * Words
    BY SumIsBounded
  <2> QED
    BY <1>0, <2>2, <2>3
<1> QED
  BY <1>2, <1>4, <1>3

\* The parts of a score, by the sums t of the text and d of the document.
Extra(t, d) == IF d > t THEN 10 * (d - t) ELSE 0
Whole(m) == IF m.inText THEN 7000 ELSE IF m.inDoc THEN 3500 ELSE 0
Full(t, d) == IF Words = 1 THEN 20 * d
              ELSE IF 10 * t >= 999 * Words THEN 2500
              ELSE IF 10 * d >= 999 * Words THEN 1200 ELSE 0

\* Their sum.
Total(m) ==
  (Whole(m) + Sum(NameOf(m)) + Full(Sum(TextOf(m)), Sum(DocOf(m)))) * Words
    + 45 * Sum(TextOf(m)) + Extra(Sum(TextOf(m)), Sum(DocOf(m)))

\* LexicalMatchScore is the sum of its parts, cut off at 10000 for each word.
LEMMA ScoreIsTotal ==
  ASSUME NEW m \in Match
  PROVE  /\ Total(m) \in Nat /\ LexicalMatchScore(m) \in Nat
         /\ LexicalMatchScore(m) = IF 10000 * Words <= Total(m) THEN 10000 * Words ELSE Total(m)
<1> DEFINE t == Sum(TextOf(m))
           d == Sum(DocOf(m))
           n == Sum(NameOf(m))
<1>0. Words \in Nat
  BY SearchAssumption
<1>1. t \in Nat /\ d \in Nat /\ n \in Nat
  BY <1>0, FieldsAreSummands
<1>2. Whole(m) \in Nat /\ Full(t, d) \in Nat /\ Extra(t, d) \in Nat
  <2> HIDE DEF t, d
  <2> QED
    BY <1>1 DEF Whole, Full, Extra
<1>3. (Whole(m) + n + Full(t, d)) * Words \in Nat
  <2>1. Whole(m) + n + Full(t, d) \in Nat
    BY <1>1, <1>2
  <2> QED
    BY <1>0, <2>1
<1>4. Total(m) \in Nat
  <2> HIDE DEF t, d, n
  <2>1. (Whole(m) + n + Full(t, d)) * Words + 45 * t + Extra(t, d) \in Nat
    BY <1>1, <1>2, <1>3
  <2> QED
    BY <2>1 DEF Total, t, d, n
<1>5. LexicalMatchScore(m) = Min({10000 * Words, Total(m)})
  <2> DEFINE W == IF m.inText THEN 7000 ELSE IF m.inDoc THEN 3500 ELSE 0
             F == IF Words = 1 THEN 20 * d
                  ELSE IF 10 * t >= 999 * Words THEN 2500
                  ELSE IF 10 * d >= 999 * Words THEN 1200 ELSE 0
             E == IF d > t THEN 10 * (d - t) ELSE 0
  <2>1. LexicalMatchScore(m) = Min({10000 * Words, (W + n + F) * Words + 45 * t + E})
    BY DEF LexicalMatchScore, TextOf, DocOf, NameOf
  <2>2. W = Whole(m) /\ F = Full(t, d) /\ E = Extra(t, d)
    <3> HIDE DEF t, d
    <3> QED
      BY DEF Whole, Full, Extra
  <2>3. Total(m) = (Whole(m) + n + Full(t, d)) * Words + 45 * t + Extra(t, d)
    BY DEF Total
  <2> HIDE DEF W, F, E, t, d, n
  <2> QED
    BY <2>1, <2>2, <2>3
<1>6. 10000 * Words \in Int /\ Total(m) \in Int
  BY <1>0, <1>4
<1>7. Min({10000 * Words, Total(m)}) = IF 10000 * Words <= Total(m) THEN 10000 * Words ELSE Total(m)
  BY <1>6, MinOfTwo
<1>8. LexicalMatchScore(m) \in Nat
  BY <1>0, <1>4, <1>5, <1>7
<1> QED
  BY <1>4, <1>5, <1>7, <1>8

\* A product does not fall when one factor grows.
LEMMA ProductIsMonotonic ==
  ASSUME NEW a \in Nat, NEW b \in Nat, a <= b, NEW c \in Nat
  PROVE  a * c \in Nat /\ b * c \in Nat /\ a * c <= b * c
<1>1. b - a \in Nat /\ (b - a) * c \in Nat
  OBVIOUS
<1>2. b * c = a * c + (b - a) * c /\ a * c \in Nat /\ b * c \in Nat
  OBVIOUS
<1> QED
  BY <1>1, <1>2

\* What a word adds for the names does not fall when it is found as well or better: in a file name
\* it counts for 216 at least, in a path for 100 at most.
LEMMA BonusIsMonotonic ==
  ASSUME NEW b \in WordWeight, NEW p \in WordWeight, NEW c \in WordWeight, NEW q \in WordWeight,
         b <= c, p <= q
  PROVE  (IF b > 0 THEN 3 * b ELSE p) <= (IF c > 0 THEN 3 * c ELSE q)
BY DEF WordWeight

\* What the text and the document add to a score does not fall when either is found better.
LEMMA FullIsMonotonic ==
  ASSUME NEW t \in 0..100 * Words, NEW d \in 0..100 * Words,
         NEW u \in 0..100 * Words, NEW e \in 0..100 * Words, t <= u, d <= e
  PROVE  /\ Full(t, d) \in Nat /\ Full(u, e) \in Nat /\ Full(t, d) <= Full(u, e)
         /\ 45 * t + Extra(t, d) \in Nat /\ 45 * u + Extra(u, e) \in Nat
         /\ 45 * t + Extra(t, d) <= 45 * u + Extra(u, e)
<1>1. Words \in Nat
  BY SearchAssumption
<1>2. Full(t, d) \in Nat /\ Full(u, e) \in Nat /\ Full(t, d) <= Full(u, e)
  BY <1>1 DEF Full
<1>3. /\ 45 * t + Extra(t, d) \in Nat /\ 45 * u + Extra(u, e) \in Nat
      /\ 45 * t + Extra(t, d) <= 45 * u + Extra(u, e)
  BY <1>1 DEF Extra
<1> QED
  BY <1>2, <1>3

\* A match that is as good in every respect scores as much.
LEMMA ScoreIsMonotonic ==
  ASSUME NEW m \in Match, NEW n \in Match, AsGood(n, m)
  PROVE  LexicalMatchScore(m) <= LexicalMatchScore(n)
<1>0. Words \in Nat
  BY SearchAssumption
<1>1. ASSUME NEW i \in 1..Words
      PROVE  /\ m.words[i].text <= n.words[i].text /\ m.words[i].doc <= n.words[i].doc
             /\ NameBonus(m.words[i]) <= NameBonus(n.words[i])
  <2> DEFINE v == m.words[i]
             w == n.words[i]
  <2>1. v["text"] <= w["text"] /\ v["doc"] <= w["doc"] /\ v["base"] <= w["base"] /\ v["path"] <= w["path"]
    BY DEF AsGood
  <2>2. v.base \in WordWeight /\ v.path \in WordWeight /\ w.base \in WordWeight /\ w.path \in WordWeight
    <3> DEFINE Found == [text : WordWeight, doc : WordWeight, base : WordWeight, path : WordWeight]
    <3>1. m.words \in [1..Words -> Found] /\ n.words \in [1..Words -> Found]
      BY DEF Match
    <3>2. v \in Found /\ w \in Found
      BY <3>1
    <3> HIDE DEF v, w
    <3> QED
      BY <3>2
  <2> HIDE DEF v, w
  <2>3. v.base <= w.base /\ v.path <= w.path
    BY <2>1
  <2>4. NameBonus(v) <= NameBonus(w)
    BY <2>2, <2>3, BonusIsMonotonic DEF NameBonus
  <2> QED
    BY <2>1, <2>4 DEF v, w
<1>2. \A i \in 1..Words : TextOf(m)[i] <= TextOf(n)[i]
  BY <1>1 DEF TextOf
<1>3. \A i \in 1..Words : DocOf(m)[i] <= DocOf(n)[i]
  BY <1>1 DEF DocOf
<1>4. \A i \in 1..Words : NameOf(m)[i] <= NameOf(n)[i]
  BY <1>1 DEF NameOf
<1> DEFINE t == Sum(TextOf(m))
           u == Sum(TextOf(n))
           d == Sum(DocOf(m))
           e == Sum(DocOf(n))
           p == Sum(NameOf(m))
           q == Sum(NameOf(n))
<1>5. /\ t \in 0..100 * Words /\ d \in 0..100 * Words /\ p \in Nat
      /\ u \in 0..100 * Words /\ e \in 0..100 * Words /\ q \in Nat
  BY FieldsAreSummands
<1>6. t <= u /\ d <= e /\ p <= q
  BY <1>2, <1>3, <1>4, FieldsAreSummands, SumIsMonotonic
<1> HIDE DEF t, u, d, e, p, q
<1>7. Whole(m) \in Nat /\ Whole(n) \in Nat /\ Whole(m) <= Whole(n)
  BY DEF AsGood, Whole, Match
<1>8. /\ Full(t, d) \in Nat /\ Full(u, e) \in Nat /\ Full(t, d) <= Full(u, e)
      /\ 45 * t + Extra(t, d) \in Nat /\ 45 * u + Extra(u, e) \in Nat
      /\ 45 * t + Extra(t, d) <= 45 * u + Extra(u, e)
  BY <1>5, <1>6, FullIsMonotonic
<1> DEFINE x == Whole(m) + p + Full(t, d)
           y == Whole(n) + q + Full(u, e)
<1>9. x \in Nat /\ y \in Nat /\ x <= y
  BY <1>5, <1>6, <1>7, <1>8
<1> HIDE DEF x, y
<1>10. x * Words \in Nat /\ y * Words \in Nat /\ x * Words <= y * Words
  BY <1>0, <1>9, ProductIsMonotonic
<1>11. Total(m) = x * Words + 45 * t + Extra(t, d) /\ Total(n) = y * Words + 45 * u + Extra(u, e)
  BY Zenon DEF Total, x, y, t, u, d, e, p, q
<1>12. Extra(t, d) \in Nat /\ Extra(u, e) \in Nat /\ t \in Nat /\ u \in Nat
  BY <1>0, <1>5 DEF Extra
<1>13. Total(m) <= Total(n)
  <2> DEFINE g == x * Words
             h == y * Words
             k == Extra(t, d)
             l == Extra(u, e)
  <2>1. /\ g \in Nat /\ h \in Nat /\ k \in Nat /\ l \in Nat /\ g <= h
        /\ 45 * t + k <= 45 * u + l /\ Total(m) = g + 45 * t + k /\ Total(n) = h + 45 * u + l
    BY <1>8, <1>10, <1>11, <1>12
  <2> HIDE DEF g, h, k, l
  <2> QED
    BY <1>12, <2>1
<1> QED
  BY <1>0, <1>13, ScoreIsTotal

\* A file weight is between 1 and 100 hundredths.
LEMMA WeightIsPositive ==
  ASSUME setting \in Settings, NEW path
  PROVE  Weight(path) \in 1..100
<1> DEFINE T == {100} \union {r.weight : r \in {x \in setting.rules : path \in x.paths}}
<1>1. \A r \in setting.rules : r.weight \in 1..100
  BY SearchAssumption
<1>2. T \subseteq 1..100 /\ T # {}
  BY <1>1
<1>3. Weight(path) = Min(T)
  BY DEF Weight
<1> HIDE DEF T
<1>4. T \subseteq Nat
  BY <1>2
<1>5. Min(T) \in T
  BY <1>2, <1>4, MinIsLeast
<1> QED
  BY <1>2, <1>3, <1>5

\* The type of hits.
HitRecord == [sym : Symbol, dist : Nat, weight : 1..100, score : Nat]

\* What is known of the hit of a symbol.
LEMMA HitIsRecord ==
  ASSUME setting \in Settings, NEW s \in Symbol
  PROVE  /\ Hit(s) \in HitRecord /\ Hit(s).sym = s /\ Hit(s).dist = setting.dist[s.key]
         /\ Hit(s).weight = Weight(s.path) /\ setting.match[s] \in Match
         /\ Hit(s).score = LexicalMatchScore(setting.match[s]) * Weight(s.path)
<1>1. setting.dist \in [Key -> Nat] /\ setting.match \in [Symbol -> Match]
  BY SearchAssumption
<1>2. setting.dist[s.key] \in Nat /\ setting.match[s] \in Match
  BY <1>1 DEF Key
<1>3. Weight(s.path) \in 1..100
  BY WeightIsPositive
<1>4. LexicalMatchScore(setting.match[s]) \in Nat
  BY <1>2, ScoreIsTotal
<1> DEFINE a == LexicalMatchScore(setting.match[s])
           w == Weight(s.path)
<1>5. a * w \in Nat
  <2>1. a \in Nat /\ w \in Nat
    BY <1>3, <1>4
  <2> HIDE DEF a, w
  <2> QED
    BY <2>1
<1> QED
  BY <1>2, <1>3, <1>5 DEF Hit, HitRecord

\* The distance that semantic results are sorted by is a number.
LEMMA SortDistanceIsInt ==
  ASSUME NEW d \in Nat, NEW w \in 1..100
  PROVE  SemanticSortDistance(d, w) \in Int
<1>1. (100 - d) * w \in Int
  OBVIOUS
<1> QED
  BY <1>1 DEF SemanticSortDistance

\* A nearer symbol with a weight as high comes first.
LEMMA NearerComesFirst ==
  ASSUME NEW d \in Nat, NEW e \in Nat, d < e, NEW v \in 1..100, NEW w \in 1..100, v >= w
  PROVE  SemanticSortDistance(d, v) <= SemanticSortDistance(e, w)
<1>1. CASE d >= 100
  BY <1>1 DEF SemanticSortDistance
<1>2. CASE d < 100 /\ e >= 100
  <2> DEFINE x == (100 - d) * v
  <2>1. x \in Nat
    BY <1>2
  <2>2. SemanticSortDistance(d, v) = 10000 - x /\ SemanticSortDistance(e, w) = e * 100
    BY <1>2 DEF SemanticSortDistance
  <2> HIDE DEF x
  <2> QED
    BY <1>2, <2>1, <2>2
<1>3. CASE e < 100
  <2> DEFINE a == 100 - d
             b == 100 - e
  <2>1. a \in Nat /\ b \in Nat /\ b <= a
    BY <1>3
  <2>2. SemanticSortDistance(d, v) = 10000 - a * v /\ SemanticSortDistance(e, w) = 10000 - b * w
    BY <1>3 DEF SemanticSortDistance
  <2> HIDE DEF a, b
  <2>3. a * v \in Nat /\ b * v \in Nat /\ b * v <= a * v
    BY <2>1, ProductIsMonotonic
  <2>4. b * w \in Nat /\ w * b <= v * b /\ w * b = b * w /\ v * b = b * v
    BY <2>1, ProductIsMonotonic
  <2> QED
    BY <2>2, <2>3, <2>4
<1> QED
  BY <1>1, <1>2, <1>3

\* Lists of numbers of one length are strictly ordered.
LEMMA LessByIsStrict ==
  ASSUME NEW n \in Nat, NEW a \in [1..n -> Int], NEW b \in [1..n -> Int], NEW c \in [1..n -> Int]
  PROVE  ~LessBy(a, a) /\ (LessBy(a, b) /\ LessBy(b, c) => LessBy(a, c))
<1>1. ~LessBy(a, a)
  BY DEF LessBy
<1>2. ASSUME LessBy(a, b), LessBy(b, c) PROVE LessBy(a, c)
  <2>1. PICK i \in 1..n : a[i] < b[i] /\ \A j \in 1..i - 1 : a[j] = b[j]
    BY <1>2 DEF LessBy
  <2>2. PICK k \in 1..n : b[k] < c[k] /\ \A j \in 1..k - 1 : b[j] = c[j]
    BY <1>2 DEF LessBy
  <2>3. CASE i <= k
    <3>0. b[i] <= c[i]
      BY <2>2, <2>3
    <3>1. a[i] < c[i]
      BY <2>1, <3>0
    <3>2. \A j \in 1..i - 1 : a[j] = c[j]
      BY <2>1, <2>2, <2>3
    <3> QED
      BY <3>1, <3>2 DEF LessBy
  <2>4. CASE k < i
    <3>1. a[k] < c[k] /\ \A j \in 1..k - 1 : a[j] = c[j]
      BY <2>1, <2>2, <2>4
    <3> QED
      BY <3>1 DEF LessBy
  <2> QED
    BY <2>3, <2>4
<1> QED
  BY <1>1, <1>2

\* What the two orders compare.
SemanticKey(h) == <<SemanticSortDistance(h.dist, h.weight), h.dist, -h.score, h.sym.path, h.sym.line>>
LexicalKey(h) == <<-h.score, h.sym.path, h.sym.line>>

\* Hits are compared by lists of numbers.
LEMMA KeysAreNumbers ==
  ASSUME NEW h \in HitRecord
  PROVE  SemanticKey(h) \in [1..5 -> Int] /\ LexicalKey(h) \in [1..3 -> Int]
<1>1. h.dist \in Nat /\ h.weight \in 1..100 /\ h.score \in Nat /\ h.sym \in Symbol
  BY DEF HitRecord
<1> DEFINE d == SemanticSortDistance(h.dist, h.weight)
           e == h.dist
           n == -h.score
           p == h.sym.path
           l == h.sym.line
<1>2. d \in Int /\ e \in Int /\ n \in Int /\ p \in Int /\ l \in Int
  <2>1. d \in Int
    BY <1>1, SortDistanceIsInt
  <2>2. p \in Int /\ l \in Int
    BY <1>1, SearchAssumption
  <2> QED
    BY <1>1, <2>1, <2>2
<1> HIDE DEF d, e, n, p, l
<1>3. <<d, e, n, p, l>> \in [1..5 -> Int] /\ <<n, p, l>> \in [1..3 -> Int]
  BY <1>2
<1> QED
  BY <1>3 DEF d, e, n, p, l, SemanticKey, LexicalKey

\* The two orders as relations.
SemanticLess == {p \in HitRecord \X HitRecord : SemanticOrder(p[1], p[2])}
LexicalLess == {p \in HitRecord \X HitRecord : LexicalOrder(p[1], p[2])}

\* Both orders of hits are strict.
LEMMA OrdersAreStrict ==
  ASSUME NEW S, S \subseteq HitRecord
  PROVE  StrictOrder(SemanticLess, S) /\ StrictOrder(LexicalLess, S)
<1>1. \A a, b \in HitRecord : <<a, b>> \in SemanticLess <=> LessBy(SemanticKey(a), SemanticKey(b))
  BY DEF SemanticLess, SemanticOrder, SemanticKey
<1>2. \A a, b \in HitRecord : <<a, b>> \in LexicalLess <=> LessBy(LexicalKey(a), LexicalKey(b))
  BY DEF LexicalLess, LexicalOrder, LexicalKey
<1>3. ASSUME NEW a \in S, NEW b \in S, NEW c \in S
      PROVE  /\ <<a, a>> \notin SemanticLess /\ <<a, a>> \notin LexicalLess
             /\ <<a, b>> \in SemanticLess /\ <<b, c>> \in SemanticLess => <<a, c>> \in SemanticLess
             /\ <<a, b>> \in LexicalLess /\ <<b, c>> \in LexicalLess => <<a, c>> \in LexicalLess
  <2>1. /\ SemanticKey(a) \in [1..5 -> Int] /\ SemanticKey(b) \in [1..5 -> Int] /\ SemanticKey(c) \in [1..5 -> Int]
        /\ LexicalKey(a) \in [1..3 -> Int] /\ LexicalKey(b) \in [1..3 -> Int] /\ LexicalKey(c) \in [1..3 -> Int]
    BY KeysAreNumbers
  <2>2. a \in HitRecord /\ b \in HitRecord /\ c \in HitRecord
    OBVIOUS
  <2>3. ~LessBy(SemanticKey(a), SemanticKey(a))
        /\ (LessBy(SemanticKey(a), SemanticKey(b)) /\ LessBy(SemanticKey(b), SemanticKey(c))
              => LessBy(SemanticKey(a), SemanticKey(c)))
    BY <2>1, LessByIsStrict
  <2>4. ~LessBy(LexicalKey(a), LexicalKey(a))
        /\ (LessBy(LexicalKey(a), LexicalKey(b)) /\ LessBy(LexicalKey(b), LexicalKey(c))
              => LessBy(LexicalKey(a), LexicalKey(c)))
    BY <2>1, LessByIsStrict
  <2> QED
    BY <1>1, <1>2, <2>2, <2>3, <2>4
<1> QED
  BY <1>3 DEF StrictOrder

\* Both orders sort.
LEMMA SortedIsListing ==
  ASSUME NEW S, IsFiniteSet(S), S \subseteq HitRecord
  PROVE  IsListing(Sorted(S, SemanticOrder), S, SemanticLess) /\ IsListing(Sorted(S, LexicalOrder), S, LexicalLess)
<1> DEFINE n == Cardinality(S)
<1>1. \A a, b \in S : /\ <<a, b>> \in SemanticLess <=> SemanticOrder(a, b)
                      /\ <<a, b>> \in LexicalLess <=> LexicalOrder(a, b)
  BY DEF SemanticLess, LexicalLess
<1>2. \E q : IsListing(q, S, SemanticLess)
  BY OrdersAreStrict, ListingExists
<1>3. \E q : IsListing(q, S, LexicalLess)
  BY OrdersAreStrict, ListingExists
<1> DEFINE P(q) == IsInjective(q) /\ \A i, j \in 1..n : i < j => ~SemanticOrder(q[j], q[i])
           Q(q) == IsInjective(q) /\ \A i, j \in 1..n : i < j => ~LexicalOrder(q[j], q[i])
<1>4. ASSUME NEW q \in [1..n -> S]
      PROVE  (P(q) <=> IsListing(q, S, SemanticLess)) /\ (Q(q) <=> IsListing(q, S, LexicalLess))
  <2>1. \A i \in 1..n : q[i] \in S
    OBVIOUS
  <2> HIDE DEF n
  <2>2. P(q) <=> IsInjective(q) /\ \A i, j \in 1..n : i < j => <<q[j], q[i]>> \notin SemanticLess
    BY <1>1, <2>1
  <2>3. Q(q) <=> IsInjective(q) /\ \A i, j \in 1..n : i < j => <<q[j], q[i]>> \notin LexicalLess
    BY <1>1, <2>1
  <2> QED
    BY <2>2, <2>3 DEF IsListing, n
<1>5. Sorted(S, SemanticOrder) = CHOOSE q \in [1..n -> S] : P(q)
  BY DEF Sorted
<1>6. Sorted(S, LexicalOrder) = CHOOSE q \in [1..n -> S] : Q(q)
  BY DEF Sorted
<1>7. \A q : IsListing(q, S, SemanticLess) \/ IsListing(q, S, LexicalLess) => q \in [1..n -> S]
  BY DEF IsListing
<1> HIDE DEF P, Q, n
<1> QED
  BY <1>2, <1>3, <1>4, <1>5, <1>6, <1>7

\* r ranks S by R, cut off at the number of results wanted.
IsRanking(r, S, R) ==
  /\ r \in Seq(S)
  /\ Len(r) = IF query.limit <= Cardinality(S) THEN query.limit ELSE Cardinality(S)
  /\ \A i, j \in 1..Len(r) : i < j => r[i] # r[j] /\ <<r[j], r[i]>> \notin R
  /\ \A g \in S : (\A i \in 1..Len(r) : r[i] # g) => \A i \in 1..Len(r) : <<g, r[i]>> \notin R

\* The first elements of a sorted list rank the set.
LEMMA FirstOfListing ==
  ASSUME NEW S, IsFiniteSet(S), NEW R, NEW q, IsListing(q, S, R), query.limit \in Nat
  PROVE  IsRanking(FirstOf(q), S, R)
<1> DEFINE n == Cardinality(S)
           l == query.limit
           k == IF l <= n THEN l ELSE n
           r == FirstOf(q)
<1>1. n \in Nat
  BY FS_CardinalityType
<1>2. q \in [1..n -> S] /\ IsInjective(q) /\ \A i, j \in 1..n : i < j => <<q[j], q[i]>> \notin R
  BY DEF IsListing
<1>3. \A g \in S : \E i \in 1..n : q[i] = g
  BY ListingIsComplete
<1> HIDE DEF n
<1>4. q \in Seq(S) /\ Len(q) = n
  BY <1>1, <1>2
<1>5. Min({l, n}) = k
  <2>1. l \in Int /\ n \in Int
    BY <1>1
  <2> HIDE DEF l
  <2> QED
    BY <2>1, MinOfTwo
<1>6. r = SubSeq(q, 1, k)
  BY <1>4, <1>5 DEF FirstOf
<1>7. k \in 0..n
  BY <1>1
<1> HIDE DEF k, r
<1>8. r \in Seq(S) /\ Len(r) = k /\ \A i \in 1..k : r[i] = q[i]
  <2>1. \A i \in 1..k : q[i] \in S
    BY <1>1, <1>2, <1>7
  <2> QED
    BY <1>1, <1>4, <1>6, <1>7, <2>1
<1>9. ASSUME NEW i \in 1..k, NEW j \in 1..k, i < j PROVE r[i] # r[j] /\ <<r[j], r[i]>> \notin R
  <2>1. i \in 1..n /\ j \in 1..n /\ i # j
    BY <1>1, <1>7, <1>9
  <2> QED
    BY <1>2, <1>8, <1>9, <2>1 DEF IsInjective
<1>10. ASSUME NEW g \in S, \A i \in 1..k : r[i] # g, NEW i \in 1..k PROVE <<g, r[i]>> \notin R
  <2>1. PICK j \in 1..n : q[j] = g
    BY <1>3
  <2>2. j \notin 1..k /\ i \in 1..n
    BY <1>1, <1>7, <1>8, <1>10, <2>1
  <2>3. i < j
    BY <1>1, <1>7, <2>1, <2>2
  <2> QED
    BY <1>2, <1>8, <2>1, <2>2, <2>3
<1> QED
  BY <1>8, <1>9, <1>10 DEF IsRanking, k, n, r

\* The hits among the candidates.
HitsOf(C) == {Hit(s) : s \in C}

\* The hits among finitely many symbols.
LEMMA HitsAreRecords ==
  ASSUME setting \in Settings, NEW C, C \subseteq Symbol
  PROVE  IsFiniteSet(HitsOf(C)) /\ HitsOf(C) \subseteq HitRecord
<1>1. IsFiniteSet(C)
  BY SearchAssumption, FS_Subset
<1> DEFINE f == [s \in C |-> Hit(s)]
<1>2. f \in Surjection(C, HitsOf(C))
  BY DEF Surjection, HitsOf
<1>3. IsFiniteSet(HitsOf(C))
  <2> HIDE DEF f
  <2> QED
    BY <1>1, <1>2, FS_Surjection
<1>4. \A s \in C : Hit(s) \in HitRecord
  BY HitIsRecord
<1> QED
  BY <1>3, <1>4 DEF HitsOf

\* What a ranking keeps.
Within(C, bound) == {h \in HitsOf(C) : bound > 0 => h.dist <= bound}
Scored(C) == {h \in HitsOf(C) : h.score > 0}

\* Both rankings of a search rank what they keep.
LEMMA RankingsRank ==
  ASSUME setting \in Settings, query.limit \in Nat, NEW C, C \subseteq Symbol, NEW bound
  PROVE  /\ IsRanking(RankSemantic(C, bound), Within(C, bound), SemanticLess)
         /\ IsRanking(RankLexical(C), Scored(C), LexicalLess)
<1>1. /\ IsFiniteSet(Within(C, bound)) /\ Within(C, bound) \subseteq HitRecord
      /\ IsFiniteSet(Scored(C)) /\ Scored(C) \subseteq HitRecord
  <2>1. Within(C, bound) \subseteq HitsOf(C) /\ Scored(C) \subseteq HitsOf(C)
    BY DEF Within, Scored
  <2> QED
    BY <2>1, HitsAreRecords, FS_Subset
<1>2. RankSemantic(C, bound) = FirstOf(Sorted(Within(C, bound), SemanticOrder))
  BY DEF RankSemantic, Within, HitsOf
<1>3. RankLexical(C) = FirstOf(Sorted(Scored(C), LexicalOrder))
  BY DEF RankLexical, Scored, HitsOf
<1>4. IsListing(Sorted(Within(C, bound), SemanticOrder), Within(C, bound), SemanticLess)
  BY <1>1, SortedIsListing
<1>5. IsListing(Sorted(Scored(C), LexicalOrder), Scored(C), LexicalLess)
  BY <1>1, SortedIsListing
<1> QED
  BY <1>1, <1>2, <1>3, <1>4, <1>5, FirstOfListing

-----------------------------------------------------------------------------
(* The invariant                                                             *)

\* The types of a query and of a run.
Query == [mode : {"auto", "semantic", "lexical"}, codeLike : BOOLEAN, limit : Limits]
Run == [symbols : SUBSET Symbol, missing : SUBSET Key, phase : {"fill", "rows", "vecs"}]

\* The variables but for the results.
Typed ==
  /\ rows \subseteq (1..MaxSnapshots) \X Symbol /\ vecs \subseteq Key
  /\ active \in 1..last /\ last \in 1..MaxSnapshots
  /\ run \in Run \union {None} /\ setting \in Settings /\ query \in Query
  /\ at \in Reading \union {"start", "done", "failed"} /\ snap \in 0..last /\ from \in 0..last
  /\ seen \subseteq 1..last /\ quiet \in BOOLEAN

\* A list of different hits, no more than are wanted.
IsResult(r) ==
  /\ r \in Seq(HitRecord) /\ Len(r) <= query.limit
  /\ \A i \in 1..Len(r) : r[i] = Hit(r[i].sym)
  /\ \A i, j \in 1..Len(r) : i < j => r[i] # r[j]

Listed == IsResult(hits) /\ IsResult(known)

\* A run fills a snapshot newer than the active one, and cleans up when its own is active.
Built ==
  /\ run # None => IF run.phase = "fill" THEN active < last ELSE active = last
  /\ \A s \in seen : s <= active

\* What a search has read, and whether a run was at work.
Watched ==
  /\ at = "start" => from = 0 /\ snap = 0
  /\ at \in Reading => active \in seen
  /\ snap # 0 => snap \in seen /\ at \in Reading
  /\ from # 0 => from \in seen
  /\ quiet /\ at \in Reading => run = None /\ (snap # 0 => snap = active)

\* Which reads a mode makes.
Moded ==
  /\ query.mode = "semantic" => at \notin {"relaxed", "lexical"}
  /\ query.mode = "lexical" => at \notin {"semantic", "relaxed"} /\ known = <<>>

\* The symbols of a snapshot, given the rows.
RowsIn(all, s) == {r[2] : r \in {x \in all : x[1] = s}}
KeysIn(symbols) == {r.key : r \in symbols}

\* near is a set of nearest keys, as many as are wanted.
AreNearest(near, keys) ==
  /\ near \subseteq keys /\ Cardinality(near) = Min({CandidateLimit, Cardinality(keys)})
  /\ \A a \in near, b \in keys \ near : setting.dist[a] <= setting.dist[b]

\* r is a semantic result over the symbols of a snapshot whose vectors are all there are.
FromNearest(r, symbols) ==
  \E near \in SUBSET KeysIn(symbols) :
    AreNearest(near, KeysIn(symbols)) /\ r = RankSemantic({s \in symbols : s.key \in near}, MaxDistance)

\* r is a lexical result over the symbols, and maybe more that have been cleaned up.
FromText(r, symbols) == \E more \in SUBSET Symbol : symbols \subseteq more /\ r = RankLexical(more)

\* The search is over, in the mode.
Done(mode) == at = "done" /\ query.mode = mode

\* What is shown at the end, as long as the snapshot it was read from is there.
SemanticResult == Done("semantic") /\ quiet /\ from = active => FromNearest(hits, RowsIn(rows, from))
LexicalResult == Done("lexical") => FromText(hits, RowsIn(rows, from))

\* Auto mode has something, once it is through with distances.
AutoResult ==
  query.mode = "auto" /\ ~query.codeLike /\ quiet /\ RowsIn(rows, active) # {} =>
    /\ at = "lexical" => known # <<>>
    /\ at = "done" /\ from = active => hits # <<>>

\* The inductive invariant.
Inv == Typed /\ Listed /\ Built /\ Watched /\ Moded /\ SemanticResult /\ LexicalResult /\ AutoResult

\* The setting and the query of a search stay; so do the orders they make.
LEMMA SettingStays ==
  ASSUME setting' = setting, query' = query
  PROVE  /\ Listed' <=> IsResult(hits') /\ IsResult(known')
         /\ SemanticResult' <=> (Done("semantic")' /\ quiet' /\ from' = active' => FromNearest(hits', RowsIn(rows', from')))
         /\ LexicalResult' <=> (Done("lexical")' => FromText(hits', RowsIn(rows', from')))
<1>1. Listed' <=> IsResult(hits') /\ IsResult(known')
  BY DEF Listed, IsResult, Hit, Weight
<1>2. SemanticResult' <=> (Done("semantic")' /\ quiet' /\ from' = active' => FromNearest(hits', RowsIn(rows', from')))
  BY DEF SemanticResult, FromNearest, AreNearest, RankSemantic, CandidateLimit, FirstOf, Hit, Weight
<1>3. LexicalResult' <=> (Done("lexical")' => FromText(hits', RowsIn(rows', from')))
  BY DEF LexicalResult, FromText, RankLexical, FirstOf, Hit, Weight
<1> QED
  BY <1>1, <1>2, <1>3

\* What the invariant says of the query, the setting and the rows of a snapshot.
LEMMA QueryIsTyped ==
  ASSUME Typed
  PROVE  /\ query.limit \in Nat \ {0} /\ query.mode \in {"auto", "semantic", "lexical"}
         /\ query.codeLike \in BOOLEAN /\ setting \in Settings
         /\ \A s : RowsOf(s) = RowsIn(rows, s) /\ KeysOf(s) = KeysIn(RowsIn(rows, s)) /\ RowsIn(rows, s) \subseteq Symbol
<1>1. /\ query.limit \in Nat \ {0} /\ query.mode \in {"auto", "semantic", "lexical"}
      /\ query.codeLike \in BOOLEAN /\ setting \in Settings
  BY SearchAssumption DEF Typed, Query
<1>2. ASSUME NEW s
      PROVE RowsOf(s) = RowsIn(rows, s) /\ KeysOf(s) = KeysIn(RowsIn(rows, s)) /\ RowsIn(rows, s) \subseteq Symbol
  <2>1. RowsOf(s) = RowsIn(rows, s)
    BY DEF RowsOf, RowsIn
  <2>2. KeysOf(s) = KeysIn(RowsIn(rows, s))
    BY <2>1 DEF KeysOf, KeysIn
  <2>3. RowsIn(rows, s) \subseteq Symbol
    BY DEF RowsIn, Typed
  <2> QED
    BY <2>1, <2>2, <2>3
<1> QED
  BY <1>1, <1>2

\* What a ranking shows is a result.
LEMMA RankingIsResult ==
  ASSUME setting \in Settings, query.limit \in Nat, NEW C, C \subseteq Symbol, NEW S, S \subseteq HitsOf(C),
         NEW R, NEW r, IsRanking(r, S, R)
  PROVE  IsResult(r)
<1>1. IsFiniteSet(S) /\ S \subseteq HitRecord
  BY HitsAreRecords, FS_Subset
<1>2. Cardinality(S) \in Nat
  BY <1>1, FS_CardinalityType
<1>3. \A h \in S : h \in HitRecord /\ h = Hit(h.sym)
  <2>1. ASSUME NEW h \in S PROVE h = Hit(h.sym)
    <3>1. PICK s \in C : h = Hit(s)
      BY DEF HitsOf
    <3>2. h.sym = s
      BY <3>1, HitIsRecord
    <3> QED
      BY <3>1, <3>2
  <2> QED
    BY <1>1, <2>1
<1>4. Len(r) \in Nat /\ r \in Seq(HitRecord) /\ \A i \in 1..Len(r) : r[i] \in S
  BY <1>1 DEF IsRanking
<1>5. Len(r) <= query.limit
  BY <1>2 DEF IsRanking
<1> QED
  BY <1>3, <1>4, <1>5 DEF IsRanking, IsResult

\* Both rankings are results.
LEMMA RankingsAreResults ==
  ASSUME setting \in Settings, query.limit \in Nat, NEW C, C \subseteq Symbol, NEW bound
  PROVE  IsResult(RankSemantic(C, bound)) /\ IsResult(RankLexical(C))
<1>1. Within(C, bound) \subseteq HitsOf(C) /\ Scored(C) \subseteq HitsOf(C)
  BY DEF Within, Scored
<1> QED
  BY <1>1, RankingsRank, RankingIsResult

\* So is the empty list.
LEMMA EmptyIsResult ==
  ASSUME query.limit \in Nat
  PROVE  IsResult(<<>>)
BY DEF IsResult

\* Among candidates something is found if the distance has no bound.
LEMMA CandidatesAreFound ==
  ASSUME setting \in Settings, query.limit \in Nat \ {0}, NEW C, C \subseteq Symbol, C # {}
  PROVE  RankSemantic(C, 0) # <<>>
<1>1. IsRanking(RankSemantic(C, 0), Within(C, 0), SemanticLess)
  BY RankingsRank
<1>2. Within(C, 0) = HitsOf(C) /\ HitsOf(C) # {} /\ IsFiniteSet(HitsOf(C))
  BY HitsAreRecords DEF Within, HitsOf
<1>3. Cardinality(Within(C, 0)) \in Nat \ {0}
  BY <1>2, FS_EmptySet, FS_CardinalityType
<1>4. Len(RankSemantic(C, 0)) # 0
  BY <1>1, <1>3 DEF IsRanking
<1> QED
  BY <1>4

\* Max of two numbers.
LEMMA MaxOfTwo ==
  ASSUME NEW a \in Int, NEW b \in Int
  PROVE  Max({a, b}) = IF a >= b THEN a ELSE b
<1> DEFINE m == IF a >= b THEN a ELSE b
<1>1. m \in {a, b} /\ \A y \in {a, b} : m >= y
  OBVIOUS
<1>2. \A x \in {a, b} : (\A y \in {a, b} : x >= y) => x = m
  OBVIOUS
<1> QED
  BY <1>1, <1>2 DEF Max

\* Some candidates are always wanted, and no fewer than the floor.
LEMMA CandidatesAreWanted ==
  ASSUME query.limit \in Nat \ {0}
  PROVE  CandidateLimit \in Nat \ {0} /\ CandidateLimit >= CandidateFloor
<1> DEFINE a == query.limit * CandidateFactor
<1>1. a \in Int /\ CandidateFloor \in Nat \ {0}
  BY SearchAssumption
<1>2. CandidateLimit = Max({a, CandidateFloor})
  BY DEF CandidateLimit
<1> HIDE DEF a
<1>3. CandidateLimit = IF a >= CandidateFloor THEN a ELSE CandidateFloor
  BY <1>1, <1>2, MaxOfTwo
<1> QED
  BY <1>1, <1>3

\* There are finitely many keys.
LEMMA KeysAreFinite ==
  ASSUME NEW T, T \subseteq Key
  PROVE  IsFiniteSet(T) /\ Cardinality(T) \in Nat
<1> DEFINE f == [s \in Symbol |-> s.key]
<1>1. f \in Surjection(Symbol, Key)
  BY DEF Surjection, Key
<1>2. IsFiniteSet(Key)
  <2> HIDE DEF f
  <2> QED
    BY <1>1, SearchAssumption, FS_Surjection
<1> QED
  BY <1>2, FS_Subset, FS_CardinalityType

\* Of some keys the nearest are some, and all if there are no more than candidates are wanted.
LEMMA NearestAreSome ==
  ASSUME query.limit \in Nat \ {0}, NEW keys, keys \subseteq Key, NEW near, AreNearest(near, keys)
  PROVE  /\ keys # {} => near # {}
         /\ Cardinality(keys) <= CandidateFloor => near = keys
<1>1. near \subseteq keys /\ Cardinality(near) = Min({CandidateLimit, Cardinality(keys)})
  BY DEF AreNearest
<1>2. IsFiniteSet(keys) /\ IsFiniteSet(near) /\ Cardinality(keys) \in Nat
  BY <1>1, KeysAreFinite, FS_Subset
<1>3. CandidateLimit \in Nat \ {0} /\ CandidateLimit >= CandidateFloor /\ CandidateFloor \in Nat
  BY CandidatesAreWanted, SearchAssumption
<1>4. Cardinality(near) = IF CandidateLimit <= Cardinality(keys) THEN CandidateLimit ELSE Cardinality(keys)
  <2> DEFINE a == CandidateLimit
             b == Cardinality(keys)
  <2>1. a \in Int /\ b \in Int
    BY <1>2, <1>3
  <2> HIDE DEF a, b
  <2>2. Min({a, b}) = IF a <= b THEN a ELSE b
    BY <2>1, MinOfTwo
  <2> QED
    BY <1>1, <2>2 DEF a, b
<1>5. keys # {} => near # {}
  BY <1>2, <1>3, <1>4, FS_EmptySet
<1>6. ASSUME Cardinality(keys) <= CandidateFloor PROVE near = keys
  <2>1. Cardinality(near) = Cardinality(keys)
    BY <1>2, <1>3, <1>4, <1>6
  <2> QED
    BY <1>1, <1>2, <2>1, FS_Subset
<1> QED
  BY <1>5, <1>6

\* The invariant holds at first.
LEMMA InitInv == Init => Inv
<1> SUFFICES ASSUME Init PROVE Inv
  OBVIOUS
<1>1. PICK there \in Trees : rows = {1} \X there /\ vecs = {s.key : s \in there}
  BY DEF Init
<1>2. there \subseteq Symbol
  BY SearchAssumption
<1>3. Typed
  <2>1. rows \subseteq (1..MaxSnapshots) \X Symbol
    BY <1>1, <1>2, SearchAssumption
  <2>2. vecs \subseteq Key
    BY <1>1, <1>2 DEF Key
  <2> QED
    BY <2>1, <2>2, SearchAssumption DEF Init, Typed, Query, Reading
<1>4. query.limit \in Nat
  BY <1>3, QueryIsTyped
<1>5. Listed
  BY <1>4, EmptyIsResult DEF Listed, Init
<1>6. Built /\ Watched /\ Moded /\ SemanticResult /\ LexicalResult /\ AutoResult
  BY DEF Init, Built, Watched, Moded, SemanticResult, LexicalResult, AutoResult, Done, Reading
<1> QED
  BY <1>3, <1>5, <1>6 DEF Inv

\* The snapshots a search may have read are not newer than the active one.
LEMMA ReadsAreNotNewer ==
  ASSUME Inv
  PROVE  from \in 0..active /\ active \in Nat /\ last \in Nat /\ active <= last
<1>1. active \in Nat /\ last \in Nat /\ active <= last /\ from \in Nat /\ seen \subseteq Nat
  BY DEF Inv, Typed
<1>2. from # 0 => from <= active
  BY DEF Inv, Built, Watched
<1> QED
  BY <1>1, <1>2

\* What a run does to the rows leaves the results right, if the snapshot that was read loses rows
\* only when it is no longer active, and gets none.
LEMMA RunsKeepResults ==
  ASSUME Inv, UNCHANGED <<setting, query, at, hits, known, from>>, quiet' => quiet,
         RowsIn(rows', from) \subseteq RowsIn(rows, from),
         active' = active => RowsIn(rows', active) = RowsIn(rows, active),
         active' # active => from # active' /\ ~(quiet /\ at \in Reading)
  PROVE  Listed' /\ Moded' /\ SemanticResult' /\ LexicalResult' /\ AutoResult'
<1>1. Listed'
  BY SettingStays DEF Inv, Listed
<1>2. Moded'
  BY DEF Inv, Moded
<1>3. SemanticResult'
  <2>1. SUFFICES ASSUME Done("semantic")', quiet', from' = active' PROVE FromNearest(hits', RowsIn(rows', from'))
    BY SettingStays
  <2>2. Done("semantic") /\ quiet /\ from = active /\ active' = active
    BY <2>1 DEF Done
  <2>3. FromNearest(hits, RowsIn(rows, from))
    BY <2>2 DEF Inv, SemanticResult
  <2>4. RowsIn(rows', from') = RowsIn(rows, from) /\ hits' = hits
    BY <2>2
  <2> QED
    BY <2>3, <2>4
<1>4. LexicalResult'
  <2>1. SUFFICES ASSUME Done("lexical")' PROVE FromText(hits', RowsIn(rows', from'))
    BY SettingStays
  <2>2. FromText(hits, RowsIn(rows, from))
    BY <2>1 DEF Inv, LexicalResult, Done
  <2> QED
    BY <2>2 DEF FromText
<1>5. AutoResult'
  <2>1. CASE active' = active
    BY <2>1 DEF Inv, AutoResult
  <2>2. CASE active' # active
    BY <2>2 DEF AutoResult, Reading
  <2> QED
    BY <2>1, <2>2
<1> QED
  BY <1>1, <1>2, <1>3, <1>4, <1>5

\* A run begins; it makes the search noisy.
LEMMA BeginSnapshotKeepsInv ==
  ASSUME Inv, BeginSnapshot
  PROVE  Inv'
<1>1. Typed'
  <2>1. PICK todo \in Trees : run' = [symbols |-> todo, missing |-> {}, phase |-> "fill"]
    BY DEF BeginSnapshot
  <2>2. run' \in Run
    BY <2>1, SearchAssumption DEF Run
  <2>3. last \in Nat /\ last' = last + 1 /\ last' \in 1..MaxSnapshots
    BY SearchAssumption DEF Inv, Typed, BeginSnapshot
  <2>4. active' \in 1..last' /\ snap' \in 0..last' /\ from' \in 0..last' /\ seen' \subseteq 1..last'
    BY <2>3 DEF Inv, Typed, BeginSnapshot
  <2>5. quiet' \in BOOLEAN
    BY DEF BeginSnapshot
  <2> QED
    BY <2>2, <2>3, <2>4, <2>5 DEF Inv, Typed, BeginSnapshot
<1>2. Built'
  <2>1. run'.phase = "fill" /\ active < last'
    BY ReadsAreNotNewer DEF BeginSnapshot
  <2> QED
    BY <2>1 DEF Inv, Built, BeginSnapshot
<1>3. Watched'
  BY DEF Inv, Watched, BeginSnapshot
<1>4. Listed' /\ Moded' /\ SemanticResult' /\ LexicalResult' /\ AutoResult'
  <2>1. UNCHANGED <<setting, query, at, hits, known, from>> /\ (quiet' => quiet) /\ UNCHANGED <<rows, active>>
    BY DEF BeginSnapshot
  <2> QED
    BY <2>1, RunsKeepResults
<1> QED
  BY <1>1, <1>2, <1>3, <1>4 DEF Inv

\* A row of the newest snapshot, which no search has read.
LEMMA InsertSymbolKeepsInv ==
  ASSUME Inv, InsertSymbol
  PROVE  Inv'
<1>1. PICK s \in run.symbols :
        /\ rows' = rows \union {<<last, s>>}
        /\ run' = [run EXCEPT !.symbols = @ \ {s}, !.missing = @ \union ({s.key} \ vecs)]
  BY DEF InsertSymbol
<1>2. run \in Run /\ run # None /\ run.phase = "fill" /\ s \in Symbol
  BY DEF Inv, Typed, InsertSymbol, Run
<1>3. run' \in Run /\ run'.phase = "fill"
  BY <1>1, <1>2 DEF Run, Key
<1>4. UNCHANGED <<vecs, active, last, searchVars>>
  BY DEF InsertSymbol
<1>5. Typed'
  <2>1. rows' \subseteq (1..MaxSnapshots) \X Symbol
    BY <1>1, <1>2 DEF Inv, Typed
  <2> QED
    BY <1>3, <1>4, <2>1 DEF Inv, Typed, searchVars
<1>6. active < last
  BY <1>2 DEF Inv, Built
<1>7. Built'
  BY <1>3, <1>4, <1>6 DEF Inv, Built, searchVars
<1>8. Watched'
  BY <1>2, <1>4 DEF Inv, Watched, searchVars
<1>9. ASSUME NEW x, x # last PROVE RowsIn(rows', x) = RowsIn(rows, x)
  BY <1>1, <1>9 DEF RowsIn
<1>10. from # last /\ active # last
  BY <1>6, ReadsAreNotNewer
<1>11. Listed' /\ Moded' /\ SemanticResult' /\ LexicalResult' /\ AutoResult'
  BY <1>4, <1>9, <1>10, RunsKeepResults DEF searchVars
<1> QED
  BY <1>5, <1>7, <1>8, <1>11 DEF Inv

\* A vector.
LEMMA AddEmbeddingKeepsInv ==
  ASSUME Inv, AddEmbedding
  PROVE  Inv'
<1>1. PICK k \in run.missing : vecs' = vecs \union {k} /\ run' = [run EXCEPT !.missing = @ \ {k}]
  BY DEF AddEmbedding
<1>2. run \in Run /\ run # None /\ run.phase = "fill" /\ k \in Key
  BY DEF Inv, Typed, AddEmbedding, Run
<1>3. run' \in Run /\ run'.phase = "fill"
  BY <1>1, <1>2 DEF Run
<1>4. UNCHANGED <<rows, active, last, searchVars>>
  BY DEF AddEmbedding
<1>5. Typed'
  BY <1>1, <1>2, <1>3, <1>4 DEF Inv, Typed, searchVars
<1>6. Built'
  BY <1>2, <1>3, <1>4 DEF Inv, Built, searchVars
<1>7. Watched'
  BY <1>2, <1>4 DEF Inv, Watched, searchVars
<1>8. Listed' /\ Moded' /\ SemanticResult' /\ LexicalResult' /\ AutoResult'
  BY <1>4, RunsKeepResults DEF searchVars
<1> QED
  BY <1>5, <1>6, <1>7, <1>8 DEF Inv

\* Activation: a search under way has seen both snapshots.
LEMMA ActivateSnapshotKeepsInv ==
  ASSUME Inv, ActivateSnapshot
  PROVE  Inv'
<1>1. /\ run \in Run /\ run # None /\ run.phase = "fill" /\ active < last
      /\ run' = [run EXCEPT !.phase = "rows"] /\ active' = last
  BY DEF Inv, Typed, Built, ActivateSnapshot
<1>2. run' \in Run /\ run'.phase = "rows"
  BY <1>1 DEF Run
<1>3. UNCHANGED <<rows, vecs, last, setting, query, at, snap, hits, known, from, quiet>>
  BY DEF ActivateSnapshot
<1>4. seen' = IF at \in Reading THEN seen \union {last} ELSE seen
  BY DEF ActivateSnapshot
<1>5. last \in Nat \ {0} /\ active \in Nat /\ seen \subseteq 1..last
  BY DEF Inv, Typed
<1>6. Typed'
  BY <1>1, <1>2, <1>3, <1>4, <1>5 DEF Inv, Typed
<1>7. Built'
  BY <1>1, <1>2, <1>3, <1>4, <1>5 DEF Built
<1>8. Watched'
  BY <1>1, <1>3, <1>4 DEF Inv, Watched
<1>9. ~(quiet /\ at \in Reading) /\ from # last
  BY <1>1, ReadsAreNotNewer DEF Inv, Watched
<1>10. Listed' /\ Moded' /\ SemanticResult' /\ LexicalResult' /\ AutoResult'
  <2>1. active' # active /\ RowsIn(rows', from) \subseteq RowsIn(rows, from)
    BY <1>1, <1>3, <1>5
  <2> QED
    BY <1>1, <1>3, <1>9, <2>1, RunsKeepResults
<1> QED
  BY <1>6, <1>7, <1>8, <1>10 DEF Inv

\* The active snapshot keeps its rows.
LEMMA CleanupInactiveSnapshotsKeepsInv ==
  ASSUME Inv, CleanupInactiveSnapshots
  PROVE  Inv'
<1>1. /\ run \in Run /\ run # None /\ run.phase = "rows" /\ active = last
      /\ run' = [run EXCEPT !.phase = "vecs"] /\ rows' = {r \in rows : r[1] = active}
  BY DEF Inv, Typed, Built, CleanupInactiveSnapshots
<1>2. run' \in Run /\ run'.phase = "vecs"
  BY <1>1 DEF Run
<1>3. UNCHANGED <<vecs, active, last, searchVars>>
  BY DEF CleanupInactiveSnapshots
<1>4. Typed'
  BY <1>1, <1>2, <1>3 DEF Inv, Typed, searchVars
<1>5. Built'
  BY <1>1, <1>2, <1>3 DEF Inv, Built, searchVars
<1>6. Watched'
  BY <1>1, <1>3 DEF Inv, Watched, searchVars
<1>7. RowsIn(rows', from) \subseteq RowsIn(rows, from) /\ RowsIn(rows', active) = RowsIn(rows, active)
  BY <1>1 DEF RowsIn
<1>8. Listed' /\ Moded' /\ SemanticResult' /\ LexicalResult' /\ AutoResult'
  BY <1>3, <1>7, RunsKeepResults DEF searchVars
<1> QED
  BY <1>4, <1>5, <1>6, <1>8 DEF Inv

\* A run ends or stops.
LEMMA RunEndsKeepsInv ==
  ASSUME Inv, CleanupUnusedEmbeddings \/ RunStops
  PROVE  Inv'
<1>1. run # None /\ run' = None /\ vecs' \subseteq vecs /\ UNCHANGED <<rows, active, last, searchVars>>
  BY DEF CleanupUnusedEmbeddings, RunStops
<1>2. Typed'
  BY <1>1 DEF Inv, Typed, searchVars
<1>3. Built'
  BY <1>1 DEF Inv, Built, searchVars
<1>4. Watched'
  BY <1>1 DEF Inv, Watched, searchVars
<1>5. Listed' /\ Moded' /\ SemanticResult' /\ LexicalResult' /\ AutoResult'
  BY <1>1, RunsKeepResults DEF searchVars
<1> QED
  BY <1>2, <1>3, <1>4, <1>5 DEF Inv

\* A search starts.
LEMMA StartKeepsInv ==
  ASSUME Inv, Start
  PROVE  Inv'
<1>1. /\ at = "start" /\ at' = StartsWith /\ seen' = {active} /\ quiet' = (run = None)
      /\ UNCHANGED <<rows, vecs, active, last, run, setting, query, snap, hits, known, from>>
  BY DEF Start, dbVars
<1>2. query.mode \in {"auto", "semantic", "lexical"} /\ query.codeLike \in BOOLEAN
  BY QueryIsTyped DEF Inv
<1>3. at' \in {"semantic", "lexical"} /\ (at' = "lexical" <=> query.mode = "lexical" \/ (query.mode = "auto" /\ query.codeLike))
  BY <1>1, <1>2 DEF StartsWith
<1>4. active \in 1..last /\ active \in Nat /\ from = 0 /\ snap = 0
  BY <1>1 DEF Inv, Typed, Watched
<1>5. Typed'
  <2>1. quiet' \in BOOLEAN /\ seen' \subseteq 1..last /\ at' \in Reading
    BY <1>1, <1>3, <1>4 DEF Reading
  <2> QED
    BY <1>1, <2>1 DEF Inv, Typed
<1>6. Built'
  BY <1>1, <1>4 DEF Inv, Built
<1>7. Watched'
  BY <1>1, <1>3, <1>4 DEF Watched, Reading
<1>8. Moded'
  BY <1>1, <1>2, <1>3 DEF Inv, Moded
<1>9. Listed' /\ SemanticResult' /\ LexicalResult'
  BY <1>1, <1>3, SettingStays DEF Inv, Listed, Done
<1>10. AutoResult'
  BY <1>1, <1>3 DEF AutoResult
<1> QED
  BY <1>5, <1>6, <1>7, <1>8, <1>9, <1>10 DEF Inv

\* A search reads which snapshot is active.
LEMMA CurrentSnapshotKeepsInv ==
  ASSUME Inv, CurrentSnapshot
  PROVE  Inv'
<1>1. /\ at \in Reading /\ snap' = active
      /\ UNCHANGED <<rows, vecs, active, last, run, setting, query, at, hits, known, seen, from, quiet>>
  BY DEF CurrentSnapshot, dbVars
<1>2. Typed' /\ Built'
  BY <1>1 DEF Inv, Typed, Built
<1>3. Watched' /\ Moded'
  BY <1>1 DEF Inv, Watched, Moded, Reading
<1>4. Listed' /\ SemanticResult' /\ LexicalResult' /\ AutoResult'
  BY <1>1, RunsKeepResults
<1> QED
  BY <1>2, <1>3, <1>4 DEF Inv

\* A search fails without a result.
LEMMA SearchFailsKeepsInv ==
  ASSUME Inv, SearchFails
  PROVE  Inv'
<1>1. /\ at' = "failed" /\ hits' = <<>> /\ known' = <<>> /\ snap' = 0
      /\ UNCHANGED <<rows, vecs, active, last, run, setting, query, seen, from, quiet>>
  BY DEF SearchFails, dbVars
<1>2. Typed' /\ Built'
  BY <1>1 DEF Inv, Typed, Built
<1>3. Watched' /\ Moded'
  BY <1>1 DEF Inv, Watched, Moded, Reading
<1>4. query.limit \in Nat
  BY QueryIsTyped DEF Inv
<1>5. Listed' /\ SemanticResult' /\ LexicalResult'
  BY <1>1, <1>4, SettingStays, EmptyIsResult DEF Done
<1>6. AutoResult'
  BY <1>1 DEF AutoResult
<1> QED
  BY <1>2, <1>3, <1>5, <1>6 DEF Inv

\* What every read does besides its results.
LEMMA ReadKeeps ==
  ASSUME Inv, snap # 0, RowsRead, at' \in {"relaxed", "lexical", "done"}
  PROVE  /\ Typed' /\ Built' /\ Watched'
         /\ UNCHANGED <<rows, vecs, active, last, run, setting, query>> /\ from' = snap
         /\ quiet' => quiet /\ vecs = KeysIn(RowsIn(rows, snap)) /\ snap = active /\ run = None
<1>1. /\ snap' = 0 /\ from' = snap /\ quiet' = (quiet /\ vecs = KeysOf(snap))
      /\ UNCHANGED <<rows, vecs, active, last, run, setting, query, seen>>
  BY DEF RowsRead, dbVars
<1>2. KeysOf(snap) = KeysIn(RowsIn(rows, snap))
  BY QueryIsTyped DEF Inv
<1>3. at \in Reading /\ snap \in seen
  BY DEF Inv, Watched
<1>4. quiet' => quiet /\ vecs = KeysIn(RowsIn(rows, snap)) /\ snap = active /\ run = None
  BY <1>1, <1>2, <1>3 DEF Inv, Watched
<1>5. Typed'
  <2>1. quiet' \in BOOLEAN /\ snap' \in 0..last' /\ from' \in 0..last'
    BY <1>1 DEF Inv, Typed
  <2> QED
    BY <1>1, <2>1 DEF Inv, Typed, Reading
<1>6. Built'
  BY <1>1 DEF Inv, Built
<1>7. Watched'
  <2>1. active \in seen
    BY <1>3 DEF Inv, Watched
  <2> QED
    BY <1>1, <1>3, <1>4, <2>1 DEF Watched
<1> QED
  BY <1>1, <1>4, <1>5, <1>6, <1>7

\* The symbols that come back with the nearest keys.
LEMMA CandidatesAreSymbols ==
  ASSUME Inv, NEW near \in Nearest
  PROVE  /\ {s \in RowsOf(snap) : s.key \in near} = {s \in RowsIn(rows, snap) : s.key \in near}
         /\ {s \in RowsOf(snap) : s.key \in near} \subseteq Symbol
         /\ AreNearest(near, vecs)
         /\ vecs = KeysIn(RowsIn(rows, snap)) /\ RowsIn(rows, snap) # {} =>
              {s \in RowsOf(snap) : s.key \in near} # {}
<1>1. RowsOf(snap) = RowsIn(rows, snap) /\ RowsIn(rows, snap) \subseteq Symbol /\ query.limit \in Nat \ {0}
  BY QueryIsTyped DEF Inv
<1>2. AreNearest(near, vecs)
  BY DEF Nearest, AreNearest
<1>3. ASSUME vecs = KeysIn(RowsIn(rows, snap)), RowsIn(rows, snap) # {}
      PROVE  {s \in RowsOf(snap) : s.key \in near} # {}
  <2>1. vecs # {} /\ vecs \subseteq Key
    BY <1>3 DEF KeysIn, Inv, Typed
  <2>2. near # {} /\ near \subseteq vecs
    BY <1>1, <1>2, <2>1, NearestAreSome DEF AreNearest
  <2>3. PICK k \in near : k \in KeysIn(RowsIn(rows, snap))
    BY <1>3, <2>2
  <2> QED
    BY <1>1, <2>3 DEF KeysIn
<1> QED
  BY <1>1, <1>2, <1>3

\* The semantic read: what it finds among the nearest is shown or kept, or another read follows.
LEMMA ReadSemanticKeepsInv ==
  ASSUME Inv, ReadSemantic
  PROVE  Inv'
<1>1. at = "semantic" /\ snap # 0 /\ RowsRead
  BY DEF ReadSemantic
<1>2. PICK near \in Nearest :
        LET found == RankSemantic({s \in RowsOf(snap) : s.key \in near}, MaxDistance)
            next  == AfterSemantic(found)
        IN  IF query.mode = "semantic" THEN hits' = found /\ at' = "done" /\ UNCHANGED known
            ELSE IF next = "compare" THEN known' = found /\ at' = "lexical" /\ UNCHANGED hits
            ELSE at' = next /\ UNCHANGED <<hits, known>>
  BY DEF ReadSemantic
<1> DEFINE C == {s \in RowsOf(snap) : s.key \in near}
           found == RankSemantic(C, MaxDistance)
<1>3. /\ C = {s \in RowsIn(rows, snap) : s.key \in near} /\ C \subseteq Symbol /\ AreNearest(near, vecs)
      /\ vecs = KeysIn(RowsIn(rows, snap)) /\ RowsIn(rows, snap) # {} => C # {}
  BY CandidatesAreSymbols
<1>4. /\ query.limit \in Nat \ {0} /\ query.mode \in {"auto", "semantic", "lexical"} /\ setting \in Settings
      /\ MaxDistance \in Nat
  BY QueryIsTyped, SearchAssumption DEF Inv
<1> HIDE DEF C
<1>5. IsResult(found)
  BY <1>3, <1>4, RankingsAreResults
<1>6. MaxDistance = 0 /\ C # {} => found # <<>>
  BY <1>3, <1>4, CandidatesAreFound
<1>7. \/ query.mode = "semantic" /\ hits' = found /\ at' = "done" /\ known' = known
      \/ query.mode # "semantic" /\ found # <<>> /\ known' = found /\ at' = "lexical" /\ hits' = hits
      \/ query.mode # "semantic" /\ found = <<>> /\ MaxDistance > 0 /\ at' = "relaxed" /\ UNCHANGED <<hits, known>>
      \/ query.mode # "semantic" /\ found = <<>> /\ MaxDistance = 0 /\ at' = "lexical" /\ UNCHANGED <<hits, known>>
  <2> HIDE DEF found
  <2>1. IF query.mode = "semantic" THEN hits' = found /\ at' = "done" /\ UNCHANGED known
        ELSE IF AfterSemantic(found) = "compare" THEN known' = found /\ at' = "lexical" /\ UNCHANGED hits
        ELSE at' = AfterSemantic(found) /\ UNCHANGED <<hits, known>>
    BY <1>2 DEF found, C
  <2> QED
    BY <1>4, <2>1 DEF AfterSemantic
<1>8. /\ Typed' /\ Built' /\ Watched'
      /\ UNCHANGED <<rows, vecs, active, last, run, setting, query>> /\ from' = snap
      /\ quiet' => quiet /\ vecs = KeysIn(RowsIn(rows, snap)) /\ snap = active /\ run = None
  BY <1>1, <1>7, ReadKeeps
<1>9. Moded'
  BY <1>1, <1>7, <1>8 DEF Inv, Moded
<1>10. Listed'
  <2>1. IsResult(hits') /\ IsResult(known')
    BY <1>5, <1>7 DEF Inv, Listed
  <2> QED
    BY <1>8, <2>1, SettingStays
<1>11. SemanticResult'
  <2>1. SUFFICES ASSUME Done("semantic")', quiet' PROVE FromNearest(hits', RowsIn(rows', from'))
    BY <1>8, SettingStays
  <2>2. hits' = found /\ vecs = KeysIn(RowsIn(rows, snap)) /\ RowsIn(rows', from') = RowsIn(rows, snap)
    BY <1>7, <1>8, <2>1 DEF Done
  <2>3. FromNearest(found, RowsIn(rows, snap))
    <3>1. near \in SUBSET KeysIn(RowsIn(rows, snap)) /\ AreNearest(near, KeysIn(RowsIn(rows, snap)))
      BY <1>3, <2>2 DEF AreNearest
    <3>2. found = RankSemantic({s \in RowsIn(rows, snap) : s.key \in near}, MaxDistance)
      BY <1>3
    <3> HIDE DEF found
    <3> QED
      BY <3>1, <3>2 DEF FromNearest
  <2> QED
    BY <2>2, <2>3
<1>12. LexicalResult'
  <2>1. ~Done("lexical")'
    BY <1>7, <1>8 DEF Done
  <2> QED
    BY <1>8, <2>1, SettingStays
<1>13. AutoResult'
  <2> SUFFICES ASSUME query.mode = "auto", quiet', RowsIn(rows, active) # {}
               PROVE  (at' = "lexical" => known' # <<>>) /\ at' # "done"
    BY <1>8 DEF AutoResult
  <2>1. C # {}
    BY <1>3, <1>8
  <2> QED
    BY <1>6, <1>7, <2>1
<1> QED
  BY <1>8, <1>9, <1>10, <1>11, <1>12, <1>13 DEF Inv

\* The read without a bound on the distance.
LEMMA ReadRelaxedKeepsInv ==
  ASSUME Inv, ReadRelaxed
  PROVE  Inv'
<1>1. at = "relaxed" /\ snap # 0 /\ RowsRead /\ at' = "lexical" /\ hits' = hits
  BY DEF ReadRelaxed
<1>2. PICK near \in Nearest : known' = RankSemantic({s \in RowsOf(snap) : s.key \in near}, 0)
  BY DEF ReadRelaxed
<1> DEFINE C == {s \in RowsOf(snap) : s.key \in near}
<1>3. C \subseteq Symbol /\ (vecs = KeysIn(RowsIn(rows, snap)) /\ RowsIn(rows, snap) # {} => C # {})
  BY CandidatesAreSymbols
<1>4. query.limit \in Nat \ {0} /\ setting \in Settings
  BY QueryIsTyped DEF Inv
<1>5. IsResult(known') /\ (C # {} => known' # <<>>)
  <2>1. known' = RankSemantic(C, 0)
    BY <1>2
  <2> HIDE DEF C
  <2> QED
    BY <1>3, <1>4, <2>1, RankingsAreResults, CandidatesAreFound
<1> HIDE DEF C
<1>6. /\ Typed' /\ Built' /\ Watched'
      /\ UNCHANGED <<rows, vecs, active, last, run, setting, query>> /\ from' = snap
      /\ quiet' => quiet /\ vecs = KeysIn(RowsIn(rows, snap)) /\ snap = active /\ run = None
  BY <1>1, ReadKeeps
<1>7. Moded'
  BY <1>1, <1>6 DEF Inv, Moded
<1>8. Listed' /\ SemanticResult' /\ LexicalResult'
  BY <1>1, <1>5, <1>6, SettingStays DEF Inv, Listed, Done
<1>9. AutoResult'
  BY <1>1, <1>3, <1>5, <1>6 DEF AutoResult
<1> QED
  BY <1>6, <1>7, <1>8, <1>9 DEF Inv

\* The lexical read, and the choice of auto mode.
LEMMA ReadLexicalKeepsInv ==
  ASSUME Inv, ReadLexical
  PROVE  Inv'
<1> DEFINE found == RankLexical(RowsOf(snap))
<1>1. /\ at = "lexical" /\ snap # 0 /\ RowsRead /\ at' = "done" /\ known' = <<>>
      /\ hits' = IF known = <<>> \/ PreferLexical(known, found) THEN found ELSE known
  BY DEF ReadLexical
<1>2. RowsOf(snap) = RowsIn(rows, snap) /\ RowsIn(rows, snap) \subseteq Symbol /\ query.limit \in Nat \ {0}
      /\ setting \in Settings
  BY QueryIsTyped DEF Inv
<1>3. IsResult(found) /\ IsResult(<<>>)
  BY <1>2, RankingsAreResults, EmptyIsResult
<1>4. /\ Typed' /\ Built' /\ Watched'
      /\ UNCHANGED <<rows, vecs, active, last, run, setting, query>> /\ from' = snap
      /\ quiet' => quiet /\ vecs = KeysIn(RowsIn(rows, snap)) /\ snap = active /\ run = None
  BY <1>1, ReadKeeps
<1>5. Moded'
  BY <1>1, <1>4 DEF Inv, Moded
<1>6. Listed'
  <2>1. IsResult(hits') /\ IsResult(known')
    BY <1>1, <1>3 DEF Inv, Listed
  <2> QED
    BY <1>4, <2>1, SettingStays
<1>7. SemanticResult'
  <2>1. ~Done("semantic")'
    BY <1>1, <1>4 DEF Inv, Moded, Done
  <2> QED
    BY <1>4, <2>1, SettingStays
<1>8. LexicalResult'
  <2>1. SUFFICES ASSUME Done("lexical")' PROVE FromText(hits', RowsIn(rows', from'))
    BY <1>4, SettingStays
  <2>2. hits' = found
    BY <1>1, <1>4, <2>1 DEF Inv, Moded, Done
  <2>3. hits' = RankLexical(RowsIn(rows, snap))
    BY <1>2, <2>2
  <2> QED
    BY <1>2, <1>4, <2>3 DEF FromText
<1>9. AutoResult'
  <2> SUFFICES ASSUME query.mode = "auto", ~query.codeLike, quiet', RowsIn(rows, active) # {}
               PROVE  hits' # <<>>
    BY <1>1, <1>4 DEF AutoResult
  <2>1. known # <<>>
    BY <1>1, <1>4 DEF Inv, AutoResult
  <2> HIDE DEF found
  <2>2. ~PreferLexical(known, found)
    BY <2>1 DEF PreferLexical
  <2> QED
    BY <1>1, <2>1, <2>2
<1> QED
  BY <1>4, <1>5, <1>6, <1>7, <1>8, <1>9 DEF Inv

\* A step of something else.
LEMMA StutterKeepsInv ==
  ASSUME Inv, UNCHANGED vars
  PROVE  Inv'
<1>1. UNCHANGED <<rows, vecs, active, last, run, setting, query, at, snap, hits, known, seen, from, quiet>>
  BY DEF vars, dbVars, searchVars
<1>2. Typed' /\ Built' /\ Watched'
  BY <1>1 DEF Inv, Typed, Built, Watched
<1>3. Listed' /\ Moded' /\ SemanticResult' /\ LexicalResult' /\ AutoResult'
  BY <1>1, RunsKeepResults
<1> QED
  BY <1>2, <1>3 DEF Inv

\* Inv is an invariant of every search beside every run.
THEOREM Invariant == Spec => []Inv
<1>1. Init => Inv
  BY InitInv
<1>2. Inv /\ [Next]_vars => Inv'
  <2> SUFFICES ASSUME Inv, [Next]_vars PROVE Inv'
    OBVIOUS
  <2>1. CASE Searching
    BY <2>1, StartKeepsInv, CurrentSnapshotKeepsInv, ReadSemanticKeepsInv, ReadRelaxedKeepsInv,
       ReadLexicalKeepsInv, SearchFailsKeepsInv DEF Searching
  <2>2. CASE Running
    BY <2>2, BeginSnapshotKeepsInv, InsertSymbolKeepsInv, AddEmbeddingKeepsInv, ActivateSnapshotKeepsInv,
       CleanupInactiveSnapshotsKeepsInv, RunEndsKeepsInv DEF Running
  <2>3. CASE UNCHANGED vars
    BY <2>3, StutterKeepsInv
  <2> QED
    BY <2>1, <2>2, <2>3 DEF Next
<1> QED
  BY <1>1, <1>2, PTL DEF Spec

-----------------------------------------------------------------------------
(* What the runs check, for every value of the constants                     *)

\* A result of different hits has as many hits as it is long.
LEMMA ResultIsCounted ==
  ASSUME IsResult(hits)
  PROVE  Cardinality(Hits) = Len(hits)
<1> DEFINE n == Len(hits)
<1>1. n \in Nat /\ DOMAIN hits = 1..n /\ hits \in Seq(HitRecord)
  BY DEF IsResult
<1>2. \A i, j \in 1..n : i # j => hits[i] # hits[j]
  <2>1. \A i, j \in 1..n : i < j => hits[i] # hits[j]
    BY DEF IsResult
  <2> HIDE DEF n
  <2> QED
    BY <1>1, <2>1
<1>3. hits \in [1..n -> Hits]
  BY <1>1 DEF Hits
<1> HIDE DEF n
<1>4. hits \in Surjection(1..n, Hits)
  BY <1>1, <1>3 DEF Surjection, Hits
<1>5. hits \in Injection(1..n, Hits)
  BY <1>2, <1>3 DEF Injection, IsInjective
<1>6. IsFiniteSet(1..n) /\ Cardinality(1..n) = n
  BY <1>1, FS_Interval
<1>7. Cardinality(Hits) = n
  BY <1>4, <1>5, <1>6, FS_Surjection
<1> QED
  BY <1>7 DEF n

\* Every variable has its type, the results are different and no more than are wanted.
THEOREM SearchTypeCorrect == Spec => []TypeOK
<1>1. Inv => TypeOK
  <2> SUFFICES ASSUME Inv PROVE TypeOK
    OBVIOUS
  <2>1. IsResult(hits)
    BY DEF Inv, Listed
  <2>2. \A i \in DOMAIN hits : hits[i] \in HitRecord
    BY <2>1 DEF IsResult
  <2>3. \A h \in Hits : h.sym \in Symbol /\ h.weight \in 1..100
    BY <2>2 DEF Hits, HitRecord
  <2>4. Len(hits) <= query.limit /\ Cardinality(Hits) = Len(hits)
    BY <2>1, ResultIsCounted DEF IsResult
  <2> QED
    BY <2>3, <2>4 DEF Inv, Typed, TypeOK
<1> QED
  BY <1>1, Invariant, PTL

\* A search reads no snapshot that was not active at some time while it ran.
THEOREM ActiveSnapshotRead == Spec => []ReadsActiveSnapshot
<1>1. Inv => ReadsActiveSnapshot
  BY DEF Inv, Watched, ReadsActiveSnapshot
<1> QED
  BY <1>1, Invariant, PTL

\* The semantic result that a quiet search shows.
LEMMA SemanticRanking ==
  ASSUME Inv, SearchedQuietly("semantic")
  PROVE  \E near \in SUBSET KeysOf(from) :
           /\ AreNearest(near, KeysOf(from))
           /\ {s \in RowsOf(from) : s.key \in near} \subseteq Symbol
           /\ IsRanking(hits, Within({s \in RowsOf(from) : s.key \in near}, MaxDistance), SemanticLess)
<1>1. /\ RowsOf(from) = RowsIn(rows, from) /\ KeysOf(from) = KeysIn(RowsIn(rows, from))
      /\ RowsIn(rows, from) \subseteq Symbol /\ setting \in Settings /\ query.limit \in Nat
  BY QueryIsTyped DEF Inv
<1>2. FromNearest(hits, RowsIn(rows, from))
  BY DEF Inv, SemanticResult, SearchedQuietly, Done
<1>3. PICK near \in SUBSET KeysIn(RowsIn(rows, from)) :
        /\ AreNearest(near, KeysIn(RowsIn(rows, from)))
        /\ hits = RankSemantic({s \in RowsIn(rows, from) : s.key \in near}, MaxDistance)
  BY <1>2 DEF FromNearest
<1> DEFINE C == {s \in RowsIn(rows, from) : s.key \in near}
<1>4. C \subseteq Symbol
  BY <1>1
<1>5. IsRanking(hits, Within(C, MaxDistance), SemanticLess)
  <2> HIDE DEF C
  <2> QED
    BY <1>1, <1>3, <1>4, RankingsRank DEF C
<1> QED
  BY <1>1, <1>3, <1>4, <1>5

\* With no more vectors than candidates, a quiet semantic search shows the symbols within the
\* distance that come first.
THEOREM NearestShown == Spec => []NearestAreShown
<1>1. Inv => NearestAreShown
  <2> SUFFICES ASSUME Inv, SearchedQuietly("semantic"), Cardinality(KeysOf(from)) <= CandidateFloor
      PROVE  LET wanted == {h \in {Hit(s) : s \in RowsOf(from)} : MaxDistance > 0 => h.dist <= MaxDistance}
             IN  /\ Hits \subseteq wanted
                 /\ Len(hits) = Min({query.limit, Cardinality(wanted)})
                 /\ \A i, j \in DOMAIN hits : i < j => hits[i] # hits[j] /\ ~SemanticOrder(hits[j], hits[i])
                 /\ \A h \in Hits, g \in wanted \ Hits : ~SemanticOrder(g, h)
    BY DEF NearestAreShown
  <2>1. PICK near \in SUBSET KeysOf(from) :
          /\ AreNearest(near, KeysOf(from))
          /\ {s \in RowsOf(from) : s.key \in near} \subseteq Symbol
          /\ IsRanking(hits, Within({s \in RowsOf(from) : s.key \in near}, MaxDistance), SemanticLess)
    BY SemanticRanking
  <2>2. /\ KeysOf(from) = KeysIn(RowsOf(from)) /\ RowsOf(from) \subseteq Symbol /\ setting \in Settings
        /\ query.limit \in Nat \ {0}
    BY QueryIsTyped DEF Inv
  <2>3. near = KeysOf(from)
    <3>1. KeysOf(from) \subseteq Key
      BY <2>2 DEF KeysIn, Key
    <3> QED
      BY <2>1, <2>2, <3>1, NearestAreSome
  <2>4. {s \in RowsOf(from) : s.key \in near} = RowsOf(from)
    BY <2>2, <2>3 DEF KeysIn
  <2> DEFINE wanted == Within(RowsOf(from), MaxDistance)
  <2>5. IsRanking(hits, wanted, SemanticLess)
    BY <2>1, <2>4
  <2>6. wanted = {h \in {Hit(s) : s \in RowsOf(from)} : MaxDistance > 0 => h.dist <= MaxDistance}
    BY DEF Within, HitsOf
  <2>7. IsFiniteSet(wanted) /\ wanted \subseteq HitRecord /\ Cardinality(wanted) \in Nat
    <3>1. wanted \subseteq HitsOf(RowsOf(from))
      BY DEF Within
    <3> QED
      BY <2>2, <3>1, HitsAreRecords, FS_Subset, FS_CardinalityType
  <2> HIDE DEF wanted
  <2>8. DOMAIN hits = 1..Len(hits) /\ \A i \in 1..Len(hits) : hits[i] \in wanted
    BY <2>5 DEF IsRanking
  <2>9. \A a, b \in wanted : <<a, b>> \in SemanticLess <=> SemanticOrder(a, b)
    BY <2>7 DEF SemanticLess
  <2>10. Hits \subseteq wanted
    BY <2>8 DEF Hits
  <2>11. Len(hits) = Min({query.limit, Cardinality(wanted)})
    <3> DEFINE a == query.limit
               b == Cardinality(wanted)
    <3>1. a \in Int /\ b \in Int
      BY <2>2, <2>7
    <3>2. Len(hits) = IF a <= b THEN a ELSE b
      BY <2>5 DEF IsRanking
    <3> HIDE DEF a, b
    <3>3. Min({a, b}) = IF a <= b THEN a ELSE b
      BY <3>1, MinOfTwo
    <3> QED
      BY <3>2, <3>3 DEF a, b
  <2>12. ASSUME NEW i \in DOMAIN hits, NEW j \in DOMAIN hits, i < j
         PROVE  hits[i] # hits[j] /\ ~SemanticOrder(hits[j], hits[i])
    BY <2>5, <2>8, <2>9, <2>12 DEF IsRanking
  <2>13. ASSUME NEW h \in Hits, NEW g \in wanted \ Hits PROVE ~SemanticOrder(g, h)
    <3>1. PICK i \in 1..Len(hits) : h = hits[i]
      BY <2>8 DEF Hits
    <3>2. \A k \in 1..Len(hits) : hits[k] # g
      BY <2>8 DEF Hits
    <3> QED
      BY <2>5, <2>8, <2>9, <3>1, <3>2 DEF IsRanking
  <2> QED
    BY <2>6, <2>10, <2>11, <2>12, <2>13
<1> QED
  BY <1>1, Invariant, PTL

\* If a hit is shown, those that come before it in the order of the ranking are shown before it.
LEMMA LessIsBefore ==
  ASSUME NEW r, NEW S, NEW R, IsRanking(r, S, R), NEW i \in 1..Len(r), NEW g \in S, g # r[i],
         <<g, r[i]>> \in R
  PROVE  \E j \in 1..i - 1 : r[j] = g
<1>1. PICK j \in 1..Len(r) : r[j] = g
  BY DEF IsRanking
<1>2. j # i /\ ~(i < j) /\ Len(r) \in Nat
  BY <1>1 DEF IsRanking
<1>3. j \in 1..i - 1
  BY <1>2
<1> QED
  BY <1>1, <1>3

\* File weights move nothing forward: a nearer symbol with a weight as high is shown before.
THEOREM WeightsDemoteOnly == Spec => []WeightsNeverPromote
<1>1. Inv => WeightsNeverPromote
  <2> SUFFICES ASSUME Inv, SearchedQuietly("semantic"), NEW i \in DOMAIN hits, NEW s \in RowsOf(from),
                      setting.dist[s.key] < hits[i].dist, Weight(s.path) >= hits[i].weight
               PROVE  \E j \in 1..i - 1 : hits[j].sym = s
    BY DEF WeightsNeverPromote
  <2>1. PICK near \in SUBSET KeysOf(from) :
          /\ AreNearest(near, KeysOf(from))
          /\ {x \in RowsOf(from) : x.key \in near} \subseteq Symbol
          /\ IsRanking(hits, Within({x \in RowsOf(from) : x.key \in near}, MaxDistance), SemanticLess)
    BY SemanticRanking
  <2>2. /\ KeysOf(from) = KeysIn(RowsOf(from)) /\ RowsOf(from) \subseteq Symbol /\ setting \in Settings
        /\ MaxDistance \in Nat
    BY QueryIsTyped, SearchAssumption DEF Inv
  <2> DEFINE C == {x \in RowsOf(from) : x.key \in near}
             W == Within(C, MaxDistance)
  <2>3. i \in 1..Len(hits) /\ hits[i] \in W
    BY <2>1 DEF IsRanking
  <2>4. PICK t \in C : hits[i] = Hit(t)
    BY <2>3 DEF Within, HitsOf
  <2>5. MaxDistance > 0 => hits[i].dist <= MaxDistance
    BY <2>3 DEF Within
  <2>6. t \in Symbol /\ s \in Symbol /\ t.key \in near /\ s.key \in KeysOf(from)
    BY <2>2, <2>4 DEF KeysIn
  <2> DEFINE g == Hit(s)
             h == hits[i]
  <2>7. /\ g \in HitRecord /\ g.sym = s /\ g.dist = setting.dist[s.key] /\ g.weight = Weight(s.path)
        /\ h \in HitRecord /\ h.dist = setting.dist[t.key]
    BY <2>2, <2>4, <2>6, HitIsRecord
  <2>8. g.dist \in Nat /\ h.dist \in Nat /\ g.weight \in 1..100 /\ h.weight \in 1..100
    BY <2>7 DEF HitRecord
  <2>9. s.key \in near
    <3> DEFINE x == setting.dist[t.key]
               y == setting.dist[s.key]
    <3>1. s.key \notin near => x <= y
      BY <2>1, <2>6 DEF AreNearest
    <3>2. x \in Nat /\ y \in Nat /\ y < x
      BY <2>7, <2>8
    <3> HIDE DEF x, y
    <3> QED
      BY <3>1, <3>2
  <2>10. g \in W
    <3>1. s \in C
      BY <2>9
    <3>2. MaxDistance > 0 => g.dist <= MaxDistance
      BY <2>2, <2>5, <2>7, <2>8
    <3> HIDE DEF C
    <3> QED
      BY <3>1, <3>2 DEF Within, HitsOf
  <2>11. SemanticOrder(g, h)
    <3> DEFINE a == SemanticSortDistance(g.dist, g.weight)
               b == SemanticSortDistance(h.dist, h.weight)
    <3>1. a <= b /\ a \in Int /\ b \in Int
      BY <2>7, <2>8, NearerComesFirst, SortDistanceIsInt
    <3>2. g.dist < h.dist
      BY <2>7
    <3> DEFINE u == SemanticKey(g)
               v == SemanticKey(h)
    <3>3. DOMAIN u = 1..5 /\ u[1] = a /\ v[1] = b /\ u[2] = g.dist /\ v[2] = h.dist
      BY DEF SemanticKey
    <3>4. SemanticOrder(g, h) <=> LessBy(u, v)
      BY DEF SemanticOrder, SemanticKey
    <3> HIDE DEF u, v, a, b
    <3>5. CASE a < b
      <4>1. 1 \in DOMAIN u /\ u[1] < v[1] /\ \A j \in 1..1 - 1 : u[j] = v[j]
        BY <3>3, <3>5
      <4> QED
        BY <3>4, <4>1 DEF LessBy
    <3>6. CASE a = b
      <4>1. 2 \in DOMAIN u /\ u[2] < v[2] /\ \A j \in 1..2 - 1 : u[j] = v[j]
        BY <3>2, <3>3, <3>6
      <4> QED
        BY <3>4, <4>1 DEF LessBy
    <3> QED
      BY <3>1, <3>5, <3>6
  <2>12. <<g, h>> \in SemanticLess /\ g # h
    <3>1. g.dist # h.dist
      BY <2>7, <2>8
    <3> QED
      BY <2>7, <2>11, <3>1 DEF SemanticLess
  <2>13. PICK j \in 1..i - 1 : hits[j] = g
    <3>1. IsRanking(hits, W, SemanticLess)
      BY <2>1
    <3> HIDE DEF W, g
    <3> QED
      BY <2>3, <2>10, <2>12, <3>1, LessIsBefore
  <2> QED
    BY <2>7, <2>13
<1> QED
  BY <1>1, Invariant, PTL

\* A symbol that matches as well as one shown scores as much, and more only if it is shown before.
THEOREM BetterMatchesShown == Spec => []BetterMatchesFirst
<1>1. Inv => BetterMatchesFirst
  <2> SUFFICES ASSUME Inv, Done("lexical"), NEW s \in RowsOf(from), NEW i \in DOMAIN hits,
                      AsGood(setting.match[s], setting.match[hits[i].sym]), Weight(s.path) >= hits[i].weight
               PROVE  /\ Hit(s).score >= hits[i].score
                      /\ Hit(s).score > hits[i].score => \E j \in 1..i - 1 : hits[j].sym = s
    BY DEF BetterMatchesFirst, Done
  <2>1. RowsOf(from) = RowsIn(rows, from) /\ setting \in Settings /\ query.limit \in Nat
    BY QueryIsTyped DEF Inv
  <2>2. PICK C \in SUBSET Symbol : RowsOf(from) \subseteq C /\ hits = RankLexical(C)
    BY <2>1 DEF Inv, LexicalResult, FromText
  <2> DEFINE W == Scored(C)
             g == Hit(s)
             h == hits[i]
  <2>3. IsRanking(hits, W, LexicalLess)
    BY <2>1, <2>2, RankingsRank
  <2>4. i \in 1..Len(hits) /\ h \in W
    BY <2>3 DEF IsRanking
  <2>5. PICK t \in C : h = Hit(t)
    BY <2>4 DEF Scored, HitsOf
  <2>6. s \in Symbol /\ t \in Symbol /\ s \in C
    BY <2>2
  <2> DEFINE m == setting.match[s]
             n == setting.match[t]
             v == Weight(s.path)
             w == Weight(t.path)
  <2>7. /\ g \in HitRecord /\ g.sym = s /\ g.score = LexicalMatchScore(m) * v
        /\ h \in HitRecord /\ h.sym = t /\ h.score = LexicalMatchScore(n) * w /\ h.weight = w
        /\ m \in Match /\ n \in Match
    BY <2>1, <2>5, <2>6, HitIsRecord
  <2>8. v \in 1..100 /\ w \in 1..100 /\ w <= v
    BY <2>1, <2>7, WeightIsPositive
  <2>9. AsGood(m, n)
    BY <2>7
  <2> HIDE DEF m, n, v, w
  <2>10. LexicalMatchScore(n) <= LexicalMatchScore(m) /\ LexicalMatchScore(n) \in Nat /\ LexicalMatchScore(m) \in Nat
    BY <2>7, <2>9, ScoreIsMonotonic, ScoreIsTotal
  <2>11. g.score >= h.score
    <3> DEFINE a == LexicalMatchScore(n)
               b == LexicalMatchScore(m)
    <3>1. a \in Nat /\ b \in Nat /\ a <= b /\ v \in Nat /\ w \in Nat
      BY <2>8, <2>10
    <3> HIDE DEF a, b
    <3>2. a * w \in Nat /\ b * w \in Nat /\ a * w <= b * w
      BY <3>1, ProductIsMonotonic
    <3>3. w * b <= v * b /\ w * b = b * w /\ v * b = b * v /\ v * b \in Nat
      BY <2>8, <3>1, ProductIsMonotonic
    <3>4. g.score = b * v /\ h.score = a * w
      BY <2>7 DEF a, b
    <3> QED
      BY <3>2, <3>3, <3>4
  <2>12. g.score \in Nat /\ h.score \in Nat
    BY <2>7 DEF HitRecord
  <2>13. ASSUME g.score > h.score PROVE \E j \in 1..i - 1 : hits[j].sym = s
    <3>1. g \in W
      <4>1. g.score > 0
        BY <2>12, <2>13
      <4> QED
        BY <2>6, <4>1 DEF Scored, HitsOf
    <3>2. LexicalOrder(g, h)
      <4> DEFINE x == LexicalKey(g)
                 y == LexicalKey(h)
      <4>1. 1 \in DOMAIN x /\ x[1] = -g.score /\ y[1] = -h.score
        BY DEF LexicalKey
      <4>2. LexicalOrder(g, h) <=> LessBy(x, y)
        BY DEF LexicalOrder, LexicalKey
      <4> HIDE DEF x, y
      <4>3. x[1] < y[1] /\ \A j \in 1..1 - 1 : x[j] = y[j]
        BY <2>12, <2>13, <4>1
      <4> QED
        BY <4>1, <4>2, <4>3 DEF LessBy
    <3>3. <<g, h>> \in LexicalLess /\ g # h
      BY <2>7, <2>12, <2>13, <3>2 DEF LexicalLess
    <3>4. PICK j \in 1..i - 1 : hits[j] = g
      <4> HIDE DEF W, g
      <4> QED
        BY <2>3, <2>4, <3>1, <3>3, LessIsBefore
    <3> QED
      BY <2>7, <3>4
  <2> QED
    BY <2>11, <2>13
<1> QED
  BY <1>1, Invariant, PTL

\* Auto mode for natural language finds something in an index that holds something.
THEOREM SomethingFound == Spec => []AutoFindsSomething
<1>1. Inv => AutoFindsSomething
  <2> SUFFICES ASSUME Inv, SearchedQuietly("auto"), ~query.codeLike, RowsOf(from) # {} PROVE hits # <<>>
    BY DEF AutoFindsSomething
  <2>1. RowsIn(rows, active) # {} /\ at = "done" /\ query.mode = "auto" /\ quiet /\ from = active
    BY QueryIsTyped DEF Inv, SearchedQuietly
  <2> QED
    BY <2>1 DEF Inv, AutoResult
<1> QED
  BY <1>1, Invariant, PTL
=============================================================================
