---------------------------- MODULE OrderTheorems ----------------------------
(***************************************************************************)
(* Facts about finite, totally ordered sets that the theorems about the     *)
(* components rest on: a finite set has a sorted enumeration and, if it is  *)
(* not empty, a least element.  An order is a set of pairs.                 *)
(***************************************************************************)
EXTENDS Integers, FiniteSetTheorems, TLAPS

\* R is a strict total order of S.
Orders(R, S) ==
  /\ \A x, y \in S : x # y => <<x, y>> \in R \/ <<y, x>> \in R
  /\ \A x \in S : <<x, x>> \notin R
  /\ \A x, y, z \in S : <<x, y>> \in R /\ <<y, z>> \in R => <<x, z>> \in R

\* Every finite set that is totally ordered can be listed in that order: the place of an
\* element is the number of elements before it.
THEOREM SortedEnumeration ==
  ASSUME NEW S, IsFiniteSet(S), NEW R, Orders(R, S)
  PROVE  \E s \in [1 .. Cardinality(S) -> S] :
           /\ \A j, k \in 1 .. Cardinality(S) : j < k => <<s[j], s[k]>> \in R
           /\ \A x \in S : \E k \in 1 .. Cardinality(S) : s[k] = x
<1> DEFINE n == Cardinality(S)
           Before(x) == {y \in S : <<y, x>> \in R}
           place == [x \in S |-> Cardinality(Before(x)) + 1]
<1>0. n \in Nat
  BY FS_CardinalityType
<1>1. \A x \in S : Before(x) \subseteq S \ {x}
  BY DEF Orders
<1>2. \A x \in S : IsFiniteSet(Before(x)) /\ Cardinality(Before(x)) \in Nat
  BY <1>1, FS_Subset, FS_CardinalityType
<1>3. \A x \in S : place[x] \in 1 .. n
  <2> SUFFICES ASSUME NEW x \in S
               PROVE  place[x] \in 1 .. n
    OBVIOUS
  <2>1. IsFiniteSet(S \ {x}) /\ Cardinality(S \ {x}) = n - 1
    BY FS_RemoveElement
  <2>2. Cardinality(Before(x)) <= Cardinality(S \ {x})
    <3>1. Before(x) \in SUBSET (S \ {x})
      BY <1>1
    <3> HIDE DEF Before
    <3> QED BY <2>1, <3>1, FS_Subset
  <2>3. place[x] = Cardinality(Before(x)) + 1 /\ Cardinality(Before(x)) \in Nat
    BY <1>2
  <2> HIDE DEF place, Before, n
  <2>4. Cardinality(Before(x)) <= n - 1
    BY <2>1, <2>2
  <2> QED BY <1>0, <2>3, <2>4
<1>4. ASSUME NEW x \in S, NEW y \in S, <<x, y>> \in R
      PROVE  place[x] < place[y]
  <2>1. Before(x) \subseteq Before(y) /\ x \in Before(y) /\ x \notin Before(x)
    BY <1>4 DEF Orders
  <2>2. Cardinality(Before(x)) <= Cardinality(Before(y))
    BY <1>2, <2>1, FS_Subset
  <2>3. Cardinality(Before(x)) # Cardinality(Before(y))
    BY <1>2, <2>1, FS_Subset
  <2> QED BY <1>2, <2>2, <2>3
<1> HIDE DEF place
<1>5. place \in Injection(S, 1 .. n)
  <2>1. place \in [S -> 1 .. n]
    BY <1>3 DEF place
  <2>2. ASSUME NEW x \in S, NEW y \in S, place[x] = place[y]
        PROVE  x = y
    <3>1. place[x] \in Int /\ ~(place[x] < place[y]) /\ ~(place[y] < place[x])
      BY <1>3, <2>2
    <3>2. ~(<<x, y>> \in R) /\ ~(<<y, x>> \in R)
      BY <1>4, <3>1
    <3> QED BY <3>2 DEF Orders
  <2> QED BY <2>1, <2>2 DEF Injection, IsInjective
<1>6. IsFiniteSet(1 .. n) /\ Cardinality(1 .. n) = n
  BY <1>0, FS_Interval
<1>7. place \in Surjection(S, 1 .. n)
  BY <1>5, <1>6, FS_Injection
<1>8. \A k \in 1 .. n : \E x \in S : place[x] = k
  BY <1>7 DEF Surjection
<1> DEFINE s == [k \in 1 .. n |-> CHOOSE x \in S : place[x] = k]
<1>9. \A k \in 1 .. n : s[k] \in S /\ place[s[k]] = k
  BY <1>8
<1> HIDE DEF s
<1>10. s \in [1 .. n -> S]
  BY <1>9 DEF s
<1>11. \A j, k \in 1 .. n : j < k => <<s[j], s[k]>> \in R
  <2> SUFFICES ASSUME NEW j \in 1 .. n, NEW k \in 1 .. n, j < k
               PROVE  <<s[j], s[k]>> \in R
    OBVIOUS
  <2>1. s[j] \in S /\ s[k] \in S /\ place[s[j]] = j /\ place[s[k]] = k /\ j \in Int /\ k \in Int
    BY <1>9
  <2>2. s[j] # s[k]
    BY <2>1
  <2>3. ~(<<s[k], s[j]>> \in R)
    BY <1>4, <2>1
  <2> QED BY <2>1, <2>2, <2>3 DEF Orders
<1>12. \A x \in S : \E k \in 1 .. n : s[k] = x
  <2> SUFFICES ASSUME NEW x \in S
               PROVE  s[place[x]] = x
    BY <1>3
  <2> QED BY <1>3, <1>5, <1>9 DEF Injection, IsInjective
<1> QED BY <1>10, <1>11, <1>12

\* A finite set of integers that is not empty has a least element.
THEOREM LeastOfFinite ==
  ASSUME NEW S \in SUBSET Int, IsFiniteSet(S), S # {}
  PROVE  \E x \in S : \A y \in S : x <= y
<1> DEFINE R == {p \in S \X S : p[1] < p[2]}
           n == Cardinality(S)
<1>1. Orders(R, S)
  BY DEF Orders
<1>2. PICK s \in [1 .. n -> S] :
        /\ \A j, k \in 1 .. n : j < k => <<s[j], s[k]>> \in R
        /\ \A x \in S : \E k \in 1 .. n : s[k] = x
  BY <1>1, SortedEnumeration
<1>3. n \in Nat /\ n # 0
  BY FS_CardinalityType, FS_EmptySet
<1> HIDE DEF n
<1>4. 1 \in 1 .. n
  BY <1>3
<1>5. ASSUME NEW y \in S
      PROVE  s[1] <= y
  <2>1. PICK k \in 1 .. n : s[k] = y
    BY <1>2
  <2>2. CASE k = 1
    BY <2>1, <2>2
  <2>3. CASE 1 < k
    <3>1. <<s[1], s[k]>> \in R
      BY <1>2, <1>4, <2>3
    <3>2. s[1] < s[k] /\ s[1] \in Int /\ s[k] \in Int
      BY <3>1, <1>4
    <3> QED BY <2>1, <3>2
  <2> QED BY <1>3, <2>2, <2>3
<1> QED BY <1>2, <1>4, <1>5
=============================================================================
