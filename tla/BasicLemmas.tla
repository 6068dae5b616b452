------------------------------- MODULE BasicLemmas ---------------------------
(***************************************************************************)
(* Facts the proofs of the other modules share, in first-order form: what  *)
(* Max and Min return (they are chosen, so that they exist has to be       *)
(* shown), induction over the numbers up to a bound and over the subsets   *)
(* of a finite set, that a recursion over numbers has a solution, and that *)
(* the elements of a finite, totally ordered set can be numbered.          *)
(***************************************************************************)
EXTENDS Integers, FiniteSetsExt, FiniteSetTheorems, WellFoundedInduction, TLAPS

\* A bounded set of numbers that is not empty has a largest one.
LEMMA MaxOfBounded ==
  ASSUME NEW k \in Nat, NEW W \in SUBSET (0..k), W # {}
  PROVE  Max(W) \in W /\ \A y \in W : Max(W) >= y
<1> DEFINE T == {k - i : i \in W}
<1>1. T \subseteq Nat /\ T # {}
  <2>1. PICK i \in W : TRUE
    OBVIOUS
  <2>2. k - i \in T
    OBVIOUS
  <2>3. \A j \in W : k - j \in Nat
    OBVIOUS
  <2> QED BY <2>2, <2>3
<1>2. PICK m \in T : \A y \in T : ~ (<<y, m>> \in OpToRel(<, Nat))
  <2> HIDE DEF T
  <2> QED BY <1>1, WFMin, NatLessThanWellFounded
<1>3. PICK i \in W : m = k - i
  OBVIOUS
<1>4. \A y \in W : i >= y
  <2>1. SUFFICES ASSUME NEW y \in W, ~ (i >= y) PROVE FALSE
    OBVIOUS
  <2>2. k - y \in T /\ k - y < m /\ k - y \in Nat /\ m \in Nat
    BY <2>1, <1>3, <1>1
  <2>3. <<k - y, m>> \in OpToRel(<, Nat)
    BY <2>2 DEF OpToRel
  <2> QED BY <2>2, <2>3, <1>2
<1> HIDE DEF T
<1> QED BY <1>4 DEF Max

LEMMA MaxOfTwo ==
  ASSUME NEW a \in Int, NEW b \in Int
  PROVE  Max({a, b}) = IF a >= b THEN a ELSE b
BY DEF Max

LEMMA MinOfTwo ==
  ASSUME NEW a \in Int, NEW b \in Int
  PROVE  Min({a, b}) = IF a <= b THEN a ELSE b
BY DEF Min

\* A set of natural numbers that is not empty has a smallest one.
LEMMA MinOfNat ==
  ASSUME NEW W \in SUBSET Nat, W # {}
  PROVE  Min(W) \in W /\ \A y \in W : Min(W) <= y
<1>1. PICK m \in W : \A y \in W : ~ (<<y, m>> \in OpToRel(<, Nat))
  BY WFMin, NatLessThanWellFounded
<1>2. \A y \in W : m <= y
  <2>1. SUFFICES ASSUME NEW y \in W, ~ (m <= y) PROVE FALSE
    OBVIOUS
  <2>2. <<y, m>> \in OpToRel(<, Nat)
    BY <2>1 DEF OpToRel
  <2> QED BY <1>1, <2>2
<1> QED BY <1>2 DEF Min

-----------------------------------------------------------------------------
(* Induction, and recursion *)

\* What holds of 0, and of i when it holds of i - 1, holds up to any bound.
LEMMA StepByStep ==
  ASSUME NEW n \in Nat, NEW W, 0 \in W,
         \A i \in 1..n : i - 1 \in W => i \in W
  PROVE  \A i \in 0..n : i \in W
<1> DEFINE B == {i \in 0..n : i \notin W}
<1>1. SUFFICES ASSUME B # {} PROVE FALSE
  OBVIOUS
<1>2. B \in SUBSET Nat
  OBVIOUS
<1>3. Min(B) \in B /\ \A y \in B : Min(B) <= y
  BY <1>1, <1>2, MinOfNat
<1>4. PICK m \in B : \A y \in B : m <= y
  BY <1>3
<1>5. m \in 1..n /\ m - 1 \in 0..n /\ ~ (m <= m - 1)
  BY <1>4
<1>6. m - 1 \notin B
  BY <1>4, <1>5
<1> QED BY <1>4, <1>5, <1>6

\* The i-th step leads from V[i - 1] to V[i].
Leads(step, V, n) == \A i \in 1..n : step[i] \in [V[i - 1] -> V[i]]
\* f takes these steps from base.
Takes(f, base, step, V, n) ==
  /\ f = [i \in 0..n |-> f[i]] /\ f[0] = base
  /\ \A i \in 1..n : f[i - 1] \in V[i - 1] /\ f[i] = step[i][f[i - 1]]

\* A recursion over 0..n whose i-th value is in V[i] has a solution.
LEMMA IterationExists ==
  ASSUME NEW n \in Nat, NEW V, NEW base \in V[0], NEW step, Leads(step, V, n)
  PROVE  \E f : Takes(f, base, step, V, n)
<1> USE DEF Leads
<1> DEFINE Upto(f, k) == /\ DOMAIN f = 0..k /\ f[0] = base
                         /\ \A i \in 1..k : f[i] = step[i][f[i - 1]]
                         /\ \A i \in 0..k : f[i] \in V[i]
           U == UNION {V[i] : i \in 0..n}
           W == {k \in 0..n : \E f \in [0..k -> U] : Upto(f, k)}
<1>1. 0 \in W
  <2> DEFINE f == [i \in 0..0 |-> base]
  <2>1. f \in [0..0 -> U]
    OBVIOUS
  <2>2. Upto(f, 0)
    OBVIOUS
  <2> HIDE DEF f, Upto, U
  <2> QED BY <2>1, <2>2
<1>2. ASSUME NEW i \in 1..n, i - 1 \in W PROVE i \in W
  <2>1. PICK f \in [0..i - 1 -> U] : Upto(f, i - 1)
    BY <1>2
  <2> DEFINE v == step[i][f[i - 1]]
             g == [j \in 0..i |-> IF j = i THEN v ELSE f[j]]
  <2>2. v \in V[i]
    BY <2>1
  <2>3. \A j \in 0..i : g[j] \in V[j]
    BY <2>1, <2>2
  <2>4. g \in [0..i -> U]
    BY <2>3
  <2>5. \A j \in 1..i : g[j] = step[j][g[j - 1]]
    <3>1. SUFFICES ASSUME NEW j \in 1..i PROVE g[j] = step[j][g[j - 1]]
      OBVIOUS
    <3>2. g[j - 1] = f[j - 1]
      OBVIOUS
    <3>3. j = i \/ (j \in 1..i - 1 /\ g[j] = f[j])
      OBVIOUS
    <3> HIDE DEF g
    <3>4. g[i] = v
      BY DEF g
    <3> QED BY <2>1, <3>2, <3>3, <3>4
  <2>6. g[0] = base
    BY <2>1
  <2>7. Upto(g, i)
    BY <2>3, <2>5, <2>6
  <2> HIDE DEF g, Upto, U
  <2> QED BY <2>4, <2>7
<1> HIDE DEF W
<1>3. n \in W
  BY <1>1, <1>2, StepByStep
<1>4. PICK f \in [0..n -> U] : Upto(f, n)
  BY <1>3 DEF W
<1>5. \A i \in 1..n : i - 1 \in 0..n
  OBVIOUS
<1>6. f = [i \in 0..n |-> f[i]]
  OBVIOUS
<1> QED BY <1>4, <1>5, <1>6 DEF Takes

\* Any function that starts in V[0] and does not leave V ends in V[n].
Stays(state, V, n) ==
  state[0] \in V[0] /\ \A i \in 1..n : state[i - 1] \in V[i - 1] => state[i] \in V[i]

LEMMA IterationIn ==
  ASSUME NEW n \in Nat, NEW V, NEW state, Stays(state, V, n)
  PROVE  state[n] \in V[n]
<1> USE DEF Stays
<1> DEFINE W == {i \in 0..n : state[i] \in V[i]}
<1>1. 0 \in W
  OBVIOUS
<1>2. \A i \in 1..n : i - 1 \in W => i \in W
  OBVIOUS
<1> HIDE DEF W
<1>3. \A i \in 0..n : i \in W
  BY <1>1, <1>2, StepByStep
<1> QED BY <1>3 DEF W

\* Two functions of the subsets of a finite set are the same if they are on {},
\* and on a set whenever they are on it without some element.
LEMMA SameOnSubsets ==
  ASSUME NEW D, IsFiniteSet(D), NEW f, NEW g, f[{}] = g[{}],
         \A S \in SUBSET D : S # {} =>
           \E x \in S : f[S \ {x}] = g[S \ {x}] => f[S] = g[S]
  PROVE  f[D] = g[D]
<1> DEFINE W == {k \in Nat : \A S \in SUBSET D : Cardinality(S) = k => f[S] = g[S]}
<1>1. \A S \in SUBSET D : IsFiniteSet(S) /\ Cardinality(S) \in Nat
  BY FS_Subset, FS_CardinalityType
<1>2. 0 \in W
  BY <1>1, FS_EmptySet
<1>3. ASSUME NEW i \in 1..Cardinality(D), i - 1 \in W PROVE i \in W
  <2>1. SUFFICES ASSUME NEW S \in SUBSET D, Cardinality(S) = i PROVE f[S] = g[S]
    BY <1>1, FS_CardinalityType
  <2>2. S # {}
    <3>1. Cardinality(S) # 0
      BY <2>1
    <3> QED BY <3>1, FS_EmptySet
  <2>3. PICK x \in S : f[S \ {x}] = g[S \ {x}] => f[S] = g[S]
    BY <2>2
  <2>4. Cardinality(S \ {x}) = i - 1
    BY <1>1, <2>1, FS_RemoveElement
  <2> QED BY <1>3, <2>3, <2>4
<1> HIDE DEF W
<1>4. Cardinality(D) \in W
  BY <1>1, <1>2, <1>3, StepByStep
<1> QED BY <1>4 DEF W

-----------------------------------------------------------------------------
(* Numbering *)

\* below[x] being what is less than x in a strict total order of S: the sizes
\* of these sets number the elements of S from 0, in their order.
LEMMA Ranks ==
  ASSUME NEW S, IsFiniteSet(S), NEW below \in [S -> SUBSET S],
         \A x, y \in S : x # y => x \in below[y] \/ y \in below[x],
         \A x \in S : x \notin below[x],
         \A x, y, z \in S : x \in below[y] /\ y \in below[z] => x \in below[z]
  PROVE  /\ \A x \in S : Cardinality(below[x]) \in 0..Cardinality(S) - 1
         /\ \A x, y \in S : x \in below[y] => Cardinality(below[x]) < Cardinality(below[y])
         /\ \A i \in 1..Cardinality(S) : \E x \in S : Cardinality(below[x]) = i - 1
<1> DEFINE R(x) == Cardinality(below[x])
           n == Cardinality(S)
<1>1. n \in Nat /\ \A x \in S : IsFiniteSet(below[x]) /\ R(x) \in Nat
  BY FS_Subset, FS_CardinalityType
<1>2. ASSUME NEW x \in S, NEW y \in S, x \in below[y] PROVE R(x) < R(y)
  <2>1. below[x] \subseteq below[y] /\ below[x] # below[y]
    BY <1>2
  <2>2. R(x) <= R(y) /\ (R(y) = R(x) => below[y] = below[x])
    BY <1>1, <2>1, FS_Subset
  <2> QED BY <1>1, <2>1, <2>2
<1>3. ASSUME NEW x \in S PROVE R(x) \in 0..n - 1
  <2>1. below[x] # S /\ below[x] \in SUBSET S
    BY <1>3
  <2>2. R(x) <= n /\ (n = R(x) => S = below[x])
    BY FS_Subset, <2>1
  <2> QED BY <1>1, <2>1, <2>2
<1> DEFINE f == [x \in S |-> R(x)]
<1>4. f \in Injection(S, 0..n - 1)
  <2>1. f \in [S -> 0..n - 1]
    BY <1>3
  <2>2. ASSUME NEW x \in S, NEW y \in S, f[x] = f[y] PROVE x = y
    <3>1. SUFFICES ASSUME x # y PROVE FALSE
      OBVIOUS
    <3>2. R(x) < R(y) \/ R(y) < R(x)
      BY <1>2, <3>1
    <3> QED BY <1>1, <2>2, <3>2
  <2> HIDE DEF f
  <2> QED BY <2>1, <2>2 DEF Injection, IsInjective
<1>5. IsFiniteSet(0..n - 1) /\ Cardinality(0..n - 1) = n
  BY <1>1, FS_Interval
<1> HIDE DEF f
<1>6. f \in Surjection(S, 0..n - 1)
  BY <1>4, <1>5, FS_Injection
<1>7. ASSUME NEW i \in 1..n PROVE \E x \in S : R(x) = i - 1
  <2>1. i - 1 \in 0..n - 1
    BY <1>1, <1>7
  <2>2. PICK x \in S : f[x] = i - 1
    BY <1>6, <2>1 DEF Surjection
  <2> QED BY <2>2 DEF f
<1> QED BY <1>2, <1>3, <1>7

\* below[x] is what comes before x by the keys D and then by size, and s[i] the
\* element of S, a finite set of integers, that has i - 1 elements before it.
Numbers(s, S, D, below) ==
  /\ S \in SUBSET Int /\ IsFiniteSet(S) /\ D \in [S -> Int] /\ below \in [S -> SUBSET S]
  /\ \A x, y \in S : x \in below[y] <=> D[x] < D[y] \/ (D[x] = D[y] /\ x < y)
  /\ DOMAIN s = 1..Cardinality(S)
  /\ \A i \in DOMAIN s : (\E x \in S : Cardinality(below[x]) = i - 1) =>
                          s[i] \in S /\ Cardinality(below[s[i]]) = i - 1

\* s lists the elements of S, each once, by the keys D and then by size.
Lists(s, S, D) ==
  /\ DOMAIN s = 1..Cardinality(S)
  /\ \A i \in DOMAIN s : s[i] \in S
  /\ \A i, j \in DOMAIN s : i < j =>
       D[s[i]] < D[s[j]] \/ (D[s[i]] = D[s[j]] /\ s[i] < s[j])
  /\ \A x \in S : \E i \in DOMAIN s : s[i] = x

LEMMA SortedByKey ==
  ASSUME NEW s, NEW S, NEW D, NEW below, Numbers(s, S, D, below)
  PROVE  Lists(s, S, D)
<1> USE DEF Numbers
<1>1. Cardinality(S) \in Nat
  BY FS_CardinalityType
<1>3. \A x \in S : D[x] \in Int /\ x \in Int
  OBVIOUS
<1>4. /\ \A x, y \in S : x # y => x \in below[y] \/ y \in below[x]
      /\ \A x \in S : x \notin below[x]
      /\ \A x, y, z \in S : x \in below[y] /\ y \in below[z] => x \in below[z]
  BY <1>3
<1>5. /\ \A x \in S : Cardinality(below[x]) \in 0..Cardinality(S) - 1
      /\ \A x, y \in S : x \in below[y] => Cardinality(below[x]) < Cardinality(below[y])
      /\ \A i \in 1..Cardinality(S) : \E x \in S : Cardinality(below[x]) = i - 1
  <2>1. \A x, y \in S : x # y => x \in below[y] \/ y \in below[x]
    BY <1>4
  <2>2. \A x \in S : x \notin below[x]
    BY <1>4
  <2>3. \A x, y, z \in S : x \in below[y] /\ y \in below[z] => x \in below[z]
    BY <1>4
  <2>4. IsFiniteSet(S) /\ below \in [S -> SUBSET S]
    OBVIOUS
  <2> QED BY ONLY <2>1, <2>2, <2>3, <2>4, Ranks
<1>6. \A i \in DOMAIN s : s[i] \in S /\ Cardinality(below[s[i]]) = i - 1
  BY <1>5
<1>7. ASSUME NEW i \in DOMAIN s, NEW j \in DOMAIN s, i < j
      PROVE  s[i] \in below[s[j]]
  <2>1. i \in Int /\ j \in Int /\ s[i] \in S /\ s[j] \in S
        /\ Cardinality(below[s[i]]) = i - 1 /\ Cardinality(below[s[j]]) = j - 1
    BY <1>1, <1>6
  <2>2. s[i] # s[j] /\ ~ (Cardinality(below[s[j]]) < Cardinality(below[s[i]]))
    BY <1>7, <2>1
  <2> QED BY <1>4, <1>5, <2>1, <2>2
<1>8. ASSUME NEW x \in S PROVE \E i \in DOMAIN s : s[i] = x
  <2> DEFINE i == Cardinality(below[x]) + 1
  <2>1. i \in DOMAIN s /\ Cardinality(below[x]) = i - 1
    BY <1>1, <1>5
  <2>2. Cardinality(below[s[i]]) = Cardinality(below[x])
    BY <1>6, <2>1
  <2>3. s[i] \in S
    BY <1>6, <2>1
  <2>4. ~ (Cardinality(below[s[i]]) < Cardinality(below[x]))
        /\ ~ (Cardinality(below[x]) < Cardinality(below[s[i]]))
    BY <1>1, <1>5, <2>2
  <2>5. s[i] \notin below[x] /\ x \notin below[s[i]]
    BY <1>5, <2>3, <2>4
  <2>6. s[i] = x
    BY <1>4, <2>3, <2>5
  <2> QED BY <2>1, <2>6
<1> QED BY <1>6, <1>7, <1>8 DEF Lists

\* Among numbers with keys, one is first.
LEMMA LeastByKey ==
  ASSUME NEW S \in SUBSET Nat, S # {}, NEW D \in [S -> Nat]
  PROVE  \E a \in S : \A b \in S : D[a] < D[b] \/ (D[a] = D[b] /\ a <= b)
<1> DEFINE K == {D[x] : x \in S}
           A == {x \in S : D[x] = Min(K)}
<1>1. K \in SUBSET Nat /\ K # {}
  OBVIOUS
<1>2. Min(K) \in K /\ \A y \in K : Min(K) <= y
  BY <1>1, MinOfNat
<1>3. A \in SUBSET Nat /\ A # {}
  BY <1>2
<1>4. Min(A) \in A /\ \A y \in A : Min(A) <= y
  BY <1>3, MinOfNat
<1> DEFINE a == Min(A)
           k == Min(K)
<1>5. a \in S /\ D[a] = k
  BY <1>4
<1>6. \A b \in S : k <= D[b] /\ (D[b] = k => a <= b)
  BY <1>2, <1>4
<1>7. k \in Nat /\ \A b \in S : D[b] \in Nat
  BY <1>1, <1>2
<1> HIDE DEF a, k
<1>8. \A b \in S : D[a] < D[b] \/ (D[a] = D[b] /\ a <= b)
  BY <1>5, <1>6, <1>7
<1> QED BY <1>5, <1>8
=============================================================================
