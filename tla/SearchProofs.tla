---------------------------- MODULE SearchProofs ----------------------------
(***************************************************************************)
(* Proofs about Search: that the tables, the store and the two indexes     *)
(* agree after any calls (Inv, and Invariance), and what a search may      *)
(* answer from them.  The order is that of the model: maps and lists, the  *)
(* text index, the walks, links, vectors and calls of the vector index,    *)
(* the steps of the collection, and the searches last.                     *)
(***************************************************************************)
EXTENDS Search, BasicLemmas, SequenceTheorems

-----------------------------------------------------------------------------
(* Maps and lists *)

LEMMA EmptyIs == DOMAIN EmptyMap = {} /\ \A X : EmptyMap \in [{} -> X]
BY DEF EmptyMap

\* A map with a value put in.
LEMMA PutIs ==
  ASSUME NEW f, NEW x, NEW v
  PROVE  Put(f, x, v) = [y \in DOMAIN f \cup {x} |-> IF y = x THEN v ELSE f[y]]
<1>1. CASE x \in DOMAIN f
  <2>1. DOMAIN f \cup {x} = DOMAIN f
    BY <1>1
  <2> QED BY <1>1, <2>1 DEF Put
<1> QED BY <1>1 DEF Put

LEMMA ListType ==
  ASSUME NEW X, NEW n \in Nat, NEW f \in [1..n -> X]
  PROVE  f \in Seq(X) /\ Len(f) = n
<1>1. f \in Seq(X)
  BY SeqDef
<1>2. Len(f) \in Nat /\ DOMAIN f = 1..Len(f) /\ DOMAIN f = 1..n
  BY <1>1, LenProperties
<1> QED BY <1>1, <1>2

LEMMA IntervalSize ==
  ASSUME NEW n \in Nat
  PROVE  IsFiniteSet(1..n) /\ Cardinality(1..n) = n
<1>1. IsFiniteSet(1..n) /\ Cardinality(1..n) = IF 1 > n THEN 0 ELSE n - 1 + 1
  BY FS_Interval
<1> QED BY <1>1

\* p has what s has at the positions I, in their order.
PickedAt(p, s, I, at) ==
  /\ at \in [1..Cardinality(I) -> I]
  /\ \A i \in 1..Cardinality(I) : p[i] = s[at[i]]
  /\ \A i, j \in 1..Cardinality(I) : i < j => at[i] < at[j]
  /\ \A k \in I : \E i \in 1..Cardinality(I) : at[i] = k

\* Pick lists the elements of s at the positions I, in their order.
LEMMA PickIs ==
  ASSUME NEW s, NEW I \in SUBSET Int, IsFiniteSet(I)
  PROVE  /\ Cardinality(I) \in Nat
         /\ Pick(s, I) \in Seq({s[i] : i \in I}) /\ Len(Pick(s, I)) = Cardinality(I)
         /\ ToSet(Pick(s, I)) = {s[i] : i \in I}
         /\ \E at : PickedAt(Pick(s, I), s, I, at)
<1> DEFINE n == Cardinality(I)
           Below(x) == Cardinality({y \in I : y < x})
           at == [i \in 1..n |-> CHOOSE x \in I : Below(x) = i - 1]
           D == [i \in I |-> 0]
           below == [i \in I |-> {j \in I : j < i}]
<1>1. n \in Nat
  BY FS_CardinalityType
<1>2. Pick(s, I) = [i \in DOMAIN at |-> s[at[i]]]
  BY DEF Pick, Sorted
<1>3. \A i \in 1..n : (\E x \in I : Below(x) = i - 1) => at[i] \in I /\ Below(at[i]) = i - 1
  <2> HIDE DEF Below
  <2> QED OBVIOUS
<1>4. \A x \in I : Cardinality(below[x]) = Below(x)
  OBVIOUS
<1>5. /\ D \in [I -> Int] /\ below \in [I -> SUBSET I]
      /\ DOMAIN at = 1..n
  OBVIOUS
<1>6. \A x, y \in I : x \in below[y] <=> D[x] < D[y] \/ (D[x] = D[y] /\ x < y)
  OBVIOUS
<1>7. \A i, j \in I : D[i] = D[j] /\ ~ (D[i] < D[j])
  OBVIOUS
<1> HIDE DEF D, below, at, Below
<1>8. \A i \in DOMAIN at : (\E x \in I : Cardinality(below[x]) = i - 1) =>
        at[i] \in I /\ Cardinality(below[at[i]]) = i - 1
  BY <1>3, <1>4, <1>5
<1>9. Numbers(at, I, D, below)
  BY <1>5, <1>6, <1>8 DEF Numbers
<1>10. Lists(at, I, D)
  BY <1>9, SortedByKey
<1> DEFINE a == [i \in 1..n |-> at[i]]
<1>11. /\ a \in [1..n -> I]
       /\ \A i, j \in 1..n : i < j => a[i] < a[j]
       /\ \A k \in I : \E i \in 1..n : a[i] = k
  BY <1>5, <1>7, <1>10 DEF Lists
<1>12. Pick(s, I) = [i \in 1..n |-> s[a[i]]]
  BY <1>2, <1>5
<1> HIDE DEF a
<1> DEFINE R == {s[k] : k \in I}
<1>13. \A i \in 1..n : s[a[i]] \in R
  BY <1>11
<1>14. Pick(s, I) \in [1..n -> R]
  BY <1>12, <1>13
<1>15. \A k \in I : \E i \in 1..n : s[a[i]] = s[k]
  BY <1>11
<1>16. ToSet(Pick(s, I)) = R
  BY <1>12, <1>13, <1>15 DEF ToSet
<1> HIDE DEF R
<1>17. Pick(s, I) \in Seq(R) /\ Len(Pick(s, I)) = n
  BY <1>1, <1>14, ListType
<1>18. PickedAt(Pick(s, I), s, I, a)
  BY <1>11, <1>12 DEF PickedAt
<1> QED BY <1>1, <1>16, <1>17, <1>18 DEF R

\* Positions of a sequence.
LEMMA Positions ==
  ASSUME NEW X, NEW s \in Seq(X), NEW I \in SUBSET DOMAIN s
  PROVE  I \in SUBSET Int /\ IsFiniteSet(I) /\ \A i \in I : s[i] \in X
<1>1. DOMAIN s = 1..Len(s) /\ Len(s) \in Nat
  BY LenProperties
<1>2. IsFiniteSet(1..Len(s))
  BY <1>1, FS_Interval
<1>3. IsFiniteSet(I)
  BY <1>1, <1>2, FS_Subset
<1> QED BY <1>1, <1>3, ElementOfSeq

\* Pick of a sequence is a sequence of elements of it.
LEMMA PickType ==
  ASSUME NEW X, NEW s \in Seq(X), NEW I \in SUBSET DOMAIN s
  PROVE  Pick(s, I) \in Seq(X) /\ ToSet(Pick(s, I)) = {s[i] : i \in I}
<1>1. I \in SUBSET Int /\ IsFiniteSet(I) /\ \A i \in I : s[i] \in X
  BY Positions
<1>2. Pick(s, I) \in Seq({s[i] : i \in I}) /\ ToSet(Pick(s, I)) = {s[i] : i \in I}
  BY <1>1, PickIs
<1> QED BY <1>1, <1>2, SeqMonotonic

-----------------------------------------------------------------------------
(* The text index *)

LEMMA TokenizeLength ==
  ASSUME NEW X, NEW text \in Seq(X)
  PROVE  Len(Tokenize(text)) \in Nat /\ DOMAIN Tokenize(text) = 1..Len(Tokenize(text))
<1> DEFINE kept == Pick(text, {i \in DOMAIN text : text[i] \notin StopWords})
           Y == {Stem[kept[i]] : i \in DOMAIN kept}
<1>1. kept \in Seq(X)
  BY PickType
<1>2. DOMAIN kept = 1..Len(kept) /\ Len(kept) \in Nat
  BY <1>1, LenProperties
<1>3. Tokenize(text) = [i \in 1..Len(kept) |-> Stem[kept[i]]]
  BY <1>2 DEF Tokenize
<1>4. \A i \in 1..Len(kept) : Stem[kept[i]] \in Y
  BY <1>2
<1> HIDE DEF Y, kept
<1>5. Tokenize(text) \in [1..Len(kept) -> Y]
  BY <1>3, <1>4
<1> QED BY <1>2, <1>3, <1>5, ListType

\* Texts that are indexed: finitely many, by key.
Texts(T) ==
  /\ T = [x \in DOMAIN T |-> T[x]] /\ IsFiniteSet(DOMAIN T)
  /\ \A x \in DOMAIN T : T[x] \in Seq(Words)

\* The words of the texts, each at its place.
Places(T) == UNION {{x} \X DOMAIN Tokenize(T[x]) : x \in DOMAIN T}

LEMMA IndexFields ==
  ASSUME NEW T
  PROVE  LET b == IndexOf(T)
             W(x) == ToSet(Tokenize(T[x])) IN
         /\ b = [postings |-> b.postings, docLen |-> b.docLen, docTerms |-> b.docTerms,
                 totalLen |-> b.totalLen]
         /\ b.postings = [t \in UNION {W(x) : x \in DOMAIN T} |->
                           [x \in {y \in DOMAIN T : t \in W(y)} |-> Count(Tokenize(T[x]), t)]]
         /\ b.docLen = [x \in DOMAIN T |-> Len(Tokenize(T[x]))]
         /\ b.docTerms = [x \in DOMAIN T |-> W(x)]
         /\ b.totalLen = Cardinality(Places(T))
<1> DEFINE toks == [x \in DOMAIN T |-> Tokenize(T[x])]
           W(x) == ToSet(Tokenize(T[x]))
<1>1. \A x \in DOMAIN T : toks[x] = Tokenize(T[x])
  OBVIOUS
<1> HIDE DEF toks
<1>2. {ToSet(toks[x]) : x \in DOMAIN T} = {W(x) : x \in DOMAIN T}
  BY <1>1
<1>3. \A t : {y \in DOMAIN T : t \in ToSet(toks[y])} = {y \in DOMAIN T : t \in W(y)}
  BY <1>1
<1>4. {{x} \X DOMAIN toks[x] : x \in DOMAIN T} = {{x} \X DOMAIN Tokenize(T[x]) : x \in DOMAIN T}
  BY <1>1
<1>5. IndexOf(T) =
        [postings |-> [t \in UNION {ToSet(toks[x]) : x \in DOMAIN T} |->
                         [x \in {y \in DOMAIN T : t \in ToSet(toks[y])} |-> Count(toks[x], t)]],
         docLen   |-> [x \in DOMAIN T |-> Len(toks[x])],
         docTerms |-> [x \in DOMAIN T |-> ToSet(toks[x])],
         totalLen |-> Cardinality(UNION {{x} \X DOMAIN toks[x] : x \in DOMAIN T})]
  BY DEF IndexOf, toks
<1>6. [x \in DOMAIN T |-> Len(toks[x])] = [x \in DOMAIN T |-> Len(Tokenize(T[x]))]
  BY <1>1
<1>7. [x \in DOMAIN T |-> ToSet(toks[x])] = [x \in DOMAIN T |-> W(x)]
  BY <1>1
<1>8. \A t : [x \in {y \in DOMAIN T : t \in ToSet(toks[y])} |-> Count(toks[x], t)]
          = [x \in {y \in DOMAIN T : t \in W(y)} |-> Count(Tokenize(T[x]), t)]
  BY <1>1
<1>9. IndexOf(T).postings = [t \in UNION {ToSet(toks[x]) : x \in DOMAIN T} |->
                         [x \in {y \in DOMAIN T : t \in ToSet(toks[y])} |-> Count(toks[x], t)]]
      /\ IndexOf(T).docLen = [x \in DOMAIN T |-> Len(toks[x])]
      /\ IndexOf(T).docTerms = [x \in DOMAIN T |-> ToSet(toks[x])]
      /\ IndexOf(T).totalLen = Cardinality(UNION {{x} \X DOMAIN toks[x] : x \in DOMAIN T})
      /\ IndexOf(T) = [postings |-> IndexOf(T).postings, docLen |-> IndexOf(T).docLen,
                       docTerms |-> IndexOf(T).docTerms, totalLen |-> IndexOf(T).totalLen]
  BY <1>5
<1>10. IndexOf(T).postings = [t \in UNION {W(x) : x \in DOMAIN T} |->
                           [x \in {y \in DOMAIN T : t \in W(y)} |-> Count(Tokenize(T[x]), t)]]
  BY <1>2, <1>8, <1>9
<1> QED BY <1>4, <1>6, <1>7, <1>9, <1>10 DEF Places

\* Places of texts with one more, or one less.
LEMMA PlacesCount ==
  ASSUME NEW T, Texts(T), NEW k, k \notin DOMAIN T, NEW text \in Seq(Words)
  PROVE  /\ IsFiniteSet(Places(T)) /\ Cardinality(Places(T)) \in Nat
         /\ Cardinality(Places(Put(T, k, text))) = Cardinality(Places(T)) + Len(Tokenize(text))
<1> DEFINE P == {{x} \X DOMAIN Tokenize(T[x]) : x \in DOMAIN T}
           K == {k} \X (1..Len(Tokenize(text)))
<1>1. Len(Tokenize(text)) \in Nat /\ DOMAIN Tokenize(text) = 1..Len(Tokenize(text))
  BY TokenizeLength
<1>2. IsFiniteSet(K) /\ Cardinality(K) = Len(Tokenize(text))
  <2>1. IsFiniteSet(1..Len(Tokenize(text))) /\ Cardinality(1..Len(Tokenize(text))) = Len(Tokenize(text))
    BY <1>1, IntervalSize
  <2>2. IsFiniteSet({k}) /\ Cardinality({k}) = 1
    BY FS_Singleton
  <2>3. IsFiniteSet(K) /\ Cardinality(K) = Cardinality({k}) * Cardinality(1..Len(Tokenize(text)))
    BY <2>1, <2>2, FS_Product
  <2> HIDE DEF K
  <2> QED BY <1>1, <2>1, <2>2, <2>3
<1>3. IsFiniteSet(P)
  <2> DEFINE f == [x \in DOMAIN T |-> {x} \X DOMAIN Tokenize(T[x])]
  <2>1. f \in Surjection(DOMAIN T, P)
    BY DEF Surjection
  <2> QED BY <2>1, FS_Surjection DEF Texts
<1>4. \A S \in P : IsFiniteSet(S)
  <2>1. SUFFICES ASSUME NEW x \in DOMAIN T PROVE IsFiniteSet({x} \X DOMAIN Tokenize(T[x]))
    OBVIOUS
  <2>2. T[x] \in Seq(Words)
    BY DEF Texts
  <2>3. Len(Tokenize(T[x])) \in Nat /\ DOMAIN Tokenize(T[x]) = 1..Len(Tokenize(T[x]))
    BY <2>2, TokenizeLength
  <2>4. IsFiniteSet(DOMAIN Tokenize(T[x])) /\ IsFiniteSet({x})
    BY <2>3, IntervalSize, FS_Singleton
  <2> QED BY <2>4, FS_Product
<1>5. IsFiniteSet(Places(T)) /\ Cardinality(Places(T)) \in Nat
  BY <1>3, <1>4, FS_UNION, FS_CardinalityType DEF Places
<1>6. Places(Put(T, k, text)) = Places(T) \cup K
  BY <1>1, PutIs DEF Places
<1>7. Places(T) \cap K = {}
  BY DEF Places
<1> HIDE DEF K
<1>8. Cardinality(Places(T) \cap K) = 0
  BY <1>7, FS_EmptySet
<1>9. Cardinality(Places(T) \cup K)
        = Cardinality(Places(T)) + Cardinality(K) - Cardinality(Places(T) \cap K)
  BY <1>2, <1>5, FS_Union
<1> QED BY <1>1, <1>2, <1>5, <1>6, <1>8, <1>9

\* BM25Index.add of a new key: the index of the texts and that of the key.
THEOREM TextAddExact ==
  ASSUME NEW T, Texts(T), NEW k, k \notin DOMAIN T, NEW text \in Seq(Words)
  PROVE  TextAdd(IndexOf(T), k, text) = IndexOf(Put(T, k, text))
<1> DEFINE b == IndexOf(T)
           U == Put(T, k, text)
           c == IndexOf(U)
           a == TextAdd(b, k, text)
           W(x) == ToSet(Tokenize(T[x]))
           V(x) == ToSet(Tokenize(U[x]))
           terms == ToSet(Tokenize(text))
           Of(t) == IF t \in DOMAIN b.postings THEN b.postings[t] ELSE EmptyMap
<1>1. /\ b.postings = [t \in UNION {W(x) : x \in DOMAIN T} |->
                           [x \in {y \in DOMAIN T : t \in W(y)} |-> Count(Tokenize(T[x]), t)]]
      /\ b.docLen = [x \in DOMAIN T |-> Len(Tokenize(T[x]))]
      /\ b.docTerms = [x \in DOMAIN T |-> W(x)]
      /\ b.totalLen = Cardinality(Places(T))
  BY IndexFields
<1>2. /\ c = [postings |-> c.postings, docLen |-> c.docLen, docTerms |-> c.docTerms,
              totalLen |-> c.totalLen]
      /\ c.postings = [t \in UNION {V(x) : x \in DOMAIN U} |->
                           [x \in {y \in DOMAIN U : t \in V(y)} |-> Count(Tokenize(U[x]), t)]]
      /\ c.docLen = [x \in DOMAIN U |-> Len(Tokenize(U[x]))]
      /\ c.docTerms = [x \in DOMAIN U |-> V(x)]
      /\ c.totalLen = Cardinality(Places(U))
  BY IndexFields
<1>3. DOMAIN U = DOMAIN T \cup {k} /\ U[k] = text /\ \A x \in DOMAIN T : x # k /\ U[x] = T[x]
  BY PutIs
<1>4. TextRemove(b, k) = b
  BY <1>1 DEF TextRemove
<1>5. a = [postings |-> [t \in DOMAIN b.postings \cup terms |->
                           IF t \in terms THEN Put(Of(t), k, Count(Tokenize(text), t)) ELSE Of(t)],
           docLen |-> Put(b.docLen, k, Len(Tokenize(text))),
           docTerms |-> Put(b.docTerms, k, terms),
           totalLen |-> b.totalLen + Len(Tokenize(text))]
  BY <1>4 DEF TextAdd
<1>6. c.totalLen = b.totalLen + Len(Tokenize(text))
  BY <1>1, <1>2, PlacesCount
<1> HIDE DEF b, c, U
<1>7. c.docLen = Put(b.docLen, k, Len(Tokenize(text)))
  <2>1. Put(b.docLen, k, Len(Tokenize(text)))
          = [y \in DOMAIN b.docLen \cup {k} |-> IF y = k THEN Len(Tokenize(text)) ELSE b.docLen[y]]
    BY PutIs
  <2>2. DOMAIN b.docLen \cup {k} = DOMAIN U
    BY <1>1, <1>3
  <2>3. \A y \in DOMAIN U : Len(Tokenize(U[y])) = IF y = k THEN Len(Tokenize(text)) ELSE b.docLen[y]
    BY <1>1, <1>3
  <2>4. c.docLen = [y \in DOMAIN U |-> Len(Tokenize(U[y]))]
    BY <1>2
  <2> QED BY <2>1, <2>2, <2>3, <2>4
<1>8. c.docTerms = Put(b.docTerms, k, terms)
  <2>1. Put(b.docTerms, k, terms)
          = [y \in DOMAIN b.docTerms \cup {k} |-> IF y = k THEN terms ELSE b.docTerms[y]]
    BY PutIs
  <2>2. DOMAIN b.docTerms \cup {k} = DOMAIN U
    BY <1>1, <1>3
  <2>3. \A y \in DOMAIN U : V(y) = IF y = k THEN terms ELSE b.docTerms[y]
    BY <1>1, <1>3
  <2>4. c.docTerms = [y \in DOMAIN U |-> V(y)]
    BY <1>2
  <2> QED BY <2>1, <2>2, <2>3, <2>4
<1>9. UNION {V(x) : x \in DOMAIN U} = DOMAIN b.postings \cup terms
  BY <1>1, <1>3
<1>10. ASSUME NEW t \in DOMAIN b.postings \cup terms
       PROVE  c.postings[t] = IF t \in terms THEN Put(Of(t), k, Count(Tokenize(text), t)) ELSE Of(t)
  <2> DEFINE S == {y \in DOMAIN T : t \in W(y)}
             G(x) == Count(Tokenize(T[x]), t)
  <2>1. c.postings[t] = [x \in {y \in DOMAIN U : t \in V(y)} |-> Count(Tokenize(U[x]), t)]
    BY <1>2, <1>9
  <2>2. {y \in DOMAIN U : t \in V(y)} = IF t \in terms THEN S \cup {k} ELSE S
    BY <1>3
  <2>3. Of(t) = [x \in S |-> G(x)]
    <3>1. CASE t \in DOMAIN b.postings
      BY <1>1, <3>1
    <3>2. CASE t \notin DOMAIN b.postings
      <4>1. S = {}
        BY <1>1, <3>2
      <4> QED BY <3>2, <4>1 DEF EmptyMap
    <3> QED BY <3>1, <3>2
  <2>4. k \notin S /\ \A x \in S : Count(Tokenize(U[x]), t) = G(x)
    BY <1>3
  <2> HIDE DEF Of, S, G
  <2>5. CASE t \in terms
    <3>1. c.postings[t] = [x \in S \cup {k} |-> Count(Tokenize(U[x]), t)]
      BY <2>1, <2>2, <2>5
    <3>2. Put(Of(t), k, Count(Tokenize(text), t))
            = [y \in S \cup {k} |-> IF y = k THEN Count(Tokenize(text), t) ELSE G(y)]
      BY <2>3, PutIs
    <3>3. \A y \in S \cup {k} : Count(Tokenize(U[y]), t)
                               = IF y = k THEN Count(Tokenize(text), t) ELSE G(y)
      BY <1>3, <2>4
    <3> QED BY <2>5, <3>1, <3>2, <3>3
  <2>6. CASE t \notin terms
    BY <2>1, <2>2, <2>3, <2>4, <2>6
  <2> QED BY <2>5, <2>6
<1>11. c.postings = [t \in DOMAIN b.postings \cup terms |->
                     IF t \in terms THEN Put(Of(t), k, Count(Tokenize(text), t)) ELSE Of(t)]
  <2>1. c.postings = [t \in DOMAIN b.postings \cup terms |-> c.postings[t]]
    BY <1>2, <1>9
  <2> HIDE DEF Of
  <2> QED BY <1>10, <2>1
<1> QED BY <1>2, <1>5, <1>6, <1>7, <1>8, <1>11 DEF b, c, U

\* BM25Index.remove: the index of the texts without that of the key.
THEOREM TextRemoveExact ==
  ASSUME NEW T, Texts(T), NEW k
  PROVE  TextRemove(IndexOf(T), k) = IndexOf(Drop(T, k))
<1> DEFINE b == IndexOf(T)
           U == Drop(T, k)
           c == IndexOf(U)
           a == TextRemove(b, k)
           W(x) == ToSet(Tokenize(T[x]))
           V(x) == ToSet(Tokenize(U[x]))
           gone == {t \in b.docTerms[k] : DOMAIN b.postings[t] \subseteq {k}}
<1>1. /\ b.postings = [t \in UNION {W(x) : x \in DOMAIN T} |->
                           [x \in {y \in DOMAIN T : t \in W(y)} |-> Count(Tokenize(T[x]), t)]]
      /\ b.docLen = [x \in DOMAIN T |-> Len(Tokenize(T[x]))]
      /\ b.docTerms = [x \in DOMAIN T |-> W(x)]
      /\ b.totalLen = Cardinality(Places(T))
  BY IndexFields
<1>2. /\ c = [postings |-> c.postings, docLen |-> c.docLen, docTerms |-> c.docTerms,
              totalLen |-> c.totalLen]
      /\ c.postings = [t \in UNION {V(x) : x \in DOMAIN U} |->
                           [x \in {y \in DOMAIN U : t \in V(y)} |-> Count(Tokenize(U[x]), t)]]
      /\ c.docLen = [x \in DOMAIN U |-> Len(Tokenize(U[x]))]
      /\ c.docTerms = [x \in DOMAIN U |-> V(x)]
      /\ c.totalLen = Cardinality(Places(U))
  BY IndexFields
<1>3. DOMAIN U = DOMAIN T \ {k} /\ \A x \in DOMAIN U : U[x] = T[x]
  BY DEF Drop
<1>4. CASE k \notin DOMAIN T
  <2>1. U = T
    BY <1>3, <1>4 DEF Drop, Texts
  <2>2. a = b
    BY <1>1, <1>4 DEF TextRemove
  <2> QED BY <2>1, <2>2
<1>5. CASE k \in DOMAIN T
  <2>1. a = [postings |-> [t \in DOMAIN b.postings \ gone |->
                        IF t \in b.docTerms[k] THEN Drop(b.postings[t], k) ELSE b.postings[t]],
             docLen |-> Drop(b.docLen, k),
             docTerms |-> Drop(b.docTerms, k),
             totalLen |-> b.totalLen - b.docLen[k]]
    BY <1>1, <1>5 DEF TextRemove
  <2>2. c.totalLen = b.totalLen - b.docLen[k]
    <3>1. IsFiniteSet(DOMAIN U)
      BY <1>3, FS_Subset DEF Texts
    <3>2. Texts(U) /\ k \notin DOMAIN U /\ T[k] \in Seq(Words)
      BY <1>3, <1>5, <3>1 DEF Texts, Drop
    <3>3. T = Put(U, k, T[k])
      <4>1. DOMAIN U \cup {k} = DOMAIN T
        BY <1>3, <1>5
      <4>2. T = [x \in DOMAIN T |-> T[x]]
        BY DEF Texts
      <4> HIDE DEF U
      <4>3. \A x \in DOMAIN T : T[x] = IF x = k THEN T[k] ELSE U[x]
        BY <1>3
      <4>4. [x \in DOMAIN T |-> T[x]] = [x \in DOMAIN T |-> IF x = k THEN T[k] ELSE U[x]]
        BY <4>3
      <4> QED BY <4>1, <4>2, <4>4, PutIs
    <3> HIDE DEF U, b, c
    <3>4. Cardinality(Places(U)) \in Nat
          /\ Cardinality(Places(Put(U, k, T[k]))) = Cardinality(Places(U)) + Len(Tokenize(T[k]))
      BY <3>2, PlacesCount
    <3>5. Len(Tokenize(T[k])) \in Nat
      BY <3>2, TokenizeLength
    <3> QED BY <1>1, <1>2, <1>5, <3>3, <3>4, <3>5
  <2> HIDE DEF b, c, U
  <2>3. c.docLen = Drop(b.docLen, k)
    BY <1>1, <1>2, <1>3 DEF Drop
  <2>4. c.docTerms = Drop(b.docTerms, k)
    BY <1>1, <1>2, <1>3 DEF Drop
  <2>5. UNION {V(x) : x \in DOMAIN U} = DOMAIN b.postings \ gone
    <3>1. \A t \in DOMAIN b.postings : DOMAIN b.postings[t] = {y \in DOMAIN T : t \in W(y)}
      BY <1>1
    <3>2. b.docTerms[k] = W(k)
      BY <1>1, <1>5
    <3>3. DOMAIN b.postings = UNION {W(x) : x \in DOMAIN T}
      BY <1>1
    <3>4. \A x \in DOMAIN U : V(x) = W(x)
      BY <1>3
    <3> HIDE DEF V, W
    <3>5. ASSUME NEW t, t \in UNION {V(x) : x \in DOMAIN U} PROVE t \in DOMAIN b.postings \ gone
      BY <1>3, <3>1, <3>2, <3>3, <3>4, <3>5
    <3>6. ASSUME NEW t, t \in DOMAIN b.postings \ gone PROVE t \in UNION {V(x) : x \in DOMAIN U}
      <4>1. PICK x \in DOMAIN T : t \in W(x)
        BY <3>3, <3>6
      <4>2. \E y \in DOMAIN T \ {k} : t \in W(y)
        BY <3>1, <3>2, <3>6, <4>1
      <4> QED BY <1>3, <3>4, <4>2
    <3> QED BY <3>5, <3>6
  <2>6. ASSUME NEW t \in DOMAIN b.postings \ gone
        PROVE  c.postings[t] = IF t \in b.docTerms[k] THEN Drop(b.postings[t], k) ELSE b.postings[t]
    <3> DEFINE S == {y \in DOMAIN T : t \in W(y)}
               G(x) == Count(Tokenize(T[x]), t)
    <3>1. c.postings[t] = [x \in {y \in DOMAIN U : t \in V(y)} |-> Count(Tokenize(U[x]), t)]
      BY <1>2, <2>5
    <3>2. b.postings[t] = [x \in S |-> G(x)]
      BY <1>1
    <3>3. {y \in DOMAIN U : t \in V(y)} = S \ {k}
      BY <1>3
    <3>4. b.docTerms[k] = W(k)
      BY <1>1, <1>5
    <3>5. \A x \in S \ {k} : Count(Tokenize(U[x]), t) = G(x)
      BY <1>3
    <3>6. t \notin b.docTerms[k] => k \notin S
      BY <3>4
    <3> HIDE DEF S, G
    <3>7. c.postings[t] = [x \in S \ {k} |-> G(x)]
      BY <3>1, <3>3, <3>5
    <3> QED BY <3>2, <3>6, <3>7 DEF Drop
  <2>7. c.postings = [t \in DOMAIN b.postings \ gone |->
                        IF t \in b.docTerms[k] THEN Drop(b.postings[t], k) ELSE b.postings[t]]
    <3>1. c.postings = [t \in DOMAIN b.postings \ gone |-> c.postings[t]]
      BY <1>2, <2>5
    <3> HIDE DEF gone
    <3> QED BY <2>6, <3>1
  <2> QED BY <1>2, <2>1, <2>2, <2>3, <2>4, <2>7 DEF b, c, U
<1> QED BY <1>4, <1>5

\* vacuum() removes the keys one after the other: the index of the other texts.
LEMMA TextRemoveAll ==
  ASSUME NEW T, Texts(T), NEW K, IsFiniteSet(K)
  PROVE  FoldSet(LAMBDA k, index : TextRemove(index, k), IndexOf(T), K)
           = IndexOf([x \in DOMAIN T \ K |-> T[x]])
<1> DEFINE C(S) == CHOOSE x \in S : TRUE
           Step(g, S) == IF S = {} THEN IndexOf(T) ELSE TextRemove(g[S \ {C(S)}], C(S))
           iter == CHOOSE g : g = [S \in SUBSET K |-> Step(g, S)]
           Left(S) == [x \in DOMAIN T \ S |-> T[x]]
           h == [S \in SUBSET K |-> IndexOf(Left(S))]
<1>1. FoldSet(LAMBDA k, index : TextRemove(index, k), IndexOf(T), K) = iter[K]
  BY DEF FoldSet, MapThenFoldSet
<1>2. h[{}] = IndexOf(T)
  <2>1. Left({}) = T
    BY DEF Texts
  <2> QED BY <2>1
<1>3. ASSUME NEW S \in SUBSET K, S # {} PROVE h[S] = TextRemove(h[S \ {C(S)}], C(S))
  <2> DEFINE L == Left(S \ {C(S)})
  <2>1. C(S) \in S
    BY <1>3
  <2>2. IsFiniteSet(DOMAIN L)
    BY FS_Subset DEF Texts
  <2>3. Texts(L)
    BY <2>2 DEF Texts
  <2>4. Drop(L, C(S)) = Left(S)
    <3>1. DOMAIN L \ {C(S)} = DOMAIN T \ S
      BY <2>1
    <3>2. \A x \in DOMAIN T \ S : L[x] = T[x]
      BY <2>1
    <3> HIDE DEF L
    <3> QED BY <3>1, <3>2 DEF Drop
  <2> HIDE DEF L, Left
  <2>5. TextRemove(IndexOf(L), C(S)) = IndexOf(Left(S))
    BY <2>3, <2>4, TextRemoveExact
  <2> QED BY <2>5 DEF L
<1> HIDE DEF h, Left, C
<1>4. \A S \in SUBSET K : h[S] = Step(h, S)
  BY <1>2, <1>3
<1>5. h = [S \in SUBSET K |-> Step(h, S)]
  <2>1. h = [S \in SUBSET K |-> h[S]]
    BY DEF h
  <2> HIDE DEF Step
  <2> QED BY <1>4, <2>1
<1>6. iter = [S \in SUBSET K |-> Step(iter, S)]
  <2> HIDE DEF Step
  <2> QED BY <1>5
<1> HIDE DEF iter
<1>7. iter[{}] = h[{}]
  BY <1>2, <1>6
<1>8. ASSUME NEW S \in SUBSET K, S # {}
      PROVE  \E x \in S : iter[S \ {x}] = h[S \ {x}] => iter[S] = h[S]
  <2>1. C(S) \in S
    BY <1>8 DEF C
  <2>2. iter[S] = TextRemove(iter[S \ {C(S)}], C(S))
    BY <1>6, <1>8
  <2> QED BY <1>3, <1>8, <2>1, <2>2
<1>9. iter[K] = h[K]
  BY <1>7, <1>8, SameOnSubsets
<1> QED BY <1>1, <1>9 DEF h, Left

-----------------------------------------------------------------------------
(* Lists without repetition *)

Distinct(s) == \A i, j \in DOMAIN s : s[i] = s[j] => i = j

LEMMA DistinctAppend ==
  ASSUME NEW X, NEW s \in Seq(X), NEW e \in X, Distinct(s), e \notin ToSet(s)
  PROVE  Append(s, e) \in Seq(X) /\ Distinct(Append(s, e)) /\ ToSet(Append(s, e)) = ToSet(s) \cup {e}
<1> DEFINE t == Append(s, e)
<1>1. /\ t \in Seq(X) /\ DOMAIN s = 1..Len(s) /\ Len(s) \in Nat /\ DOMAIN t = 1..Len(s) + 1
      /\ \A i \in 1..Len(s) : t[i] = s[i]
      /\ t[Len(s) + 1] = e
  BY AppendProperties, LenProperties
<1>2. \A i \in DOMAIN t : i \in DOMAIN s \/ i = Len(s) + 1
  BY <1>1
<1>3. DOMAIN s \subseteq DOMAIN t /\ Len(s) + 1 \in DOMAIN t
  BY <1>1
<1>4. \A i \in DOMAIN s : t[i] = s[i] /\ t[i] # e
  BY <1>1 DEF ToSet
<1> HIDE DEF t
<1>5. Distinct(t)
  BY <1>1, <1>2, <1>4 DEF Distinct
<1>6. ToSet(t) = ToSet(s) \cup {e}
  BY <1>1, <1>2, <1>3, <1>4 DEF ToSet
<1> QED BY <1>1, <1>5, <1>6 DEF t

LEMMA DistinctConcat ==
  ASSUME NEW X, NEW s \in Seq(X), NEW t \in Seq(X), Distinct(s), Distinct(t),
         ToSet(s) \cap ToSet(t) = {}
  PROVE  s \o t \in Seq(X) /\ Distinct(s \o t) /\ ToSet(s \o t) = ToSet(s) \cup ToSet(t)
<1> DEFINE u == s \o t
<1>1. /\ u \in Seq(X) /\ DOMAIN s = 1..Len(s) /\ Len(s) \in Nat /\ DOMAIN t = 1..Len(t) /\ Len(t) \in Nat
      /\ DOMAIN u = 1..Len(s) + Len(t)
      /\ \A i \in DOMAIN u : u[i] = IF i <= Len(s) THEN s[i] ELSE t[i - Len(s)]
  BY ConcatProperties, LenProperties
<1>2. \A i \in DOMAIN u : \/ i \in DOMAIN s /\ u[i] = s[i]
                          \/ i - Len(s) \in DOMAIN t /\ u[i] = t[i - Len(s)]
  BY <1>1
<1>3. \A i \in DOMAIN s : i \in DOMAIN u /\ u[i] = s[i]
  BY <1>1
<1>4. \A i \in DOMAIN t : i + Len(s) \in DOMAIN u /\ u[i + Len(s)] = t[i]
  BY <1>1
<1>5. \A i \in DOMAIN s, j \in DOMAIN t : s[i] # t[j]
  BY DEF ToSet
<1> HIDE DEF u
<1>6. \A i \in DOMAIN u : i \in Int
  BY <1>1
<1>7. Distinct(u)
  <2>1. SUFFICES ASSUME NEW i \in DOMAIN u, NEW j \in DOMAIN u, u[i] = u[j] PROVE i = j
    BY DEF Distinct
  <2>2. CASE i \in DOMAIN s /\ u[i] = s[i]
    BY <1>2, <1>5, <2>1, <2>2 DEF Distinct
  <2>3. CASE i - Len(s) \in DOMAIN t /\ u[i] = t[i - Len(s)]
    <3>1. j - Len(s) \in DOMAIN t /\ u[j] = t[j - Len(s)]
      BY <1>2, <1>5, <2>1, <2>3
    <3>2. i - Len(s) = j - Len(s)
      BY <2>1, <2>3, <3>1 DEF Distinct
    <3> QED BY <1>1, <1>6, <3>2
  <2> QED BY <1>2, <2>2, <2>3
<1>8. ToSet(u) = ToSet(s) \cup ToSet(t)
  <2>1. \A e \in ToSet(u) : e \in ToSet(s) \cup ToSet(t)
    BY <1>2 DEF ToSet
  <2>2. \A e \in ToSet(s) : e \in ToSet(u)
    BY <1>3 DEF ToSet
  <2>3. \A e \in ToSet(t) : e \in ToSet(u)
    BY <1>4 DEF ToSet
  <2> QED BY <2>1, <2>2, <2>3
<1> QED BY <1>1, <1>7, <1>8 DEF u

\* The first n of a list.
LEMMA CutIs ==
  ASSUME NEW X, NEW s \in Seq(X), NEW n \in Nat
  PROVE  /\ Cut(s, n) \in Seq(X) /\ DOMAIN Cut(s, n) = 1..Len(Cut(s, n))
         /\ Len(Cut(s, n)) = IF n <= Len(s) THEN n ELSE Len(s)
         /\ \A i \in DOMAIN Cut(s, n) : i \in DOMAIN s /\ Cut(s, n)[i] = s[i]
         /\ Distinct(s) => Distinct(Cut(s, n))
         /\ ToSet(Cut(s, n)) \subseteq ToSet(s)
<1> DEFINE m == Min({n, Len(s)})
           t == SubSeq(s, 1, m)
<1>1. Len(s) \in Nat /\ DOMAIN s = 1..Len(s)
  BY LenProperties
<1> DEFINE l == Len(s)
<1>2. m = (IF n <= l THEN n ELSE l) /\ m \in Nat /\ m \in Int /\ m <= l /\ l \in Nat /\ DOMAIN s = 1..l
  BY <1>1, MinOfTwo
<1> HIDE DEF m
<1>3. t \in Seq(X) /\ Len(t) = m /\ DOMAIN t = 1..m /\ \A i \in 1..m : t[i] = s[i]
  <2>1. l \in Nat /\ m <= l /\ m \in Int
    BY <1>1, <1>2
  <2> HIDE DEF l
  <2>2. \A i \in 1..m : i \in 1..l
    BY <2>1
  <2>3. \A i \in 1..m : s[i] \in X
    BY <2>2, ElementOfSeq DEF l
  <2>4. /\ t \in Seq(X) /\ Len(t) = IF 1 <= m THEN m - 1 + 1 ELSE 0
        /\ \A i \in 1..m - 1 + 1 : t[i] = s[1 + i - 1]
    BY <2>1, <2>3, SubSeqProperties
  <2>5. Len(t) = m /\ 1..m - 1 + 1 = 1..m /\ \A i \in 1..m : 1 + i - 1 = i
    BY <1>2, <2>4
  <2>6. DOMAIN t = 1..m
    BY <2>4, <2>5, LenProperties
  <2> HIDE DEF t
  <2> QED BY <2>4, <2>5, <2>6
<1>4. Cut(s, n) = t
  BY DEF Cut, m
<1> HIDE DEF t
<1>5. \A i \in DOMAIN t : i \in DOMAIN s /\ t[i] = s[i]
  <2>1. l \in Nat /\ m <= l /\ m \in Int /\ DOMAIN s = 1..l
    BY <1>1, <1>2
  <2> HIDE DEF l
  <2> QED BY <2>1, <1>3
<1>6. Distinct(s) => Distinct(t)
  BY <1>5 DEF Distinct
<1>7. ToSet(t) \subseteq ToSet(s)
  BY <1>5 DEF ToSet
<1> QED BY <1>2, <1>3, <1>4, <1>5, <1>6, <1>7

\* What is listed in an order is a list without repetition.
LEMMA ListsIs ==
  ASSUME NEW S \in SUBSET Int, IsFiniteSet(S), NEW D \in [S -> Int], NEW s, Lists(s, S, D),
         s = [i \in DOMAIN s |-> s[i]]
  PROVE  s \in Seq(S) /\ Distinct(s) /\ ToSet(s) = S /\ Len(s) = Cardinality(S)
<1>1. Cardinality(S) \in Nat
  BY FS_CardinalityType
<1>2. DOMAIN s = 1..Cardinality(S) /\ \A i \in DOMAIN s : s[i] \in S
  BY DEF Lists
<1>3. s \in [1..Cardinality(S) -> S]
  BY <1>2
<1>4. s \in Seq(S) /\ Len(s) = Cardinality(S)
  BY <1>1, <1>3, ListType
<1>5. Distinct(s)
  <2>1. SUFFICES ASSUME NEW i \in DOMAIN s, NEW j \in DOMAIN s, s[i] = s[j], i # j PROVE FALSE
    BY DEF Distinct
  <2>2. i < j \/ j < i
    BY <1>1, <1>2, <2>1
  <2>3. s[i] \in Int /\ D[s[i]] \in Int
    BY <1>2
  <2>4. \/ D[s[i]] < D[s[j]] \/ (D[s[i]] = D[s[j]] /\ s[i] < s[j])
        \/ D[s[j]] < D[s[i]] \/ (D[s[j]] = D[s[i]] /\ s[j] < s[i])
    BY <2>2 DEF Lists
  <2> QED BY <2>1, <2>3, <2>4
<1>6. ToSet(s) = S
  BY <1>2 DEF Lists, ToSet
<1> QED BY <1>4, <1>5, <1>6

\* Maps from numbers to R.
Maps(R) == UNION {[S -> R] : S \in SUBSET Nat}

LEMMA MapIs ==
  ASSUME NEW R, NEW f
  PROVE  f \in Maps(R) <=> DOMAIN f \in SUBSET Nat /\ f \in [DOMAIN f -> R]
BY DEF Maps

LEMMA PutDomain ==
  ASSUME NEW f, NEW k, NEW v
  PROVE  DOMAIN Put(f, k, v) = DOMAIN f \cup {k}
BY PutIs

LEMMA PutNew ==
  ASSUME NEW f, NEW k, NEW v
  PROVE  Put(f, k, v)[k] = v
BY PutIs

LEMMA PutOld ==
  ASSUME NEW f, NEW k, NEW v, NEW y \in DOMAIN f, y # k
  PROVE  Put(f, k, v)[y] = f[y]
BY PutIs

LEMMA PutMap ==
  ASSUME NEW R, NEW f \in Maps(R), NEW k \in Nat, NEW v \in R
  PROVE  Put(f, k, v) \in Maps(R)
<1> DEFINE g == [y \in DOMAIN f \cup {k} |-> IF y = k THEN v ELSE f[y]]
<1>1. Put(f, k, v) = g
  BY PutIs
<1>2. DOMAIN f \in SUBSET Nat /\ f \in [DOMAIN f -> R]
  BY MapIs
<1>3. DOMAIN g \in SUBSET Nat /\ g \in [DOMAIN g -> R]
  BY <1>2
<1>4. g \in Maps(R)
  BY <1>3, MapIs
<1> QED BY <1>1, <1>4

LEMMA DropMap ==
  ASSUME NEW R, NEW f \in Maps(R), NEW k
  PROVE  Drop(f, k) \in Maps(R) /\ DOMAIN Drop(f, k) = DOMAIN f \ {k}
         /\ \A y \in DOMAIN f \ {k} : Drop(f, k)[y] = f[y]
<1>1. DOMAIN f \in SUBSET Nat /\ f \in [DOMAIN f -> R]
  BY MapIs
<1>2. Drop(f, k) = [y \in DOMAIN f \ {k} |-> f[y]]
  BY DEF Drop
<1>3. Drop(f, k) \in [DOMAIN f \ {k} -> R]
  BY <1>1, <1>2
<1> QED BY <1>1, <1>2, <1>3, MapIs

-----------------------------------------------------------------------------
(* Walks *)

\* The nodes of a layer, and what the list of links of one of them has to be.
Layer(x, lv) == {k \in DOMAIN x.levels : x.levels[k] >= lv}
ListOK(x, lv, k, nbs) ==
  nbs \in Seq(Layer(x, lv) \ {k}) /\ Len(nbs) <= MaxLinks(lv) /\ Distinct(nbs)
LinksOK(x) ==
  \A lv \in DOMAIN x.links : \A k \in DOMAIN x.links[lv] :
    k \in Layer(x, lv) /\ ListOK(x, lv, k, x.links[lv][k])

\* A graph whose nodes can all be compared with q.
Walkable(x, q) ==
  /\ IsFiniteSet(DOMAIN x.levels) /\ DOMAIN x.levels \in SUBSET Nat
  /\ \A k \in DOMAIN x.levels : x.levels[k] \in Nat
  /\ \A k \in DOMAIN x.levels : QueryDist(x, q, k) \in Nat
  /\ LinksOK(x)

LEMMA LayerIs ==
  ASSUME NEW x, NEW q, Walkable(x, q), NEW lv
  PROVE  /\ Layer(x, lv) \in SUBSET Nat /\ IsFiniteSet(Layer(x, lv))
         /\ \A k \in Layer(x, lv) : QueryDist(x, q, k) \in Nat
BY FS_Subset DEF Layer, Walkable

LEMMA LinksOfIs ==
  ASSUME NEW x, NEW q, Walkable(x, q), NEW lv \in DOMAIN x.links, NEW k
  PROVE  LinksOf(x, lv, k) \in Seq(Layer(x, lv))
<1>1. CASE k \in DOMAIN x.links[lv]
  <2>1. x.links[lv][k] \in Seq(Layer(x, lv) \ {k})
    BY <1>1 DEF Walkable, LinksOK, ListOK
  <2>2. x.links[lv][k] \in Seq(Layer(x, lv))
    BY <2>1, SeqMonotonic
  <2> QED BY <1>1, <2>2 DEF LinksOf
<1>2. CASE k \notin DOMAIN x.links[lv]
  BY <1>2, EmptySeq DEF LinksOf
<1> QED BY <1>1, <1>2

LEMMA CloserIs ==
  ASSUME NEW x, NEW q, Walkable(x, q), NEW lv \in DOMAIN x.links, NEW ep \in Layer(x, lv)
  PROVE  Closer(x, q, ep, lv) \in Layer(x, lv)
<1> DEFINE nbs == LinksOf(x, lv, ep)
           D(i) == QueryDist(x, q, nbs[i])
           Least(i) == \A h \in DOMAIN nbs : D(i) < D(h) \/ (D(i) = D(h) /\ i <= h)
           j == CHOOSE i \in DOMAIN nbs : Least(i)
<1>1. nbs \in Seq(Layer(x, lv))
  BY LinksOfIs
<1>2. Closer(x, q, ep, lv) = IF nbs # <<>> /\ D(j) < QueryDist(x, q, ep) THEN nbs[j] ELSE ep
  BY DEF Closer
<1>3. ASSUME nbs # <<>> PROVE nbs[j] \in Layer(x, lv)
  <2>1. DOMAIN nbs = 1..Len(nbs) /\ Len(nbs) \in Nat /\ Len(nbs) # 0
    BY <1>1, <1>3, LenProperties, EmptySeq
  <2>2. DOMAIN nbs \in SUBSET Nat /\ DOMAIN nbs # {}
    BY <2>1
  <2>3. \A i \in DOMAIN nbs : nbs[i] \in Layer(x, lv)
    BY <1>1, ElementOfSeq, <2>1
  <2>4. \A i \in DOMAIN nbs : D(i) \in Nat
    BY <2>3, LayerIs
  <2> DEFINE E == [i \in DOMAIN nbs |-> D(i)]
  <2>5. E \in [DOMAIN nbs -> Nat]
    BY <2>4
  <2>6. \A i \in DOMAIN nbs : E[i] = D(i)
    OBVIOUS
  <2> HIDE DEF E, D, nbs
  <2>7. PICK i \in DOMAIN nbs : \A h \in DOMAIN nbs : E[i] < E[h] \/ (E[i] = E[h] /\ i <= h)
    BY <2>2, <2>5, LeastByKey
  <2>8. Least(i)
    BY <2>6, <2>7
  <2>9. j \in DOMAIN nbs
    BY <2>8
  <2> QED BY <2>3, <2>9
<1> QED BY <1>2, <1>3

\* Nearest is in the set: there is a nearest.
LEMMA NearestIs ==
  ASSUME NEW x, NEW q, NEW S \in SUBSET Nat, S # {}, \A k \in S : QueryDist(x, q, k) \in Nat
  PROVE  Nearest(x, q, S) \in S
<1> DEFINE D == [k \in S |-> QueryDist(x, q, k)]
<1>1. D \in [S -> Nat] /\ \A k \in S : D[k] = QueryDist(x, q, k)
  OBVIOUS
<1> HIDE DEF D
<1>2. PICK a \in S : \A b \in S : D[a] < D[b] \/ (D[a] = D[b] /\ a <= b)
  BY <1>1, LeastByKey
<1>3. \A b \in S \ {a} : Nearer(x, q, a, b)
  <2>1. SUFFICES ASSUME NEW b \in S \ {a} PROVE Nearer(x, q, a, b)
    OBVIOUS
  <2>2. a < b \/ ~ (a <= b)
    OBVIOUS
  <2> QED BY <1>1, <1>2, <2>2 DEF Nearer
<1> QED BY <1>3 DEF Nearest

LEMMA GreedyDescendIs ==
  ASSUME NEW x, NEW q, Walkable(x, q), NEW lv \in DOMAIN x.links, NEW ep \in Layer(x, lv)
  PROVE  GreedyDescend(x, q, ep, lv) \in Layer(x, lv)
<1> DEFINE n == Cardinality(DOMAIN x.levels)
           V == [i \in 0..n |-> Layer(x, lv)]
           step == [i \in 1..n |-> [e \in V[i - 1] |-> Closer(x, q, e, lv)]]
           state == CHOOSE g : g = [i \in 0..n |-> IF i = 0 THEN ep ELSE Closer(x, q, g[i - 1], lv)]
<1>1. n \in Nat
  BY FS_CardinalityType DEF Walkable
<1>2. GreedyDescend(x, q, ep, lv) = state[n]
  BY DEF GreedyDescend, Iterate
<1>3. ASSUME NEW i \in 1..n PROVE i - 1 \in 0..n /\ i \in 0..n
  BY <1>1
<1>4. ASSUME NEW i \in 1..n, NEW e \in V[i - 1] PROVE Closer(x, q, e, lv) \in V[i]
  BY <1>3, CloserIs
<1>5. ep \in V[0]
  BY <1>1
<1> HIDE DEF V, n
<1>6. Leads(step, V, n)
  BY <1>4 DEF Leads
<1>7. \A i \in 1..n : \A e \in V[i - 1] : step[i][e] = Closer(x, q, e, lv)
  OBVIOUS
<1> HIDE DEF step
<1>8. PICK f : Takes(f, ep, step, V, n)
  BY <1>1, <1>5, <1>6, IterationExists
<1>9. \A i \in 0..n : f[i] = IF i = 0 THEN ep ELSE Closer(x, q, f[i - 1], lv)
  <2>1. \A i \in 1..n : f[i] = Closer(x, q, f[i - 1], lv)
    BY <1>7, <1>8 DEF Takes
  <2>2. f[0] = ep /\ \A i \in 0..n : i = 0 \/ i \in 1..n
    BY <1>1, <1>8 DEF Takes
  <2> QED BY <2>1, <2>2
<1>10. f = [i \in 0..n |-> IF i = 0 THEN ep ELSE Closer(x, q, f[i - 1], lv)]
  BY <1>8, <1>9 DEF Takes
<1>11. state = [i \in 0..n |-> IF i = 0 THEN ep ELSE Closer(x, q, state[i - 1], lv)]
  BY <1>10
<1> HIDE DEF state
<1>12. Stays(state, V, n)
  BY <1>1, <1>4, <1>5, <1>11 DEF Stays
<1>13. state[n] \in V[n]
  BY <1>1, <1>12, IterationIn
<1> QED BY <1>1, <1>2, <1>13 DEF V

\* An entry point in the top layer, and layers down from there.
Rooted(x) ==
  /\ x.entry \in DOMAIN x.levels /\ x.levels[x.entry] = x.top /\ 0..x.top \subseteq DOMAIN x.links

LEMMA DescendIs ==
  ASSUME NEW x, NEW q, Walkable(x, q), Rooted(x), NEW level \in Nat
  PROVE  Descend(x, q, level) \in Layer(x, IF level <= x.top THEN level ELSE x.top)
<1> DEFINE n == Max({x.top - level, 0})
           V == [i \in 0..n |-> Layer(x, IF i = 0 THEN x.top ELSE x.top + 1 - i)]
           step == [i \in 1..n |-> [e \in V[i - 1] |-> GreedyDescend(x, q, e, x.top + 1 - i)]]
           state == CHOOSE g : g = [i \in 0..n |-> IF i = 0 THEN x.entry ELSE GreedyDescend(x, q, g[i - 1], x.top + 1 - i)]
<1>1. x.top \in Nat /\ \A k \in DOMAIN x.levels : x.levels[k] \in Nat
  BY DEF Walkable, Rooted
<1>2. n = IF level <= x.top THEN x.top - level ELSE 0
  BY <1>1, MaxOfTwo
<1>3. n \in Nat /\ n <= x.top
  BY <1>1, <1>2
<1>4. Descend(x, q, level) = state[n]
  BY DEF Descend, Iterate
<1>5. V[0] = Layer(x, x.top) /\ \A i \in 1..n : V[i] = Layer(x, x.top + 1 - i)
  BY <1>3
<1>6. V[n] \subseteq Layer(x, IF level <= x.top THEN level ELSE x.top)
  <2>1. CASE n = 0
    BY <1>1, <1>2, <1>5, <2>1 DEF Layer
  <2>2. CASE n # 0
    <3>1. V[n] = Layer(x, x.top + 1 - n)
      BY <1>3, <1>5, <2>2
    <3>2. level <= x.top /\ x.top + 1 - n = level + 1
      BY <1>1, <1>2, <2>2
    <3>3. V[n] = Layer(x, level + 1)
      BY <3>1, <3>2
    <3> HIDE DEF V
    <3> QED BY <1>1, <3>2, <3>3 DEF Layer
  <2> QED BY <2>1, <2>2
<1>7. x.entry \in V[0]
  <2>1. x.entry \in Layer(x, x.top)
    BY <1>1 DEF Rooted, Layer
  <2> HIDE DEF V
  <2> QED BY <1>5, <2>1
<1> HIDE DEF V, n
<1>8. ASSUME NEW i \in 1..n, NEW e \in V[i - 1] PROVE GreedyDescend(x, q, e, x.top + 1 - i) \in V[i]
  <2>1. x.top + 1 - i \in 0..x.top
    BY <1>1, <1>3
  <2>2. e \in Layer(x, x.top + 1 - i)
    <3>1. CASE i = 1
      BY <1>1, <1>5, <1>8, <3>1
    <3>2. CASE i # 1
      <4>1. i - 1 \in 1..n
        BY <1>3, <3>2
      <4>2. e \in Layer(x, x.top + 1 - (i - 1))
        BY <1>5, <1>8, <4>1
      <4> QED BY <1>1, <4>2 DEF Layer
    <3> QED BY <3>1, <3>2
  <2>3. x.top + 1 - i \in DOMAIN x.links
    BY <2>1 DEF Rooted
  <2>4. GreedyDescend(x, q, e, x.top + 1 - i) \in Layer(x, x.top + 1 - i)
    BY <2>2, <2>3, GreedyDescendIs
  <2> QED BY <1>5, <2>4
<1>10. Leads(step, V, n)
  BY <1>8 DEF Leads
<1>11. \A i \in 1..n : \A e \in V[i - 1] : step[i][e] = GreedyDescend(x, q, e, x.top + 1 - i)
  OBVIOUS
<1> HIDE DEF step
<1>12. PICK f : Takes(f, x.entry, step, V, n)
  BY <1>3, <1>7, <1>10, IterationExists
<1>13. \A i \in 0..n : f[i] = IF i = 0 THEN x.entry ELSE GreedyDescend(x, q, f[i - 1], x.top + 1 - i)
  <2>1. \A i \in 1..n : f[i] = GreedyDescend(x, q, f[i - 1], x.top + 1 - i)
    BY <1>11, <1>12 DEF Takes
  <2>2. f[0] = x.entry /\ \A i \in 0..n : i = 0 \/ i \in 1..n
    BY <1>3, <1>12 DEF Takes
  <2> QED BY <2>1, <2>2
<1>14. f = [i \in 0..n |-> IF i = 0 THEN x.entry ELSE GreedyDescend(x, q, f[i - 1], x.top + 1 - i)]
  BY <1>12, <1>13 DEF Takes
<1>15. state = [i \in 0..n |-> IF i = 0 THEN x.entry ELSE GreedyDescend(x, q, state[i - 1], x.top + 1 - i)]
  BY <1>14
<1> HIDE DEF state
<1>16. Stays(state, V, n)
  BY <1>3, <1>8, <1>7, <1>15 DEF Stays
<1>17. state[n] \in V[n]
  BY <1>3, <1>16, IterationIn
<1> QED BY <1>4, <1>6, <1>17

\* What a beam has in hand: candidates, results and nodes met, of one layer.
Beams(x, lv, ok) ==
  [cand : SUBSET Layer(x, lv), res : SUBSET (ok \cap Layer(x, lv)), met : SUBSET Layer(x, lv)]

LEMMA ConsiderIs ==
  ASSUME NEW x, NEW q, Walkable(x, q), NEW lv, NEW ok, NEW ef \in Nat,
         NEW s \in Beams(x, lv, ok), NEW k \in Layer(x, lv)
  PROVE  /\ Consider(x, q, ef, ok, s, k) \in Beams(x, lv, ok)
         /\ s.res # {} /\ ef >= 1 => Consider(x, q, ef, ok, s, k).res # {}
<1> DEFINE res == s.res \cup ({k} \cap ok)
           w == Worst(x, q, res)
           r == IF Cardinality(res) > ef THEN res \ {w} ELSE res
           t == [s EXCEPT !.cand = @ \cup {k}, !.res = r]
<1>1. Consider(x, q, ef, ok, s, k) = s \/ Consider(x, q, ef, ok, s, k) = t
  BY DEF Consider
<1>2. res \in SUBSET (ok \cap Layer(x, lv))
  BY DEF Beams
<1>3. t \in Beams(x, lv, ok) /\ t.res = r
  <2>1. r \in SUBSET (ok \cap Layer(x, lv))
    BY <1>2
  <2> HIDE DEF r
  <2> QED BY <2>1 DEF Beams
<1>4. s.res # {} /\ ef >= 1 => r # {}
  <2>1. SUFFICES ASSUME s.res # {}, ef >= 1, r = {} PROVE FALSE
    OBVIOUS
  <2>2. IsFiniteSet({w}) /\ Cardinality({w}) = 1
    BY FS_Singleton
  <2>3. res # {}
    BY <2>1
  <2> HIDE DEF w, res
  <2>4. res \subseteq {w} /\ Cardinality(res) > ef
    BY <2>1, <2>3
  <2>5. Cardinality(res) <= 1 /\ IsFiniteSet(res)
    BY <2>2, <2>4, FS_Subset
  <2>6. Cardinality(res) \in Nat
    BY <2>5, FS_CardinalityType
  <2> QED BY <2>1, <2>4, <2>5, <2>6
<1> HIDE DEF t, r
<1> QED BY <1>1, <1>3, <1>4

LEMMA RoundIs ==
  ASSUME NEW x, NEW q, Walkable(x, q), NEW lv \in DOMAIN x.links, NEW ok, NEW ef \in Nat,
         NEW s \in Beams(x, lv, ok)
  PROVE  /\ Round(x, q, ef, lv, ok, s) \in Beams(x, lv, ok)
         /\ s.res # {} /\ ef >= 1 => Round(x, q, ef, lv, ok, s).res # {}
<1> DEFINE node == Nearest(x, q, s.cand)
           nbs == LinksOf(x, lv, node)
           fresh == Pick(nbs, {i \in DOMAIN nbs : nbs[i] \notin s.met})
           base == [s EXCEPT !.cand = @ \ {node}, !.met = @ \cup ToSet(fresh)]
<1> DEFINE n == Len(fresh)
           V == [i \in 0..n |-> {t \in Beams(x, lv, ok) : s.res # {} /\ ef >= 1 => t.res # {}}]
           step == [i \in 1..n |-> [t \in V[i - 1] |-> Consider(x, q, ef, ok, t, fresh[i])]]
           state == CHOOSE g : g = [i \in 0..n |-> IF i = 0 THEN base ELSE Consider(x, q, ef, ok, g[i - 1], fresh[i])]
<1>1. nbs \in Seq(Layer(x, lv))
  BY LinksOfIs
<1>2. fresh \in Seq(Layer(x, lv))
  BY <1>1, PickType
<1>3. n \in Nat /\ DOMAIN fresh = 1..n /\ \A i \in 1..n : fresh[i] \in Layer(x, lv)
  BY <1>2, LenProperties, ElementOfSeq
<1>4. Round(x, q, ef, lv, ok, s) = s \/ Round(x, q, ef, lv, ok, s) = state[n]
  BY DEF Round, Iterate
<1> HIDE DEF node, nbs, fresh
<1>5. base \in Beams(x, lv, ok) /\ base.res = s.res
  <2>1. ToSet(fresh) \in SUBSET Layer(x, lv)
    BY <1>3 DEF ToSet
  <2> QED BY <2>1 DEF Beams
<1> HIDE DEF base, n
<1>6. base \in V[0]
  BY <1>3, <1>5
<1>7. ASSUME NEW i \in 1..n, NEW t \in V[i - 1] PROVE Consider(x, q, ef, ok, t, fresh[i]) \in V[i]
  <2>1. i - 1 \in 0..n /\ i \in 0..n
    BY <1>3
  <2>2. t \in Beams(x, lv, ok) /\ (s.res # {} /\ ef >= 1 => t.res # {})
    BY <2>1
  <2>3. /\ Consider(x, q, ef, ok, t, fresh[i]) \in Beams(x, lv, ok)
        /\ t.res # {} /\ ef >= 1 => Consider(x, q, ef, ok, t, fresh[i]).res # {}
    BY <1>3, <2>2, ConsiderIs
  <2> QED BY <2>1, <2>2, <2>3
<1>8. V[n] = {t \in Beams(x, lv, ok) : s.res # {} /\ ef >= 1 => t.res # {}}
  BY <1>3
<1> HIDE DEF V
<1>10. Leads(step, V, n)
  BY <1>7 DEF Leads
<1>11. \A i \in 1..n : \A t \in V[i - 1] : step[i][t] = Consider(x, q, ef, ok, t, fresh[i])
  OBVIOUS
<1> HIDE DEF step
<1>12. PICK f : Takes(f, base, step, V, n)
  BY <1>3, <1>6, <1>10, IterationExists
<1>13. \A i \in 0..n : f[i] = IF i = 0 THEN base ELSE Consider(x, q, ef, ok, f[i - 1], fresh[i])
  <2>1. \A i \in 1..n : f[i] = Consider(x, q, ef, ok, f[i - 1], fresh[i])
    BY <1>11, <1>12 DEF Takes
  <2>2. f[0] = base /\ \A i \in 0..n : i = 0 \/ i \in 1..n
    BY <1>3, <1>12 DEF Takes
  <2> QED BY <2>1, <2>2
<1>14. f = [i \in 0..n |-> IF i = 0 THEN base ELSE Consider(x, q, ef, ok, f[i - 1], fresh[i])]
  BY <1>12, <1>13 DEF Takes
<1>15. state = [i \in 0..n |-> IF i = 0 THEN base ELSE Consider(x, q, ef, ok, state[i - 1], fresh[i])]
  BY <1>14
<1> HIDE DEF state
<1>16. Stays(state, V, n)
  BY <1>3, <1>7, <1>6, <1>15 DEF Stays
<1>17. state[n] \in V[n]
  BY <1>3, <1>16, IterationIn
<1> QED BY <1>4, <1>8, <1>17

\* A beam returns allowed nodes of the layer, and some when it starts in one.
LEMMA SearchLayerIs ==
  ASSUME NEW x, NEW q, Walkable(x, q), NEW lv \in DOMAIN x.links, NEW ok, NEW ef \in Nat,
         NEW ep \in Layer(x, lv)
  PROVE  /\ SearchLayer(x, q, ep, ef, lv, ok) \in SUBSET (ok \cap Layer(x, lv))
         /\ ep \in ok /\ ef >= 1 => SearchLayer(x, q, ep, ef, lv, ok) # {}
<1> DEFINE base == [cand |-> {ep}, res |-> {ep} \cap ok, met |-> {ep}]
<1> DEFINE n == Cardinality(DOMAIN x.levels)
           V == [i \in 0..n |-> {t \in Beams(x, lv, ok) : ep \in ok /\ ef >= 1 => t.res # {}}]
           step == [i \in 1..n |-> [t \in V[i - 1] |-> Round(x, q, ef, lv, ok, t)]]
           state == CHOOSE g : g = [i \in 0..n |-> IF i = 0 THEN base ELSE Round(x, q, ef, lv, ok, g[i - 1])]
<1>1. n \in Nat
  BY FS_CardinalityType DEF Walkable
<1>2. SearchLayer(x, q, ep, ef, lv, ok) = state[n].res
  BY DEF SearchLayer, Iterate
<1>3. base \in Beams(x, lv, ok) /\ (ep \in ok => base.res # {})
  BY DEF Beams
<1> HIDE DEF base, n
<1>4. base \in V[0]
  BY <1>1, <1>3
<1>5. ASSUME NEW i \in 1..n, NEW t \in V[i - 1] PROVE Round(x, q, ef, lv, ok, t) \in V[i]
  <2>1. i - 1 \in 0..n /\ i \in 0..n
    BY <1>1
  <2>2. t \in Beams(x, lv, ok) /\ (ep \in ok /\ ef >= 1 => t.res # {})
    BY <2>1
  <2>3. /\ Round(x, q, ef, lv, ok, t) \in Beams(x, lv, ok)
        /\ t.res # {} /\ ef >= 1 => Round(x, q, ef, lv, ok, t).res # {}
    BY <2>2, RoundIs
  <2> QED BY <2>1, <2>2, <2>3
<1>6. V[n] = {t \in Beams(x, lv, ok) : ep \in ok /\ ef >= 1 => t.res # {}}
  BY <1>1
<1> HIDE DEF V
<1>10. Leads(step, V, n)
  BY <1>5 DEF Leads
<1>11. \A i \in 1..n : \A t \in V[i - 1] : step[i][t] = Round(x, q, ef, lv, ok, t)
  OBVIOUS
<1> HIDE DEF step
<1>12. PICK f : Takes(f, base, step, V, n)
  BY <1>1, <1>4, <1>10, IterationExists
<1>13. \A i \in 0..n : f[i] = IF i = 0 THEN base ELSE Round(x, q, ef, lv, ok, f[i - 1])
  <2>1. \A i \in 1..n : f[i] = Round(x, q, ef, lv, ok, f[i - 1])
    BY <1>11, <1>12 DEF Takes
  <2>2. f[0] = base /\ \A i \in 0..n : i = 0 \/ i \in 1..n
    BY <1>1, <1>12 DEF Takes
  <2> QED BY <2>1, <2>2
<1>14. f = [i \in 0..n |-> IF i = 0 THEN base ELSE Round(x, q, ef, lv, ok, f[i - 1])]
  BY <1>12, <1>13 DEF Takes
<1>15. state = [i \in 0..n |-> IF i = 0 THEN base ELSE Round(x, q, ef, lv, ok, state[i - 1])]
  BY <1>14
<1> HIDE DEF state
<1>16. Stays(state, V, n)
  BY <1>1, <1>5, <1>4, <1>15 DEF Stays
<1>17. state[n] \in V[n]
  BY <1>1, <1>16, IterationIn
<1> QED BY <1>2, <1>6, <1>17 DEF Beams

-----------------------------------------------------------------------------
(* Links *)

\* What has been chosen from the first i of a list, and what has been passed over.
Parts(P, pool, i) ==
  {s \in [selected : Seq(P), discarded : Seq(P)] :
     /\ Distinct(s.selected) /\ Distinct(s.discarded)
     /\ ToSet(s.selected) \cap ToSet(s.discarded) = {}
     /\ \A e \in ToSet(s.selected) \cup ToSet(s.discarded) : \E j \in 1..i : pool[j] = e}

LEMMA PartsGrow ==
  ASSUME NEW P, NEW pool \in Seq(P), Distinct(pool), NEW i \in DOMAIN pool,
         NEW s \in Parts(P, pool, i - 1)
  PROVE  /\ s \in Parts(P, pool, i)
         /\ [s EXCEPT !.selected = Append(@, pool[i])] \in Parts(P, pool, i)
         /\ [s EXCEPT !.discarded = Append(@, pool[i])] \in Parts(P, pool, i)
<1> DEFINE c == pool[i]
           E == ToSet(s.selected) \cup ToSet(s.discarded)
           a == Append(s.selected, c)
           b == Append(s.discarded, c)
<1>1. DOMAIN pool = 1..Len(pool) /\ Len(pool) \in Nat /\ c \in P /\ i \in Nat
  BY LenProperties, ElementOfSeq
<1>2. /\ s \in [selected : Seq(P), discarded : Seq(P)]
      /\ Distinct(s.selected) /\ Distinct(s.discarded)
      /\ ToSet(s.selected) \cap ToSet(s.discarded) = {}
      /\ \A e \in E : \E j \in 1..i - 1 : pool[j] = e
  BY DEF Parts
<1>3. \A j \in 1..i - 1 : j \in 1..i /\ j \in DOMAIN pool /\ j # i
  BY <1>1
<1>4. \A e \in E : (\E j \in 1..i : pool[j] = e) /\ e # c
  BY <1>2, <1>3 DEF Distinct
<1>5. \E j \in 1..i : pool[j] = c
  BY <1>1
<1>6. s.selected \in Seq(P) /\ s.discarded \in Seq(P)
  BY <1>2
<1>7. a \in Seq(P) /\ Distinct(a) /\ ToSet(a) = ToSet(s.selected) \cup {c}
  BY <1>1, <1>2, <1>4, <1>6, DistinctAppend
<1>8. b \in Seq(P) /\ Distinct(b) /\ ToSet(b) = ToSet(s.discarded) \cup {c}
  BY <1>1, <1>2, <1>4, <1>6, DistinctAppend
<1> HIDE DEF c, a, b
<1>9. s \in Parts(P, pool, i)
  BY <1>2, <1>4 DEF Parts
<1>10. ASSUME NEW t, t = [s EXCEPT !.selected = a] PROVE t \in Parts(P, pool, i)
  <2>1. t \in [selected : Seq(P), discarded : Seq(P)] /\ t.selected = a /\ t.discarded = s.discarded
    BY <1>2, <1>7, <1>10
  <2> QED BY <1>2, <1>4, <1>5, <1>7, <2>1 DEF Parts
<1>11. ASSUME NEW t, t = [s EXCEPT !.discarded = b] PROVE t \in Parts(P, pool, i)
  <2>1. t \in [selected : Seq(P), discarded : Seq(P)] /\ t.selected = s.selected /\ t.discarded = b
    BY <1>2, <1>8, <1>11
  <2> QED BY <1>2, <1>4, <1>5, <1>8, <2>1 DEF Parts
<1>12. /\ [s EXCEPT !.selected = Append(@, pool[i])] = [s EXCEPT !.selected = a]
       /\ [s EXCEPT !.discarded = Append(@, pool[i])] = [s EXCEPT !.discarded = b]
  BY DEF a, b, c
<1> QED BY <1>9, <1>10, <1>11, <1>12

\* The neighbours that are selected: candidates other than the node, each once,
\* and no more than asked for.
LEMMA SelectNeighborsIs ==
  ASSUME NEW x, NEW base, NEW F \in SUBSET Nat, IsFiniteSet(F), NEW D \in [F -> Nat], NEW m \in Nat
  PROVE  /\ SelectNeighbors(x, base, D, m) \in Seq(F \ {base})
         /\ Len(SelectNeighbors(x, base, D, m)) <= m
         /\ Distinct(SelectNeighbors(x, base, D, m))
<1> DEFINE P == DOMAIN D \ {base}
           K == [o \in P |-> D[o]]
           below == [o \in P |-> {y \in P : D[y] < D[o] \/ (D[y] = D[o] /\ y < o)}]
           Below(o) == Cardinality({y \in P : D[y] < D[o] \/ (D[y] = D[o] /\ y < o)})
           pool == [i \in 1..Cardinality(P) |-> CHOOSE o \in P : Below(o) = i - 1]
           empty == [selected |-> <<>>, discarded |-> <<>>]
           Choose(s, c) ==
             IF Len(s.selected) >= m THEN s
             ELSE IF \A i \in DOMAIN s.selected : PairDist(x, c, s.selected[i]) >= D[c]
                  THEN [s EXCEPT !.selected = Append(@, c)]
                  ELSE [s EXCEPT !.discarded = Append(@, c)]
<1> DEFINE n == Len(pool)
           V == [i \in 0..n |-> Parts(P, pool, i)]
           step == [i \in 1..n |-> [s \in V[i - 1] |-> Choose(s, pool[i])]]
           state == CHOOSE g : g = [i \in 0..n |-> IF i = 0 THEN empty ELSE Choose(g[i - 1], pool[i])]
<1>5. SelectNeighbors(x, base, D, m) = Cut(state[n].selected \o state[n].discarded, m)
  BY DEF SelectNeighbors, Sorted, Iterate
<1> HIDE DEF state, step, V, n
<1>0. P = F \ {base} /\ P \in SUBSET F
  OBVIOUS
<1>1. P \in SUBSET Int /\ IsFiniteSet(P)
  <2>1. \A y \in P : y \in Int
    BY <1>0
  <2>2. IsFiniteSet(P)
    BY <1>0, FS_Subset
  <2> QED BY <2>1, <2>2
<1>2. K \in [P -> Int] /\ below \in [P -> SUBSET P] /\ \A o \in P : Cardinality(below[o]) = Below(o)
  <2>1. \A o \in P : D[o] \in Int
    BY <1>0
  <2>4. K \in [P -> Int]
    BY <2>1
  <2>2. below \in [P -> SUBSET P]
    OBVIOUS
  <2>3. \A o \in P : Cardinality(below[o]) = Below(o)
    OBVIOUS
  <2> QED BY <2>2, <2>3, <2>4
<1>3. Lists(pool, P, K)
  <2>1. \A y, o \in P : y \in below[o] <=> K[y] < K[o] \/ (K[y] = K[o] /\ y < o)
    OBVIOUS
  <2> HIDE DEF Below
  <2>2. /\ DOMAIN pool = 1..Cardinality(P)
        /\ \A i \in DOMAIN pool : (\E o \in P : Below(o) = i - 1) =>
             pool[i] \in P /\ Below(pool[i]) = i - 1
    OBVIOUS
  <2> HIDE DEF P, K, below, pool
  <2>3. \A i \in DOMAIN pool : (\E o \in P : Cardinality(below[o]) = i - 1) =>
             pool[i] \in P /\ Cardinality(below[pool[i]]) = i - 1
    BY <1>2, <2>2
  <2>4. Numbers(pool, P, K, below)
    BY <1>1, <1>2, <2>1, <2>2, <2>3 DEF Numbers
  <2> QED BY <2>4, SortedByKey
<1>4. pool = [i \in DOMAIN pool |-> pool[i]]
  <2> DEFINE At(i) == CHOOSE o \in P : Below(o) = i - 1
  <2>1. pool = [i \in 1..Cardinality(P) |-> At(i)]
    OBVIOUS
  <2> HIDE DEF At, pool
  <2> QED BY <2>1
<1> HIDE DEF P, K, pool
<1>6. pool \in Seq(P) /\ Distinct(pool)
  BY <1>1, <1>2, <1>3, <1>4, ListsIs
<1>7. n \in Nat /\ DOMAIN pool = 1..n
  BY <1>6, LenProperties DEF n
<1> USE DEF V, step, state
<1>8. empty \in V[0]
  <2>1. <<>> \in Seq(P) /\ DOMAIN << >> = {}
    BY EmptySeq
  <2>2. Distinct(<<>>) /\ ToSet(<<>>) = {}
    BY <2>1 DEF Distinct, ToSet
  <2>3. empty \in Parts(P, pool, 0)
    BY <2>1, <2>2 DEF Parts
  <2> HIDE DEF empty, n
  <2> QED BY <1>7, <2>3
<1> HIDE DEF empty, n
<1>9. ASSUME NEW i \in 1..n, NEW s \in V[i - 1] PROVE Choose(s, pool[i]) \in V[i]
  <2>1. i - 1 \in 0..n /\ i \in 0..n
    BY <1>7
  <2>2. s \in Parts(P, pool, i - 1)
    BY <2>1
  <2>3. /\ s \in Parts(P, pool, i)
        /\ [s EXCEPT !.selected = Append(@, pool[i])] \in Parts(P, pool, i)
        /\ [s EXCEPT !.discarded = Append(@, pool[i])] \in Parts(P, pool, i)
    BY <1>6, <1>7, <2>2, PartsGrow
  <2>4. Choose(s, pool[i]) \in Parts(P, pool, i)
    BY <2>3
  <2> HIDE DEF Choose
  <2> QED BY <2>1, <2>4
<1>18. V[n] = Parts(P, pool, n)
  BY <1>7
<1> HIDE DEF V, Choose
<1>10. Leads(step, V, n)
  BY <1>9 DEF Leads
<1>11. \A i \in 1..n : \A s \in V[i - 1] : step[i][s] = Choose(s, pool[i])
  OBVIOUS
<1> HIDE DEF step
<1>12. PICK f : Takes(f, empty, step, V, n)
  BY <1>7, <1>8, <1>10, IterationExists
<1>13. \A i \in 0..n : f[i] = IF i = 0 THEN empty ELSE Choose(f[i - 1], pool[i])
  <2>1. \A i \in 1..n : f[i] = Choose(f[i - 1], pool[i])
    BY <1>11, <1>12 DEF Takes
  <2>2. f[0] = empty /\ \A i \in 0..n : i = 0 \/ i \in 1..n
    BY <1>7, <1>12 DEF Takes
  <2> QED BY <2>1, <2>2
<1>14. f = [i \in 0..n |-> IF i = 0 THEN empty ELSE Choose(f[i - 1], pool[i])]
  BY <1>12, <1>13 DEF Takes
<1>15. state = [i \in 0..n |-> IF i = 0 THEN empty ELSE Choose(state[i - 1], pool[i])]
  BY <1>14
<1> HIDE DEF state
<1>16. Stays(state, V, n)
  BY <1>7, <1>9, <1>8, <1>15 DEF Stays
<1>17. state[n] \in V[n]
  BY <1>7, <1>16, IterationIn
<1> DEFINE s == state[n]
           l == s.selected \o s.discarded
<1>19. s \in Parts(P, pool, n)
  BY <1>17, <1>18
<1> HIDE DEF s
<1>20. s.selected \in Seq(P) /\ s.discarded \in Seq(P) /\ Distinct(s.selected) /\ Distinct(s.discarded)
       /\ ToSet(s.selected) \cap ToSet(s.discarded) = {}
  BY <1>19 DEF Parts
<1>21. l \in Seq(P) /\ Distinct(l)
  BY <1>20, DistinctConcat
<1>22. SelectNeighbors(x, base, D, m) = Cut(l, m)
  BY <1>5 DEF s
<1> HIDE DEF l
<1>23. Cut(l, m) \in Seq(P) /\ Len(Cut(l, m)) = (IF m <= Len(l) THEN m ELSE Len(l)) /\ Distinct(Cut(l, m))
  BY <1>21, CutIs
<1>24. Len(l) \in Nat
  BY <1>21, LenProperties
<1>25. Len(Cut(l, m)) <= m
  BY <1>23, <1>24
<1> QED BY <1>0, <1>22, <1>23, <1>25

-----------------------------------------------------------------------------
(* The space *)

Index ==
  [kind : {"flat", "hnsw", "hnsw_pq"}, keep : BOOLEAN,
   vec : Maps(Int), code : Maps(Int), pending : Maps(Int), book : SUBSET Int,
   levels : Maps(Nat), links : Maps(Maps(Seq(Nat))), deleted : SUBSET Nat,
   entry : Nat \cup {NoKey}, top : Int]

\* No vector of a quantised index is forgotten.
CodesOK(x) ==
  x.kind = "hnsw_pq" =>
    /\ DOMAIN x.vec \subseteq DOMAIN x.levels
    /\ IF Trained(x)
       THEN /\ DOMAIN x.pending = {} /\ DOMAIN x.code = DOMAIN x.levels
            /\ \A k \in DOMAIN x.vec : x.code[k] = Encode(x.book, x.vec[k])
       ELSE /\ DOMAIN x.pending = DOMAIN x.levels /\ DOMAIN x.code = {}
            /\ \A k \in DOMAIN x.vec : x.pending[k] = x.vec[k]

SpaceOK(x) ==
  /\ x \in Index /\ IsFiniteSet(DOMAIN x.levels)
  /\ x.kind # "hnsw_pq" => x.keep /\ ~Trained(x)
  /\ x.keep => DOMAIN x.levels \subseteq DOMAIN x.vec
  /\ CodesOK(x)

LEMMA DistIs ==
  ASSUME NEW a \in Int, NEW b \in Int
  PROVE  Dist(a, b) \in Nat
BY DEF Dist

\* A vector has a nearest word in a book.
LEMMA EncodeIs ==
  ASSUME NEW book \in SUBSET Int, book # {}, NEW v \in Int
  PROVE  Encode(book, v) \in book
<1> DEFINE W == {Dist(c, v) : c \in book}
<1>1. W \in SUBSET Nat /\ W # {}
  BY DistIs
<1>2. Min(W) \in W /\ \A y \in W : Min(W) <= y
  BY <1>1, MinOfNat
<1>3. \E c \in book : \A b \in book : Dist(c, v) <= Dist(b, v)
  BY <1>2
<1> QED BY <1>3 DEF Encode

\* What is in the space can be compared, but for a quantiser that has kept
\* nothing to compare with.
LEMMA Comparable ==
  ASSUME NEW x, SpaceOK(x), ~Incomparable(x), NEW q \in Int, NEW k \in DOMAIN x.levels
  PROVE  VectorOf(x, k) \in Int /\ QueryDist(x, q, k) \in Nat /\ ExactDist(x, q, k) \in Nat
<1>1. /\ x.vec \in [DOMAIN x.vec -> Int] /\ x.code \in [DOMAIN x.code -> Int]
      /\ x.keep \in BOOLEAN
  BY MapIs DEF SpaceOK, Index
<1>2. Trained(x) => x.code[k] \in Int
  BY <1>1 DEF SpaceOK, CodesOK
<1>3. x.keep => x.vec[k] \in Int
  BY <1>1 DEF SpaceOK
<1>4. x.keep \/ Trained(x)
  BY <1>1 DEF Incomparable
<1>5. VectorOf(x, k) \in Int
  BY <1>2, <1>3, <1>4 DEF VectorOf
<1>6. (IF Trained(x) THEN x.code[k] ELSE x.vec[k]) \in Int
  BY <1>2, <1>3, <1>4
<1> QED BY <1>5, <1>6, DistIs DEF QueryDist, ExactDist

LEMMA PairDistIs ==
  ASSUME NEW x, SpaceOK(x), ~Incomparable(x), NEW a \in DOMAIN x.levels, NEW b \in DOMAIN x.levels
  PROVE  PairDist(x, a, b) \in Nat
<1>1. VectorOf(x, a) \in Int /\ VectorOf(x, b) \in Int
  BY Comparable
<1> QED BY <1>1, DistIs DEF PairDist

\* y keeps what x does, and the vector of a key.
VectorIn(x, y, key, v) ==
  /\ x.keep => y.vec = Put(x.vec, key, v)
  /\ ~x.keep => y.vec = x.vec
  /\ Trained(x) => y.code = Put(x.code, key, Encode(x.book, v))
  /\ ~Trained(x) => y.code = x.code
  /\ x.kind = "hnsw_pq" /\ ~Trained(x) => y.pending = Put(x.pending, key, v)
  /\ x.kind # "hnsw_pq" \/ Trained(x) => y.pending = x.pending

LEMMA SetVectorIs ==
  ASSUME NEW x \in Index, NEW key \in Nat, NEW v \in Int
  PROVE  LET y == SetVector(x, key, v) IN
         /\ y \in Index
         /\ y.kind = x.kind /\ y.keep = x.keep /\ y.book = x.book /\ y.levels = x.levels
         /\ y.links = x.links /\ y.deleted = x.deleted /\ y.entry = x.entry /\ y.top = x.top
         /\ VectorIn(x, y, key, v)
<1> DEFINE a == IF x.keep THEN Put(x.vec, key, v) ELSE x.vec
           b == IF Trained(x) THEN Put(x.code, key, Encode(x.book, v)) ELSE x.code
           c == IF x.kind = "hnsw_pq" /\ ~Trained(x) THEN Put(x.pending, key, v) ELSE x.pending
           y == SetVector(x, key, v)
<1>1. a \in Maps(Int) /\ c \in Maps(Int)
  BY PutMap DEF Index
<1>2. b \in Maps(Int)
  <2>1. CASE Trained(x)
    <3>1. Encode(x.book, v) \in Int
      BY <2>1, EncodeIs DEF Trained, Index
    <3>2. x.code \in Maps(Int)
      BY DEF Index
    <3> QED BY <2>1, <3>1, <3>2, PutMap
  <2>2. CASE ~Trained(x)
    BY <2>2 DEF Index
  <2> QED BY <2>1, <2>2
<1>3. y = [x EXCEPT !.vec = a, !.code = b, !.pending = c]
  BY DEF SetVector
<1> HIDE DEF a, b, c, y
<1>4. /\ y \in Index
      /\ y.kind = x.kind /\ y.keep = x.keep /\ y.book = x.book /\ y.levels = x.levels
      /\ y.links = x.links /\ y.deleted = x.deleted /\ y.entry = x.entry /\ y.top = x.top
      /\ y.vec = a /\ y.code = b /\ y.pending = c
  BY <1>1, <1>2, <1>3 DEF Index
<1> QED BY <1>4 DEF a, b, c, y, VectorIn

\* Adding a new key to the space, and to the levels, keeps them in step.
LEMMA SpaceGrows ==
  ASSUME NEW x, SpaceOK(x), NEW key \in Nat, key \notin DOMAIN x.levels, NEW v \in Int, NEW level \in Nat,
         NEW y \in Index,
         y.kind = x.kind /\ y.keep = x.keep /\ y.book = x.book,
         y.levels = Put(x.levels, key, level),
         VectorIn(x, y, key, v)
  PROVE  SpaceOK(y)
<1>1. x \in Index /\ x.keep \in BOOLEAN /\ x.vec \in Maps(Int) /\ x.code \in Maps(Int)
      /\ x.pending \in Maps(Int) /\ x.levels \in Maps(Nat) /\ x.book \in SUBSET Int
  BY DEF SpaceOK, Index
<1>2. Trained(y) <=> Trained(x)
  BY DEF Trained
<1>3. DOMAIN y.levels = DOMAIN x.levels \cup {key}
  <2>1. DOMAIN Put(x.levels, key, level) = DOMAIN x.levels \cup {key}
    BY ONLY PutDomain
  <2> QED BY <2>1
<1>4. IsFiniteSet(DOMAIN y.levels)
  BY <1>3, FS_AddElement DEF SpaceOK
<1>5. x.keep => /\ DOMAIN y.vec = DOMAIN x.vec \cup {key} /\ y.vec[key] = v
                /\ \A k \in DOMAIN x.vec : k # key => y.vec[k] = x.vec[k]
  <2>1. SUFFICES ASSUME y.vec = Put(x.vec, key, v)
                 PROVE  /\ DOMAIN y.vec = DOMAIN x.vec \cup {key} /\ y.vec[key] = v
                        /\ \A k \in DOMAIN x.vec : k # key => y.vec[k] = x.vec[k]
    BY DEF VectorIn
  <2>2. DOMAIN Put(x.vec, key, v) = DOMAIN x.vec \cup {key}
    BY ONLY PutDomain
  <2>3. Put(x.vec, key, v)[key] = v
    BY ONLY PutNew
  <2>4. \A k \in DOMAIN x.vec : k # key => Put(x.vec, key, v)[k] = x.vec[k]
    BY ONLY PutOld
  <2> QED BY <2>1, <2>2, <2>3, <2>4
<1>6. ~x.keep => y.vec = x.vec
  BY DEF VectorIn
<1>7. y.keep => DOMAIN y.levels \subseteq DOMAIN y.vec
  BY <1>3, <1>5 DEF SpaceOK
<1>8. CodesOK(y)
  <2>1. SUFFICES ASSUME x.kind = "hnsw_pq" PROVE CodesOK(y)
    BY DEF CodesOK
  <2>2. /\ DOMAIN x.vec \subseteq DOMAIN x.levels
        /\ Trained(x) => /\ DOMAIN x.pending = {} /\ DOMAIN x.code = DOMAIN x.levels
                         /\ \A k \in DOMAIN x.vec : x.code[k] = Encode(x.book, x.vec[k])
        /\ ~Trained(x) => /\ DOMAIN x.pending = DOMAIN x.levels /\ DOMAIN x.code = {}
                          /\ \A k \in DOMAIN x.vec : x.pending[k] = x.vec[k]
    BY <2>1 DEF SpaceOK, CodesOK
  <2>3. DOMAIN y.vec \subseteq DOMAIN y.levels
    BY <1>1, <1>3, <1>5, <1>6, <2>2
  <2>4. \A k \in DOMAIN y.vec : (k = key /\ y.vec[k] = v) \/ (k # key /\ k \in DOMAIN x.vec /\ y.vec[k] = x.vec[k])
    BY <1>1, <1>5, <1>6, <2>2
  <2>5. CASE Trained(x)
    <3>1. Encode(x.book, v) \in Int
      BY <1>1, <2>5, EncodeIs DEF Trained
    <3>2. y.code = Put(x.code, key, Encode(x.book, v)) /\ y.pending = x.pending
      BY <2>5 DEF VectorIn
    <3> DEFINE e == Encode(x.book, v)
    <3> HIDE DEF e
    <3>3. /\ DOMAIN y.code = DOMAIN x.code \cup {key} /\ y.code[key] = e
          /\ \A k \in DOMAIN x.code : k # key => y.code[k] = x.code[k]
      <4>1. DOMAIN Put(x.code, key, e) = DOMAIN x.code \cup {key}
        BY ONLY PutDomain
      <4>2. Put(x.code, key, e)[key] = e
        BY ONLY PutNew
      <4>3. \A k \in DOMAIN x.code : k # key => Put(x.code, key, e)[k] = x.code[k]
        BY ONLY PutOld
      <4> QED BY <3>2, <4>1, <4>2, <4>3 DEF e
    <3>4. \A k \in DOMAIN y.vec : y.code[k] = Encode(y.book, y.vec[k])
      BY <2>2, <2>4, <2>5, <3>3 DEF e
    <3> QED BY <1>2, <1>3, <2>2, <2>3, <2>5, <3>2, <3>3, <3>4 DEF CodesOK
  <2>6. CASE ~Trained(x)
    <3>1. y.pending = Put(x.pending, key, v) /\ y.code = x.code
      BY <2>1, <2>6 DEF VectorIn
    <3>2. /\ DOMAIN y.pending = DOMAIN x.pending \cup {key} /\ y.pending[key] = v
          /\ \A k \in DOMAIN x.pending : k # key => y.pending[k] = x.pending[k]
      <4>1. DOMAIN Put(x.pending, key, v) = DOMAIN x.pending \cup {key}
        BY ONLY PutDomain
      <4>2. Put(x.pending, key, v)[key] = v
        BY ONLY PutNew
      <4>3. \A k \in DOMAIN x.pending : k # key => Put(x.pending, key, v)[k] = x.pending[k]
        BY ONLY PutOld
      <4> QED BY <3>1, <4>1, <4>2, <4>3
    <3>3. \A k \in DOMAIN y.vec : y.pending[k] = y.vec[k]
      BY <2>2, <2>4, <2>6, <3>2
    <3> QED BY <1>2, <1>3, <2>2, <2>3, <2>6, <3>1, <3>2, <3>3 DEF CodesOK
  <2> QED BY <2>5, <2>6
<1> QED BY <1>2, <1>4, <1>7, <1>8 DEF SpaceOK

-----------------------------------------------------------------------------
(* The graph *)

LEMMA WalkableIs ==
  ASSUME NEW x, SpaceOK(x), LinksOK(x), ~Incomparable(x), NEW q \in Int
  PROVE  Walkable(x, q)
<1>1. \A k \in DOMAIN x.levels : QueryDist(x, q, k) \in Nat
  BY Comparable
<1>2. x.levels \in Maps(Nat) /\ IsFiniteSet(DOMAIN x.levels)
  BY DEF SpaceOK, Index
<1>3. DOMAIN x.levels \in SUBSET Nat /\ \A k \in DOMAIN x.levels : x.levels[k] \in Nat
  BY <1>2, MapIs
<1> QED BY <1>1, <1>2, <1>3 DEF Walkable

LEMMA MaxLinksIs == \A lv : MaxLinks(lv) \in Nat /\ M \in Nat /\ M <= MaxLinks(lv)
BY IndexAssumption DEF MaxLinks

\* A list stays in order when its layer grows.
LEMMA ListGrows ==
  ASSUME NEW x, NEW y, NEW lv, Layer(x, lv) \subseteq Layer(y, lv), NEW k, NEW nbs, ListOK(x, lv, k, nbs)
  PROVE  ListOK(y, lv, k, nbs)
<1>1. nbs \in Seq(Layer(x, lv) \ {k}) /\ Layer(x, lv) \ {k} \subseteq Layer(y, lv) \ {k}
  BY DEF ListOK
<1>2. nbs \in Seq(Layer(y, lv) \ {k})
  BY <1>1, SeqMonotonic
<1> QED BY <1>2 DEF ListOK

\* x with other links in its layers.
SameNodes(y, x) ==
  /\ y.kind = x.kind /\ y.keep = x.keep /\ y.vec = x.vec /\ y.code = x.code
  /\ y.pending = x.pending /\ y.book = x.book /\ y.levels = x.levels
  /\ y.deleted = x.deleted /\ y.entry = x.entry /\ y.top = x.top
Wired(x) == {y \in Index : SameNodes(y, x) /\ LinksOK(y) /\ DOMAIN y.links = DOMAIN x.links}

LEMMA WiredIs ==
  ASSUME NEW x, SpaceOK(x), NEW y \in Wired(x)
  PROVE  /\ y \in Index /\ SpaceOK(y) /\ LinksOK(y) /\ SameNodes(y, x) /\ DOMAIN y.links = DOMAIN x.links
         /\ Incomparable(y) <=> Incomparable(x)
         /\ \A lv : Layer(y, lv) = Layer(x, lv)
         /\ Wired(y) \subseteq Wired(x)
<1>1. y \in Index /\ SameNodes(y, x) /\ LinksOK(y) /\ DOMAIN y.links = DOMAIN x.links
  BY DEF Wired
<1>2. SpaceOK(y)
  BY <1>1 DEF SpaceOK, SameNodes, CodesOK, Trained
<1>3. Incomparable(y) <=> Incomparable(x)
  BY <1>1 DEF SameNodes, Incomparable, Trained
<1>4. \A lv : Layer(y, lv) = Layer(x, lv)
  BY <1>1 DEF SameNodes, Layer
<1>5. Wired(y) \subseteq Wired(x)
  BY <1>1 DEF Wired, SameNodes
<1> QED BY <1>1, <1>2, <1>3, <1>4, <1>5

\* One list is replaced by another that is in order.
LEMMA RelinkIs ==
  ASSUME NEW x \in Index, LinksOK(x), NEW lv \in DOMAIN x.links, NEW k \in Layer(x, lv),
         NEW nbs, ListOK(x, lv, k, nbs)
  PROVE  [x EXCEPT !.links[lv] = Put(@, k, nbs)] \in Wired(x)
<1> DEFINE f == Put(x.links[lv], k, nbs)
           l == [x.links EXCEPT ![lv] = f]
           y == [x EXCEPT !.links = l]
<1>1. x.links \in Maps(Maps(Seq(Nat))) /\ x.levels \in Maps(Nat)
  BY DEF Index
<1>2. /\ DOMAIN x.links \in SUBSET Nat /\ x.links \in [DOMAIN x.links -> Maps(Seq(Nat))]
      /\ DOMAIN x.levels \in SUBSET Nat
  BY <1>1, MapIs
<1>3. nbs \in Seq(Nat)
  <2>1. nbs \in Seq(Layer(x, lv) \ {k}) /\ Layer(x, lv) \ {k} \subseteq Nat
    BY <1>2 DEF ListOK, Layer
  <2> QED BY <2>1, SeqMonotonic
<1>4. f \in Maps(Seq(Nat))
  <2>1. x.links[lv] \in Maps(Seq(Nat)) /\ k \in Nat
    BY <1>2 DEF Layer
  <2> QED BY <1>3, <2>1, PutMap
<1>5. DOMAIN f = DOMAIN x.links[lv] \cup {k}
  BY ONLY PutDomain
<1>6. f[k] = nbs
  BY ONLY PutNew
<1>7. \A o \in DOMAIN x.links[lv] : o # k => f[o] = x.links[lv][o]
  BY ONLY PutOld
<1>8. [x EXCEPT !.links[lv] = Put(@, k, nbs)] = y
  OBVIOUS
<1> HIDE DEF f
<1>9. l \in [DOMAIN x.links -> Maps(Seq(Nat))] /\ l[lv] = f /\ DOMAIN l = DOMAIN x.links
      /\ \A w \in DOMAIN x.links : w # lv => l[w] = x.links[w]
  BY <1>2, <1>4
<1> HIDE DEF l
<1>10. l \in Maps(Maps(Seq(Nat)))
  BY <1>2, <1>9, MapIs
<1>11. y \in Index /\ SameNodes(y, x) /\ y.links = l
  BY <1>10 DEF Index, SameNodes
<1> HIDE DEF y
<1>12. \A w : Layer(y, w) = Layer(x, w)
  BY <1>11 DEF SameNodes, Layer
<1>13. LinksOK(y)
  <2>1. SUFFICES ASSUME NEW w \in DOMAIN l, NEW o \in DOMAIN l[w]
                 PROVE  o \in Layer(y, w) /\ ListOK(y, w, o, l[w][o])
    BY <1>11 DEF LinksOK
  <2>2. CASE w = lv /\ o = k
    BY <1>6, <1>9, <1>12, <2>2, ListGrows
  <2>3. CASE ~(w = lv /\ o = k)
    <3>1. w \in DOMAIN x.links /\ o \in DOMAIN x.links[w] /\ l[w][o] = x.links[w][o]
      BY <1>5, <1>7, <1>9, <2>1, <2>3
    <3>2. o \in Layer(x, w) /\ ListOK(x, w, o, x.links[w][o])
      BY <3>1 DEF LinksOK
    <3> QED BY <1>12, <3>1, <3>2, ListGrows
  <2> QED BY <2>2, <2>3
<1> QED BY <1>8, <1>9, <1>11, <1>13 DEF Wired

LEMMA LinkBackIs ==
  ASSUME NEW x, SpaceOK(x), LinksOK(x), ~Incomparable(x), NEW lv \in DOMAIN x.links,
         NEW key \in Layer(x, lv), NEW nb \in Layer(x, lv), nb # key
  PROVE  LinkBack(x, lv, key, nb) \in Wired(x)
<1> DEFINE L == Layer(x, lv) \ {nb}
           nbs == LinksOf(x, lv, nb)
           all == IF Contains(nbs, key) THEN nbs ELSE Append(nbs, key)
           D == [o \in ToSet(all) |-> PairDist(x, nb, o)]
           kept == IF Len(all) <= MaxLinks(lv) THEN all
                   ELSE SelectNeighbors(x, nb, D, MaxLinks(lv))
<1>1. x \in Index /\ IsFiniteSet(Layer(x, lv)) /\ Layer(x, lv) \in SUBSET Nat
      /\ Layer(x, lv) \subseteq DOMAIN x.levels
  <2>1. x.levels \in Maps(Nat) /\ x \in Index /\ IsFiniteSet(DOMAIN x.levels)
    BY DEF SpaceOK, Index
  <2>2. DOMAIN x.levels \in SUBSET Nat
    BY <2>1, MapIs
  <2>3. Layer(x, lv) \subseteq DOMAIN x.levels
    BY DEF Layer
  <2> QED BY <2>1, <2>2, <2>3, FS_Subset
<1>2. nbs \in Seq(L) /\ Distinct(nbs)
  <2>1. CASE nb \in DOMAIN x.links[lv]
    BY <2>1 DEF LinksOK, ListOK, LinksOf
  <2>2. CASE nb \notin DOMAIN x.links[lv]
    <3>1. nbs = <<>>
      BY <2>2 DEF LinksOf
    <3>2. <<>> \in Seq(L) /\ DOMAIN <<>> = {}
      BY EmptySeq
    <3> HIDE DEF nbs
    <3> QED BY <3>1, <3>2 DEF Distinct
  <2> QED BY <2>1, <2>2
<1> HIDE DEF nbs
<1>3. all \in Seq(L) /\ Distinct(all)
  <2>1. CASE Contains(nbs, key)
    BY <1>2, <2>1
  <2>2. CASE ~Contains(nbs, key)
    <3>1. DOMAIN nbs = 1..Len(nbs)
      BY <1>2, LenProperties
    <3>2. key \notin ToSet(nbs) /\ key \in L
      BY <2>2, <3>1 DEF Contains, ToSet
    <3>3. Append(nbs, key) \in Seq(L) /\ Distinct(Append(nbs, key))
      BY <1>2, <3>2, DistinctAppend
    <3> QED BY <2>2, <3>3
  <2> QED BY <2>1, <2>2
<1> HIDE DEF all
<1>4. ToSet(all) \in SUBSET L
  <2>1. DOMAIN all = 1..Len(all)
    BY <1>3, LenProperties
  <2> QED BY <1>3, <2>1, ElementOfSeq DEF ToSet
<1>5. IsFiniteSet(ToSet(all)) /\ ToSet(all) \in SUBSET Nat
  BY <1>1, <1>4, FS_Subset
<1>6. D \in [ToSet(all) -> Nat]
  <2>1. \A o \in ToSet(all) : PairDist(x, nb, o) \in Nat
    BY <1>1, <1>4, PairDistIs
  <2> QED BY <2>1
<1>7. MaxLinks(lv) \in Nat
  BY MaxLinksIs
<1>8. ListOK(x, lv, nb, kept)
  <2>1. CASE Len(all) <= MaxLinks(lv)
    BY <1>3, <2>1 DEF ListOK
  <2>2. CASE ~(Len(all) <= MaxLinks(lv))
    <3> DEFINE s == SelectNeighbors(x, nb, D, MaxLinks(lv))
    <3> HIDE DEF D, L
    <3>1. s \in Seq(ToSet(all) \ {nb}) /\ Len(s) <= MaxLinks(lv) /\ Distinct(s)
      BY <1>5, <1>6, <1>7, SelectNeighborsIs
    <3> HIDE DEF s
    <3>2. s \in Seq(L)
      BY <1>4, <3>1, SeqMonotonic
    <3>3. kept = s
      BY <2>2 DEF s
    <3> QED BY <3>1, <3>2, <3>3 DEF ListOK, L
  <2> QED BY <2>1, <2>2
<1>9. LinkBack(x, lv, key, nb) = [x EXCEPT !.links[lv] = Put(@, nb, kept)]
  BY DEF LinkBack, nbs, all
<1> HIDE DEF kept
<1> QED BY <1>1, <1>8, <1>9, RelinkIs

\* The walk of a new node through one layer: it is linked there, and goes on
\* from a node of the layer.
LEMMA LinkAtIs ==
  ASSUME NEW s, SpaceOK(s.ix), LinksOK(s.ix), ~Incomparable(s.ix), NEW lv \in DOMAIN s.ix.links,
         NEW key \in Layer(s.ix, lv), s.ep \in Layer(s.ix, lv), NEW v \in Int
  PROVE  LinkAt(s, key, v, lv) \in [ix : Wired(s.ix), ep : Layer(s.ix, lv)]
<1> DEFINE x == s.ix
           found == SearchLayer(x, v, s.ep, EfConstruction, lv, DOMAIN x.levels)
           D == [o \in found |-> QueryDist(x, v, o)]
           chosen == SelectNeighbors(x, key, D, M)
           own == [x EXCEPT !.links[lv] = Put(@, key, chosen)]
<1> DEFINE n == Len(chosen)
           V == [i \in 0..n |-> Wired(x)]
           step == [i \in 1..n |-> [acc \in V[i - 1] |-> LinkBack(acc, lv, key, chosen[i])]]
           state == CHOOSE g : g = [i \in 0..n |-> IF i = 0 THEN own ELSE LinkBack(g[i - 1], lv, key, chosen[i])]
<1>1. LinkAt(s, key, v, lv) = [ix |-> state[n], ep |-> Nearest(x, v, found)]
  BY DEF LinkAt, Iterate
<1> HIDE DEF x, found, D, chosen, own, n, V, step, state
<1>2. SpaceOK(x) /\ LinksOK(x) /\ ~Incomparable(x) /\ lv \in DOMAIN x.links
      /\ key \in Layer(x, lv) /\ s.ep \in Layer(x, lv)
  BY DEF x
<1>3. Walkable(x, v)
  BY <1>2, WalkableIs
<1>4. Layer(x, lv) \in SUBSET Nat /\ IsFiniteSet(Layer(x, lv)) /\ Layer(x, lv) \subseteq DOMAIN x.levels
      /\ \A k \in Layer(x, lv) : QueryDist(x, v, k) \in Nat
  <2>1. Layer(x, lv) \subseteq DOMAIN x.levels
    BY DEF Layer
  <2> QED BY <1>3, <2>1, LayerIs
<1>5. found \in SUBSET Layer(x, lv) /\ found # {}
  <2>1. EfConstruction \in Nat /\ EfConstruction >= 1
    BY IndexAssumption
  <2>2. s.ep \in DOMAIN x.levels
    BY <1>2, <1>4
  <2>3. found \in SUBSET (DOMAIN x.levels \cap Layer(x, lv)) /\ found # {}
    BY <1>2, <1>3, <2>1, <2>2, SearchLayerIs DEF found
  <2> QED BY <2>3
<1>6. IsFiniteSet(found) /\ found \in SUBSET Nat /\ \A k \in found : QueryDist(x, v, k) \in Nat
  BY <1>4, <1>5, FS_Subset
<1>7. Nearest(x, v, found) \in Layer(x, lv)
  <2>1. Nearest(x, v, found) \in found
    BY <1>5, <1>6, NearestIs
  <2> QED BY <1>5, <2>1
<1>8. D \in [found -> Nat]
  BY <1>6 DEF D
<1>9. chosen \in Seq(found \ {key}) /\ Len(chosen) <= M /\ Distinct(chosen)
  <2>1. M \in Nat
    BY IndexAssumption
  <2> QED BY <1>6, <1>8, <2>1, SelectNeighborsIs DEF chosen
<1>20. n \in Nat /\ \A i \in 1..n : chosen[i] \in Layer(x, lv) /\ chosen[i] # key
  <2>1. n \in Nat
    BY <1>9, LenProperties DEF n
  <2>2. \A i \in 1..n : chosen[i] \in found \ {key}
    BY <1>9, ElementOfSeq DEF n
  <2> QED BY <1>5, <2>1, <2>2
<1>21. own \in Wired(x)
  <2>1. chosen \in Seq(Layer(x, lv) \ {key})
    BY <1>5, <1>9, SeqMonotonic
  <2>2. Len(chosen) <= MaxLinks(lv)
    BY <1>9, <1>20, MaxLinksIs DEF n
  <2>3. ListOK(x, lv, key, chosen)
    BY <1>9, <2>1, <2>2 DEF ListOK
  <2> QED BY <1>2, <2>3, RelinkIs DEF SpaceOK, own
<1> USE DEF V, step, state
<1>22. own \in V[0]
  BY <1>20, <1>21
<1>23. ASSUME NEW i \in 1..n, NEW acc \in V[i - 1] PROVE LinkBack(acc, lv, key, chosen[i]) \in V[i]
  <2>1. i - 1 \in 0..n /\ i \in 0..n
    BY <1>20
  <2>2. acc \in Wired(x)
    BY <2>1
  <2>3. /\ SpaceOK(acc) /\ LinksOK(acc) /\ ~Incomparable(acc) /\ lv \in DOMAIN acc.links
        /\ Layer(acc, lv) = Layer(x, lv) /\ Wired(acc) \subseteq Wired(x)
    BY <1>2, <2>2, WiredIs
  <2>4. LinkBack(acc, lv, key, chosen[i]) \in Wired(acc)
    BY <1>2, <1>20, <2>3, LinkBackIs
  <2> QED BY <2>1, <2>3, <2>4
<1>24. V[n] = Wired(x)
  BY <1>20
<1> HIDE DEF V
<1>10. Leads(step, V, n)
  BY <1>23 DEF Leads
<1>11. \A i \in 1..n : \A acc \in V[i - 1] : step[i][acc] = LinkBack(acc, lv, key, chosen[i])
  OBVIOUS
<1> HIDE DEF step
<1>12. PICK f : Takes(f, own, step, V, n)
  BY <1>20, <1>22, <1>10, IterationExists
<1>13. \A i \in 0..n : f[i] = IF i = 0 THEN own ELSE LinkBack(f[i - 1], lv, key, chosen[i])
  <2>1. \A i \in 1..n : f[i] = LinkBack(f[i - 1], lv, key, chosen[i])
    BY <1>11, <1>12 DEF Takes
  <2>2. f[0] = own /\ \A i \in 0..n : i = 0 \/ i \in 1..n
    BY <1>20, <1>12 DEF Takes
  <2> QED BY <2>1, <2>2
<1>14. f = [i \in 0..n |-> IF i = 0 THEN own ELSE LinkBack(f[i - 1], lv, key, chosen[i])]
  BY <1>12, <1>13 DEF Takes
<1>15. state = [i \in 0..n |-> IF i = 0 THEN own ELSE LinkBack(state[i - 1], lv, key, chosen[i])]
  BY <1>14
<1> HIDE DEF state
<1>16. Stays(state, V, n)
  BY <1>20, <1>23, <1>22, <1>15 DEF Stays
<1>17. state[n] \in V[n]
  BY <1>20, <1>16, IterationIn
<1> QED BY <1>1, <1>7, <1>17, <1>24 DEF x

LEMMA AddNodeIs ==
  ASSUME NEW x, SpaceOK(x), LinksOK(x), NEW key \in Nat, key \notin DOMAIN x.levels,
         NEW v \in Int, NEW level \in Nat, NEW y, y = AddNode(x, key, v, level)
  PROVE  /\ y \in Index /\ SpaceOK(y) /\ LinksOK(y)
         /\ y.kind = x.kind /\ y.keep = x.keep /\ y.book = x.book /\ y.entry = x.entry /\ y.top = x.top
         /\ y.levels = Put(x.levels, key, level) /\ y.deleted = x.deleted \ {key}
         /\ DOMAIN y.links = DOMAIN x.links \cup 0..level
<1> DEFINE set == SetVector(x, key, v)
           layers == DOMAIN x.links \cup 0..level
           Old(lv) == IF lv \in DOMAIN x.links THEN x.links[lv] ELSE EmptyMap
           New(lv) == IF lv <= level THEN Put(Old(lv), key, <<>>) ELSE Old(lv)
           l == [lv \in layers |-> New(lv)]
           h == Put(x.levels, key, level)
<1>1. x \in Index /\ x.levels \in Maps(Nat) /\ x.links \in Maps(Maps(Seq(Nat))) /\ x.deleted \in SUBSET Nat
  BY DEF SpaceOK, Index
<1>2. /\ DOMAIN x.links \in SUBSET Nat /\ x.links \in [DOMAIN x.links -> Maps(Seq(Nat))]
      /\ DOMAIN x.levels \in SUBSET Nat /\ x.levels \in [DOMAIN x.levels -> Nat]
  BY <1>1, MapIs
<1>3. \A lv \in layers : Old(lv) \in Maps(Seq(Nat))
  <2>1. EmptyMap \in Maps(Seq(Nat))
    BY EmptyIs, MapIs
  <2> QED BY <1>2, <2>1
<1>4. \A lv \in layers : New(lv) \in Maps(Seq(Nat))
  <2>1. <<>> \in Seq(Nat)
    BY EmptySeq
  <2> HIDE DEF Old, layers
  <2>2. \A lv \in layers : Put(Old(lv), key, <<>>) \in Maps(Seq(Nat))
    BY <1>3, <2>1, PutMap
  <2> QED BY <1>3, <2>2
<1>5. l \in Maps(Maps(Seq(Nat))) /\ DOMAIN l = layers /\ \A lv \in layers : l[lv] = New(lv)
  <2>1. layers \in SUBSET Nat
    BY <1>2
  <2> HIDE DEF New, layers
  <2>2. l \in [layers -> Maps(Seq(Nat))]
    BY <1>4
  <2> HIDE DEF l
  <2>3. DOMAIN l = layers
    BY <2>2
  <2> QED BY <2>1, <2>2, <2>3, MapIs DEF l
<1>6. h \in Maps(Nat)
  BY <1>1, PutMap
<1>7. y = [set EXCEPT !.levels = Put(@, key, level), !.deleted = @ \ {key}, !.links = l]
  BY DEF AddNode
<1> HIDE DEF l, New, Old, layers
<1>8. /\ set \in Index
      /\ set.kind = x.kind /\ set.keep = x.keep /\ set.book = x.book /\ set.levels = x.levels
      /\ set.deleted = x.deleted /\ set.entry = x.entry /\ set.top = x.top
      /\ VectorIn(x, set, key, v)
  BY <1>1, SetVectorIs
<1> HIDE DEF set
<1>9. y = [set EXCEPT !.levels = h, !.deleted = x.deleted \ {key}, !.links = l]
  BY <1>7, <1>8
<1> HIDE DEF h
<1>10. /\ y \in Index
       /\ y.kind = x.kind /\ y.keep = x.keep /\ y.book = x.book /\ y.entry = x.entry /\ y.top = x.top
       /\ y.levels = h /\ y.deleted = x.deleted \ {key} /\ y.links = l
       /\ y.vec = set.vec /\ y.code = set.code /\ y.pending = set.pending
  <2>1. x.deleted \ {key} \in SUBSET Nat
    BY <1>1
  <2> QED BY <1>5, <1>6, <1>8, <1>9, <2>1 DEF Index
<1>11. VectorIn(x, y, key, v)
  BY <1>8, <1>10 DEF VectorIn
<1>12. SpaceOK(y)
  <2>1. y.levels = Put(x.levels, key, level)
    BY <1>10 DEF h
  <2> QED BY <1>10, <1>11, <2>1, SpaceGrows
<1>13. DOMAIN h = DOMAIN x.levels \cup {key}
  BY ONLY PutDomain DEF h
<1>14. h[key] = level
  BY ONLY PutNew DEF h
<1>15. \A k \in DOMAIN x.levels : k # key => h[k] = x.levels[k]
  BY ONLY PutOld DEF h
<1>16. \A lv : Layer(x, lv) \subseteq Layer(y, lv)
  BY <1>10, <1>13, <1>15 DEF Layer
<1>17. LinksOK(y)
  <2>1. SUFFICES ASSUME NEW lv \in layers, NEW k \in DOMAIN New(lv)
                 PROVE  k \in Layer(y, lv) /\ ListOK(y, lv, k, New(lv)[k])
    BY <1>5, <1>10 DEF LinksOK
  <2> DEFINE o == Old(lv)
  <2>2. DOMAIN Put(o, key, <<>>) = DOMAIN o \cup {key}
    BY ONLY PutDomain
  <2>3. Put(o, key, <<>>)[key] = <<>>
    BY ONLY PutNew
  <2>4. \A j \in DOMAIN o : j # key => Put(o, key, <<>>)[j] = o[j]
    BY ONLY PutOld
  <2>5. CASE k = key /\ lv <= level
    <3>1. New(lv)[k] = <<>>
      BY <2>3, <2>5 DEF New
    <3>2. <<>> \in Seq(Layer(y, lv) \ {k}) /\ Len(<<>>) = 0 /\ DOMAIN <<>> = {}
      BY EmptySeq
    <3>3. ListOK(y, lv, k, <<>>)
      BY <3>2, MaxLinksIs DEF ListOK, Distinct
    <3>4. k \in Layer(y, lv)
      BY <1>10, <1>13, <1>14, <1>2, <2>5 DEF Layer, layers
    <3> QED BY <3>1, <3>3, <3>4
  <2>6. CASE ~(k = key /\ lv <= level)
    <3>1. k \in DOMAIN o /\ New(lv)[k] = o[k]
      BY <2>1, <2>2, <2>4, <2>6 DEF New
    <3>2. lv \in DOMAIN x.links /\ o = x.links[lv]
      BY <3>1, EmptyIs DEF Old
    <3>3. k \in Layer(x, lv) /\ ListOK(x, lv, k, x.links[lv][k])
      BY <3>1, <3>2 DEF LinksOK
    <3> QED BY <1>16, <3>1, <3>2, <3>3, ListGrows
  <2> QED BY <2>5, <2>6
<1>18. y.levels = Put(x.levels, key, level)
  BY <1>10 DEF h
<1>19. DOMAIN y.links = DOMAIN x.links \cup 0..level
  BY <1>5, <1>10 DEF layers
<1> QED BY <1>10, <1>12, <1>17, <1>18, <1>19

GraphOK(x) ==
  /\ LinksOK(x)
  /\ x.kind = "flat" => x.deleted = {} /\ DOMAIN x.links = {} /\ x.entry = NoKey
  /\ x.kind # "flat" /\ x.entry = NoKey => DOMAIN x.levels = {} /\ DOMAIN x.links = {}
  /\ x.entry # NoKey => Rooted(x)
IndexOK(x) == SpaceOK(x) /\ GraphOK(x)
\* No node is above the entry point.
TopOK(x) == x.kind # "flat" => \A k \in DOMAIN x.levels : x.levels[k] <= x.top

\* The links of a new node, from the layer it shares with the entry point down.
LEMMA LinkedIs ==
  ASSUME NEW x, IndexOK(x), x.kind # "flat", ~AddRaises(x), x.entry # NoKey,
         NEW key \in Nat, key \notin DOMAIN x.levels, NEW v \in Int, NEW level \in Nat
  PROVE  LET node == AddNode(x, key, v, level)
             shared == Min({level, x.top})
         IN Iterate(LAMBDA s, i : LinkAt(s, key, v, shared + 1 - i),
                    [ix |-> node, ep |-> Descend(node, v, level)], shared + 1).ix \in Wired(node)
<1> DEFINE node == AddNode(x, key, v, level)
           shared == Min({level, x.top})
           base == [ix |-> node, ep |-> Descend(node, v, level)]
           linked == Iterate(LAMBDA s, i : LinkAt(s, key, v, shared + 1 - i), base, shared + 1)
<1> DEFINE n == shared + 1
           V == [i \in 0..n |-> [ix : Wired(node), ep : Layer(node, IF i = 0 THEN shared ELSE shared + 1 - i)]]
           step == [i \in 1..n |-> [s \in V[i - 1] |-> LinkAt(s, key, v, shared + 1 - i)]]
           state == CHOOSE g : g = [i \in 0..n |-> IF i = 0 THEN base ELSE LinkAt(g[i - 1], key, v, shared + 1 - i)]
<1>1. linked = state[n]
  BY DEF Iterate
<1> HIDE DEF linked, n, V, step, state, base
<1>2. SpaceOK(x) /\ LinksOK(x) /\ Rooted(x) /\ x \in Index
  BY DEF IndexOK, GraphOK, SpaceOK
<1>3. /\ node \in Index /\ SpaceOK(node) /\ LinksOK(node)
      /\ node.kind = x.kind /\ node.keep = x.keep /\ node.book = x.book
      /\ node.entry = x.entry /\ node.top = x.top
      /\ node.levels = Put(x.levels, key, level)
      /\ DOMAIN node.links = DOMAIN x.links \cup 0..level
  BY <1>2, AddNodeIs
<1>4. x.levels \in Maps(Nat) /\ x.top \in Int
  BY <1>2 DEF Index
<1>5. DOMAIN x.levels \in SUBSET Nat /\ x.levels \in [DOMAIN x.levels -> Nat]
  BY <1>4, MapIs
<1>6. x.top \in Nat /\ x.entry \in DOMAIN x.levels /\ x.levels[x.entry] = x.top
      /\ 0..x.top \subseteq DOMAIN x.links
  BY <1>2, <1>5 DEF Rooted
<1>7. shared = (IF level <= x.top THEN level ELSE x.top) /\ shared \in Nat /\ shared <= level /\ shared <= x.top
  BY <1>6, MinOfTwo
<1> DEFINE h == Put(x.levels, key, level)
<1>8. DOMAIN h = DOMAIN x.levels \cup {key}
  BY ONLY PutDomain
<1>9. h[key] = level
  BY ONLY PutNew
<1>20. \A k \in DOMAIN x.levels : k # key => h[k] = x.levels[k]
  BY ONLY PutOld
<1> HIDE DEF h, node, shared
<1>21. node.levels = h
  BY <1>3 DEF h
<1>22. Rooted(node)
  BY <1>3, <1>6, <1>8, <1>20, <1>21 DEF Rooted
<1>23. ~Incomparable(node)
  <2>1. ~Incomparable(x)
    BY <1>2 DEF AddRaises, SpaceOK, Incomparable, Index
  <2> QED BY <1>3, <2>1 DEF Incomparable, Trained
<1>24. \A lv \in 0..shared : lv \in DOMAIN node.links /\ key \in Layer(node, lv)
  <2>1. SUFFICES ASSUME NEW lv \in 0..shared PROVE lv \in DOMAIN node.links /\ key \in Layer(node, lv)
    OBVIOUS
  <2>2. lv \in 0..level /\ lv <= level
    BY <1>7
  <2> QED BY <1>3, <1>8, <1>9, <1>21, <2>2 DEF Layer
<1>25. n \in Nat /\ n = shared + 1
  BY <1>7 DEF n
<1> USE DEF V, step, state
<1>26. base \in V[0]
  <2>1. Walkable(node, v)
    BY <1>3, <1>23, WalkableIs
  <2>2. Descend(node, v, level) \in Layer(node, IF level <= node.top THEN level ELSE node.top)
    BY <1>22, <2>1, DescendIs
  <2>3. Descend(node, v, level) \in Layer(node, shared)
    BY <1>3, <1>7, <2>2
  <2>4. node \in Wired(node)
    BY <1>3 DEF Wired, SameNodes
  <2>5. base \in [ix : Wired(node), ep : Layer(node, shared)]
    BY <2>3, <2>4 DEF base
  <2>6. V[0] = [ix : Wired(node), ep : Layer(node, shared)]
    <3>1. 0 \in 0..n
      BY <1>25
    <3> QED BY <3>1
  <2> QED BY <2>5, <2>6
<1>27. ASSUME NEW i \in 1..n, NEW s \in V[i - 1] PROVE LinkAt(s, key, v, shared + 1 - i) \in V[i]
  <2> DEFINE lv == shared + 1 - i
  <2>1. i - 1 \in 0..n /\ i \in 0..n /\ lv \in 0..shared /\ i # 0
    BY <1>7, <1>25
  <2>2. s.ix \in Wired(node) /\ s.ep \in Layer(node, IF i - 1 = 0 THEN shared ELSE shared + 1 - (i - 1))
    BY <2>1
  <2>3. V[i] = [ix : Wired(node), ep : Layer(node, lv)]
    BY <2>1
  <2> HIDE DEF V
  <2>4. \A k \in DOMAIN node.levels : node.levels[k] \in Nat
    BY <1>5, <1>8, <1>9, <1>20, <1>21
  <2>5. s.ep \in Layer(node, lv)
    <3>1. CASE i = 1
      <4>1. lv = shared
        BY <1>7, <3>1
      <4> QED BY <2>2, <3>1, <4>1
    <3>2. CASE i # 1
      <4>1. i - 1 # 0
        BY <2>1, <3>2
      <4>2. s.ep \in Layer(node, shared + 1 - (i - 1))
        BY <2>2, <4>1
      <4>3. shared + 1 - (i - 1) >= lv /\ shared + 1 - (i - 1) \in Int /\ lv \in Int
        BY <1>7, <2>1
      <4> DEFINE w == shared + 1 - (i - 1)
      <4> HIDE DEF w, lv
      <4>4. s.ep \in Layer(node, w) /\ w >= lv /\ w \in Int /\ lv \in Int
        BY <4>2, <4>3 DEF w
      <4> QED BY <2>4, <4>4 DEF Layer
    <3> QED BY <3>1, <3>2
  <2> HIDE DEF lv
  <2>6. /\ SpaceOK(s.ix) /\ LinksOK(s.ix) /\ ~Incomparable(s.ix) /\ lv \in DOMAIN s.ix.links
        /\ key \in Layer(s.ix, lv) /\ s.ep \in Layer(s.ix, lv) /\ Layer(s.ix, lv) = Layer(node, lv)
        /\ Wired(s.ix) \subseteq Wired(node)
    BY <1>3, <1>23, <1>24, <2>1, <2>2, <2>5, WiredIs
  <2>7. LinkAt(s, key, v, lv) \in [ix : Wired(s.ix), ep : Layer(s.ix, lv)]
    BY <2>6, LinkAtIs
  <2>8. LinkAt(s, key, v, lv) \in V[i]
    BY <2>3, <2>6, <2>7
  <2> QED BY <2>8 DEF lv
<1>28. \A s \in V[n] : s.ix \in Wired(node)
  BY <1>25
<1> HIDE DEF V
<1>10. Leads(step, V, n)
  BY <1>27 DEF Leads
<1>11. \A i \in 1..n : \A s \in V[i - 1] : step[i][s] = LinkAt(s, key, v, shared + 1 - i)
  OBVIOUS
<1> HIDE DEF step
<1>12. PICK f : Takes(f, base, step, V, n)
  BY <1>25, <1>26, <1>10, IterationExists
<1>13. \A i \in 0..n : f[i] = IF i = 0 THEN base ELSE LinkAt(f[i - 1], key, v, shared + 1 - i)
  <2>1. \A i \in 1..n : f[i] = LinkAt(f[i - 1], key, v, shared + 1 - i)
    BY <1>11, <1>12 DEF Takes
  <2>2. f[0] = base /\ \A i \in 0..n : i = 0 \/ i \in 1..n
    BY <1>25, <1>12 DEF Takes
  <2> QED BY <2>1, <2>2
<1>14. f = [i \in 0..n |-> IF i = 0 THEN base ELSE LinkAt(f[i - 1], key, v, shared + 1 - i)]
  BY <1>12, <1>13 DEF Takes
<1>15. state = [i \in 0..n |-> IF i = 0 THEN base ELSE LinkAt(state[i - 1], key, v, shared + 1 - i)]
  BY <1>14
<1> HIDE DEF state
<1>16. Stays(state, V, n)
  BY <1>25, <1>27, <1>26, <1>15 DEF Stays
<1>17. state[n] \in V[n]
  BY <1>25, <1>16, IterationIn
<1> QED BY <1>1, <1>17, <1>28 DEF linked, base, node, shared

\* HNSWIndex.add, FlatIndex.add: an index that is in order stays so, the key is
\* in it, and no node gets above the entry point unless the call raises.
LEMMA IndexAddIs ==
  ASSUME NEW x, IndexOK(x), NEW key \in Nat, key \notin DOMAIN x.levels, NEW v \in Int,
         NEW level \in Nat, NEW y, y = IndexAdd(x, key, v, level)
  PROVE  /\ IndexOK(y) /\ DOMAIN y.levels = DOMAIN x.levels \cup {key}
         /\ y.deleted = x.deleted \ {key}
         /\ y.kind = x.kind /\ y.keep = x.keep /\ y.book = x.book
         /\ TopOK(x) /\ ~AddRaises(x) => TopOK(y)
<1> DEFINE node == AddNode(x, key, v, level)
           shared == Min({level, x.top})
           linked == Iterate(LAMBDA s, i : LinkAt(s, key, v, shared + 1 - i),
                             [ix |-> node, ep |-> Descend(node, v, level)], shared + 1).ix
           h == Put(x.levels, key, level)
<1>1. SpaceOK(x) /\ LinksOK(x) /\ x \in Index /\ GraphOK(x) /\ x.levels \in Maps(Nat) /\ x.top \in Int
  BY DEF IndexOK, GraphOK, SpaceOK, Index
<1>2. DOMAIN x.levels \in SUBSET Nat /\ x.levels \in [DOMAIN x.levels -> Nat]
  BY <1>1, MapIs
<1>3. /\ node \in Index /\ SpaceOK(node) /\ LinksOK(node)
      /\ node.kind = x.kind /\ node.keep = x.keep /\ node.book = x.book
      /\ node.entry = x.entry /\ node.top = x.top
      /\ node.levels = h /\ node.deleted = x.deleted \ {key}
      /\ DOMAIN node.links = DOMAIN x.links \cup 0..level
  BY <1>1, AddNodeIs
<1>4. DOMAIN h = DOMAIN x.levels \cup {key}
  BY ONLY PutDomain
<1>5. h[key] = level
  BY ONLY PutNew
<1>6. \A k \in DOMAIN x.levels : k # key => h[k] = x.levels[k]
  BY ONLY PutOld
<1>7. CASE x.kind = "flat"
  <2> DEFINE set == SetVector(x, key, v)
             g == Put(x.levels, key, 0)
             z == [set EXCEPT !.levels = g]
  <2>1. /\ set \in Index
        /\ set.kind = x.kind /\ set.keep = x.keep /\ set.book = x.book /\ set.levels = x.levels
        /\ set.links = x.links /\ set.deleted = x.deleted /\ set.entry = x.entry /\ set.top = x.top
        /\ VectorIn(x, set, key, v)
    BY <1>1, SetVectorIs
  <2>2. y = [set EXCEPT !.levels = Put(@, key, 0)]
    BY <1>7 DEF IndexAdd, Iterate
  <2> HIDE DEF set
  <2>3. y = z
    BY <2>1, <2>2
  <2>4. g \in Maps(Nat)
    BY <1>1, PutMap
  <2>5. DOMAIN g = DOMAIN x.levels \cup {key}
    BY ONLY PutDomain
  <2> HIDE DEF g
  <2>6. /\ z \in Index /\ z.levels = g
        /\ z.kind = x.kind /\ z.keep = x.keep /\ z.book = x.book /\ z.links = x.links
        /\ z.deleted = x.deleted /\ z.entry = x.entry /\ z.top = x.top
        /\ z.vec = set.vec /\ z.code = set.code /\ z.pending = set.pending
    BY <2>1, <2>4 DEF Index
  <2> HIDE DEF z
  <2>7. VectorIn(x, z, key, v)
    BY <2>1, <2>6 DEF VectorIn
  <2>8. SpaceOK(z)
    <3>1. 0 \in Nat /\ z.levels = Put(x.levels, key, 0)
      BY <2>6 DEF g
    <3> QED BY <1>1, <2>6, <2>7, <3>1, SpaceGrows
  <2>9. x.deleted = {} /\ DOMAIN x.links = {} /\ x.entry = NoKey
    BY <1>1, <1>7 DEF GraphOK
  <2>10. GraphOK(z)
    BY <1>7, <2>6, <2>9 DEF GraphOK, LinksOK
  <2>11. x.deleted \ {key} = x.deleted
    BY <2>9
  <2> QED BY <1>7, <2>3, <2>5, <2>6, <2>8, <2>10, <2>11 DEF IndexOK, TopOK
<1> HIDE DEF node, h, linked
<1>8. IsFiniteSet(DOMAIN h) /\ key \in DOMAIN h
  BY <1>3, <1>4 DEF SpaceOK
<1>9. \A lv : Layer(node, lv) = {k \in DOMAIN h : h[k] >= lv}
  BY <1>3 DEF Layer
<1>10. x.entry # NoKey => /\ x.entry \in DOMAIN x.levels /\ x.levels[x.entry] = x.top /\ x.top \in Nat
                          /\ 0..x.top \subseteq DOMAIN x.links /\ x.entry # key /\ h[x.entry] = x.top
  BY <1>1, <1>2, <1>6 DEF GraphOK, Rooted
<1>11. CASE x.kind # "flat" /\ AddRaises(x)
  <2>1. y = node
    BY <1>11 DEF IndexAdd, node, Iterate
  <2>2. x.entry # NoKey
    BY <1>11 DEF AddRaises
  <2>3. Rooted(node)
    BY <1>3, <1>4, <1>10, <2>2 DEF Rooted
  <2>4. GraphOK(node)
    BY <1>3, <1>11, <2>2, <2>3 DEF GraphOK
  <2> QED BY <1>3, <1>4, <1>11, <2>1, <2>4 DEF IndexOK
<1>12. CASE x.kind # "flat" /\ ~AddRaises(x) /\ x.entry = NoKey
  <2> DEFINE z == [node EXCEPT !.entry = key, !.top = level]
  <2>1. y = z
    BY <1>12 DEF IndexAdd, node
  <2>2. /\ z \in Index
        /\ z.kind = x.kind /\ z.keep = x.keep /\ z.book = x.book /\ z.entry = key /\ z.top = level
        /\ z.levels = h /\ z.deleted = x.deleted \ {key} /\ z.links = node.links
        /\ z.vec = node.vec /\ z.code = node.code /\ z.pending = node.pending
    <3>1. key \in Nat \cup {NoKey} /\ level \in Int
      OBVIOUS
    <3>2. z \in Index
      BY <1>3, <3>1 DEF Index
    <3> QED BY <1>3, <3>2 DEF Index
  <2> HIDE DEF z
  <2>3. SpaceOK(z)
    BY <1>3, <2>2 DEF SpaceOK, CodesOK, Trained
  <2>4. \A lv : Layer(z, lv) = Layer(node, lv)
    BY <1>3, <2>2 DEF Layer
  <2>5. LinksOK(z)
    <3>1. SUFFICES ASSUME NEW lv \in DOMAIN node.links, NEW k \in DOMAIN node.links[lv]
                   PROVE  k \in Layer(z, lv) /\ ListOK(z, lv, k, node.links[lv][k])
      BY <2>2 DEF LinksOK
    <3>2. k \in Layer(node, lv) /\ ListOK(node, lv, k, node.links[lv][k])
      BY <1>3 DEF LinksOK
    <3> QED BY <2>4, <3>2, ListGrows
  <2>6. Rooted(z)
    BY <1>3, <1>5, <1>8, <2>2 DEF Rooted
  <2>7. key # NoKey
    BY IndexAssumption
  <2>8. GraphOK(z)
    BY <1>12, <2>2, <2>5, <2>6, <2>7 DEF GraphOK
  <2>9. DOMAIN x.levels = {}
    BY <1>1, <1>12 DEF GraphOK
  <2>10. TopOK(z)
    BY <1>4, <1>5, <2>2, <2>9 DEF TopOK
  <2> QED BY <1>4, <2>1, <2>2, <2>3, <2>8, <2>10 DEF IndexOK
<1>13. CASE x.kind # "flat" /\ ~AddRaises(x) /\ x.entry # NoKey
  <2> DEFINE z == [linked EXCEPT !.entry = key, !.top = level]
  <2>1. y = IF level > x.top THEN z ELSE linked
    BY <1>13 DEF IndexAdd, node, linked
  <2>2. linked \in Wired(node)
    BY <1>13, LinkedIs DEF node, linked
  <2>3. /\ linked \in Index /\ SpaceOK(linked) /\ LinksOK(linked) /\ SameNodes(linked, node)
        /\ DOMAIN linked.links = DOMAIN node.links
        /\ \A lv : Layer(linked, lv) = Layer(node, lv)
    BY <1>3, <2>2, WiredIs
  <2> HIDE DEF linked
  <2>4. /\ linked.kind = x.kind /\ linked.keep = x.keep /\ linked.book = x.book
        /\ linked.levels = h /\ linked.deleted = x.deleted \ {key}
        /\ linked.entry = x.entry /\ linked.top = x.top
        /\ DOMAIN linked.links = DOMAIN x.links \cup 0..level
    BY <1>3, <2>3 DEF SameNodes
  <2>5. CASE level > x.top
    <3>1. /\ z \in Index
          /\ z.kind = x.kind /\ z.keep = x.keep /\ z.book = x.book /\ z.entry = key /\ z.top = level
          /\ z.levels = h /\ z.deleted = x.deleted \ {key} /\ z.links = linked.links
          /\ z.vec = linked.vec /\ z.code = linked.code /\ z.pending = linked.pending
      <4>1. key \in Nat \cup {NoKey} /\ level \in Int
        OBVIOUS
      <4>2. z \in Index
        BY <2>3, <4>1 DEF Index
      <4> QED BY <2>3, <2>4, <4>2 DEF Index
    <3> HIDE DEF z
    <3>2. SpaceOK(z)
      BY <2>3, <2>4, <3>1 DEF SpaceOK, CodesOK, Trained
    <3>3. \A lv : Layer(z, lv) = Layer(linked, lv)
      BY <2>4, <3>1 DEF Layer
    <3>4. LinksOK(z)
      <4>1. SUFFICES ASSUME NEW lv \in DOMAIN linked.links, NEW k \in DOMAIN linked.links[lv]
                     PROVE  k \in Layer(z, lv) /\ ListOK(z, lv, k, linked.links[lv][k])
        BY <3>1 DEF LinksOK
      <4>2. k \in Layer(linked, lv) /\ ListOK(linked, lv, k, linked.links[lv][k])
        BY <2>3 DEF LinksOK
      <4> QED BY <3>3, <4>2, ListGrows
    <3>5. Rooted(z)
      BY <1>5, <1>8, <2>4, <3>1 DEF Rooted
    <3>6. key # NoKey
      BY IndexAssumption
    <3>7. GraphOK(z)
      BY <1>13, <3>1, <3>4, <3>5, <3>6 DEF GraphOK
    <3>8. TopOK(x) => TopOK(z)
      BY <1>1, <1>2, <1>4, <1>5, <1>6, <1>13, <2>5, <3>1 DEF TopOK
    <3> QED BY <1>4, <2>1, <2>5, <3>1, <3>2, <3>7, <3>8 DEF IndexOK
  <2>6. CASE ~(level > x.top)
    <3>1. Rooted(linked)
      BY <1>4, <1>10, <1>13, <2>4 DEF Rooted
    <3>2. GraphOK(linked)
      BY <1>13, <2>3, <2>4, <3>1 DEF GraphOK
    <3>3. TopOK(x) => TopOK(linked)
      BY <1>1, <1>2, <1>4, <1>5, <1>6, <1>13, <2>4, <2>6 DEF TopOK
    <3> QED BY <1>4, <2>1, <2>3, <2>4, <2>6, <3>2, <3>3 DEF IndexOK
  <2> QED BY <2>5, <2>6
<1> QED BY <1>7, <1>11, <1>12, <1>13

-----------------------------------------------------------------------------
(* Training, vacuuming, rebuilding *)

SameGraph(y, x) ==
  /\ y.kind = x.kind /\ y.levels = x.levels /\ y.links = x.links
  /\ y.deleted = x.deleted /\ y.entry = x.entry /\ y.top = x.top

LEMMA SameGraphIs ==
  ASSUME NEW x, NEW y, SameGraph(y, x)
  PROVE  /\ GraphOK(x) => GraphOK(y)
         /\ TopOK(x) => TopOK(y)
<1>1. \A lv : Layer(y, lv) = Layer(x, lv)
  BY DEF SameGraph, Layer
<1>2. LinksOK(x) => LinksOK(y)
  BY <1>1 DEF SameGraph, LinksOK, ListOK
<1>3. GraphOK(x) => GraphOK(y)
  BY <1>2 DEF SameGraph, GraphOK, Rooted
<1>4. TopOK(x) => TopOK(y)
  BY DEF SameGraph, TopOK
<1> QED BY <1>3, <1>4

LEMMA BooksIs ==
  ASSUME NEW sample \in SUBSET Int, NEW book \in Books(sample)
  PROVE  book \in SUBSET Int /\ (sample # {} => book # {}) /\ (sample = {} => book = {})
<1>1. Centroids \in Nat /\ Centroids # 0
  BY IndexAssumption
<1>2. Cardinality({}) = 0
  BY FS_EmptySet
<1>3. CASE Cardinality(sample) <= Centroids
  BY <1>3 DEF Books
<1>4. CASE ~(Cardinality(sample) <= Centroids)
  <2>1. book \in SUBSET sample /\ Cardinality(book) = Centroids
    BY <1>4 DEF Books, kSubset
  <2>2. book # {}
    BY <1>1, <1>2, <2>1
  <2> QED BY <1>1, <2>1, <2>2
<1> QED BY <1>3, <1>4

\* PQSpace.train: what has been waiting for the book gets its code.
LEMMA TrainIs ==
  ASSUME NEW x, IndexOK(x), x.kind = "hnsw_pq", ~Trained(x), NEW book \in SUBSET Int, book # {},
         NEW y, y = Train(x, book)
  PROVE  /\ IndexOK(y) /\ (TopOK(x) => TopOK(y))
         /\ y.kind = x.kind /\ y.keep = x.keep /\ y.book = book
         /\ y.levels = x.levels /\ y.deleted = x.deleted
<1> DEFINE c == [k \in DOMAIN x.code \cup DOMAIN x.pending |->
                   IF k \in DOMAIN x.pending THEN Encode(book, x.pending[k]) ELSE x.code[k]]
<1>1. x \in Index /\ x.pending \in Maps(Int) /\ SpaceOK(x) /\ CodesOK(x) /\ GraphOK(x)
  BY DEF IndexOK, SpaceOK, Index
<1>2. DOMAIN x.pending \in SUBSET Nat /\ x.pending \in [DOMAIN x.pending -> Int]
  BY <1>1, MapIs
<1>3. /\ DOMAIN x.vec \subseteq DOMAIN x.levels
      /\ DOMAIN x.pending = DOMAIN x.levels /\ DOMAIN x.code = {}
      /\ \A k \in DOMAIN x.vec : x.pending[k] = x.vec[k]
  BY <1>1 DEF CodesOK
<1>4. \A k \in DOMAIN x.pending : Encode(book, x.pending[k]) \in Int
  <2>1. \A k \in DOMAIN x.pending : Encode(book, x.pending[k]) \in book
    BY <1>2, EncodeIs
  <2> QED BY <2>1
<1>5. DOMAIN c = DOMAIN x.levels /\ \A k \in DOMAIN x.levels : c[k] = Encode(book, x.pending[k])
  BY <1>3
<1>6. c \in Maps(Int)
  <2>1. \A k \in DOMAIN x.levels : c[k] \in Int
    BY <1>3, <1>4, <1>5
  <2>2. c = [k \in DOMAIN c |-> c[k]]
    OBVIOUS
  <2> HIDE DEF c
  <2>3. c \in [DOMAIN c -> Int] /\ DOMAIN c \in SUBSET Nat
    BY <1>2, <1>3, <1>5, <2>1, <2>2
  <2> QED BY <2>3, MapIs
<1>7. y = [x EXCEPT !.book = book, !.pending = EmptyMap, !.code = c]
  BY DEF Train
<1> HIDE DEF c
<1>8. EmptyMap \in Maps(Int) /\ DOMAIN EmptyMap = {}
  BY EmptyIs, MapIs
<1>9. /\ y \in Index /\ SameGraph(y, x) /\ y.keep = x.keep /\ y.book = book
      /\ y.vec = x.vec /\ y.code = c /\ y.pending = EmptyMap
  BY <1>1, <1>6, <1>7, <1>8 DEF Index, SameGraph
<1>10. \A k \in DOMAIN y.vec : y.code[k] = Encode(y.book, y.vec[k])
  BY <1>3, <1>5, <1>9
<1>11. CodesOK(y)
  BY <1>3, <1>5, <1>8, <1>9, <1>10 DEF CodesOK, Trained, SameGraph
<1>12. SpaceOK(y)
  BY <1>1, <1>9, <1>11 DEF SpaceOK, SameGraph
<1> QED BY <1>1, <1>9, <1>12, SameGraphIs DEF IndexOK, SameGraph

\* vacuum() removes the keys one after the other.
RemoveAll(x, K) == FoldSet(LAMBDA k, index : IndexRemove(index, k), x, K)

LEMMA IndexRemoveAll ==
  ASSUME NEW x, IndexOK(x), NEW K, IsFiniteSet(K)
  PROVE  RemoveAll(x, K)
           = IF x.kind = "flat" THEN [x EXCEPT !.levels = [k \in DOMAIN x.levels \ K |-> x.levels[k]]]
             ELSE [x EXCEPT !.deleted = x.deleted \cup (K \cap DOMAIN x.levels)]
<1> DEFINE C(S) == CHOOSE e \in S : TRUE
           Step(g, S) == IF S = {} THEN x ELSE IndexRemove(g[S \ {C(S)}], C(S))
           iter == CHOOSE g : g = [S \in SUBSET K |-> Step(g, S)]
           Left(S) == [k \in DOMAIN x.levels \ S |-> x.levels[k]]
           H(S) == IF x.kind = "flat" THEN [x EXCEPT !.levels = Left(S)]
                   ELSE [x EXCEPT !.deleted = x.deleted \cup (S \cap DOMAIN x.levels)]
           h == [S \in SUBSET K |-> H(S)]
<1>1. RemoveAll(x, K) = iter[K]
  BY DEF RemoveAll, FoldSet, MapThenFoldSet
<1>2. x \in Index /\ x.levels \in Maps(Nat)
  BY DEF IndexOK, SpaceOK, Index
<1>3. x.levels \in [DOMAIN x.levels -> Nat]
  BY <1>2, MapIs
<1>4. h[{}] = x
  <2>1. Left({}) = x.levels
    BY <1>3
  <2> HIDE DEF Left
  <2>2. H({}) = x
    BY <1>2, <2>1 DEF Index
  <2> QED BY <2>2
<1>5. ASSUME NEW S \in SUBSET K, S # {} PROVE h[S] = IndexRemove(h[S \ {C(S)}], C(S))
  <2> DEFINE e == C(S)
             R == S \ {e}
  <2>1. e \in S
    BY <1>5
  <2> HIDE DEF e, C
  <2>2. h[S] = H(S) /\ h[R] = H(R)
    OBVIOUS
  <2>3. CASE x.kind = "flat"
    <3>1. Drop(Left(R), e) = Left(S)
      <4>1. DOMAIN Left(R) \ {e} = DOMAIN x.levels \ S
        BY <2>1
      <4>2. \A k \in DOMAIN x.levels \ S : Left(R)[k] = x.levels[k]
        BY <2>1
      <4> DEFINE L == Left(R)
      <4> HIDE DEF L
      <4>3. Drop(L, e) = [k \in DOMAIN x.levels \ S |-> x.levels[k]]
        BY <4>1, <4>2 DEF Drop, L
      <4> QED BY <4>3 DEF L
    <3> HIDE DEF Left
    <3>2. H(R) = [x EXCEPT !.levels = Left(R)] /\ H(S) = [x EXCEPT !.levels = Left(S)]
      BY <2>3
    <3>3. H(R).kind = "flat" /\ H(R).levels = Left(R)
      BY <1>2, <2>3, <3>2 DEF Index
    <3>4. IndexRemove(H(R), e) = [H(R) EXCEPT !.levels = Drop(@, e)]
      BY <3>3 DEF IndexRemove
    <3>5. IndexRemove(H(R), e) = [x EXCEPT !.levels = Left(S)]
      BY <1>2, <3>1, <3>2, <3>3, <3>4 DEF Index
    <3> QED BY <2>2, <3>2, <3>5 DEF e
  <2>4. CASE x.kind # "flat"
    <3> DEFINE P(T) == x.deleted \cup (T \cap DOMAIN x.levels)
    <3>1. H(R) = [x EXCEPT !.deleted = P(R)] /\ H(S) = [x EXCEPT !.deleted = P(S)]
      BY <2>4
    <3>2. P(R) \cup ({e} \cap DOMAIN x.levels) = P(S)
      BY <2>1
    <3> HIDE DEF P
    <3>3. H(R).kind # "flat" /\ H(R).levels = x.levels /\ H(R).deleted = P(R)
      BY <1>2, <2>4, <3>1 DEF Index
    <3>4. IndexRemove(H(R), e) = [H(R) EXCEPT !.deleted = @ \cup ({e} \cap DOMAIN H(R).levels)]
      BY <3>3 DEF IndexRemove
    <3> HIDE DEF H
    <3>5. IndexRemove(H(R), e) = [H(R) EXCEPT !.deleted = P(S)]
      BY <3>2, <3>3, <3>4
    <3>6. [H(R) EXCEPT !.deleted = P(S)] = [x EXCEPT !.deleted = P(S)]
      BY <1>2, <3>1 DEF Index
    <3> QED BY <2>2, <3>1, <3>5, <3>6 DEF e
  <2> QED BY <2>3, <2>4
<1> HIDE DEF h, H, Left, C
<1>6. \A S \in SUBSET K : h[S] = Step(h, S)
  BY <1>4, <1>5
<1>7. h = [S \in SUBSET K |-> Step(h, S)]
  <2>1. h = [S \in SUBSET K |-> h[S]]
    BY DEF h
  <2> HIDE DEF Step
  <2> QED BY <1>6, <2>1
<1>8. iter = [S \in SUBSET K |-> Step(iter, S)]
  <2> HIDE DEF Step
  <2> QED BY <1>7
<1> HIDE DEF iter
<1>9. iter[{}] = h[{}]
  BY <1>4, <1>8
<1>10. ASSUME NEW S \in SUBSET K, S # {}
       PROVE  \E e \in S : iter[S \ {e}] = h[S \ {e}] => iter[S] = h[S]
  <2>1. C(S) \in S
    BY <1>10 DEF C
  <2>2. iter[S] = IndexRemove(iter[S \ {C(S)}], C(S))
    BY <1>8, <1>10
  <2> QED BY <1>5, <1>10, <2>1, <2>2
<1>11. iter[K] = h[K]
  BY <1>9, <1>10, SameOnSubsets
<1> QED BY <1>1, <1>11 DEF h, H, Left

LEMMA IndexRemoveIs ==
  ASSUME NEW x, IndexOK(x), NEW K, IsFiniteSet(K),
         NEW y, y = RemoveAll(x, K)
  PROVE  /\ IndexOK(y) /\ (TopOK(x) => TopOK(y))
         /\ y.kind = x.kind /\ y.keep = x.keep /\ y.book = x.book
         /\ x.kind = "flat" => DOMAIN y.levels = DOMAIN x.levels \ K /\ y.deleted = {}
         /\ x.kind # "flat" => /\ DOMAIN y.levels = DOMAIN x.levels
                               /\ y.deleted = x.deleted \cup (K \cap DOMAIN x.levels)
<1>1. x \in Index /\ x.levels \in Maps(Nat) /\ x.deleted \in SUBSET Nat /\ SpaceOK(x) /\ GraphOK(x)
  BY DEF IndexOK, SpaceOK, Index
<1>2. DOMAIN x.levels \in SUBSET Nat /\ x.levels \in [DOMAIN x.levels -> Nat]
  BY <1>1, MapIs
<1>3. CASE x.kind = "flat"
  <2> DEFINE l == [k \in DOMAIN x.levels \ K |-> x.levels[k]]
  <2>1. y = [x EXCEPT !.levels = l]
    BY <1>3, IndexRemoveAll
  <2>2. l \in Maps(Nat) /\ DOMAIN l = DOMAIN x.levels \ K
    <3>1. l \in [DOMAIN x.levels \ K -> Nat]
      BY <1>2
    <3>2. DOMAIN l = DOMAIN x.levels \ K
      OBVIOUS
    <3> HIDE DEF l
    <3> QED BY <1>2, <3>1, <3>2, MapIs
  <2> HIDE DEF l
  <2>3. /\ y \in Index /\ y.levels = l
        /\ y.kind = x.kind /\ y.keep = x.keep /\ y.book = x.book /\ y.links = x.links
        /\ y.deleted = x.deleted /\ y.entry = x.entry /\ y.top = x.top
        /\ y.vec = x.vec /\ y.code = x.code /\ y.pending = x.pending
    BY <1>1, <2>1, <2>2 DEF Index
  <2>4. IsFiniteSet(DOMAIN l)
    BY <1>1, <2>2, FS_Subset DEF SpaceOK
  <2>5. SpaceOK(y)
    BY <1>1, <1>3, <2>2, <2>3, <2>4 DEF SpaceOK, CodesOK, Trained
  <2>6. x.deleted = {} /\ DOMAIN x.links = {} /\ x.entry = NoKey
    BY <1>1, <1>3 DEF GraphOK
  <2>7. GraphOK(y)
    BY <1>3, <2>3, <2>6 DEF GraphOK, LinksOK
  <2> QED BY <1>3, <2>2, <2>3, <2>5, <2>6, <2>7 DEF IndexOK, TopOK
<1>4. CASE x.kind # "flat"
  <2> DEFINE del == x.deleted \cup (K \cap DOMAIN x.levels)
  <2>1. y = [x EXCEPT !.deleted = del]
    BY <1>4, IndexRemoveAll
  <2>2. del \in SUBSET Nat
    BY <1>1, <1>2
  <2> HIDE DEF del
  <2>3. /\ y \in Index /\ y.levels = x.levels
        /\ y.kind = x.kind /\ y.keep = x.keep /\ y.book = x.book /\ y.links = x.links
        /\ y.deleted = del /\ y.entry = x.entry /\ y.top = x.top
        /\ y.vec = x.vec /\ y.code = x.code /\ y.pending = x.pending
    BY <1>1, <2>1, <2>2 DEF Index
  <2>4. SpaceOK(y)
    BY <1>1, <2>3 DEF SpaceOK, CodesOK, Trained
  <2>5. \A lv : Layer(y, lv) = Layer(x, lv)
    BY <2>3 DEF Layer
  <2>6. LinksOK(y)
    BY <1>1, <2>3, <2>5 DEF GraphOK, LinksOK, ListOK
  <2>7. GraphOK(y)
    BY <1>1, <1>4, <2>3, <2>6 DEF GraphOK, Rooted
  <2> QED BY <1>4, <2>3, <2>4, <2>7 DEF IndexOK, TopOK, del
<1> QED BY <1>3, <1>4

\* An index without a key.
LEMMA NoVectorsIs ==
  ASSUME NEW kind \in {"flat", "hnsw", "hnsw_pq"}, NEW keep \in BOOLEAN, kind # "hnsw_pq" => keep,
         NEW y, y = NoVectors(kind, keep)
  PROVE  /\ IndexOK(y) /\ TopOK(y) /\ ~Trained(y) /\ DOMAIN y.levels = {} /\ y.deleted = {}
         /\ y.kind = kind /\ y.keep = keep
<1>1. DOMAIN EmptyMap = {} /\ \A R : EmptyMap \in Maps(R)
  BY EmptyIs, MapIs
<1>2. /\ y \in Index /\ y.levels = EmptyMap /\ y.kind = kind /\ y.keep = keep /\ y.vec = EmptyMap
      /\ y.code = EmptyMap /\ y.pending = EmptyMap /\ y.book = {} /\ y.links = EmptyMap
      /\ y.deleted = {} /\ y.entry = NoKey
  BY <1>1 DEF Index, NoVectors
<1>3. SpaceOK(y)
  BY <1>1, <1>2, FS_EmptySet DEF SpaceOK, CodesOK, Trained
<1>4. GraphOK(y)
  BY <1>1, <1>2 DEF GraphOK, LinksOK
<1> QED BY <1>1, <1>2, <1>3, <1>4 DEF IndexOK, TopOK, Trained

\* rebuild_index, _rebuild_from_store: the index of the points in their order.
LEMMA BuildIndexIs ==
  ASSUME IndexOK(ix), NEW points \in Seq(Int), NEW levels \in [1..Len(points) -> Nat],
         NEW book \in Books(ToSet(points)), NEW y, y = BuildIndex(points, levels, book)
  PROVE  /\ IndexOK(y) /\ TopOK(y) /\ DOMAIN y.levels = 0..Len(points) - 1 /\ y.deleted = {}
         /\ y.kind = ix.kind /\ y.keep = ix.keep
<1> DEFINE empty == NoVectors(ix.kind, ix.keep)
           trained == IF ix.kind = "hnsw_pq" /\ points # <<>> THEN Train(empty, book) ELSE empty
           Good(z, i) == /\ IndexOK(z) /\ TopOK(z) /\ DOMAIN z.levels = 0..i - 1 /\ z.deleted = {}
                         /\ z.kind = ix.kind /\ z.keep = ix.keep
                         /\ ix.kind = "hnsw_pq" /\ points # <<>> => Trained(z)
<1> DEFINE n == Len(points)
           V == [i \in 0..n |-> {z \in Index : Good(z, i)}]
           step == [i \in 1..n |-> [acc \in V[i - 1] |-> IndexAdd(acc, i - 1, points[i], levels[i])]]
           state == CHOOSE g : g = [i \in 0..n |-> IF i = 0 THEN trained ELSE IndexAdd(g[i - 1], i - 1, points[i], levels[i])]
<1>1. y = state[n]
  BY DEF BuildIndex, Iterate
<1> HIDE DEF V, step, state
<1>2. n \in Nat /\ DOMAIN points = 1..n /\ \A i \in 1..n : points[i] \in Int /\ levels[i] \in Nat
  BY LenProperties, ElementOfSeq
<1>3. ToSet(points) \in SUBSET Int /\ (points # <<>> => ToSet(points) # {})
  <2>1. ToSet(points) \in SUBSET Int
    BY <1>2 DEF ToSet
  <2>2. ASSUME points # <<>> PROVE ToSet(points) # {}
    <3>1. n # 0
      BY <2>2, EmptySeq
    <3>2. points[1] \in ToSet(points)
      BY <1>2, <3>1 DEF ToSet
    <3> QED BY <3>2
  <2> QED BY <2>1, <2>2
<1>4. book \in SUBSET Int /\ (points # <<>> => book # {})
  BY <1>3, BooksIs
<1>5. ix \in Index /\ ix.kind \in {"flat", "hnsw", "hnsw_pq"} /\ ix.keep \in BOOLEAN
      /\ (ix.kind # "hnsw_pq" => ix.keep)
  BY DEF IndexOK, SpaceOK, Index
<1>6. /\ IndexOK(empty) /\ TopOK(empty) /\ ~Trained(empty) /\ DOMAIN empty.levels = {}
      /\ empty.deleted = {} /\ empty.kind = ix.kind /\ empty.keep = ix.keep
  BY <1>5, NoVectorsIs
<1> HIDE DEF empty, n
<1>7. Good(trained, 0)
  <2>1. CASE ix.kind = "hnsw_pq" /\ points # <<>>
    <3>1. /\ IndexOK(trained) /\ TopOK(trained) /\ trained.kind = empty.kind
          /\ trained.keep = empty.keep /\ trained.book = book
          /\ trained.levels = empty.levels /\ trained.deleted = empty.deleted
      BY <1>4, <1>6, <2>1, TrainIs
    <3> HIDE DEF trained
    <3> QED BY <1>4, <1>6, <2>1, <3>1 DEF Trained
  <2>2. CASE ~(ix.kind = "hnsw_pq" /\ points # <<>>)
    BY <1>6, <2>2
  <2> QED BY <2>1, <2>2
<1> HIDE DEF trained
<1>8. \A z, i : Good(z, i) => z \in Index
  BY DEF IndexOK, SpaceOK
<1>9. ASSUME NEW i \in 1..n, NEW acc, Good(acc, i - 1)
      PROVE  Good(IndexAdd(acc, i - 1, points[i], levels[i]), i)
  <2> DEFINE z == IndexAdd(acc, i - 1, points[i], levels[i])
  <2>1. i - 1 \in Nat /\ i - 1 \notin DOMAIN acc.levels
    BY <1>2, <1>9
  <2>2. ~AddRaises(acc)
    <3>1. points # <<>>
      BY <1>9, <1>2, EmptySeq DEF n
    <3> QED BY <1>9, <3>1 DEF AddRaises, Incomparable
  <2>3. /\ IndexOK(z) /\ DOMAIN z.levels = DOMAIN acc.levels \cup {i - 1}
        /\ z.deleted = acc.deleted \ {i - 1}
        /\ z.kind = acc.kind /\ z.keep = acc.keep /\ z.book = acc.book
        /\ TopOK(acc) /\ ~AddRaises(acc) => TopOK(z)
    BY <1>2, <1>9, <2>1, IndexAddIs
  <2>4. DOMAIN z.levels = 0..i - 1
    <3>1. 0..i - 1 - 1 \cup {i - 1} = 0..i - 1
      BY <1>2
    <3> QED BY <1>9, <2>3, <3>1
  <2>5. Trained(acc) => Trained(z)
    BY <2>3 DEF Trained
  <2> HIDE DEF z
  <2> QED BY <1>9, <2>2, <2>3, <2>4, <2>5 DEF z
<1> HIDE DEF Good
<1> USE DEF V, step, state
<1>20. trained \in V[0]
  BY <1>2, <1>7, <1>8
<1>21. ASSUME NEW i \in 1..n, NEW acc \in V[i - 1]
       PROVE  IndexAdd(acc, i - 1, points[i], levels[i]) \in V[i]
  <2>1. i - 1 \in 0..n /\ i \in 0..n
    BY <1>2
  <2>2. Good(acc, i - 1)
    BY <2>1
  <2>3. Good(IndexAdd(acc, i - 1, points[i], levels[i]), i)
    BY <1>9, <2>2
  <2>4. IndexAdd(acc, i - 1, points[i], levels[i]) \in Index
    BY <1>8, <2>3
  <2> QED BY <2>1, <2>3, <2>4
<1>22. \A z \in V[n] : Good(z, n)
  BY <1>2
<1> HIDE DEF V
<1>10. Leads(step, V, n)
  BY <1>21 DEF Leads
<1>11. \A i \in 1..n : \A acc \in V[i - 1] : step[i][acc] = IndexAdd(acc, i - 1, points[i], levels[i])
  OBVIOUS
<1> HIDE DEF step
<1>12. PICK f : Takes(f, trained, step, V, n)
  BY <1>2, <1>20, <1>10, IterationExists
<1>13. \A i \in 0..n : f[i] = IF i = 0 THEN trained ELSE IndexAdd(f[i - 1], i - 1, points[i], levels[i])
  <2>1. \A i \in 1..n : f[i] = IndexAdd(f[i - 1], i - 1, points[i], levels[i])
    BY <1>11, <1>12 DEF Takes
  <2>2. f[0] = trained /\ \A i \in 0..n : i = 0 \/ i \in 1..n
    BY <1>2, <1>12 DEF Takes
  <2> QED BY <2>1, <2>2
<1>14. f = [i \in 0..n |-> IF i = 0 THEN trained ELSE IndexAdd(f[i - 1], i - 1, points[i], levels[i])]
  BY <1>12, <1>13 DEF Takes
<1>15. state = [i \in 0..n |-> IF i = 0 THEN trained ELSE IndexAdd(state[i - 1], i - 1, points[i], levels[i])]
  BY <1>14
<1> HIDE DEF state
<1>16. Stays(state, V, n)
  <2>1. state[0] \in V[0]
    BY <1>2, <1>15, <1>20
  <2>2. ASSUME NEW i \in 1..n, state[i - 1] \in V[i - 1] PROVE state[i] \in V[i]
    <3>1. i \in 0..n /\ i # 0
      BY <1>2
    <3>2. state[i] = IndexAdd(state[i - 1], i - 1, points[i], levels[i])
      BY <1>15, <3>1
    <3> QED BY <1>21, <2>2, <3>2
  <2> QED BY <2>1, <2>2 DEF Stays
<1>17. state[n] \in V[n]
  BY <1>2, <1>16, IterationIn
<1>23. Good(y, n)
  BY <1>1, <1>17, <1>22 DEF state
<1> QED BY <1>23 DEF Good, n

-----------------------------------------------------------------------------
(* The tables *)

LEMMA FiniteUpTo ==
  ASSUME NEW m \in Int
  PROVE  IsFiniteSet(0..m)
<1>1. IsFiniteSet(0..m) /\ Cardinality(0..m) = IF 0 > m THEN 0 ELSE m - 0 + 1
  BY FS_Interval
<1> QED BY <1>1

\* The versions that have a text, and their texts.
TextsOf(vs) ==
  [k \in {j \in DOMAIN vs : vs[j].content.text # <<>>} |-> vs[k].content.text]

LEMMA TextsOfIs ==
  ASSUME NEW vs, IsFiniteSet(DOMAIN vs), \A k \in DOMAIN vs : vs[k].content.text \in Seq(Words)
  PROVE  Texts(TextsOf(vs))
<1> DEFINE I == {j \in DOMAIN vs : vs[j].content.text # <<>>}
<1>1. I \subseteq DOMAIN vs
  OBVIOUS
<1>2. IsFiniteSet(I)
  BY <1>1, FS_Subset
<1>3. /\ TextsOf(vs) = [k \in I |-> vs[k].content.text] /\ DOMAIN TextsOf(vs) = I
      /\ \A k \in I : TextsOf(vs)[k] = vs[k].content.text
  BY DEF TextsOf
<1> HIDE DEF I
<1>4. TextsOf(vs) = [k \in DOMAIN TextsOf(vs) |-> TextsOf(vs)[k]]
  BY <1>3
<1> QED BY <1>1, <1>2, <1>3, <1>4 DEF Texts

\* The table and the text index of versions without and with one more.
LEMMA AddTextIs ==
  ASSUME NEW vs, Texts(TextsOf(vs)), NEW key, key \notin DOMAIN vs,
         NEW v, v.content.text \in Seq(Words)
  PROVE  AddText(IndexOf(TextsOf(vs)), key, v.content.text) = IndexOf(TextsOf(Put(vs, key, v)))
<1> DEFINE ws == Put(vs, key, v)
           I == {j \in DOMAIN vs : vs[j].content.text # <<>>}
           J == {j \in DOMAIN ws : ws[j].content.text # <<>>}
           T == TextsOf(vs)
           text == v.content.text
<1>1. DOMAIN ws = DOMAIN vs \cup {key}
  BY ONLY PutDomain
<1>2. ws[key] = v
  BY ONLY PutNew
<1>3. \A j \in DOMAIN vs : j # key => ws[j] = vs[j]
  BY ONLY PutOld
<1> HIDE DEF ws
<1>4. TextsOf(ws) = [k \in J |-> ws[k].content.text]
  BY DEF TextsOf
<1>5. T = [k \in I |-> vs[k].content.text] /\ DOMAIN T = I /\ key \notin I
  BY DEF TextsOf
<1>6. \A j \in I : j \in J /\ ws[j] = vs[j]
  BY <1>1, <1>3
<1>7. CASE text = <<>>
  <2>1. J = I
    BY <1>1, <1>2, <1>3, <1>7
  <2> HIDE DEF I, J
  <2>2. TextsOf(ws) = T
    BY <1>4, <1>5, <1>6, <2>1
  <2> QED BY <1>7, <2>2 DEF AddText, ws
<1>8. CASE text # <<>>
  <2>1. J = I \cup {key}
    BY <1>1, <1>2, <1>3, <1>8
  <2>2. Put(T, key, text) = [k \in I \cup {key} |-> IF k = key THEN text ELSE T[k]]
    BY <1>5, PutIs
  <2> HIDE DEF I, J, T
  <2>3. \A k \in J : ws[k].content.text = IF k = key THEN text ELSE T[k]
    BY <1>2, <1>5, <1>6, <2>1
  <2>4. TextsOf(ws) = Put(T, key, text)
    BY <1>4, <2>1, <2>2, <2>3
  <2>5. TextAdd(IndexOf(T), key, text) = IndexOf(Put(T, key, text))
    BY <1>5, TextAddExact DEF T
  <2> QED BY <1>8, <2>4, <2>5 DEF AddText, ws, T
<1> QED BY <1>7, <1>8

\* rebuild_index, _rebuild_from_store: the texts of the records in their order.
TextsInOrder(recs, n) ==
  Iterate(LAMBDA b, i : AddText(b, i - 1, recs[i].content.text), NoTexts, n)

\* The versions vs have the contents of the records.
Tabulated(vs, recs, n) ==
  /\ vs = [k \in 0..n - 1 |-> vs[k]] /\ \A k \in 0..n - 1 : vs[k].content = recs[k + 1].content
  /\ \A i \in 1..n : recs[i].content.text \in Seq(Words)

LEMMA TextsRebuilt ==
  ASSUME NEW n \in Nat, NEW recs, NEW vs, Tabulated(vs, recs, n)
  PROVE  TextsInOrder(recs, n) = IndexOf(TextsOf(vs))
<1> DEFINE U == [i \in 0..n |-> [k \in 0..i - 1 |-> vs[k]]]
           V == [i \in 0..n |-> {IndexOf(TextsOf(U[i]))}]
           step == [i \in 1..n |-> [b \in V[i - 1] |-> AddText(b, i - 1, recs[i].content.text)]]
           state == CHOOSE g : g = [i \in 0..n |-> IF i = 0 THEN NoTexts
                                                    ELSE AddText(g[i - 1], i - 1, recs[i].content.text)]
<1> USE DEF Tabulated
<1>1. TextsInOrder(recs, n) = state[n]
  BY DEF Iterate, TextsInOrder
<1> HIDE DEF V, step, state
<1>2. \A i \in 0..n : U[i] = [k \in 0..i - 1 |-> vs[k]]
  OBVIOUS
<1>3. U[n] = vs
  <2>1. n \in 0..n
    OBVIOUS
  <2>2. U[n] = [k \in 0..n - 1 |-> vs[k]]
    BY ONLY <1>2, <2>1
  <2>3. vs = [k \in 0..n - 1 |-> vs[k]]
    OBVIOUS
  <2> QED BY ONLY <2>2, <2>3
<1> HIDE DEF U
<1>4. \A k \in 0..n - 1 : vs[k].content.text \in Seq(Words)
  <2>1. ASSUME NEW k \in 0..n - 1 PROVE vs[k].content.text \in Seq(Words)
    <3>1. k + 1 \in 1..n /\ vs[k].content = recs[k + 1].content
      OBVIOUS
    <3> QED BY <3>1
  <2> QED BY <2>1
<1>5. \A i \in 0..n : Texts(TextsOf(U[i]))
  <2>1. SUFFICES ASSUME NEW i \in 0..n PROVE Texts(TextsOf(U[i]))
    OBVIOUS
  <2> DEFINE j == i - 1
  <2>5. j \in Int /\ i \in Int /\ i <= n
    BY <2>1
  <2>6. U[i] = [k \in 0..j |-> vs[k]]
    BY <1>2
  <2>7. \A k \in 0..j : k \in 0..n - 1
    BY <2>5
  <2> HIDE DEF j
  <2>2. DOMAIN U[i] = 0..j /\ \A k \in 0..j : k \in 0..n - 1 /\ U[i][k] = vs[k]
    BY <2>6, <2>7
  <2>3. IsFiniteSet(0..j)
    BY <2>5, FiniteUpTo
  <2>4. \A k \in DOMAIN U[i] : U[i][k].content.text \in Seq(Words)
    BY <1>4, <2>2
  <2> QED BY <2>2, <2>3, <2>4, TextsOfIs
<1>6. NoTexts = IndexOf(TextsOf(U[0]))
  <2> DEFINE T == TextsOf(U[0])
             b == IndexOf(T)
             W(x) == ToSet(Tokenize(T[x]))
  <2>8. 0 \in 0..n /\ 0..0 - 1 = {}
    OBVIOUS
  <2>9. U[0] = [k \in 0..0 - 1 |-> vs[k]]
    BY <1>2, <2>8
  <2>1. DOMAIN U[0] = {}
    BY <2>8, <2>9
  <2>2. DOMAIN T = {}
    BY <2>1 DEF TextsOf
  <2> HIDE DEF T, b
  <2>4. /\ b = [postings |-> b.postings, docLen |-> b.docLen, docTerms |-> b.docTerms,
                totalLen |-> b.totalLen]
        /\ b.postings = [t \in UNION {W(x) : x \in DOMAIN T} |->
                           [x \in {y \in DOMAIN T : t \in W(y)} |-> Count(Tokenize(T[x]), t)]]
        /\ b.docLen = [x \in DOMAIN T |-> Len(Tokenize(T[x]))]
        /\ b.docTerms = [x \in DOMAIN T |-> W(x)]
        /\ b.totalLen = Cardinality(Places(T))
    BY IndexFields DEF b
  <2>5. b.postings = EmptyMap
    <3>1. UNION {W(x) : x \in DOMAIN T} = {}
      BY <2>2
    <3> QED BY <2>4, <3>1 DEF EmptyMap
  <2>6. b.docLen = EmptyMap /\ b.docTerms = EmptyMap
    BY <2>2, <2>4 DEF EmptyMap
  <2>7. b.totalLen = 0
    <3>1. Places(T) = {}
      BY <2>2 DEF Places
    <3> QED BY <2>4, <3>1, FS_EmptySet
  <2> QED BY <2>4, <2>5, <2>6, <2>7 DEF NoTexts, b, T
<1>7. ASSUME NEW i \in 1..n
      PROVE  AddText(IndexOf(TextsOf(U[i - 1])), i - 1, recs[i].content.text) = IndexOf(TextsOf(U[i]))
  <2> DEFINE k == i - 1
             us == U[k]
  <2>1. k \in 0..n /\ i \in 0..n /\ k \in 0..n - 1 /\ k + 1 = i
    OBVIOUS
  <2>2. us = [j \in 0..k - 1 |-> vs[j]] /\ U[i] = [j \in 0..k |-> vs[j]]
    BY <1>2, <2>1
  <2>3. vs[k].content = recs[i].content
    BY <2>1
  <2>4. Texts(TextsOf(us)) /\ vs[k].content.text \in Seq(Words)
    BY <1>4, <1>5, <2>1
  <2>5. DOMAIN us = 0..k - 1 /\ k \notin 0..k - 1 /\ 0..k = 0..k - 1 \cup {k}
    BY <2>1, <2>2
  <2>6. \A j \in 0..k : j # k => us[j] = vs[j]
    BY <2>2, <2>5
  <2> HIDE DEF k, us
  <2>7. Put(us, k, vs[k]) = [j \in DOMAIN us \cup {k} |-> IF j = k THEN vs[k] ELSE us[j]]
    BY PutIs
  <2>8. Put(us, k, vs[k]) = U[i]
    BY <2>2, <2>5, <2>6, <2>7
  <2>9. AddText(IndexOf(TextsOf(us)), k, vs[k].content.text) = IndexOf(TextsOf(Put(us, k, vs[k])))
    BY <2>4, <2>5, AddTextIs
  <2> QED BY <2>3, <2>8, <2>9 DEF us, k
<1>8. NoTexts \in V[0]
  <2>1. 0 \in 0..n
    OBVIOUS
  <2> QED BY <1>6, <2>1 DEF V
<1>9. ASSUME NEW i \in 1..n, NEW b \in V[i - 1]
      PROVE  AddText(b, i - 1, recs[i].content.text) \in V[i]
  <2>1. i - 1 \in 0..n /\ i \in 0..n
    OBVIOUS
  <2>2. b = IndexOf(TextsOf(U[i - 1]))
    BY <2>1 DEF V
  <2> QED BY <1>7, <2>1, <2>2 DEF V
<1>10. Leads(step, V, n)
  BY <1>9 DEF Leads, step
<1>11. \A i \in 1..n : \A b \in V[i - 1] : step[i][b] = AddText(b, i - 1, recs[i].content.text)
  BY DEF step
<1>12. PICK f : Takes(f, NoTexts, step, V, n)
  BY <1>8, <1>10, IterationExists
<1>13. \A i \in 0..n : f[i] = IF i = 0 THEN NoTexts ELSE AddText(f[i - 1], i - 1, recs[i].content.text)
  <2>1. \A i \in 1..n : f[i] = AddText(f[i - 1], i - 1, recs[i].content.text)
    BY <1>11, <1>12 DEF Takes
  <2>2. f[0] = NoTexts /\ \A i \in 0..n : i = 0 \/ i \in 1..n
    BY <1>12 DEF Takes
  <2> QED BY <2>1, <2>2
<1>14. f = [i \in 0..n |-> IF i = 0 THEN NoTexts ELSE AddText(f[i - 1], i - 1, recs[i].content.text)]
  BY <1>12, <1>13 DEF Takes
<1>15. state = [i \in 0..n |-> IF i = 0 THEN NoTexts ELSE AddText(state[i - 1], i - 1, recs[i].content.text)]
  BY <1>14 DEF state
<1>16. Stays(state, V, n)
  <2>1. state[0] \in V[0]
    BY <1>8, <1>15
  <2>2. ASSUME NEW i \in 1..n, state[i - 1] \in V[i - 1] PROVE state[i] \in V[i]
    <3>1. i \in 0..n /\ i # 0
      OBVIOUS
    <3>2. state[i] = AddText(state[i - 1], i - 1, recs[i].content.text)
      BY <1>15, <3>1
    <3> QED BY <1>9, <2>2, <3>2
  <2> QED BY <2>1, <2>2 DEF Stays
<1>17. state[n] \in V[n]
  BY <1>16, IterationIn
<1>18. state[n] = IndexOf(TextsOf(U[n]))
  BY <1>17 DEF V
<1> QED BY <1>1, <1>3, <1>18

-----------------------------------------------------------------------------
(* The invariant *)

Version == [doc : Docs, content : Contents, live : BOOLEAN]
Record == [doc : Docs, content : Contents]

\* A table of versions, and of the current ones: a live version is the current
\* one of its document, and no key is as large as the next.
TablesOK(vs, cur, next) ==
  /\ vs \in Maps(Version) /\ next \in Nat /\ DOMAIN vs \subseteq 0..next - 1
  /\ DOMAIN cur \subseteq Docs /\ IsFiniteSet(DOMAIN cur)
  /\ \A d \in DOMAIN cur : /\ cur[d] \in Nat /\ cur[d] < next
                           /\ cur[d] \in DOMAIN vs => vs[cur[d]].doc = d
  /\ \A k \in DOMAIN vs : vs[k].live => vs[k].doc \in DOMAIN cur /\ cur[vs[k].doc] = k

\* The keys of an index are those of the versions, and of dead ones it keeps.
IndexFor(x, vs, next) ==
  IndexOK(x) /\ DOMAIN x.levels \subseteq 0..next - 1 /\ DOMAIN vs \subseteq DOMAIN x.levels \ x.deleted

OneEach(recs) == \A i, j \in DOMAIN recs : recs[i].doc = recs[j].doc => i = j
Records(recs) == recs \in Seq(Record) /\ OneEach(recs)

\* While no write has raised: every current version is live, and live versions
\* are stored.
Whole(vs, cur, recs, x) ==
  /\ TopOK(x)
  /\ \A d \in DOMAIN cur : cur[d] \in DOMAIN vs /\ vs[cur[d]].live
  /\ \A k \in DOMAIN vs : vs[k].live =>
       \E i \in DOMAIN recs : recs[i].doc = vs[k].doc /\ recs[i].content = vs[k].content

Inv ==
  /\ TablesOK(versions, current, nextKey) /\ IndexFor(ix, versions, nextKey)
  /\ TextIndexExact /\ Records(stored) /\ raised \in BOOLEAN
  /\ ~raised => Whole(versions, current, stored, ix)

LEMMA ContentIs ==
  ASSUME NEW c \in Contents
  PROVE  c.point \in Int /\ c.text \in Seq(Words)
BY DataAssumption

LEMMA VersionsAre ==
  ASSUME NEW vs \in Maps(Version)
  PROVE  /\ DOMAIN vs \in SUBSET Nat /\ vs = [k \in DOMAIN vs |-> vs[k]]
         /\ \A k \in DOMAIN vs : /\ vs[k] \in Version
                                 /\ vs[k].doc \in Docs /\ vs[k].content \in Contents
                                 /\ vs[k].live \in BOOLEAN
                                 /\ vs[k].content.point \in Int /\ vs[k].content.text \in Seq(Words)
<1>1. DOMAIN vs \in SUBSET Nat /\ vs \in [DOMAIN vs -> Version]
  BY MapIs
<1>2. \A k \in DOMAIN vs : vs[k].doc \in Docs /\ vs[k].content \in Contents /\ vs[k].live \in BOOLEAN
  BY <1>1 DEF Version
<1> QED BY <1>1, <1>2, ContentIs

\* The texts of a table of versions.
LEMMA TextsAre ==
  ASSUME NEW vs \in Maps(Version), NEW next \in Nat, DOMAIN vs \subseteq 0..next - 1
  PROVE  IsFiniteSet(DOMAIN vs) /\ Texts(TextsOf(vs))
<1>1. next - 1 \in Int
  OBVIOUS
<1>2. IsFiniteSet(0..next - 1)
  BY <1>1, FiniteUpTo
<1>3. IsFiniteSet(DOMAIN vs)
  BY <1>2, FS_Subset
<1> QED BY <1>3, VersionsAre, TextsOfIs

\* A write of a document: its record is gone from the store, the others are not.
LEMMA WithoutIs ==
  ASSUME Records(stored), NEW d
  PROVE  /\ Records(Without(d))
         /\ \A i \in DOMAIN Without(d) : Without(d)[i].doc # d
         /\ \A i \in DOMAIN stored : stored[i].doc # d =>
              \E j \in DOMAIN Without(d) : Without(d)[j] = stored[i]
<1> DEFINE I == {i \in DOMAIN stored : stored[i].doc # d}
           s == Without(d)
           n == Cardinality(I)
<1>1. stored \in Seq(Record) /\ I \in SUBSET DOMAIN stored
  BY DEF Records
<1>2. I \in SUBSET Int /\ IsFiniteSet(I)
  BY <1>1, Positions
<1>3. s = Pick(stored, I)
  BY DEF Without
<1>4. s \in Seq(Record)
  BY <1>1, <1>3, PickType
<1> HIDE DEF n, s, I
<1>5. PICK at : PickedAt(Pick(stored, I), stored, I, at)
  BY <1>2, PickIs
<1>6. n \in Nat /\ Len(s) = n
  BY <1>2, <1>3, PickIs DEF n
<1>7. DOMAIN s = 1..n
  BY <1>4, <1>6, LenProperties
<1>8. \A i \in 1..n : at[i] \in DOMAIN stored /\ at[i] \in Int /\ s[i] = stored[at[i]] /\ s[i].doc # d
  BY <1>2, <1>3, <1>5 DEF I, n, PickedAt
<1>9. \A i, j \in 1..n : at[i] = at[j] => i = j
  BY <1>5, <1>6, <1>8 DEF n, PickedAt
<1>10. OneEach(s)
  BY <1>7, <1>8, <1>9 DEF Records, OneEach
<1>11. \A i \in DOMAIN stored : stored[i].doc # d => i \in I
  BY DEF I
<1>13. \A k \in I : \E i \in DOMAIN s : s[i] = stored[k]
  BY <1>3, <1>5, <1>7 DEF n, PickedAt
<1> QED BY <1>4, <1>7, <1>8, <1>10, <1>11, <1>13 DEF Records, s

\* ws are the versions vs, those of W dead.
Marked(ws, vs, W) ==
  /\ ws \in Maps(Version) /\ DOMAIN ws = DOMAIN vs
  /\ \A k \in DOMAIN vs : /\ ws[k].doc = vs[k].doc /\ ws[k].content = vs[k].content
                          /\ ws[k].live <=> vs[k].live /\ k \notin W

\* What is live of them.
Marking(live, vs, W) ==
  /\ live \in [DOMAIN vs -> BOOLEAN]
  /\ \A k \in DOMAIN vs : live[k] <=> vs[k].live /\ k \notin W

LEMMA MarkedIs ==
  ASSUME NEW vs \in Maps(Version), NEW W, NEW live, Marking(live, vs, W),
         NEW ws, ws = [k \in DOMAIN vs |-> [vs[k] EXCEPT !.live = live[k]]]
  PROVE  Marked(ws, vs, W) /\ TextsOf(ws) = TextsOf(vs)
<1>1. DOMAIN vs \in SUBSET Nat /\ \A k \in DOMAIN vs : vs[k] \in Version
  BY VersionsAre
<1>2. DOMAIN ws = DOMAIN vs /\ \A k \in DOMAIN vs : ws[k] = [vs[k] EXCEPT !.live = live[k]]
  OBVIOUS
<1>3. \A k \in DOMAIN vs : live[k] \in BOOLEAN /\ (live[k] <=> vs[k].live /\ k \notin W)
  BY DEF Marking
<1>4. \A k \in DOMAIN vs : /\ ws[k] \in Version /\ ws[k].live = live[k]
                           /\ ws[k].doc = vs[k].doc /\ ws[k].content = vs[k].content
  BY <1>1, <1>2, <1>3 DEF Version
<1>5. ws \in [DOMAIN ws -> Version]
  BY <1>2, <1>4
<1>6. ws \in Maps(Version)
  BY <1>1, <1>2, <1>5, MapIs
<1>7. {j \in DOMAIN ws : ws[j].content.text # <<>>} = {j \in DOMAIN vs : vs[j].content.text # <<>>}
  BY <1>2, <1>4
<1>8. TextsOf(ws) = TextsOf(vs)
  BY <1>4, <1>7 DEF TextsOf
<1> QED BY <1>2, <1>3, <1>4, <1>6, <1>8 DEF Marked

-----------------------------------------------------------------------------
(* The steps *)

\* _maybe_train leaves an index of the same keys.
LEMMA BaseIs ==
  ASSUME IndexOK(ix), NEW point \in Int,
         NEW book \in (IF MustTrain THEN Books(Sample(point)) ELSE {{}}),
         NEW base, base = IF MustTrain THEN Train(ix, book) ELSE ix
  PROVE  /\ IndexOK(base) /\ (TopOK(ix) => TopOK(base))
         /\ base.levels = ix.levels /\ base.deleted = ix.deleted
<1>1. CASE MustTrain
  <2>1. ix.pending \in Maps(Int)
    BY DEF IndexOK, SpaceOK, Index
  <2>2. ix.pending \in [DOMAIN ix.pending -> Int]
    BY <2>1, MapIs
  <2>3. Sample(point) \in SUBSET Int /\ Sample(point) # {}
    BY <2>2 DEF Sample
  <2>4. book \in Books(Sample(point)) /\ base = Train(ix, book)
    BY <1>1
  <2>5. book \in SUBSET Int /\ book # {}
    BY <2>3, <2>4, BooksIs
  <2>6. ix.kind = "hnsw_pq" /\ ~Trained(ix)
    BY <1>1 DEF MustTrain
  <2> QED BY <2>4, <2>5, <2>6, TrainIs
<1>2. CASE ~MustTrain
  BY <1>2
<1> QED BY <1>1, <1>2

\* A level a key may be given.
LEMMA LevelIs ==
  ASSUME NEW next \in Nat, NEW bound \in Nat, bound <= MaxKeys, next < bound, NEW level \in LevelsOf[next]
  PROVE  level \in Nat
<1>1. MaxKeys \in Nat /\ LevelsOf \in [0..MaxKeys - 1 -> SUBSET Nat]
  BY SearchAssumption
<1>2. next \in 0..MaxKeys - 1
  BY <1>1
<1> QED BY <1>1, <1>2

\* The table without its current version of d, which a write of d supersedes.
Superseded(vs, cur, d) == {cur[e] : e \in DOMAIN cur \cap {d}}

\* What is stored of the documents other than d, and of d.
Kept(recs, nrecs, d) ==
  \A i \in DOMAIN recs : recs[i].doc # d =>
    \E j \in DOMAIN nrecs : nrecs[j].doc = recs[i].doc /\ nrecs[j].content = recs[i].content
HasRecord(recs, d, c) == \E j \in DOMAIN recs : recs[j].doc = d /\ recs[j].content = c

\* A version of d is put in, and is the current one.
LEMMA TablesPut ==
  ASSUME NEW vs, NEW cur, NEW next, TablesOK(vs, cur, next), NEW d \in Docs, NEW c \in Contents,
         NEW ms, Marked(ms, vs, Superseded(vs, cur, d)),
         NEW v, v = [doc |-> d, content |-> c, live |-> TRUE],
         NEW ws, ws = Put(ms, next, v), NEW ncur, ncur = Put(cur, d, next),
         NEW recs, NEW x, NEW nrecs, NEW y
  PROVE  /\ TablesOK(ws, ncur, next + 1) /\ DOMAIN ws = DOMAIN vs \cup {next}
         /\ Whole(vs, cur, recs, x) /\ TopOK(y) /\ Kept(recs, nrecs, d) /\ HasRecord(nrecs, d, c)
              => Whole(ws, ncur, nrecs, y)
<1>1. /\ vs \in Maps(Version) /\ next \in Nat /\ DOMAIN vs \subseteq 0..next - 1
      /\ DOMAIN cur \subseteq Docs /\ IsFiniteSet(DOMAIN cur)
      /\ \A e \in DOMAIN cur : /\ cur[e] \in Nat /\ cur[e] < next
                               /\ cur[e] \in DOMAIN vs => vs[cur[e]].doc = e
      /\ \A k \in DOMAIN vs : vs[k].live => vs[k].doc \in DOMAIN cur /\ cur[vs[k].doc] = k
  BY DEF TablesOK
<1>2. /\ ms \in Maps(Version) /\ DOMAIN ms = DOMAIN vs
      /\ \A k \in DOMAIN vs : /\ ms[k].doc = vs[k].doc /\ ms[k].content = vs[k].content
                              /\ ms[k].live <=> vs[k].live /\ k \notin Superseded(vs, cur, d)
  BY DEF Marked
<1>3. v \in Version /\ v.doc = d /\ v.content = c /\ v.live
  BY DEF Version
<1>4. ws \in Maps(Version)
  BY <1>1, <1>2, <1>3, PutMap
<1>5. DOMAIN ws = DOMAIN vs \cup {next}
  <2>1. DOMAIN Put(ms, next, v) = DOMAIN ms \cup {next}
    BY ONLY PutDomain
  <2> QED BY <1>2, <2>1
<1>6. ws[next] = v
  BY PutNew
<1>7. \A k \in DOMAIN vs : k # next /\ ws[k] = ms[k]
  <2>1. SUFFICES ASSUME NEW k \in DOMAIN vs PROVE k # next /\ ws[k] = ms[k]
    OBVIOUS
  <2>2. k # next /\ k \in DOMAIN ms
    BY <1>1, <1>2
  <2> QED BY <2>2, PutOld
<1>8. DOMAIN ncur = DOMAIN cur \cup {d}
  BY PutDomain
<1>9. ncur[d] = next
  BY PutNew
<1>10. \A e \in DOMAIN cur : e # d => ncur[e] = cur[e]
  BY PutOld
<1>11. \A k \in DOMAIN vs : ws[k].live => vs[k].live /\ vs[k].doc # d
  <2>1. SUFFICES ASSUME NEW k \in DOMAIN vs, ws[k].live PROVE vs[k].live /\ vs[k].doc # d
    OBVIOUS
  <2>2. ms[k].live
    BY <1>7, <2>1
  <2>3. vs[k].live /\ k \notin Superseded(vs, cur, d)
    BY <1>2, <2>2
  <2>4. vs[k].doc \in DOMAIN cur /\ cur[vs[k].doc] = k
    BY <1>1, <2>3
  <2>5. ASSUME vs[k].doc = d PROVE FALSE
    BY <2>3, <2>4, <2>5 DEF Superseded
  <2> QED BY <2>3, <2>5
<1>12. \A k \in DOMAIN ws : ws[k].live => ws[k].doc \in DOMAIN ncur /\ ncur[ws[k].doc] = k
  <2>1. ws[next].doc \in DOMAIN ncur /\ ncur[ws[next].doc] = next
    BY <1>3, <1>6, <1>8, <1>9
  <2>2. ASSUME NEW k \in DOMAIN vs, ws[k].live
        PROVE  ws[k].doc \in DOMAIN ncur /\ ncur[ws[k].doc] = k
    <3>1. ws[k].doc = vs[k].doc
      BY <1>2, <1>7
    <3>2. vs[k].doc # d /\ vs[k].doc \in DOMAIN cur /\ cur[vs[k].doc] = k
      BY <1>1, <1>11, <2>2
    <3> QED BY <1>8, <1>10, <3>1, <3>2
  <2> QED BY <1>5, <2>1, <2>2
<1>13. \A e \in DOMAIN ncur : /\ ncur[e] \in Nat /\ ncur[e] < next + 1
                              /\ ncur[e] \in DOMAIN ws => ws[ncur[e]].doc = e
  <2>1. ncur[d] \in Nat /\ ncur[d] < next + 1 /\ ws[ncur[d]].doc = d
    BY <1>1, <1>3, <1>6, <1>9
  <2>2. ASSUME NEW e \in DOMAIN cur, e # d
        PROVE  /\ ncur[e] \in Nat /\ ncur[e] < next + 1
               /\ ncur[e] \in DOMAIN ws => ws[ncur[e]].doc = e
    <3>1. ncur[e] = cur[e] /\ cur[e] \in Nat /\ cur[e] < next
      BY <1>1, <1>10, <2>2
    <3>2. cur[e] < next + 1 /\ cur[e] # next
      BY <1>1, <3>1
    <3>3. ASSUME cur[e] \in DOMAIN vs PROVE ws[cur[e]].doc = e
      BY <1>1, <1>2, <1>7, <3>3
    <3> QED BY <1>5, <3>1, <3>2, <3>3
  <2> QED BY <1>8, <2>1, <2>2
<1>14. IsFiniteSet(DOMAIN ncur)
  BY <1>1, <1>8, FS_AddElement
<1>15. TablesOK(ws, ncur, next + 1)
  <2>1. next + 1 \in Nat /\ DOMAIN ws \subseteq 0..((next + 1) - 1)
    BY <1>1, <1>5
  <2>2. DOMAIN ncur \subseteq Docs
    BY <1>1, <1>8
  <2> DEFINE up == next + 1
  <2>3. up \in Nat /\ DOMAIN ws \subseteq 0..up - 1
    BY <2>1
  <2>4. \A e \in DOMAIN ncur : /\ ncur[e] \in Nat /\ ncur[e] < up
                               /\ ncur[e] \in DOMAIN ws => ws[ncur[e]].doc = e
    BY <1>13
  <2> HIDE DEF up
  <2>5. TablesOK(ws, ncur, up)
    BY <1>4, <1>12, <1>14, <2>2, <2>3, <2>4 DEF TablesOK
  <2> QED BY <2>5 DEF up
<1>16. ASSUME Whole(vs, cur, recs, x), TopOK(y), Kept(recs, nrecs, d), HasRecord(nrecs, d, c)
       PROVE  Whole(ws, ncur, nrecs, y)
  <2>1. /\ \A e \in DOMAIN cur : cur[e] \in DOMAIN vs /\ vs[cur[e]].live
        /\ \A k \in DOMAIN vs : vs[k].live =>
             \E i \in DOMAIN recs : recs[i].doc = vs[k].doc /\ recs[i].content = vs[k].content
    BY <1>16 DEF Whole
  <2>2. \A e \in DOMAIN ncur : ncur[e] \in DOMAIN ws /\ ws[ncur[e]].live
    <3>1. ncur[d] \in DOMAIN ws /\ ws[ncur[d]].live
      BY <1>3, <1>5, <1>6, <1>9
    <3>2. ASSUME NEW e \in DOMAIN cur, e # d PROVE ncur[e] \in DOMAIN ws /\ ws[ncur[e]].live
      <4>1. cur[e] \in DOMAIN vs /\ vs[cur[e]].live /\ vs[cur[e]].doc = e
        BY <1>1, <2>1
      <4>2. cur[e] \notin Superseded(vs, cur, d)
        <5>1. ASSUME d \in DOMAIN cur, cur[e] = cur[d] PROVE FALSE
          BY <1>1, <3>2, <4>1, <5>1
        <5> QED BY <5>1 DEF Superseded
      <4>3. ms[cur[e]].live
        BY <1>2, <4>1, <4>2
      <4> QED BY <1>5, <1>7, <1>10, <3>2, <4>1, <4>3
    <3> QED BY <1>8, <3>1, <3>2
  <2>3. \A k \in DOMAIN ws : ws[k].live =>
          \E j \in DOMAIN nrecs : nrecs[j].doc = ws[k].doc /\ nrecs[j].content = ws[k].content
    <3>1. SUFFICES ASSUME NEW k \in DOMAIN ws, ws[k].live
                   PROVE  \E j \in DOMAIN nrecs : nrecs[j].doc = ws[k].doc /\ nrecs[j].content = ws[k].content
      OBVIOUS
    <3>2. CASE k = next
      BY <1>3, <1>6, <1>16, <3>2 DEF HasRecord
    <3>3. CASE k \in DOMAIN vs
      <4>1. vs[k].live /\ vs[k].doc # d /\ ws[k].doc = vs[k].doc /\ ws[k].content = vs[k].content
        BY <1>2, <1>7, <1>11, <3>1, <3>3
      <4>2. PICK i \in DOMAIN recs : recs[i].doc = vs[k].doc /\ recs[i].content = vs[k].content
        BY <2>1, <3>3, <4>1
      <4> QED BY <1>16, <4>1, <4>2 DEF Kept
    <3> QED BY <1>5, <3>2, <3>3
  <2> QED BY <1>16, <2>2, <2>3 DEF Whole
<1> QED BY <1>5, <1>15, <1>16

\* Versions are marked dead, and documents may go.
LEMMA TablesMark ==
  ASSUME NEW vs, NEW cur, NEW next, TablesOK(vs, cur, next), NEW W, NEW ms, Marked(ms, vs, W),
         NEW ncur, DOMAIN ncur \subseteq DOMAIN cur, \A e \in DOMAIN ncur : ncur[e] = cur[e],
         \A k \in DOMAIN vs : vs[k].live /\ k \notin W => vs[k].doc \in DOMAIN ncur,
         NEW up \in {next, next + 1}
  PROVE  TablesOK(ms, ncur, up)
<1>1. /\ vs \in Maps(Version) /\ next \in Nat /\ DOMAIN vs \subseteq 0..next - 1
      /\ DOMAIN cur \subseteq Docs /\ IsFiniteSet(DOMAIN cur)
      /\ \A e \in DOMAIN cur : /\ cur[e] \in Nat /\ cur[e] < next
                               /\ cur[e] \in DOMAIN vs => vs[cur[e]].doc = e
      /\ \A k \in DOMAIN vs : vs[k].live => vs[k].doc \in DOMAIN cur /\ cur[vs[k].doc] = k
  BY DEF TablesOK
<1>2. /\ ms \in Maps(Version) /\ DOMAIN ms = DOMAIN vs
      /\ \A k \in DOMAIN vs : /\ ms[k].doc = vs[k].doc /\ ms[k].content = vs[k].content
                              /\ ms[k].live <=> vs[k].live /\ k \notin W
  BY DEF Marked
<1>3. up \in Nat /\ up >= next
  BY <1>1
<1>4. DOMAIN ms \subseteq 0..up - 1
  BY <1>1, <1>2, <1>3
<1>5. IsFiniteSet(DOMAIN ncur)
  BY <1>1, FS_Subset
<1>6. \A e \in DOMAIN ncur : /\ ncur[e] \in Nat /\ ncur[e] < up
                             /\ ncur[e] \in DOMAIN ms => ms[ncur[e]].doc = e
  <2>1. SUFFICES ASSUME NEW e \in DOMAIN ncur
                 PROVE  /\ ncur[e] \in Nat /\ ncur[e] < up
                        /\ ncur[e] \in DOMAIN ms => ms[ncur[e]].doc = e
    OBVIOUS
  <2>2. e \in DOMAIN cur /\ ncur[e] = cur[e]
    OBVIOUS
  <2> QED BY <1>1, <1>2, <1>3, <2>2
<1>7. \A k \in DOMAIN ms : ms[k].live => ms[k].doc \in DOMAIN ncur /\ ncur[ms[k].doc] = k
  <2>1. SUFFICES ASSUME NEW k \in DOMAIN vs, ms[k].live
                 PROVE  ms[k].doc \in DOMAIN ncur /\ ncur[ms[k].doc] = k
    BY <1>2
  <2>2. vs[k].live /\ k \notin W /\ ms[k].doc = vs[k].doc
    BY <1>2, <2>1
  <2>3. vs[k].doc \in DOMAIN ncur /\ cur[vs[k].doc] = k
    BY <1>1, <2>2
  <2> QED BY <2>2, <2>3
<1>8. DOMAIN ncur \subseteq Docs
  BY <1>1
<1> QED BY <1>2, <1>3, <1>4, <1>5, <1>6, <1>7, <1>8 DEF TablesOK

\* The keys of an index that has got the next one.
LEMMA IndexForAdd ==
  ASSUME NEW x, NEW vs, NEW next \in Nat, IndexFor(x, vs, next), NEW y, IndexOK(y),
         DOMAIN y.levels = DOMAIN x.levels \cup {next}, y.deleted = x.deleted \ {next},
         NEW ws, DOMAIN ws \subseteq DOMAIN vs \cup {next}
  PROVE  IndexFor(y, ws, next + 1)
<1>1. DOMAIN x.levels \subseteq 0..next - 1 /\ DOMAIN vs \subseteq DOMAIN x.levels \ x.deleted
  BY DEF IndexFor
<1>2. DOMAIN y.levels \subseteq 0..((next + 1) - 1)
  BY <1>1
<1>3. DOMAIN ws \subseteq DOMAIN y.levels \ y.deleted
  BY <1>1
<1> DEFINE up == next + 1
<1>4. DOMAIN y.levels \subseteq 0..up - 1
  BY <1>2
<1> HIDE DEF up
<1>5. IndexFor(y, ws, up)
  BY <1>3, <1>4 DEF IndexFor
<1> QED BY <1>5 DEF up

\* The record of the document of a write is put last.
LEMMA AppendIs ==
  ASSUME Records(stored), NEW d \in Docs, NEW c \in Contents,
         NEW r, r = [doc |-> d, content |-> c], NEW recs, recs = Append(Without(d), r)
  PROVE  Records(recs) /\ Kept(stored, recs, d) /\ HasRecord(recs, d, c)
<1> DEFINE s == Without(d)
<1>1. /\ s \in Seq(Record) /\ OneEach(s) /\ \A i \in DOMAIN s : s[i].doc # d
      /\ \A i \in DOMAIN stored : stored[i].doc # d => \E j \in DOMAIN s : s[j] = stored[i]
  BY WithoutIs DEF Records
<1> HIDE DEF s
<1>2. r \in Record /\ r.doc = d /\ r.content = c
  BY DEF Record
<1>3. recs = Append(s, r)
  BY DEF s
<1>4. /\ recs \in Seq(Record) /\ Len(s) \in Nat /\ DOMAIN s = 1..Len(s)
      /\ DOMAIN recs = 1..Len(s) + 1 /\ recs[Len(s) + 1] = r
      /\ \A i \in DOMAIN s : recs[i] = s[i]
  <2> DEFINE t == Append(s, r)
  <2>1. t \in Seq(Record) /\ Len(t) = Len(s) + 1 /\ t[Len(s) + 1] = r
        /\ \A i \in 1..Len(s) : t[i] = s[i]
    BY <1>1, <1>2, AppendProperties
  <2>2. Len(s) \in Nat /\ DOMAIN s = 1..Len(s) /\ DOMAIN t = 1..Len(t)
    BY <1>1, <2>1, LenProperties
  <2> HIDE DEF t
  <2>3. t = recs
    BY <1>3 DEF t
  <2> QED BY <2>1, <2>2, <2>3
<1>5. \A i \in DOMAIN recs : i \in DOMAIN s \/ i = Len(s) + 1
  BY <1>4
<1>6. Len(s) + 1 \in DOMAIN recs /\ DOMAIN s \subseteq DOMAIN recs
  BY <1>4
<1> HIDE <1>3
<1>7. OneEach(recs)
  BY <1>1, <1>2, <1>4, <1>5 DEF OneEach
<1>8. Kept(stored, recs, d)
  BY <1>1, <1>4, <1>6 DEF Kept
<1>9. HasRecord(recs, d, c)
  BY <1>2, <1>4, <1>6 DEF HasRecord
<1> QED BY <1>4, <1>7, <1>8, <1>9 DEF Records

\* _apply_upsert
LEMMA UpsertStep ==
  ASSUME Inv, NEW d \in Docs, NEW c \in Contents, NEW level, NEW book, Upsert(d, c, level, book)
  PROVE  Inv'
<1> DEFINE base == IF MustTrain THEN Train(ix, book) ELSE ix
           live == [k \in DOMAIN versions |-> versions[k].live /\ (d \notin DOMAIN current \/ current[d] # k)]
           ms == [k \in DOMAIN versions |->
                    [versions[k] EXCEPT !.live = @ /\ (d \notin DOMAIN current \/ current[d] # k)]]
           W == Superseded(versions, current, d)
           v == [doc |-> d, content |-> c, live |-> TRUE]
           lost == d \in DOMAIN current /\ current[d] \notin DOMAIN versions
<1>1. /\ TablesOK(versions, current, nextKey) /\ IndexFor(ix, versions, nextKey)
      /\ bm = IndexOf(TextsOf(versions)) /\ Records(stored) /\ raised \in BOOLEAN
      /\ ~raised => Whole(versions, current, stored, ix)
  BY DEF Inv, TextIndexExact, TextsOf
<1>2. /\ nextKey < (IF ix.keep THEN MaxKeys ELSE MaxCodes) /\ level \in LevelsOf[nextKey]
      /\ book \in IF MustTrain THEN Books(Sample(c.point)) ELSE {{}}
      /\ stored' = Append(Without(d), [doc |-> d, content |-> c])
  BY DEF Upsert
<1>5. /\ versions \in Maps(Version) /\ nextKey \in Nat /\ DOMAIN versions \subseteq 0..nextKey - 1
      /\ IndexOK(ix) /\ DOMAIN ix.levels \subseteq 0..nextKey - 1
  BY <1>1 DEF TablesOK, IndexFor
<1>6. Records(stored') /\ Kept(stored, stored', d) /\ HasRecord(stored', d, c)
  BY <1>1, <1>2, AppendIs
<1>3. CASE lost
  <2>1. raised' = TRUE /\ UNCHANGED <<versions, current, nextKey, ix, bm>>
    BY <1>3 DEF Upsert
  <2> HIDE DEF base, live, ms, W, v, lost
  <2>2. bm' = IndexOf(TextsOf(versions'))
    BY <1>1, <2>1
  <2> QED BY <1>1, <1>6, <2>1, <2>2 DEF Inv, TextIndexExact, TextsOf
<1>4. CASE ~lost
  <2> DEFINE put == Put(ms, nextKey, v)
             cur == Put(current, d, nextKey)
  <2>1. /\ nextKey' = nextKey + 1 /\ ix' = IndexAdd(base, nextKey, c.point, level)
        /\ AddRaises(base) => versions' = ms /\ raised' = TRUE /\ current' = current /\ bm' = bm
        /\ ~AddRaises(base) => /\ versions' = put /\ current' = cur
                               /\ bm' = AddText(bm, nextKey, c.text) /\ raised' = raised
    BY <1>4 DEF Upsert
  <2>2. live \in [DOMAIN versions -> BOOLEAN]
    OBVIOUS
  <2>3. /\ \A k \in DOMAIN versions : live[k] = (versions[k].live /\ (d \notin DOMAIN current \/ current[d] # k))
        /\ \A k \in DOMAIN versions : live[k] <=> versions[k].live /\ k \notin W
    BY DEF Superseded
  <2> HIDE DEF live
  <2>4. ms = [k \in DOMAIN versions |-> [versions[k] EXCEPT !.live = live[k]]]
    BY <2>3
  <2> HIDE DEF ms, W
  <2>5. Marked(ms, versions, W) /\ TextsOf(ms) = TextsOf(versions)
    <3>1. Marking(live, versions, W)
      BY <2>2, <2>3 DEF Marking
    <3> QED BY <1>5, <2>4, <3>1, MarkedIs
  <2>6. c.point \in Int /\ c.text \in Seq(Words)
    BY ContentIs
  <2>7. /\ IndexOK(base) /\ (TopOK(ix) => TopOK(base))
        /\ base.levels = ix.levels /\ base.deleted = ix.deleted
    BY <1>2, <1>5, <2>6, BaseIs
  <2> HIDE DEF base, lost
  <2>8. level \in Nat
    <3>1. MaxKeys \in Nat /\ MaxCodes \in 0..MaxKeys
      BY SearchAssumption
    <3>2. MaxCodes \in Nat /\ MaxCodes <= MaxKeys
      BY <3>1
    <3> DEFINE bound == IF ix.keep THEN MaxKeys ELSE MaxCodes
    <3>3. bound \in Nat /\ bound <= MaxKeys
      BY <3>1, <3>2
    <3>4. nextKey < bound
      BY <1>2
    <3> HIDE DEF bound
    <3> QED BY <1>2, <1>5, <3>3, <3>4, LevelIs
  <2>9. nextKey \notin DOMAIN base.levels
    BY <1>5, <2>7
  <2>10. /\ IndexOK(ix') /\ DOMAIN ix'.levels = DOMAIN ix.levels \cup {nextKey}
         /\ ix'.deleted = ix.deleted \ {nextKey}
         /\ TopOK(ix) /\ ~AddRaises(base) => TopOK(ix')
    <3>1. /\ IndexOK(ix') /\ DOMAIN ix'.levels = DOMAIN base.levels \cup {nextKey}
          /\ ix'.deleted = base.deleted \ {nextKey}
          /\ TopOK(base) /\ ~AddRaises(base) => TopOK(ix')
      BY <1>5, <2>1, <2>6, <2>7, <2>8, <2>9, IndexAddIs
    <3> QED BY <2>7, <3>1
  <2>11. v.content = c /\ W = Superseded(versions, current, d) /\ v = [doc |-> d, content |-> c, live |-> TRUE]
    BY DEF W
  <2>12. CASE AddRaises(base)
    <3>1. versions' = ms /\ raised' = TRUE /\ current' = current /\ bm' = bm
      BY <2>1, <2>12
    <3>2. \A k \in DOMAIN versions : versions[k].live => versions[k].doc \in DOMAIN current
      BY <1>1 DEF TablesOK
    <3>3. nextKey + 1 \in {nextKey, nextKey + 1}
      OBVIOUS
    <3>4. TablesOK(ms, current, nextKey + 1)
      BY <1>1, <2>5, <3>2, <3>3, TablesMark
    <3>5. DOMAIN ms \subseteq DOMAIN versions \cup {nextKey}
      BY <2>5 DEF Marked
    <3>6. IndexFor(ix', ms, nextKey + 1)
      BY <1>1, <1>5, <2>10, <3>5, IndexForAdd
    <3>7. bm' = IndexOf(TextsOf(versions'))
      BY <1>1, <2>5, <3>1
    <3> QED BY <1>6, <2>1, <3>1, <3>4, <3>6, <3>7 DEF Inv, TextIndexExact, TextsOf
  <2>13. CASE ~AddRaises(base)
    <3>1. versions' = put /\ current' = cur /\ bm' = AddText(bm, nextKey, c.text) /\ raised' = raised
      BY <2>1, <2>13
    <3> HIDE DEF v
    <3>2. /\ TablesOK(put, cur, nextKey + 1) /\ DOMAIN put = DOMAIN versions \cup {nextKey}
          /\ Whole(versions, current, stored, ix) /\ TopOK(ix') /\ Kept(stored, stored', d)
             /\ HasRecord(stored', d, c) => Whole(put, cur, stored', ix')
      <4>1. put = Put(ms, nextKey, v) /\ cur = Put(current, d, nextKey)
        OBVIOUS
      <4> HIDE DEF put, cur
      <4>2. Marked(ms, versions, Superseded(versions, current, d))
        BY <2>5, <2>11
      <4>3. TablesOK(put, cur, nextKey + 1) /\ DOMAIN put = DOMAIN versions \cup {nextKey}
        BY <1>1, <2>11, <4>1, <4>2, TablesPut
      <4>4. Whole(versions, current, stored, ix) /\ TopOK(ix') /\ Kept(stored, stored', d)
            /\ HasRecord(stored', d, c) => Whole(put, cur, stored', ix')
        BY <1>1, <2>11, <4>1, <4>2, TablesPut
      <4> QED BY <4>3, <4>4
    <3>3. DOMAIN put \subseteq DOMAIN versions \cup {nextKey}
      BY <3>2
    <3>4. IndexFor(ix', put, nextKey + 1)
      BY <1>1, <1>5, <2>10, <3>3, IndexForAdd
    <3>5. bm' = IndexOf(TextsOf(versions'))
      <4>1. Texts(TextsOf(ms))
        BY <1>5, <2>5, TextsAre
      <4>2. nextKey \notin DOMAIN ms
        BY <1>5, <2>5 DEF Marked
      <4>3. AddText(IndexOf(TextsOf(ms)), nextKey, v.content.text) = IndexOf(TextsOf(put))
        BY <2>6, <2>11, <4>1, <4>2, AddTextIs
      <4> QED BY <1>1, <2>5, <2>11, <3>1, <4>3
    <3>6. ~raised' => Whole(versions', current', stored', ix')
      <4>1. ASSUME ~raised' PROVE Whole(put, cur, stored', ix')
        <5>1. Whole(versions, current, stored, ix)
          BY <1>1, <3>1, <4>1
        <5>2. TopOK(ix')
          BY <2>10, <2>13, <5>1 DEF Whole
        <5> QED BY <1>6, <3>2, <5>1, <5>2
      <4> QED BY <3>1, <4>1
    <3> HIDE DEF put, cur
    <3>7. raised' \in BOOLEAN
      BY <1>1, <3>1
    <3> QED BY <1>6, <2>1, <3>1, <3>2, <3>4, <3>5, <3>6, <3>7 DEF Inv, TextIndexExact, TextsOf
  <2> QED BY <2>12, <2>13
<1> QED BY <1>3, <1>4

\* delete
LEMMA DeleteStep ==
  ASSUME Inv, NEW d \in Docs, Delete(d)
  PROVE  Inv'
<1> DEFINE live == [k \in DOMAIN versions |-> versions[k].live /\ current[d] # k]
           ms == [k \in DOMAIN versions |-> [versions[k] EXCEPT !.live = @ /\ current[d] # k]]
           W == {current[d]}
           cur == Drop(current, d)
<1>1. /\ TablesOK(versions, current, nextKey) /\ IndexFor(ix, versions, nextKey)
      /\ bm = IndexOf(TextsOf(versions)) /\ Records(stored) /\ raised \in BOOLEAN
      /\ ~raised => Whole(versions, current, stored, ix)
  BY DEF Inv, TextIndexExact, TextsOf
<1>2. /\ d \in DOMAIN current /\ current' = cur /\ stored' = Without(d)
      /\ versions' = ms
      /\ raised' = (raised \/ current[d] \notin DOMAIN versions)
      /\ nextKey' = nextKey /\ ix' = ix /\ bm' = bm
  BY DEF Delete
<1>3. /\ versions \in Maps(Version)
      /\ \A e \in DOMAIN current : current[e] \in DOMAIN versions => versions[current[e]].doc = e
      /\ \A k \in DOMAIN versions : versions[k].live =>
           versions[k].doc \in DOMAIN current /\ current[versions[k].doc] = k
  BY <1>1 DEF TablesOK
<1>4. live \in [DOMAIN versions -> BOOLEAN]
  OBVIOUS
<1>5. /\ \A k \in DOMAIN versions : live[k] = (versions[k].live /\ current[d] # k)
      /\ \A k \in DOMAIN versions : live[k] <=> versions[k].live /\ k \notin W
  OBVIOUS
<1> HIDE DEF live, W
<1>6. ms = [k \in DOMAIN versions |-> [versions[k] EXCEPT !.live = live[k]]]
  BY <1>5
<1> HIDE DEF ms
<1>16. Marked(ms, versions, W) /\ TextsOf(ms) = TextsOf(versions)
  <2>1. versions \in Maps(Version)
    BY <1>3
  <2>2. Marking(live, versions, W)
    BY <1>4, <1>5 DEF Marking
  <2> QED BY <1>6, <2>1, <2>2, MarkedIs
<1>7. Marked(versions', versions, W) /\ TextsOf(versions') = TextsOf(versions)
  BY <1>2, <1>16
<1>8. DOMAIN cur = DOMAIN current \ {d} /\ \A e \in DOMAIN cur : cur[e] = current[e]
  BY DEF Drop
<1> HIDE DEF cur
<1>9. \A k \in DOMAIN versions : versions[k].live /\ k \notin W => versions[k].doc \in DOMAIN cur
  BY <1>3, <1>8 DEF W
<1>10. /\ DOMAIN versions' = DOMAIN versions
       /\ \A k \in DOMAIN versions : /\ versions'[k].doc = versions[k].doc
                                     /\ versions'[k].content = versions[k].content
                                     /\ versions'[k].live <=> versions[k].live /\ k \notin W
  BY <1>7 DEF Marked
<1>11. TablesOK(versions', cur, nextKey)
  <2>1. DOMAIN cur \subseteq DOMAIN current /\ nextKey \in {nextKey, nextKey + 1}
    BY <1>8
  <2> QED BY <1>1, <1>7, <1>8, <1>9, <2>1, TablesMark
<1>12. IndexFor(ix, versions', nextKey)
  BY <1>1, <1>10 DEF IndexFor
<1>13. /\ Records(stored')
       /\ \A i \in DOMAIN stored : stored[i].doc # d =>
            \E j \in DOMAIN stored' : stored'[j] = stored[i]
  BY <1>1, <1>2, WithoutIs
<1>14. ASSUME ~raised' PROVE Whole(versions', cur, stored', ix)
  <2>1. ~raised /\ current[d] \in DOMAIN versions
    BY <1>1, <1>2, <1>14
  <2>2. /\ TopOK(ix)
        /\ \A e \in DOMAIN current : current[e] \in DOMAIN versions /\ versions[current[e]].live
        /\ \A k \in DOMAIN versions : versions[k].live =>
             \E i \in DOMAIN stored : stored[i].doc = versions[k].doc /\ stored[i].content = versions[k].content
    BY <1>1, <2>1 DEF Whole
  <2>3. \A e \in DOMAIN cur : cur[e] \in DOMAIN versions' /\ versions'[cur[e]].live
    <3>1. SUFFICES ASSUME NEW e \in DOMAIN current, e # d
                   PROVE  current[e] \in DOMAIN versions' /\ versions'[current[e]].live
      BY <1>8
    <3>2. current[e] \in DOMAIN versions /\ versions[current[e]].live /\ current[e] # current[d]
      BY <1>2, <1>3, <2>2, <3>1
    <3> QED BY <1>10, <3>2 DEF W
  <2>4. \A k \in DOMAIN versions' : versions'[k].live =>
          \E j \in DOMAIN stored' : stored'[j].doc = versions'[k].doc /\ stored'[j].content = versions'[k].content
    <3>1. SUFFICES ASSUME NEW k \in DOMAIN versions, versions'[k].live
                   PROVE  \E j \in DOMAIN stored' :
                            stored'[j].doc = versions'[k].doc /\ stored'[j].content = versions'[k].content
      BY <1>10
    <3>2. versions[k].live /\ versions[k].doc # d
      BY <1>3, <1>10, <3>1 DEF W
    <3>3. PICK i \in DOMAIN stored : stored[i].doc = versions[k].doc /\ stored[i].content = versions[k].content
      BY <2>2, <3>2
    <3>4. PICK j \in DOMAIN stored' : stored'[j] = stored[i]
      BY <1>13, <3>2, <3>3
    <3> QED BY <1>10, <3>3, <3>4
  <2> QED BY <2>2, <2>3, <2>4 DEF Whole
<1>15. raised' \in BOOLEAN
  BY <1>2
<1> QED BY <1>1, <1>2, <1>7, <1>11, <1>12, <1>13, <1>14, <1>15 DEF Inv, TextIndexExact, TextsOf

\* vacuum
LEMMA VacuumStep ==
  ASSUME Inv, Vacuum
  PROVE  Inv'
<1> DEFINE dead == {k \in DOMAIN versions : ~versions[k].live}
           ws == [k \in DOMAIN versions \ dead |-> versions[k]]
           T == TextsOf(versions)
<1>1. /\ TablesOK(versions, current, nextKey) /\ IndexFor(ix, versions, nextKey)
      /\ bm = IndexOf(T) /\ Records(stored) /\ raised \in BOOLEAN
      /\ ~raised => Whole(versions, current, stored, ix)
  BY DEF Inv, TextIndexExact, TextsOf
<1>2. /\ ix' = RemoveAll(ix, dead)
      /\ bm' = FoldSet(LAMBDA k, index : TextRemove(index, k), bm, dead)
      /\ versions' = ws
      /\ stored' = stored /\ current' = current /\ nextKey' = nextKey /\ raised' = raised
  BY DEF Vacuum, RemoveAll
<1>3. /\ versions \in Maps(Version) /\ nextKey \in Nat /\ DOMAIN versions \subseteq 0..nextKey - 1
      /\ DOMAIN current \subseteq Docs /\ IsFiniteSet(DOMAIN current)
      /\ \A e \in DOMAIN current : /\ current[e] \in Nat /\ current[e] < nextKey
                                   /\ current[e] \in DOMAIN versions => versions[current[e]].doc = e
      /\ \A k \in DOMAIN versions : versions[k].live =>
           versions[k].doc \in DOMAIN current /\ current[versions[k].doc] = k
  BY <1>1 DEF TablesOK
<1>4. IsFiniteSet(DOMAIN versions) /\ Texts(T)
  BY <1>3, TextsAre
<1>5. dead \subseteq DOMAIN versions /\ IsFiniteSet(dead)
  <2>1. dead \subseteq DOMAIN versions
    OBVIOUS
  <2> QED BY <1>4, <2>1, FS_Subset
<1>6. /\ DOMAIN ws = DOMAIN versions \ dead /\ \A k \in DOMAIN ws : ws[k] = versions[k]
      /\ \A k \in DOMAIN versions : versions[k].live => k \in DOMAIN ws
  OBVIOUS
<1>7. ws \in Maps(Version)
  <2>1. DOMAIN versions \in SUBSET Nat /\ versions \in [DOMAIN versions -> Version]
    BY <1>3, MapIs
  <2>2. ws \in [DOMAIN versions \ dead -> Version]
    BY <2>1
  <2> HIDE DEF ws, dead
  <2> QED BY <1>6, <2>1, <2>2, MapIs
<1>8. [x \in DOMAIN T \ dead |-> T[x]] = TextsOf(ws)
  <2>1. DOMAIN T = {j \in DOMAIN versions : versions[j].content.text # <<>>}
        /\ \A x \in DOMAIN T : T[x] = versions[x].content.text
    BY DEF TextsOf
  <2> HIDE DEF T, ws, dead
  <2>2. DOMAIN T \ dead = {j \in DOMAIN ws : ws[j].content.text # <<>>}
    BY <1>6, <2>1
  <2>3. \A x \in DOMAIN T \ dead : T[x] = ws[x].content.text
    BY <1>6, <2>1
  <2> QED BY <2>2, <2>3 DEF TextsOf
<1>9. bm' = IndexOf(TextsOf(ws))
  <2> HIDE DEF T, ws, dead
  <2>1. FoldSet(LAMBDA k, index : TextRemove(index, k), IndexOf(T), dead)
          = IndexOf([x \in DOMAIN T \ dead |-> T[x]])
    BY <1>4, <1>5, TextRemoveAll
  <2> QED BY <1>1, <1>2, <1>8, <2>1
<1> HIDE DEF ws, dead, T
<1>10. /\ IndexOK(ix) /\ DOMAIN ix.levels \subseteq 0..nextKey - 1
       /\ DOMAIN versions \subseteq DOMAIN ix.levels \ ix.deleted
  BY <1>1 DEF IndexFor
<1>11. /\ IndexOK(ix') /\ (TopOK(ix) => TopOK(ix'))
       /\ ix.kind = "flat" => DOMAIN ix'.levels = DOMAIN ix.levels \ dead /\ ix'.deleted = {}
       /\ ix.kind # "flat" => /\ DOMAIN ix'.levels = DOMAIN ix.levels
                              /\ ix'.deleted = ix.deleted \cup (dead \cap DOMAIN ix.levels)
  <2>1. ix' = RemoveAll(ix, dead) /\ IsFiniteSet(dead) /\ IndexOK(ix)
    BY <1>2, <1>5, <1>10
  <2> QED BY ONLY <2>1, IndexRemoveIs
<1>12. IndexFor(ix', ws, nextKey)
  BY <1>6, <1>10, <1>11 DEF IndexFor
<1>13. TablesOK(ws, current, nextKey)
  <2>1. DOMAIN ws \subseteq 0..nextKey - 1
    BY <1>3, <1>6
  <2>2. \A e \in DOMAIN current : /\ current[e] \in Nat /\ current[e] < nextKey
                                  /\ current[e] \in DOMAIN ws => ws[current[e]].doc = e
    BY <1>3, <1>6
  <2>3. \A k \in DOMAIN ws : ws[k].live => ws[k].doc \in DOMAIN current /\ current[ws[k].doc] = k
    BY <1>3, <1>6
  <2> QED BY <1>3, <1>7, <2>1, <2>2, <2>3 DEF TablesOK
<1>14. Whole(versions, current, stored, ix) => Whole(ws, current, stored, ix')
  BY <1>6, <1>11 DEF Whole
<1> QED BY <1>1, <1>2, <1>9, <1>12, <1>13, <1>14 DEF Inv, TextIndexExact, TextsOf

\* Records, and their vectors, that tables are built of.
Source(recs, points, n) ==
  /\ n \in Nat /\ DOMAIN recs = 1..n /\ Len(recs) = n /\ points \in Seq(Int) /\ Len(points) = n
  /\ \A i \in 1..n : recs[i].doc \in Docs /\ recs[i].content \in Contents
  /\ OneEach(recs)

\* rebuild_index, _rebuild_from_store
LEMMA RebuiltIs ==
  ASSUME IndexOK(ix), NEW n, NEW recs, NEW points, Source(recs, points, n), Rebuilt(recs, points)
  PROVE  /\ TablesOK(versions', current', nextKey') /\ IndexFor(ix', versions', nextKey')
         /\ (TextIndexExact)' /\ TopOK(ix')
         /\ \A d \in DOMAIN current' : current'[d] \in DOMAIN versions' /\ versions'[current'[d]].live
         /\ \A k \in DOMAIN versions' : \E i \in DOMAIN recs :
              recs[i].doc = versions'[k].doc /\ recs[i].content = versions'[k].content
<1> DEFINE ws == [k \in 0..n - 1 |-> [doc |-> recs[k + 1].doc, content |-> recs[k + 1].content, live |-> TRUE]]
           docs == {recs[i].doc : i \in DOMAIN recs}
           cur == [d \in docs |-> CHOOSE k \in 0..n - 1 : recs[k + 1].doc = d]
<1>1. /\ n \in Nat /\ DOMAIN recs = 1..n /\ Len(recs) = n /\ points \in Seq(Int) /\ Len(points) = n
      /\ \A i \in 1..n : recs[i].doc \in Docs /\ recs[i].content \in Contents
      /\ \A i, j \in 1..n : recs[i].doc = recs[j].doc => i = j
  BY DEF Source, OneEach
<1>20. bm' = TextsInOrder(recs, Len(recs))
  BY DEF Rebuilt, TextsInOrder
<1>21. /\ versions' = [k \in 0..Len(recs) - 1 |->
              [doc |-> recs[k + 1].doc, content |-> recs[k + 1].content, live |-> TRUE]]
       /\ current' = [d \in docs |-> CHOOSE k \in 0..Len(recs) - 1 : recs[k + 1].doc = d]
       /\ nextKey' = Len(recs)
  BY DEF Rebuilt
<1>2. /\ versions' = ws /\ current' = cur /\ nextKey' = n
      /\ bm' = TextsInOrder(recs, n)
  BY <1>1, <1>20, <1>21
<1>3. PICK levels \in LevelChoices(n), book \in Books(ToSet(points)) : ix' = BuildIndex(points, levels, book)
  BY <1>1 DEF Rebuilt
<1>4. levels \in [1..Len(points) -> Nat]
  <2>1. LevelsOf \in [0..MaxKeys - 1 -> SUBSET Nat]
    BY SearchAssumption
  <2>2. UNION {LevelsOf[k] : k \in DOMAIN LevelsOf} \subseteq Nat
    BY <2>1
  <2>3. levels \in [1..n -> UNION {LevelsOf[k] : k \in DOMAIN LevelsOf}]
    BY DEF LevelChoices
  <2> QED BY <1>1, <2>2, <2>3
<1>5. IndexOK(ix') /\ TopOK(ix') /\ DOMAIN ix'.levels = 0..n - 1 /\ ix'.deleted = {}
  BY <1>1, <1>3, <1>4, BuildIndexIs
<1>6. \A k \in 0..n - 1 : /\ k + 1 \in 1..n /\ ws[k] \in Version /\ ws[k].live
                          /\ ws[k].doc = recs[k + 1].doc /\ ws[k].content = recs[k + 1].content
  <2>1. SUFFICES ASSUME NEW k \in 0..n - 1
                 PROVE  /\ k + 1 \in 1..n /\ ws[k] \in Version /\ ws[k].live
                        /\ ws[k].doc = recs[k + 1].doc /\ ws[k].content = recs[k + 1].content
    OBVIOUS
  <2>2. k + 1 \in 1..n
    BY <1>1
  <2>3. recs[k + 1].doc \in Docs /\ recs[k + 1].content \in Contents
    BY <1>1, <2>2
  <2>4. ws[k] = [doc |-> recs[k + 1].doc, content |-> recs[k + 1].content, live |-> TRUE]
    OBVIOUS
  <2> HIDE DEF ws
  <2> QED BY <2>2, <2>3, <2>4 DEF Version
<1>7. DOMAIN ws = 0..n - 1 /\ ws = [k \in 0..n - 1 |-> ws[k]]
  OBVIOUS
<1>8. DOMAIN cur = docs /\ \A d \in docs : cur[d] \in 0..n - 1 /\ recs[cur[d] + 1].doc = d
  <2>1. SUFFICES ASSUME NEW d \in docs PROVE cur[d] \in 0..n - 1 /\ recs[cur[d] + 1].doc = d
    OBVIOUS
  <2>2. PICK i \in 1..n : recs[i].doc = d
    BY <1>1
  <2>3. i - 1 \in 0..n - 1 /\ (i - 1) + 1 = i
    BY <1>1
  <2>4. \E k \in 0..n - 1 : recs[k + 1].doc = d
    BY <2>2, <2>3
  <2> QED BY <2>4
<1>9. docs \subseteq Docs /\ IsFiniteSet(docs)
  <2>1. docs \subseteq Docs
    BY <1>1
  <2>2. IsFiniteSet(1..n)
    BY <1>1, IntervalSize
  <2>3. IsFiniteSet(docs)
    <3> DEFINE f == [i \in 1..n |-> recs[i].doc]
    <3>1. f \in Surjection(1..n, docs)
      BY <1>1 DEF Surjection
    <3> QED BY <2>2, <3>1, FS_Surjection
  <2> QED BY <2>1, <2>3
<1>10. \A k \in 0..n - 1 : recs[k + 1].doc \in docs
  BY <1>1, <1>6
<1> HIDE DEF ws, cur, docs
<1>11. \A k \in 0..n - 1 : cur[recs[k + 1].doc] = k
  <2>1. SUFFICES ASSUME NEW k \in 0..n - 1 PROVE cur[recs[k + 1].doc] = k
    OBVIOUS
  <2> DEFINE j == cur[recs[k + 1].doc]
  <2>2. j \in 0..n - 1 /\ recs[j + 1].doc = recs[k + 1].doc
    BY <1>8, <1>10
  <2> HIDE DEF j
  <2>3. j + 1 \in 1..n /\ k + 1 \in 1..n /\ j \in Int /\ k \in Int
    BY <1>1, <2>2
  <2>4. j + 1 = k + 1
    BY <1>1, <2>2, <2>3
  <2>5. j = k
    BY <2>3, <2>4
  <2> QED BY <2>5 DEF j
<1>12. ws \in Maps(Version)
  <2>1. 0..n - 1 \in SUBSET Nat
    BY <1>1
  <2>2. ws \in [0..n - 1 -> Version]
    BY <1>6, <1>7
  <2> QED BY <1>7, <2>1, <2>2, MapIs
<1>13. TablesOK(ws, cur, n)
  <2>1. DOMAIN ws \subseteq 0..n - 1 /\ DOMAIN cur \subseteq Docs /\ IsFiniteSet(DOMAIN cur)
    BY <1>7, <1>8, <1>9
  <2>2. \A d \in DOMAIN cur : /\ cur[d] \in Nat /\ cur[d] < n
                              /\ cur[d] \in DOMAIN ws => ws[cur[d]].doc = d
    BY <1>1, <1>6, <1>8
  <2>3. \A k \in DOMAIN ws : ws[k].live => ws[k].doc \in DOMAIN cur /\ cur[ws[k].doc] = k
    BY <1>6, <1>7, <1>8, <1>10, <1>11
  <2> QED BY <1>1, <1>12, <2>1, <2>2, <2>3 DEF TablesOK
<1>14. IndexFor(ix', ws, n)
  BY <1>5, <1>7 DEF IndexFor
<1>15. \A i \in 1..n : recs[i].content.text \in Seq(Words)
  BY <1>1, ContentIs
<1>16. bm' = IndexOf(TextsOf(ws))
  <2>1. Tabulated(ws, recs, n)
    BY <1>6, <1>7, <1>15 DEF Tabulated
  <2>2. TextsInOrder(recs, n) = IndexOf(TextsOf(ws))
    BY <1>1, <2>1, TextsRebuilt
  <2> QED BY <1>2, <2>2
<1>17. (TextIndexExact)'
  BY <1>2, <1>16 DEF TextIndexExact, TextsOf
<1>18. \A d \in DOMAIN cur : cur[d] \in DOMAIN ws /\ ws[cur[d]].live
  BY <1>6, <1>7, <1>8
<1>19. \A k \in DOMAIN ws : \E i \in DOMAIN recs : recs[i].doc = ws[k].doc /\ recs[i].content = ws[k].content
  BY <1>1, <1>6, <1>7
<1> QED BY <1>2, <1>5, <1>13, <1>14, <1>17, <1>18, <1>19

\* rebuild_index
LEMMA RebuildIndexStep ==
  ASSUME Inv, RebuildIndex
  PROVE  Inv'
<1>1. /\ TablesOK(versions, current, nextKey) /\ IndexFor(ix, versions, nextKey)
      /\ Records(stored) /\ raised \in BOOLEAN
      /\ ~raised => Whole(versions, current, stored, ix)
  BY DEF Inv
<1>2. /\ \A d \in DOMAIN current : current[d] \in DOMAIN versions
      /\ current # EmptyMap => ~Incomparable(ix)
      /\ stored' = stored /\ raised' = raised
  BY DEF RebuildIndex
<1>3. /\ versions \in Maps(Version) /\ IsFiniteSet(DOMAIN current)
      /\ \A e \in DOMAIN current : versions[current[e]].doc = e
  BY <1>1, <1>2 DEF TablesOK
<1>4. SpaceOK(ix) /\ IndexOK(ix) /\ DOMAIN versions \subseteq DOMAIN ix.levels
  BY <1>1 DEF IndexFor, IndexOK
<1> DEFINE n == Cardinality(DOMAIN current)
<1>5. n \in Nat
  BY <1>3, FS_CardinalityType
<1>6. PICK order \in SetToSeqs(DOMAIN current) :
        Rebuilt([i \in DOMAIN order |-> versions[current[order[i]]]],
                [i \in DOMAIN order |-> VectorOf(ix, current[order[i]])])
  BY DEF RebuildIndex
<1> DEFINE recs == [i \in DOMAIN order |-> versions[current[order[i]]]]
           points == [i \in DOMAIN order |-> VectorOf(ix, current[order[i]])]
<1>7. /\ DOMAIN order = 1..n /\ \A i \in 1..n : order[i] \in DOMAIN current
      /\ \A i, j \in 1..n : i # j => order[i] # order[j]
  BY DEF SetToSeqs
<1> HIDE DEF n
<1>8. \A i \in 1..n : /\ current[order[i]] \in DOMAIN versions
                      /\ versions[current[order[i]]] \in Version
                      /\ versions[current[order[i]]].doc = order[i]
  BY <1>2, <1>3, <1>7, VersionsAre
<1>9. \A i \in 1..n : VectorOf(ix, current[order[i]]) \in Int
  <2>1. SUFFICES ASSUME NEW i \in 1..n PROVE VectorOf(ix, current[order[i]]) \in Int
    OBVIOUS
  <2>2. ~Incomparable(ix)
    BY <1>2, <1>7, EmptyIs
  <2>3. current[order[i]] \in DOMAIN ix.levels
    BY <1>4, <1>8
  <2>4. 0 \in Int
    OBVIOUS
  <2> QED BY <1>4, <2>2, <2>3, <2>4, Comparable
<1>10. recs \in Seq(Version) /\ Len(recs) = n /\ DOMAIN recs = 1..n
  <2>1. recs \in [1..n -> Version]
    BY <1>7, <1>8
  <2> HIDE DEF recs
  <2> QED BY <1>5, <2>1, ListType
<1>11. points \in Seq(Int) /\ Len(points) = n
  <2>1. points \in [1..n -> Int]
    BY <1>7, <1>9
  <2> HIDE DEF points
  <2> QED BY <1>5, <2>1, ListType
<1>12. \A i \in 1..n : recs[i] = versions[current[order[i]]] /\ recs[i].doc = order[i]
  BY <1>7, <1>8
<1>13. Rebuilt(recs, points)
  BY <1>6
<1> HIDE DEF recs, points
<1>14. Source(recs, points, n)
  <2>1. \A i \in 1..n : recs[i].doc \in Docs /\ recs[i].content \in Contents
    BY <1>8, <1>12 DEF Version
  <2>2. OneEach(recs)
    BY <1>7, <1>10, <1>12 DEF OneEach
  <2> QED BY <1>5, <1>10, <1>11, <2>1, <2>2 DEF Source
<1>15. /\ TablesOK(versions', current', nextKey') /\ IndexFor(ix', versions', nextKey')
       /\ (TextIndexExact)' /\ TopOK(ix')
       /\ \A d \in DOMAIN current' : current'[d] \in DOMAIN versions' /\ versions'[current'[d]].live
       /\ \A k \in DOMAIN versions' : \E i \in DOMAIN recs :
            recs[i].doc = versions'[k].doc /\ recs[i].content = versions'[k].content
  BY <1>4, <1>13, <1>14, RebuiltIs
<1>16. ASSUME ~raised PROVE Whole(versions', current', stored, ix')
  <2>1. /\ \A d \in DOMAIN current : versions[current[d]].live
        /\ \A k \in DOMAIN versions : versions[k].live =>
             \E i \in DOMAIN stored : stored[i].doc = versions[k].doc /\ stored[i].content = versions[k].content
    BY <1>1, <1>16 DEF Whole
  <2>2. ASSUME NEW k \in DOMAIN versions'
        PROVE  \E i \in DOMAIN stored : stored[i].doc = versions'[k].doc /\ stored[i].content = versions'[k].content
    <3>1. PICK i \in 1..n : recs[i].doc = versions'[k].doc /\ recs[i].content = versions'[k].content
      BY <1>10, <1>15, <2>2
    <3> DEFINE j == current[order[i]]
    <3>2. j \in DOMAIN versions /\ versions[j].live /\ recs[i] = versions[j]
      BY <1>7, <1>8, <1>12, <2>1
    <3> HIDE DEF j
    <3>3. \E h \in DOMAIN stored : stored[h].doc = versions[j].doc /\ stored[h].content = versions[j].content
      BY <2>1, <3>2
    <3> QED BY <3>1, <3>2, <3>3
  <2> QED BY <1>15, <2>2 DEF Whole
<1> QED BY <1>1, <1>2, <1>15, <1>16 DEF Inv

\* _rebuild_from_store
LEMMA ReopenStep ==
  ASSUME Inv, Reopen
  PROVE  Inv'
<1> DEFINE n == Len(stored)
           points == [i \in DOMAIN stored |-> stored[i].content.point]
<1>1. IndexOK(ix) /\ stored \in Seq(Record) /\ OneEach(stored)
  BY DEF Inv, IndexFor, Records
<1>2. Rebuilt(stored, points) /\ raised' = FALSE /\ stored' = stored
  BY DEF Reopen
<1>3. n \in Nat /\ DOMAIN stored = 1..n /\ \A i \in 1..n : stored[i] \in Record
  BY <1>1, LenProperties, ElementOfSeq
<1> HIDE DEF n
<1>4. \A i \in 1..n : stored[i].doc \in Docs /\ stored[i].content \in Contents
  BY <1>3 DEF Record
<1>5. \A i \in 1..n : stored[i].content.point \in Int
  BY <1>4, ContentIs
<1>6. points \in Seq(Int) /\ Len(points) = n
  <2>1. points \in [1..n -> Int]
    BY <1>3, <1>5
  <2> HIDE DEF points
  <2> QED BY <1>3, <2>1, ListType
<1> HIDE DEF points
<1>7. Source(stored, points, n)
  BY <1>1, <1>3, <1>4, <1>6 DEF Source, n
<1>8. /\ TablesOK(versions', current', nextKey') /\ IndexFor(ix', versions', nextKey')
      /\ (TextIndexExact)' /\ TopOK(ix')
      /\ \A d \in DOMAIN current' : current'[d] \in DOMAIN versions' /\ versions'[current'[d]].live
      /\ \A k \in DOMAIN versions' : \E i \in DOMAIN stored :
           stored[i].doc = versions'[k].doc /\ stored[i].content = versions'[k].content
  BY <1>1, <1>2, <1>7, RebuiltIs
<1>9. Whole(versions', current', stored', ix')
  BY <1>2, <1>8 DEF Whole
<1>10. Records(stored') /\ raised' \in BOOLEAN
  BY <1>1, <1>2 DEF Records
<1> QED BY <1>8, <1>9, <1>10 DEF Inv

-----------------------------------------------------------------------------
(* The invariant holds, and what follows from it *)

LEMMA InitInv ==
  ASSUME Init
  PROVE  Inv
<1>1. /\ stored = <<>> /\ versions = EmptyMap /\ current = EmptyMap /\ nextKey = 0
      /\ bm = NoTexts /\ raised = FALSE
  BY DEF Init
<1>2. PICK c \in Kinds : ix = NoVectors(c.kind, c.keep)
  BY DEF Init
<1>3. c.kind \in {"flat", "hnsw", "hnsw_pq"} /\ c.keep \in BOOLEAN /\ (c.kind # "hnsw_pq" => c.keep)
  BY DataAssumption
<1>4. IndexOK(ix) /\ TopOK(ix) /\ DOMAIN ix.levels = {} /\ ix.deleted = {}
  BY <1>2, <1>3, NoVectorsIs
<1>5. DOMAIN EmptyMap = {} /\ EmptyMap \in Maps(Version)
  BY EmptyIs, MapIs
<1>6. IsFiniteSet({})
  BY FS_EmptySet
<1>7. TablesOK(versions, current, nextKey)
  BY <1>1, <1>5, <1>6 DEF TablesOK
<1>8. IndexFor(ix, versions, nextKey)
  BY <1>1, <1>4, <1>5 DEF IndexFor
<1>9. TextIndexExact
  <2>1. TextsInOrder(<<>>, 0) = IndexOf(TextsOf(EmptyMap))
    <3>1. 0..0 - 1 = {} /\ 1..0 = {} /\ 0 \in Nat
      OBVIOUS
    <3>2. Tabulated(EmptyMap, <<>>, 0)
      BY <1>5, <3>1 DEF Tabulated, EmptyMap
    <3> QED BY <3>1, <3>2, TextsRebuilt
  <2>2. TextsInOrder(<<>>, 0) = NoTexts
    <3> DEFINE state == CHOOSE g : g = [i \in 0..0 |-> IF i = 0 THEN NoTexts
                                                        ELSE AddText(g[i - 1], i - 1, <<>>[i].content.text)]
               f == [i \in 0..0 |-> NoTexts]
    <3>1. TextsInOrder(<<>>, 0) = state[0]
      BY DEF TextsInOrder, Iterate
    <3>2. f = [i \in 0..0 |-> IF i = 0 THEN NoTexts ELSE AddText(f[i - 1], i - 1, <<>>[i].content.text)]
      OBVIOUS
    <3>3. state = [i \in 0..0 |-> IF i = 0 THEN NoTexts
                                  ELSE AddText(state[i - 1], i - 1, <<>>[i].content.text)]
      BY <3>2
    <3> HIDE DEF state
    <3>4. state[0] = NoTexts
      BY <3>3
    <3> QED BY <3>1, <3>4
  <2> QED BY <1>1, <2>1, <2>2 DEF TextIndexExact, TextsOf
<1>10. Records(stored)
  BY <1>1, EmptySeq DEF Records, OneEach
<1>11. Whole(versions, current, stored, ix)
  BY <1>1, <1>4, <1>5 DEF Whole
<1> QED BY <1>1, <1>7, <1>8, <1>9, <1>10, <1>11 DEF Inv

LEMMA NextInv ==
  ASSUME Inv, [Next]_vars
  PROVE  Inv'
<1>1. ASSUME NEW d \in Docs, NEW c \in Contents, NEW level \in 0..1,
             NEW book \in SUBSET {e.point : e \in Contents}, Upsert(d, c, level, book)
      PROVE  Inv'
  BY <1>1, UpsertStep
<1>2. ASSUME NEW d \in Docs, Delete(d) PROVE Inv'
  BY <1>2, DeleteStep
<1>3. CASE Vacuum
  BY <1>3, VacuumStep
<1>4. CASE RebuildIndex
  BY <1>4, RebuildIndexStep
<1>5. CASE Reopen
  BY <1>5, ReopenStep
<1>6. CASE UNCHANGED vars
  <2>1. /\ versions' = versions /\ current' = current /\ nextKey' = nextKey /\ ix' = ix
        /\ bm' = bm /\ stored' = stored /\ raised' = raised
    BY <1>6 DEF vars
  <2> QED BY <2>1 DEF Inv, TextIndexExact
<1> QED BY <1>1, <1>2, <1>3, <1>4, <1>5, <1>6 DEF Next

\* The tables, the store and the indexes of a collection agree after every
\* sequence of calls, those that raise halfway included.
THEOREM Invariance == Spec => []Inv
<1>1. Init => Inv
  BY InitInv
<1>2. Inv /\ [Next]_vars => Inv'
  BY NextInv
<1> QED BY <1>1, <1>2, PTL DEF Spec

\* db.py: "the three subsystems stay in lock-step".
THEOREM LockStepHolds == Spec => []LockStep
<1>1. Inv => LockStep
  <2> SUFFICES ASSUME Inv PROVE LockStep
    OBVIOUS
  <2>1. /\ TablesOK(versions, current, nextKey) /\ IndexFor(ix, versions, nextKey)
        /\ bm = IndexOf(TextsOf(versions))
    BY DEF Inv, TextIndexExact, TextsOf
  <2>2. /\ nextKey \in Nat /\ DOMAIN versions \subseteq 0..nextKey - 1
        /\ \A k \in DOMAIN versions : versions[k].live => current[versions[k].doc] = k
    BY <2>1 DEF TablesOK
  <2>3. /\ DOMAIN ix.levels \subseteq 0..nextKey - 1
        /\ DOMAIN versions \subseteq DOMAIN ix.levels \ ix.deleted
    BY <2>1 DEF IndexFor
  <2>4. DOMAIN bm.docLen = DOMAIN TextsOf(versions)
    BY <2>1, IndexFields
  <2>5. DOMAIN TextsOf(versions) \subseteq DOMAIN versions
    BY DEF TextsOf
  <2>6. \A k \in DOMAIN versions \cup DOMAIN ix.levels \cup DOMAIN bm.docLen : k < nextKey
    BY <2>2, <2>3, <2>4, <2>5
  <2> QED BY <2>2, <2>3, <2>6 DEF LockStep, Live
<1> QED BY <1>1, Invariance, PTL

\* PQSpace: a vector waits for the training, or has the code of the book in use.
THEOREM CodesCurrentHolds == Spec => []CodesCurrent
<1>1. Inv => CodesCurrent
  BY DEF Inv, IndexFor, IndexOK, SpaceOK, CodesOK, CodesCurrent
<1> QED BY <1>1, Invariance, PTL

\* bm25.py: what add and remove leave is the index of the texts there are.
THEOREM TextIndexExactHolds == Spec => []TextIndexExact
<1>1. Inv => TextIndexExact
  BY DEF Inv
<1> QED BY <1>1, Invariance, PTL

-----------------------------------------------------------------------------
(* Searches *)

LEMMA SortedIs ==
  ASSUME NEW s, NEW S, NEW D, NEW below, Numbers(s, S, D, below), s = [i \in DOMAIN s |-> s[i]]
  PROVE  Lists(s, S, D) /\ s \in Seq(S) /\ Distinct(s) /\ ToSet(s) = S /\ Len(s) = Cardinality(S)
<1>1. Lists(s, S, D)
  BY SortedByKey
<1>2. S \in SUBSET Int /\ IsFiniteSet(S) /\ D \in [S -> Int]
  BY DEF Numbers
<1> QED BY <1>1, <1>2, ListsIs

\* A list put in another order.
LEMMA PermutedIs ==
  ASSUME NEW X, NEW s \in Seq(X), Distinct(s), NEW o \in Seq(DOMAIN s), Distinct(o),
         NEW t, t = [i \in DOMAIN o |-> s[o[i]]]
  PROVE  t \in Seq(X) /\ Distinct(t) /\ DOMAIN t = DOMAIN o /\ \A i \in DOMAIN o : t[i] = s[o[i]]
<1>1. Len(o) \in Nat /\ DOMAIN o = 1..Len(o) /\ \A i \in DOMAIN o : o[i] \in DOMAIN s
  BY LenProperties, ElementOfSeq
<1>2. \A i \in DOMAIN s : s[i] \in X
  BY ElementOfSeq, LenProperties
<1>3. DOMAIN t = DOMAIN o /\ \A i \in DOMAIN o : t[i] = s[o[i]]
  OBVIOUS
<1>4. t \in [1..Len(o) -> X]
  BY <1>1, <1>2
<1>5. t \in Seq(X)
  BY <1>1, <1>4, ListType
<1>6. Distinct(t)
  BY <1>1, <1>3 DEF Distinct
<1> QED BY <1>3, <1>5, <1>6

\* A set as a list.
LEMMA SeqsIs ==
  ASSUME NEW S, IsFiniteSet(S), NEW s \in SetToSeqs(S)
  PROVE  s \in Seq(S) /\ Distinct(s)
<1>1. Cardinality(S) \in Nat
  BY FS_CardinalityType
<1>2. s \in [1..Cardinality(S) -> S] /\ \A i, j \in 1..Cardinality(S) : i # j => s[i] # s[j]
  BY DEF SetToSeqs
<1>3. s \in Seq(S)
  BY <1>1, <1>2, ListType
<1>4. Distinct(s)
  BY <1>2 DEF Distinct
<1> QED BY <1>3, <1>4

\* An answer: a list of different members of a set.
Answer(r, ok) == r \in Seq(ok) /\ Distinct(r)

LEMMA AnswerCut ==
  ASSUME NEW ok, NEW r, Answer(r, ok), NEW k \in Nat
  PROVE  Answer(Cut(r, k), ok) /\ Len(Cut(r, k)) <= k
<1>1. Len(r) \in Nat
  BY LenProperties DEF Answer
<1> QED BY <1>1, CutIs DEF Answer

LEMMA NoAnswer ==
  ASSUME NEW ok
  PROVE  Answer(<<>>, ok) /\ Len(<<>>) = 0
BY EmptySeq DEF Answer, Distinct

\* HNSWIndex.search
LEMMA GraphSearchIs ==
  ASSUME NEW x, IndexOK(x), ~Incomparable(x), NEW q \in Int, NEW k \in Nat, NEW ef \in Nat, NEW ok
  PROVE  Answer(GraphSearch(x, q, k, ef, ok), ok)
<1> DEFINE pq == x.kind = "hnsw_pq"
           fetch == IF pq THEN k * Rerank ELSE k
           found == SearchLayer(x, q, Descend(x, q, 0), Max({ef, fetch}), 0, ok \ x.deleted)
           Below(a) == Cardinality({b \in found : Nearer(x, q, b, a)})
           sorted == [i \in 1..Cardinality(found) |-> CHOOSE a \in found : Below(a) = i - 1]
           ranked == Cut(sorted, fetch)
           Before(i, j) == \/ ExactDist(x, q, ranked[i]) < ExactDist(x, q, ranked[j])
                           \/ ExactDist(x, q, ranked[i]) = ExactDist(x, q, ranked[j]) /\ i < j
           Under(i) == Cardinality({j \in DOMAIN ranked : Before(j, i)})
           order == [i \in 1..Cardinality(DOMAIN ranked) |-> CHOOSE j \in DOMAIN ranked : Under(j) = i - 1]
           permuted == [i \in DOMAIN order |-> ranked[order[i]]]
<1>1. CASE k <= 0 \/ x.entry = NoKey
  BY <1>1, NoAnswer DEF GraphSearch
<1>2. CASE ~(k <= 0 \/ x.entry = NoKey)
  <2>1. GraphSearch(x, q, k, ef, ok) = Cut(IF pq THEN permuted ELSE ranked, k)
    BY <1>2 DEF GraphSearch, Sorted
  <2>2. SpaceOK(x) /\ LinksOK(x) /\ Rooted(x) /\ x \in Index
    BY <1>2 DEF IndexOK, GraphOK, SpaceOK
  <2>3. Walkable(x, q)
    BY <2>2, WalkableIs
  <2>4. x.top \in Nat /\ 0 \in DOMAIN x.links
    <3>1. x.levels \in Maps(Nat)
      BY <2>2 DEF Index
    <3>2. x.levels \in [DOMAIN x.levels -> Nat]
      BY <3>1, MapIs
    <3>3. x.top \in Nat
      BY <2>2, <3>2 DEF Rooted
    <3>4. 0 \in 0..x.top
      BY <3>3
    <3> QED BY <2>2, <3>3, <3>4 DEF Rooted
  <2>5. Descend(x, q, 0) \in Layer(x, 0)
    <3>1. 0 \in Nat /\ 0 <= x.top
      BY <2>4
    <3>2. Descend(x, q, 0) \in Layer(x, IF 0 <= x.top THEN 0 ELSE x.top)
      BY <2>2, <2>3, <3>1, DescendIs
    <3> QED BY <3>1, <3>2
  <2>6. fetch \in Nat /\ Max({ef, fetch}) \in Nat
    <3>1. fetch \in Nat
      BY IndexAssumption
    <3> HIDE DEF fetch
    <3> QED BY <3>1, MaxOfTwo
  <2>7. found \in SUBSET ((ok \ x.deleted) \cap Layer(x, 0))
    BY <2>3, <2>4, <2>5, <2>6, SearchLayerIs
  <2>8. /\ Layer(x, 0) \in SUBSET Nat /\ IsFiniteSet(Layer(x, 0)) /\ Layer(x, 0) \subseteq DOMAIN x.levels
        /\ \A a \in Layer(x, 0) : QueryDist(x, q, a) \in Nat
    BY <2>3, LayerIs DEF Layer
  <2> HIDE DEF found, pq, fetch
  <2>9. /\ found \subseteq ok /\ found \subseteq Layer(x, 0) /\ found \subseteq DOMAIN x.levels
        /\ found \in SUBSET Int
    BY <2>7, <2>8
  <2>10. IsFiniteSet(found)
    BY <2>8, <2>9, FS_Subset
  <2>11. sorted \in Seq(found) /\ Distinct(sorted)
    <3> DEFINE D == [a \in found |-> QueryDist(x, q, a)]
               below == [a \in found |-> {b \in found : Nearer(x, q, b, a)}]
    <3>1. \A a \in found : QueryDist(x, q, a) \in Int
      BY <2>8, <2>9
    <3>2. D \in [found -> Int] /\ below \in [found -> SUBSET found]
      BY <3>1
    <3>3. \A b, a \in found : b \in below[a] <=> D[b] < D[a] \/ (D[b] = D[a] /\ b < a)
      BY DEF Nearer
    <3>4. \A a \in found : Cardinality(below[a]) = Below(a)
      OBVIOUS
    <3> HIDE DEF Below, D, below
    <3>5. /\ DOMAIN sorted = 1..Cardinality(found)
          /\ \A i \in DOMAIN sorted : (\E a \in found : Below(a) = i - 1) =>
               sorted[i] \in found /\ Below(sorted[i]) = i - 1
      OBVIOUS
    <3>6. sorted = [i \in DOMAIN sorted |-> sorted[i]]
      <4> DEFINE At(i) == CHOOSE a \in found : Below(a) = i - 1
      <4>1. sorted = [i \in 1..Cardinality(found) |-> At(i)]
        OBVIOUS
      <4> HIDE DEF At, sorted
      <4> QED BY <4>1
    <3> HIDE DEF sorted
    <3>7. \A i \in DOMAIN sorted : (\E a \in found : Cardinality(below[a]) = i - 1) =>
            sorted[i] \in found /\ Cardinality(below[sorted[i]]) = i - 1
      BY <3>4, <3>5
    <3>8. Numbers(sorted, found, D, below)
      BY <2>9, <2>10, <3>2, <3>3, <3>5, <3>7 DEF Numbers
    <3> QED BY <3>6, <3>8, SortedIs
  <2> HIDE DEF sorted, Below
  <2>12. ranked \in Seq(found) /\ Distinct(ranked)
    BY <2>6, <2>11, CutIs
  <2> HIDE DEF ranked
  <2>13. DOMAIN ranked = 1..Len(ranked) /\ Len(ranked) \in Nat /\ \A i \in DOMAIN ranked : ranked[i] \in found
    BY <2>12, LenProperties, ElementOfSeq
  <2>14. DOMAIN ranked \in SUBSET Int /\ IsFiniteSet(DOMAIN ranked)
    BY <2>13, IntervalSize
  <2>15. order \in Seq(DOMAIN ranked) /\ Distinct(order)
    <3> DEFINE S == DOMAIN ranked
               D == [i \in S |-> ExactDist(x, q, ranked[i])]
               below == [i \in S |-> {j \in S : Before(j, i)}]
    <3>1. \A i \in S : ExactDist(x, q, ranked[i]) \in Int
      <4>1. \A a \in DOMAIN x.levels : ExactDist(x, q, a) \in Nat
        BY <2>2, Comparable
      <4> QED BY <2>9, <2>13, <4>1
    <3>2. D \in [S -> Int] /\ below \in [S -> SUBSET S]
      BY <3>1
    <3>3. \A j, i \in S : j \in below[i] <=> D[j] < D[i] \/ (D[j] = D[i] /\ j < i)
      OBVIOUS
    <3>4. \A i \in S : Cardinality(below[i]) = Under(i)
      OBVIOUS
    <3> HIDE DEF Under, D, below
    <3>5. /\ DOMAIN order = 1..Cardinality(S)
          /\ \A i \in DOMAIN order : (\E j \in S : Under(j) = i - 1) =>
               order[i] \in S /\ Under(order[i]) = i - 1
      OBVIOUS
    <3>6. order = [i \in DOMAIN order |-> order[i]]
      <4> DEFINE At(i) == CHOOSE j \in S : Under(j) = i - 1
      <4>1. order = [i \in 1..Cardinality(S) |-> At(i)]
        OBVIOUS
      <4> HIDE DEF At, order
      <4> QED BY <4>1
    <3> HIDE DEF order
    <3>7. \A i \in DOMAIN order : (\E j \in S : Cardinality(below[j]) = i - 1) =>
            order[i] \in S /\ Cardinality(below[order[i]]) = i - 1
      BY <3>4, <3>5
    <3>8. Numbers(order, S, D, below)
      BY <2>14, <3>2, <3>3, <3>5, <3>7 DEF Numbers
    <3> QED BY <3>6, <3>8, SortedIs
  <2> HIDE DEF order, Before, Under
  <2>16. permuted \in Seq(found) /\ Distinct(permuted)
    BY <2>12, <2>15, PermutedIs
  <2> HIDE DEF permuted
  <2>17. \A s \in Seq(found) : s \in Seq(ok)
    BY <2>9, SeqMonotonic
  <2>18. Answer(IF pq THEN permuted ELSE ranked, ok)
    BY <2>12, <2>16, <2>17 DEF Answer
  <2> QED BY <2>1, <2>18, AnswerCut
<1> QED BY <1>1, <1>2

\* _exact_search, HNSWIndex.search, BM25Index.search: rankings of allowed keys.
LEMMA RankingsAre ==
  ASSUME Inv, NEW q \in Answered, NEW cheaper \in BOOLEAN, NEW plan, plan = Plan(q, cheaper)
  PROVE  /\ \A d \in Dense(q, plan) : Answer(d, Allowed(q))
         /\ \A l \in Lexical(q, plan) : Answer(l, Allowed(q))
<1> DEFINE ok == Allowed(q)
<1>1. /\ q \in Queries /\ (q.vec # NoVec => ~Incomparable(ix))
      /\ q.vec \in Int \cup {NoVec} /\ q.text \in Seq(Words) /\ q.k \in Nat /\ q.ef \in Nat
  BY DataAssumption DEF Answered, SearchRaises
<1>2. /\ IndexOK(ix) /\ versions \in Maps(Version) /\ nextKey \in Nat
      /\ DOMAIN versions \subseteq 0..nextKey - 1
  BY DEF Inv, TablesOK, IndexFor
<1>3. IsFiniteSet(DOMAIN versions)
  BY <1>2, TextsAre
<1>4. ok \subseteq DOMAIN versions
  BY DEF Allowed
<1>5. IsFiniteSet(ok)
  BY <1>3, <1>4, FS_Subset
<1> HIDE DEF ok
<1>6. plan.fetch \in Nat /\ plan.ef \in Nat
  <2>1. Oversample \in Nat
    BY SearchAssumption
  <2>2. q.k * Oversample \in Nat /\ Max({q.ef, q.k}) \in Nat
    BY <1>1, <2>1, MaxOfTwo
  <2>3. CASE q.vec = NoVec /\ q.text # <<>>
    <3>1. plan.fetch = q.k /\ plan.ef = 0
      BY <2>3 DEF Plan
    <3> QED BY <1>1, <3>1
  <2>4. CASE ~(q.vec = NoVec /\ q.text # <<>>)
    <3>1. plan.fetch = q.k * Oversample /\ plan.ef = Max({q.ef, q.k})
      BY <2>4 DEF Plan
    <3> QED BY <2>2, <3>1
  <2> QED BY <2>3, <2>4
<1>7. ASSUME NEW d \in Dense(q, plan) PROVE Answer(d, ok)
  <2>1. CASE q.vec = NoVec
    <3>1. d = <<>>
      BY <1>7, <2>1 DEF Dense
    <3> QED BY <3>1, NoAnswer
  <2>2. CASE q.vec # NoVec /\ plan.exact
    <3>1. d \in ExactScan(q, plan.fetch, ok)
      BY <1>7, <2>2 DEF Dense, ok
    <3>2. PICK s \in SetToSeqs(ok) : d = Cut(s, plan.fetch)
      BY <3>1 DEF ExactScan
    <3>3. Answer(s, ok)
      BY <1>5, SeqsIs DEF Answer
    <3> QED BY <1>6, <3>2, <3>3, AnswerCut
  <2>3. CASE q.vec # NoVec /\ ~plan.exact
    <3>1. d = GraphSearch(ix, q.vec, plan.fetch, plan.ef, ok)
      BY <1>7, <2>3 DEF Dense, ok
    <3> QED BY <1>1, <1>2, <1>6, <2>3, <3>1, GraphSearchIs
  <2> QED BY <2>1, <2>2, <2>3
<1>8. ASSUME NEW l \in Lexical(q, plan) PROVE Answer(l, ok)
  <2>1. CASE q.text = <<>>
    <3>1. l = <<>>
      BY <1>8, <2>1 DEF Lexical
    <3> QED BY <3>1, NoAnswer
  <2>2. CASE q.text # <<>>
    <3> DEFINE found == TextMatches(bm, q.text, ok)
    <3>1. l \in TextRankings(bm, q.text, plan.fetch, ok)
      BY <1>8, <2>2 DEF Lexical, ok
    <3>2. PICK s \in SetToSeqs(found) : l = Cut(s, plan.fetch)
      BY <3>1 DEF TextRankings, Cut
    <3>3. found \subseteq ok
      BY DEF TextMatches
    <3> HIDE DEF found
    <3>4. IsFiniteSet(found)
      BY <1>5, <3>3, FS_Subset
    <3>5. s \in Seq(found) /\ Distinct(s)
      BY <3>4, SeqsIs
    <3>6. Answer(s, ok)
      BY <3>3, <3>5, SeqMonotonic DEF Answer
    <3> QED BY <1>6, <3>2, <3>6, AnswerCut
  <2> QED BY <2>1, <2>2
<1> QED BY <1>7, <1>8 DEF ok

\* a / n does not grow with n.
LEMMA DivIs ==
  ASSUME NEW a \in Nat, NEW m \in Nat \ {0}, NEW n \in Nat \ {0}, m <= n
  PROVE  a \div m \in Nat /\ a \div n \in Nat /\ a \div n <= a \div m
<1> DEFINE u == a \div m
           w == a \div n
           s == a % m
           t == a % n
<1>1. u \in Nat /\ s \in Nat /\ s < m /\ a = m * u + s
  OBVIOUS
<1>2. w \in Nat /\ t \in Nat /\ t < n /\ a = n * w + t
  OBVIOUS
<1> HIDE DEF u, w, s, t
<1>3. m * w <= n * w
  BY <1>2
<1>4. m * w <= a
  BY <1>2, <1>3
<1>5. ASSUME w >= u + 1 PROVE FALSE
  <2>1. m * w >= m * (u + 1)
    BY <1>1, <1>2, <1>5
  <2>2. m * (u + 1) = m * u + m
    BY <1>1
  <2> QED BY <1>1, <1>2, <1>4, <2>1, <2>2
<1>6. w <= u
  BY <1>1, <1>2, <1>5
<1> QED BY <1>1, <1>2, <1>6 DEF u, w

LEMMA ScaleIs == Scale \in Nat
<1> DEFINE n == MaxKeys
           V == [i \in 0..n |-> Nat]
           step == [i \in 1..n |-> [a \in V[i - 1] |-> a * (RrfK + i)]]
           state == CHOOSE g : g = [i \in 0..n |-> IF i = 0 THEN 1 ELSE g[i - 1] * (RrfK + i)]
<1>1. Scale = state[n]
  BY DEF Scale, Iterate
<1> HIDE DEF n, V, step, state
<1>2. n \in Nat /\ RrfK \in Nat
  BY SearchAssumption DEF n
<1>3. \A i \in 0..n : V[i] = Nat
  BY DEF V
<1>4. 1 \in V[0]
  BY <1>2, <1>3
<1>5. ASSUME NEW i \in 1..n, NEW a \in V[i - 1] PROVE a * (RrfK + i) \in V[i]
  <2>1. i - 1 \in 0..n /\ i \in 0..n /\ i \in Nat
    BY <1>2
  <2>2. a \in Nat
    BY <1>3, <2>1
  <2>3. a * (RrfK + i) \in Nat
    BY <1>2, <2>1, <2>2
  <2> QED BY <1>3, <2>1, <2>3
<1>6. Leads(step, V, n)
  BY <1>5 DEF Leads, step
<1>7. \A i \in 1..n : \A a \in V[i - 1] : step[i][a] = a * (RrfK + i)
  BY DEF step
<1>8. PICK f : Takes(f, 1, step, V, n)
  BY <1>2, <1>4, <1>6, IterationExists
<1>9. \A i \in 0..n : f[i] = IF i = 0 THEN 1 ELSE f[i - 1] * (RrfK + i)
  <2>1. \A i \in 1..n : f[i] = f[i - 1] * (RrfK + i)
    BY <1>7, <1>8 DEF Takes
  <2>2. f[0] = 1 /\ \A i \in 0..n : i = 0 \/ i \in 1..n
    BY <1>2, <1>8 DEF Takes
  <2> QED BY <2>1, <2>2
<1>10. f = [i \in 0..n |-> IF i = 0 THEN 1 ELSE f[i - 1] * (RrfK + i)]
  BY <1>8, <1>9 DEF Takes
<1>11. state = [i \in 0..n |-> IF i = 0 THEN 1 ELSE state[i - 1] * (RrfK + i)]
  BY <1>10 DEF state
<1>12. Stays(state, V, n)
  <2>1. state[0] \in V[0]
    BY <1>2, <1>4, <1>11
  <2>2. ASSUME NEW i \in 1..n, state[i - 1] \in V[i - 1] PROVE state[i] \in V[i]
    <3>1. i \in 0..n /\ i # 0
      BY <1>2
    <3>2. state[i] = state[i - 1] * (RrfK + i)
      BY <1>11, <3>1
    <3> QED BY <1>5, <2>2, <3>2
  <2> QED BY <2>1, <2>2 DEF Stays
<1>13. state[n] \in V[n]
  BY <1>2, <1>12, IterationIn
<1>14. n \in 0..n
  BY <1>2
<1> QED BY <1>1, <1>3, <1>13, <1>14

\* Where a key is in a ranking.
LEMMA RankIs ==
  ASSUME NEW ok, NEW r, Answer(r, ok), NEW e
  PROVE  /\ Contains(r, e) <=> \E i \in DOMAIN r : r[i] = e
         /\ Contains(r, e) => Rank(r, e) \in DOMAIN r /\ Rank(r, e) \in Nat \ {0} /\ r[Rank(r, e)] = e
         /\ \A i \in DOMAIN r : Contains(r, r[i]) /\ Rank(r, r[i]) = i
<1>1. Len(r) \in Nat /\ DOMAIN r = 1..Len(r)
  BY LenProperties DEF Answer
<1>2. \A f : Contains(r, f) <=> \E i \in DOMAIN r : r[i] = f
  BY <1>1 DEF Contains
<1>3. ASSUME NEW f, Contains(r, f)
      PROVE  Rank(r, f) \in DOMAIN r /\ Rank(r, f) \in Nat \ {0} /\ r[Rank(r, f)] = f
  <2>1. Rank(r, f) \in DOMAIN r /\ r[Rank(r, f)] = f
    BY <1>2, <1>3 DEF Rank
  <2> QED BY <1>1, <2>1
<1>4. \A i \in DOMAIN r : Contains(r, r[i]) /\ Rank(r, r[i]) = i
  BY <1>2, <1>3 DEF Answer, Distinct
<1> QED BY <1>2, <1>3, <1>4

\* What a key gets for its place in a ranking, no more than one before it.
LEMMA ScoreIs ==
  ASSUME NEW ok, NEW r, Answer(r, ok), NEW e
  PROVE  Score(r, e) \in Nat
<1>1. CASE Contains(r, e)
  <2>1. Rank(r, e) \in Nat \ {0}
    BY <1>1, RankIs
  <2>2. RrfK + Rank(r, e) \in Nat \ {0}
    BY <2>1, SearchAssumption
  <2>3. Scale \div (RrfK + Rank(r, e)) \in Nat
    BY <2>2, ScaleIs, DivIs
  <2> QED BY <1>1, <2>3 DEF Score
<1>2. CASE ~Contains(r, e)
  BY <1>2 DEF Score
<1> QED BY <1>1, <1>2

Behind(r, e, f) == Contains(r, e) => Contains(r, f) /\ Rank(r, f) < Rank(r, e)

LEMMA ScoreOrder ==
  ASSUME NEW ok, NEW r, Answer(r, ok), NEW e, NEW f, Behind(r, e, f)
  PROVE  Score(r, e) <= Score(r, f)
<1>1. CASE Contains(r, e)
  <2>1. Contains(r, f) /\ Rank(r, f) < Rank(r, e)
    BY <1>1 DEF Behind
  <2>2. Rank(r, e) \in Nat \ {0} /\ Rank(r, f) \in Nat \ {0}
    BY <1>1, <2>1, RankIs
  <2> DEFINE m == RrfK + Rank(r, f)
             n == RrfK + Rank(r, e)
  <2>3. m \in Nat \ {0} /\ n \in Nat \ {0} /\ m <= n
    BY <2>1, <2>2, SearchAssumption
  <2> HIDE DEF m, n
  <2>4. Scale \div n <= Scale \div m
    BY <2>3, ScaleIs, DivIs
  <2> QED BY <1>1, <2>1, <2>4 DEF Score, m, n
<1>2. CASE ~Contains(r, e)
  <2>1. Score(r, e) = 0 /\ Score(r, f) \in Nat
    BY <1>2, ScoreIs DEF Score
  <2> QED BY <2>1
<1> QED BY <1>1, <1>2

\* The keys of both rankings, each once; of two that the first key is behind in
\* both, the second does not come later.
LEMMA KeysIs ==
  ASSUME NEW ok, NEW dense, Answer(dense, ok), NEW lexical, Answer(lexical, ok),
         NEW keys, keys = Keys(dense, lexical)
  PROVE  /\ Answer(keys, ok)
         /\ \A a, b \in DOMAIN keys :
              a < b => ~(Behind(dense, keys[a], keys[b]) /\ Behind(lexical, keys[a], keys[b]))
<1> DEFINE I == {i \in DOMAIN lexical : ~Contains(dense, lexical[i])}
           p == Pick(lexical, I)
           n == Len(dense)
           m == Cardinality(I)
<1>1. dense \in Seq(ok) /\ lexical \in Seq(ok) /\ Distinct(dense) /\ Distinct(lexical)
  BY DEF Answer
<1>2. I \in SUBSET DOMAIN lexical
  OBVIOUS
<1>3. I \in SUBSET Int /\ IsFiniteSet(I)
  BY <1>1, <1>2, Positions
<1>4. p \in Seq(ok) /\ ToSet(p) = {lexical[i] : i \in I}
  BY <1>1, <1>2, PickType
<1>5. m \in Nat /\ Len(p) = m
  BY <1>3, PickIs
<1>6. PICK at : PickedAt(p, lexical, I, at)
  BY <1>3, PickIs
<1>7. keys = dense \o p
  BY DEF Keys
<1> HIDE DEF p
<1>8. DOMAIN p = 1..m
  BY <1>4, <1>5, LenProperties
<1>9. \A i \in 1..m : at[i] \in I /\ p[i] = lexical[at[i]]
  BY <1>6 DEF PickedAt
<1>10. \A i, j \in 1..m : i < j => at[i] < at[j]
  BY <1>6 DEF PickedAt
<1>11. \A i \in I : i \in DOMAIN lexical /\ i \in Int /\ ~Contains(dense, lexical[i])
  BY <1>3
<1> HIDE DEF I, m
<1>12. Distinct(p)
  <2>1. ASSUME NEW i \in 1..m, NEW j \in 1..m, p[i] = p[j] PROVE i = j
    <3>1. at[i] = at[j]
      BY <1>1, <1>9, <1>11, <2>1 DEF Distinct
    <3>2. at[i] \in Int /\ at[j] \in Int /\ i \in Int /\ j \in Int
      BY <1>9, <1>11
    <3> QED BY <1>10, <3>1, <3>2
  <2> QED BY <1>8, <2>1 DEF Distinct
<1>13. n \in Nat /\ DOMAIN dense = 1..n
  BY <1>1, LenProperties
<1>14. \A e : Contains(dense, e) <=> \E i \in DOMAIN dense : dense[i] = e
  BY RankIs
<1>15. ToSet(dense) \cap ToSet(p) = {}
  BY <1>4, <1>11, <1>14 DEF ToSet
<1>16. Answer(keys, ok)
  BY <1>1, <1>4, <1>7, <1>12, <1>15, DistinctConcat DEF Answer
<1>17. /\ DOMAIN keys = 1..n + m /\ \A i \in 1..n : keys[i] = dense[i]
       /\ \A i \in 1..m : keys[n + i] = p[i]
  <2>1. /\ Len(keys) = n + m /\ keys \in Seq(ok)
        /\ \A i \in 1..n + m : keys[i] = IF i <= n THEN dense[i] ELSE p[i - n]
    BY <1>1, <1>4, <1>5, <1>7, ConcatProperties
  <2>2. DOMAIN keys = 1..n + m
    BY <2>1, LenProperties
  <2> HIDE DEF n
  <2>3. \A i \in 1..n : keys[i] = dense[i]
    BY <1>5, <1>13, <2>1
  <2>4. ASSUME NEW i \in 1..m PROVE keys[n + i] = p[i]
    <3>1. n + i \in 1..n + m /\ ~(n + i <= n) /\ (n + i) - n = i
      BY <1>5, <1>13
    <3> QED BY <2>1, <3>1
  <2> QED BY <2>2, <2>3, <2>4
<1> HIDE DEF n
<1>18. ASSUME NEW a \in DOMAIN keys, NEW b \in DOMAIN keys, a < b,
              Behind(dense, keys[a], keys[b]), Behind(lexical, keys[a], keys[b])
       PROVE  FALSE
  <2>1. a \in Int /\ b \in Int
    BY <1>17
  <2>2. CASE a <= n
    <3>1. a \in DOMAIN dense /\ keys[a] = dense[a]
      BY <1>13, <1>17, <2>1, <2>2
    <3>2. Contains(dense, keys[a]) /\ Rank(dense, keys[a]) = a
      BY <3>1, RankIs
    <3>3. Contains(dense, keys[b]) /\ Rank(dense, keys[b]) < a
      BY <1>18, <3>2 DEF Behind
    <3> DEFINE c == Rank(dense, keys[b])
    <3>4. c \in DOMAIN dense /\ c \in Int /\ dense[c] = keys[b]
      BY <3>3, RankIs
    <3>5. c \in DOMAIN keys /\ keys[c] = keys[b] /\ c # b
      BY <1>5, <1>13, <1>17, <1>18, <2>1, <3>3, <3>4
    <3> QED BY <1>16, <3>5 DEF Answer, Distinct
  <2>3. CASE ~(a <= n)
    <3> DEFINE i == a - n
               j == b - n
    <3>0. a \in 1..n + m /\ b \in 1..n + m /\ n \in Nat /\ m \in Nat /\ a < b
      BY <1>5, <1>13, <1>17, <1>18
    <3>1. i \in 1..m /\ j \in 1..m /\ i < j /\ n + i = a /\ n + j = b
      BY ONLY <2>3, <3>0
    <3> HIDE DEF i, j
    <3>2. keys[a] = lexical[at[i]] /\ keys[b] = lexical[at[j]] /\ at[i] < at[j]
      BY <1>9, <1>10, <1>17, <3>1
    <3>3. at[i] \in DOMAIN lexical /\ at[j] \in DOMAIN lexical /\ at[i] \in Int /\ at[j] \in Int
      BY <1>9, <1>11, <3>1
    <3>4. /\ Contains(lexical, keys[a]) /\ Rank(lexical, keys[a]) = at[i]
          /\ Rank(lexical, keys[b]) = at[j]
      BY <3>2, <3>3, RankIs
    <3>5. at[j] < at[i]
      BY <1>18, <3>4 DEF Behind
    <3> QED BY <3>2, <3>3, <3>5
  <2> QED BY <2>2, <2>3
<1> QED BY <1>16, <1>18

\* reciprocal_rank_fusion
LEMMA FuseIs ==
  ASSUME NEW ok, NEW dense, Answer(dense, ok), NEW lexical, Answer(lexical, ok), NEW k \in Nat,
         NEW r, r = Fuse(dense, lexical, k)
  PROVE  /\ Answer(r, ok) /\ Len(r) <= k
         /\ \A i, j \in DOMAIN r :
              i < j => ~(Behind(dense, r[i], r[j]) /\ Behind(lexical, r[i], r[j]))
<1> DEFINE keys == Keys(dense, lexical)
           T(a) == Score(dense, keys[a]) + Score(lexical, keys[a])
           Under(a) == Cardinality({b \in DOMAIN keys : T(b) > T(a) \/ (T(b) = T(a) /\ b < a)})
           order == [i \in 1..Cardinality(DOMAIN keys) |-> CHOOSE a \in DOMAIN keys : Under(a) = i - 1]
           sorted == [i \in DOMAIN order |-> keys[order[i]]]
           S == DOMAIN keys
           D == [a \in S |-> 0 - T(a)]
           below == [a \in S |-> {b \in S : T(b) > T(a) \/ (T(b) = T(a) /\ b < a)}]
<1>1. r = Cut(sorted, k)
  BY DEF Fuse, Sorted
<1>2. Answer(keys, ok)
  BY KeysIs
<1>3. \A a, b \in DOMAIN keys :
        a < b => ~(Behind(dense, keys[a], keys[b]) /\ Behind(lexical, keys[a], keys[b]))
  BY KeysIs
<1> HIDE DEF keys
<1>4. S \in SUBSET Int /\ IsFiniteSet(S)
  <2>1. Len(keys) \in Nat /\ DOMAIN keys = 1..Len(keys)
    BY <1>2, LenProperties DEF Answer
  <2> QED BY <2>1, IntervalSize
<1>5. \A a \in S : T(a) \in Int
  <2>1. \A e : Score(dense, e) \in Nat /\ Score(lexical, e) \in Nat
    BY ScoreIs
  <2> QED BY <2>1
<1> HIDE DEF T, S
<1>6. \A a \in S : D[a] = 0 - T(a) /\ D[a] \in Int
  BY <1>5
<1>7. D \in [S -> Int] /\ below \in [S -> SUBSET S]
  BY <1>6
<1>8. \A b, a \in S : b \in below[a] <=> D[b] < D[a] \/ (D[b] = D[a] /\ b < a)
  <2>1. SUFFICES ASSUME NEW b \in S, NEW a \in S
                 PROVE  b \in below[a] <=> D[b] < D[a] \/ (D[b] = D[a] /\ b < a)
    OBVIOUS
  <2>2. b \in below[a] <=> T(b) > T(a) \/ (T(b) = T(a) /\ b < a)
    OBVIOUS
  <2>3. T(a) \in Int /\ T(b) \in Int /\ D[a] = 0 - T(a) /\ D[b] = 0 - T(b)
    BY <1>5, <1>6
  <2> HIDE DEF D, below
  <2> QED BY <2>2, <2>3
<1>9. \A a \in S : Cardinality(below[a]) = Under(a)
  BY DEF S
<1> HIDE DEF D, below
<1>10. /\ order \in Seq(S) /\ Distinct(order) /\ Lists(order, S, D)
  <2> HIDE DEF Under
  <2>1. /\ DOMAIN order = 1..Cardinality(S)
        /\ \A i \in DOMAIN order : (\E a \in S : Under(a) = i - 1) =>
             order[i] \in S /\ Under(order[i]) = i - 1
    BY DEF S
  <2>2. order = [i \in DOMAIN order |-> order[i]]
    <3> DEFINE At(i) == CHOOSE a \in DOMAIN keys : Under(a) = i - 1
    <3>1. order = [i \in 1..Cardinality(DOMAIN keys) |-> At(i)]
      OBVIOUS
    <3> HIDE DEF At, order
    <3> QED BY <3>1
  <2> HIDE DEF order
  <2>3. \A i \in DOMAIN order : (\E a \in S : Cardinality(below[a]) = i - 1) =>
          order[i] \in S /\ Cardinality(below[order[i]]) = i - 1
    BY <1>9, <2>1
  <2>4. Numbers(order, S, D, below)
    BY <1>4, <1>7, <1>8, <2>1, <2>3 DEF Numbers
  <2> QED BY <2>2, <2>4, SortedIs
<1> HIDE DEF order, Under
<1>11. /\ sorted \in Seq(ok) /\ Distinct(sorted) /\ DOMAIN sorted = DOMAIN order
       /\ \A i \in DOMAIN order : sorted[i] = keys[order[i]]
  BY <1>2, <1>10, PermutedIs DEF Answer, S
<1> HIDE DEF sorted
<1>12. Answer(r, ok) /\ Len(r) <= k
  BY <1>1, <1>11, AnswerCut DEF Answer
<1>13. \A i \in DOMAIN r : i \in DOMAIN order /\ order[i] \in S /\ r[i] = keys[order[i]]
  <2>1. \A i \in DOMAIN r : i \in DOMAIN sorted /\ r[i] = sorted[i]
    BY <1>1, <1>11, CutIs
  <2>2. \A i \in DOMAIN order : order[i] \in S
    BY <1>10 DEF Lists
  <2> QED BY <1>11, <2>1, <2>2
<1>14. ASSUME NEW i \in DOMAIN r, NEW j \in DOMAIN r, i < j,
              Behind(dense, r[i], r[j]), Behind(lexical, r[i], r[j])
       PROVE  FALSE
  <2> DEFINE a == order[i]
             b == order[j]
  <2>1. a \in S /\ b \in S /\ r[i] = keys[a] /\ r[j] = keys[b]
    BY <1>13
  <2>2. D[a] < D[b] \/ (D[a] = D[b] /\ a < b)
    BY <1>10, <1>13, <1>14 DEF Lists
  <2> HIDE DEF a, b
  <2>3. ~(a < b)
    BY <1>3, <1>14, <2>1 DEF S
  <2>4. Score(dense, keys[a]) <= Score(dense, keys[b]) /\ Score(lexical, keys[a]) <= Score(lexical, keys[b])
    BY <1>14, <2>1, ScoreOrder
  <2>5. T(a) <= T(b)
    <3>1. /\ Score(dense, keys[a]) \in Nat /\ Score(dense, keys[b]) \in Nat
          /\ Score(lexical, keys[a]) \in Nat /\ Score(lexical, keys[b]) \in Nat
      BY ScoreIs
    <3> QED BY <2>4, <3>1 DEF T
  <2>6. ~(D[a] < D[b])
    BY <1>5, <1>6, <2>1, <2>5
  <2> QED BY <2>2, <2>3, <2>6
<1> QED BY <1>12, <1>14

-----------------------------------------------------------------------------
(* What is answered *)

\* _merge
LEMMA MergeIs ==
  ASSUME Inv, NEW q \in Answered, NEW cheaper \in BOOLEAN, NEW plan, plan = Plan(q, cheaper),
         NEW d \in Dense(q, plan), NEW l \in Lexical(q, plan)
  PROVE  Answer(Merge(d, l, q.k), Allowed(q)) /\ Len(Merge(d, l, q.k)) <= q.k
<1>1. Answer(d, Allowed(q)) /\ Answer(l, Allowed(q))
  BY RankingsAre
<1>2. q.k \in Nat
  BY DataAssumption DEF Answered
<1>3. CASE l = <<>>
  BY <1>1, <1>2, <1>3, AnswerCut DEF Merge
<1>4. CASE l # <<>> /\ d = <<>>
  BY <1>1, <1>2, <1>4, AnswerCut DEF Merge
<1>5. CASE l # <<>> /\ d # <<>>
  <2>1. Merge(d, l, q.k) = Fuse(d, l, q.k)
    BY <1>5 DEF Merge
  <2> QED BY <1>1, <1>2, <2>1, FuseIs
<1> QED BY <1>3, <1>4, <1>5

\* search: what is answered is live, of different documents, and stored as shown.
LEMMA HitsStored == Inv => HitsAreStored
<1> SUFFICES ASSUME Inv, NEW q \in Answered, NEW r \in Hits(q)
             PROVE  /\ Len(r) <= q.k
                    /\ \A i \in DOMAIN r :
                         /\ \A j \in DOMAIN r : versions[r[j]].doc = versions[r[i]].doc => i = j
                         /\ Accepts(q.filter, versions[r[i]].content.meta)
                         /\ ~raised => Contains(stored, [doc |-> versions[r[i]].doc,
                                                         content |-> versions[r[i]].content])
  BY DEF HitsAreStored
<1>1. PICK cheaper \in BOOLEAN :
        \E d \in Dense(q, Plan(q, cheaper)), l \in Lexical(q, Plan(q, cheaper)) : r = Merge(d, l, q.k)
  BY DEF Hits
<1>2. Answer(r, Allowed(q)) /\ Len(r) <= q.k
  BY <1>1, MergeIs
<1>3. \A i \in DOMAIN r : r[i] \in Allowed(q)
  BY <1>2, ElementOfSeq, LenProperties DEF Answer
<1>4. \A i \in DOMAIN r : /\ r[i] \in DOMAIN versions /\ versions[r[i]].live
                          /\ Accepts(q.filter, versions[r[i]].content.meta)
  BY <1>3 DEF Allowed
<1>5. ASSUME NEW i \in DOMAIN r, NEW j \in DOMAIN r, versions[r[j]].doc = versions[r[i]].doc
      PROVE  i = j
  <2>1. r[i] = r[j]
    BY <1>4, <1>5 DEF Inv, TablesOK
  <2> QED BY <1>2, <2>1 DEF Answer, Distinct
<1>6. ASSUME NEW i \in DOMAIN r, ~raised
      PROVE  Contains(stored, [doc |-> versions[r[i]].doc, content |-> versions[r[i]].content])
  <2>1. PICK n \in DOMAIN stored : /\ stored[n].doc = versions[r[i]].doc
                                   /\ stored[n].content = versions[r[i]].content
    BY <1>4, <1>6 DEF Inv, Whole
  <2>2. stored \in Seq(Record)
    BY DEF Inv, Records
  <2>3. stored[n] \in Record /\ DOMAIN stored = 1..Len(stored)
    BY <2>1, <2>2, ElementOfSeq, LenProperties
  <2>4. stored[n] = [doc |-> stored[n].doc, content |-> stored[n].content]
    BY <2>3 DEF Record
  <2> QED BY <2>1, <2>3, <2>4 DEF Contains
<1> QED BY <1>2, <1>4, <1>5, <1>6

LEMMA FusedInOrder == Inv => FusionMonotone
<1> SUFFICES ASSUME Inv, NEW q \in Answered, NEW cheaper \in BOOLEAN, NEW plan, plan = Plan(q, cheaper),
                    NEW d \in Dense(q, plan), NEW l \in Lexical(q, plan), NEW r, r = Merge(d, l, q.k),
                    d # <<>>, l # <<>>, NEW i \in DOMAIN r, NEW j \in DOMAIN r, i < j,
                    \A list \in {d, l} : Contains(list, r[i]) =>
                      Contains(list, r[j]) /\ Rank(list, r[j]) < Rank(list, r[i])
             PROVE  FALSE
  BY DEF FusionMonotone
<1>1. Answer(d, Allowed(q)) /\ Answer(l, Allowed(q))
  BY RankingsAre
<1>2. q.k \in Nat
  BY DataAssumption DEF Answered
<1>3. r = Fuse(d, l, q.k)
  BY DEF Merge
<1>4. Behind(d, r[i], r[j]) /\ Behind(l, r[i], r[j])
  BY DEF Behind
<1> QED BY <1>1, <1>2, <1>3, <1>4, FuseIs

\* A filter of one field and one operator.
LEMMA OneField ==
  ASSUME NEW op, NEW rhs, NEW meta
  PROVE  Accepts(<<Field("year", {<<op, rhs>>})>>, meta) <=> Cmp(op, meta, "year", rhs)
<1> DEFINE filter == <<Field("year", {<<op, rhs>>})>>
           Value(g, n) == NodeAccepts(n, meta, g)
           accepts == CHOOSE g : g = [i \in DOMAIN filter |-> Value(g, filter[i])]
           here == \A o \in {<<op, rhs>>} : Cmp(o[1], meta, "year", o[2])
<1>1. Accepts(filter, meta) = accepts[Len(filter)]
  BY DEF Accepts
<1>2. Len(filter) = 1 /\ DOMAIN filter = {1} /\ filter[1] = Field("year", {<<op, rhs>>})
  OBVIOUS
<1>3. /\ filter[1].node = "field" /\ filter[1].field = "year"
      /\ filter[1].ops = {<<op, rhs>>}
  BY <1>2 DEF Field
<1> HIDE DEF filter
<1>4. \A g : Value(g, filter[1]) = here
  BY <1>3 DEF NodeAccepts
<1>5. here <=> Cmp(op, meta, "year", rhs)
  OBVIOUS
<1> HIDE DEF Value, here
<1>6. \E g : g = [i \in DOMAIN filter |-> Value(g, filter[i])]
  <2> DEFINE f == [i \in DOMAIN filter |-> here]
  <2>1. \A i \in DOMAIN filter : Value(f, filter[i]) = here
    BY <1>2, <1>4
  <2>2. f = [i \in DOMAIN filter |-> Value(f, filter[i])]
    BY <2>1
  <2> QED BY <2>2
<1>7. accepts = [i \in DOMAIN filter |-> Value(accepts, filter[i])]
  BY <1>6
<1> HIDE DEF accepts
<1>8. accepts[1] = here
  BY <1>2, <1>4, <1>7
<1> QED BY <1>1, <1>2, <1>5, <1>8 DEF filter

Valued(x) == x = [type |-> x.type, v |-> x.v] /\ x.v \in Int

\* _cmp of a missing field and of one that is there.
LEMMA CmpMissing ==
  ASSUME NEW m, "year" \notin DOMAIN m, NEW rhs
  PROVE  /\ Cmp("$ne", m, "year", rhs) /\ Cmp("$nin", m, "year", rhs)
         /\ ~Cmp("$eq", m, "year", rhs) /\ ~Cmp("$in", m, "year", rhs)
         /\ ~Cmp("$gte", m, "year", rhs) /\ ~Cmp("$lt", m, "year", rhs)
         /\ ~Cmp("$lte", m, "year", rhs) /\ ~Cmp("$between", m, "year", rhs)
         /\ ~Cmp("$exists", m, "year", TRUE)
BY DEF Cmp

LEMMA CmpPresent ==
  ASSUME NEW m, "year" \in DOMAIN m, NEW x, x = m["year"], NEW rhs
  PROVE  /\ Cmp("$ne", m, "year", rhs) <=> x # rhs
         /\ Cmp("$eq", m, "year", rhs) <=> x = rhs
         /\ Cmp("$in", m, "year", rhs) <=> x \in rhs
         /\ Cmp("$nin", m, "year", rhs) <=> x \notin rhs
         /\ Cmp("$gte", m, "year", rhs) <=> x.type = rhs.type /\ x.v >= rhs.v
         /\ Cmp("$lt", m, "year", rhs) <=> x.type = rhs.type /\ x.v < rhs.v
         /\ Cmp("$lte", m, "year", rhs) <=> x.type = rhs.type /\ x.v <= rhs.v
         /\ Cmp("$between", m, "year", rhs) <=>
              rhs[1].type = x.type /\ rhs[1].v <= x.v /\ x.type = rhs[2].type /\ x.v <= rhs[2].v
         /\ Cmp("$exists", m, "year", TRUE)
BY DEF Cmp, Ordered

\* compile_filter: one document and two values.
LEMMA DualsOf ==
  ASSUME NEW m, NEW v, NEW w, Valued(v), Valued(w), "year" \in DOMAIN m => Valued(m["year"])
  PROVE  /\ Cmp("$ne", m, "year", v) <=> ~Cmp("$eq", m, "year", v)
         /\ Cmp("$nin", m, "year", {v, w}) <=> ~Cmp("$in", m, "year", {v, w})
         /\ Cmp("$between", m, "year", <<v, w>>) <=> Cmp("$gte", m, "year", v) /\ Cmp("$lte", m, "year", w)
         /\ Cmp("$lt", m, "year", v) <=> /\ Cmp("$exists", m, "year", TRUE) /\ ~Cmp("$gte", m, "year", v)
                                         /\ m["year"].type = v.type
         /\ Cmp("$eq", m, "year", v) <=> Cmp("$lte", m, "year", v) /\ ~Cmp("$lt", m, "year", v)
<1>1. CASE "year" \notin DOMAIN m
  BY <1>1, CmpMissing
<1>2. CASE "year" \in DOMAIN m
  <2> DEFINE x == m["year"]
             vw == <<v, w>>
  <2>1. Valued(x)
    BY <1>2
  <2>2. vw[1] = v /\ vw[2] = w
    OBVIOUS
  <2>3. x = v <=> x.type = v.type /\ x.v = v.v
    BY <2>1 DEF Valued
  <2>4. x.v \in Int /\ v.v \in Int /\ w.v \in Int
    BY <2>1 DEF Valued
  <2>5. /\ Cmp("$ne", m, "year", v) <=> x # v
        /\ Cmp("$eq", m, "year", v) <=> x = v
        /\ Cmp("$in", m, "year", {v, w}) <=> x \in {v, w}
        /\ Cmp("$nin", m, "year", {v, w}) <=> x \notin {v, w}
        /\ Cmp("$gte", m, "year", v) <=> x.type = v.type /\ x.v >= v.v
        /\ Cmp("$lt", m, "year", v) <=> x.type = v.type /\ x.v < v.v
        /\ Cmp("$lte", m, "year", v) <=> x.type = v.type /\ x.v <= v.v
        /\ Cmp("$lte", m, "year", w) <=> x.type = w.type /\ x.v <= w.v
        /\ Cmp("$exists", m, "year", TRUE)
    BY <1>2, CmpPresent
  <2>6. Cmp("$between", m, "year", vw) <=>
          vw[1].type = x.type /\ vw[1].v <= x.v /\ x.type = vw[2].type /\ x.v <= vw[2].v
    BY <1>2, CmpPresent
  <2> HIDE DEF x, vw
  <2>7. Cmp("$between", m, "year", vw) <=> Cmp("$gte", m, "year", v) /\ Cmp("$lte", m, "year", w)
    BY <2>2, <2>4, <2>5, <2>6
  <2>8. Cmp("$lt", m, "year", v) <=> /\ Cmp("$exists", m, "year", TRUE) /\ ~Cmp("$gte", m, "year", v)
                                     /\ x.type = v.type
    <3>1. x.v < v.v <=> ~(x.v >= v.v)
      BY <2>4
    <3>2. /\ Cmp("$lt", m, "year", v) <=> x.type = v.type /\ x.v < v.v
          /\ Cmp("$gte", m, "year", v) <=> x.type = v.type /\ x.v >= v.v
          /\ Cmp("$exists", m, "year", TRUE)
      BY <2>5
    <3> QED BY ONLY <3>1, <3>2
  <2>9. Cmp("$eq", m, "year", v) <=> Cmp("$lte", m, "year", v) /\ ~Cmp("$lt", m, "year", v)
    BY <2>3, <2>4, <2>5
  <2> QED BY <2>5, <2>7, <2>8, <2>9 DEF x, vw
<1> QED BY <1>1, <1>2

LEMMA FiltersDual == Inv => FilterDuals
<1> SUFFICES ASSUME Inv PROVE FilterDuals
  OBVIOUS
<1> DEFINE Meta(k) == versions[k].content.meta
           Matching(op, rhs) == {k \in Live : Accepts(<<Field("year", {<<op, rhs>>})>>, Meta(k))}
<1>1. \A k \in Live : k \in DOMAIN versions /\ versions[k].content \in Contents
  BY VersionsAre DEF Live, Inv, TablesOK
<1>2. ASSUME NEW k \in Live, "year" \in DOMAIN Meta(k) PROVE Valued(Meta(k)["year"])
  <2>1. versions[k].content \in Contents
    BY <1>1
  <2> QED BY <1>2, <2>1, ValueAssumption DEF Valued
<1>3. \A v \in Comparands : Valued(v)
  BY ValueAssumption DEF Valued
<1>4. \A op, rhs : Matching(op, rhs) = {k \in Live : Cmp(op, Meta(k), "year", rhs)}
  BY OneField
<1>5. ASSUME NEW v \in Comparands, NEW w \in Comparands
      PROVE  /\ Matching("$ne", v) = Live \ Matching("$eq", v)
             /\ Matching("$nin", {v, w}) = Live \ Matching("$in", {v, w})
             /\ Matching("$between", <<v, w>>) = Matching("$gte", v) \cap Matching("$lte", w)
             /\ Matching("$lt", v) = {k \in Matching("$exists", TRUE) \ Matching("$gte", v) :
                                        Meta(k)["year"].type = v.type}
             /\ Matching("$eq", v) = Matching("$lte", v) \ Matching("$lt", v)
  <2> HIDE DEF Matching, Meta
  <2>1. ASSUME NEW k \in Live
        PROVE  /\ Cmp("$ne", Meta(k), "year", v) <=> ~Cmp("$eq", Meta(k), "year", v)
               /\ Cmp("$nin", Meta(k), "year", {v, w}) <=> ~Cmp("$in", Meta(k), "year", {v, w})
               /\ Cmp("$between", Meta(k), "year", <<v, w>>) <=>
                    Cmp("$gte", Meta(k), "year", v) /\ Cmp("$lte", Meta(k), "year", w)
               /\ Cmp("$lt", Meta(k), "year", v) <=>
                    /\ Cmp("$exists", Meta(k), "year", TRUE) /\ ~Cmp("$gte", Meta(k), "year", v)
                    /\ Meta(k)["year"].type = v.type
               /\ Cmp("$eq", Meta(k), "year", v) <=>
                    Cmp("$lte", Meta(k), "year", v) /\ ~Cmp("$lt", Meta(k), "year", v)
    BY <1>2, <1>3, DualsOf
  <2> QED BY <1>4, <2>1
<1> QED BY <1>5 DEF FilterDuals, Matching, Meta

\* No hit is of a document that is not stored as it is shown, or the second of
\* one document, or one that the filter refuses, or past k: Database.search,
\* which takes its hits from indexes that keep dead versions.
THEOREM HitsAreStoredHolds == Spec => []HitsAreStored
BY Invariance, HitsStored, PTL

\* reciprocal_rank_fusion: nothing comes after what it beats in every ranking.
THEOREM FusionMonotoneHolds == Spec => []FusionMonotone
BY Invariance, FusedInOrder, PTL

\* compile_filter: operators that are each other's complement, or the meet of
\* two others, stay so for missing fields and values of another type.
THEOREM FilterDualsHolds == Spec => []FilterDuals
BY Invariance, FiltersDual, PTL

\* As many members as the list is long.
LEMMA DistinctCount ==
  ASSUME NEW X, NEW s \in Seq(X), Distinct(s)
  PROVE  Cardinality(ToSet(s)) = Len(s)
<1>1. Len(s) \in Nat /\ DOMAIN s = 1..Len(s) /\ s = [i \in DOMAIN s |-> s[i]]
  BY LenProperties
<1>2. IsFiniteSet(DOMAIN s) /\ Cardinality(DOMAIN s) = Len(s)
  BY <1>1, IntervalSize
<1>3. s \in Bijection(DOMAIN s, ToSet(s))
  <2>1. s \in [DOMAIN s -> ToSet(s)]
    BY <1>1 DEF ToSet
  <2>2. \A e \in ToSet(s) : \E i \in DOMAIN s : s[i] = e
    BY DEF ToSet
  <2>3. \A i, j \in DOMAIN s : s[i] = s[j] => i = j
    BY DEF Distinct
  <2> QED BY <2>1, <2>2, <2>3 DEF Bijection, Injection, Surjection, IsInjective
<1>4. ExistsBijection(DOMAIN s, ToSet(s))
  BY <1>3 DEF ExistsBijection
<1> QED BY <1>2, <1>4, FS_Bijection

\* HNSWIndex: links stay within their layer and bound, the entry point on top.
LEMMA ShapeKept == Inv => GraphShape
<1> SUFFICES ASSUME Inv, ix.entry # NoKey PROVE GraphShape
  BY DEF GraphShape
<1>1. /\ SpaceOK(ix) /\ LinksOK(ix) /\ Rooted(ix) /\ ix.kind # "flat"
  BY DEF Inv, IndexFor, IndexOK, GraphOK
<1>2. ~raised => \A k \in DOMAIN ix.levels : ix.levels[k] <= ix.top
  BY <1>1 DEF Inv, Whole, TopOK
<1>3. ASSUME NEW lv \in DOMAIN ix.links, NEW k \in DOMAIN ix.links[lv], NEW nbs, nbs = ix.links[lv][k]
      PROVE  /\ ix.levels[k] >= lv /\ Len(nbs) <= MaxLinks(lv)
             /\ k \notin ToSet(nbs) /\ Cardinality(ToSet(nbs)) = Len(nbs)
             /\ \A n \in ToSet(nbs) : ix.levels[n] >= lv
  <2>1. k \in Layer(ix, lv) /\ ListOK(ix, lv, k, nbs)
    BY <1>1, <1>3 DEF LinksOK
  <2>2. nbs \in Seq(Layer(ix, lv) \ {k}) /\ Len(nbs) <= MaxLinks(lv) /\ Distinct(nbs)
    BY <2>1 DEF ListOK
  <2>3. \A n \in ToSet(nbs) : n \in Layer(ix, lv) /\ n # k
    BY <2>2, ElementOfSeq, LenProperties DEF ToSet
  <2>4. Cardinality(ToSet(nbs)) = Len(nbs)
    BY <2>2, DistinctCount
  <2> QED BY <2>1, <2>2, <2>3, <2>4 DEF Layer
<1> QED BY <1>1, <1>2, <1>3 DEF GraphShape, Rooted

\* A list in which no member is followed by a smaller one is sorted.
LEMMA SortedThrough ==
  ASSUME NEW n \in Nat, NEW D \in [1..n -> Int], \A i \in 1..n - 1 : D[i] <= D[i + 1]
  PROVE  \A i, j \in 1..n : i <= j => D[i] <= D[j]
<1> DEFINE W == {h \in Nat : h \in 1..n => \A i \in 1..h : D[i] <= D[h]}
<1>1. 0 \in W
  BY DEF W
<1>2. ASSUME NEW h \in 1..n, h - 1 \in W PROVE h \in W
  <2>1. ASSUME NEW i \in 1..h PROVE D[i] <= D[h]
    <3>1. h \in Nat /\ i \in Nat /\ i \in 1..n /\ D[i] \in Int /\ D[h] \in Int
      BY <1>2, <2>1
    <3>2. CASE i = h
      BY <3>1, <3>2
    <3>3. CASE i # h
      <4>1. h - 1 \in 1..n /\ i \in 1..h - 1 /\ h - 1 \in 1..n - 1 /\ (h - 1) + 1 = h
        BY <2>1, <3>1, <3>3
      <4>2. D[i] <= D[h - 1]
        BY <1>2, <4>1
      <4>3. D[h - 1] <= D[(h - 1) + 1]
        BY <4>1
      <4>4. D[h - 1] \in Int /\ D[h - 1] <= D[h]
        BY <4>1, <4>3
      <4> QED BY <3>1, <4>2, <4>4
    <3> QED BY <3>2, <3>3
  <2> QED BY <2>1
<1> HIDE DEF W
<1>3. \A h \in 0..n : h \in W
  BY <1>1, <1>2, StepByStep
<1>4. ASSUME NEW i \in 1..n, NEW j \in 1..n, i <= j PROVE D[i] <= D[j]
  <2>1. j \in 0..n /\ i \in 1..j
    BY <1>4
  <2> QED BY <1>3, <2>1 DEF W
<1> QED BY <1>4

\* The k nearest, or all there are.
TheNearest(r, v, k, ok) ==
  /\ Len(r) = Min({k, Cardinality(ok)})
  /\ \A e \in ok \ ToSet(r) : \A i \in DOMAIN r :
       ExactDist(ix, v, r[i]) <= ExactDist(ix, v, e)

\* _exact_search: the nearest, of all that may be answered.
LEMMA ScanIs ==
  ASSUME Inv, ~Incomparable(ix), NEW q, q.vec \in Int, NEW ok, ok \subseteq DOMAIN versions,
         NEW m \in Nat, NEW k \in Nat, k <= m, NEW d \in ExactScan(q, m, ok)
  PROVE  TheNearest(Cut(d, k), q.vec, k, ok)
<1> DEFINE n == Cardinality(ok)
           Far(e) == ExactDist(ix, q.vec, e)
           r == Cut(d, k)
<1>1. SpaceOK(ix) /\ ok \subseteq DOMAIN ix.levels
  BY DEF Inv, IndexFor, IndexOK
<1>2. \A e \in ok : Far(e) \in Nat
  BY <1>1, Comparable
<1>3. IsFiniteSet(ok)
  BY <1>1, FS_Subset DEF SpaceOK
<1>4. n \in Nat
  BY <1>3, FS_CardinalityType
<1>5. PICK s \in SetToSeqs(ok) : d = Cut(s, m) /\ \A i \in 1..Len(s) - 1 : Far(s[i]) <= Far(s[i + 1])
  BY DEF ExactScan
<1>6. s \in Seq(ok) /\ Distinct(s) /\ s \in [1..n -> ok]
  BY <1>3, <1>5, SeqsIs DEF SetToSeqs
<1>7. Len(s) = n /\ DOMAIN s = 1..n /\ \A i \in 1..n : s[i] \in ok
  BY <1>4, <1>6, LenProperties
<1>8. ToSet(s) = ok
  <2>1. Cardinality(ToSet(s)) = n
    BY <1>6, <1>7, DistinctCount
  <2>2. ToSet(s) \subseteq ok
    BY <1>7 DEF ToSet
  <2> QED BY <1>3, <2>1, <2>2, FS_Subset
<1> HIDE DEF Far, n
<1>9. \A i, j \in 1..n : i <= j => Far(s[i]) <= Far(s[j])
  <2> DEFINE D == [i \in 1..n |-> Far(s[i])]
  <2>1. D \in [1..n -> Int]
    BY <1>2, <1>7
  <2>2. \A i \in 1..n - 1 : D[i] <= D[i + 1]
    <3>1. \A i \in 1..n - 1 : i \in 1..n /\ i + 1 \in 1..n
      BY <1>4
    <3> QED BY <1>5, <1>7, <3>1
  <2> HIDE DEF D
  <2>3. \A i, j \in 1..n : i <= j => D[i] <= D[j]
    BY <1>4, <2>1, <2>2, SortedThrough
  <2> QED BY <2>3 DEF D
<1>10. /\ d \in Seq(ok) /\ DOMAIN d = 1..Len(d) /\ Len(d) = (IF m <= n THEN m ELSE n)
       /\ \A i \in DOMAIN d : i \in DOMAIN s /\ d[i] = s[i]
  BY <1>5, <1>6, <1>7, CutIs
<1>11. /\ DOMAIN r = 1..Len(r) /\ Len(r) = (IF k <= Len(d) THEN k ELSE Len(d))
       /\ \A i \in DOMAIN r : i \in DOMAIN d /\ r[i] = d[i]
  BY <1>10, CutIs
<1> HIDE DEF r
<1>12. Len(r) = (IF k <= n THEN k ELSE n)
  BY <1>4, <1>10, <1>11
<1>13. Len(r) = Min({k, n})
  BY <1>4, <1>12, MinOfTwo
<1>14. \A i \in DOMAIN r : i \in 1..n /\ i <= Len(r) /\ r[i] = s[i]
  BY <1>7, <1>10, <1>11
<1>15. \A i \in 1..n : i <= Len(r) => i \in DOMAIN r /\ r[i] = s[i]
  BY <1>4, <1>11, <1>12, <1>14
<1>16. ASSUME NEW e \in ok, e \notin ToSet(r), NEW i \in DOMAIN r PROVE Far(r[i]) <= Far(e)
  <2>1. PICK j \in 1..n : s[j] = e
    BY <1>7, <1>8 DEF ToSet
  <2>2. ~(j <= Len(r))
    BY <1>15, <1>16, <2>1 DEF ToSet
  <2>3. i \in 1..n /\ i <= j /\ r[i] = s[i]
    BY <1>4, <1>12, <1>14, <2>2
  <2> QED BY <1>9, <2>1, <2>3
<1> QED BY <1>13, <1>16 DEF Far, n, r, TheNearest

LEMMA SmallComplete == Inv /\ (ix.kind = "flat" \/ Cardinality(DOMAIN current) <= Small) => SearchComplete
<1> SUFFICES ASSUME Inv, ix.kind = "flat" \/ Cardinality(DOMAIN current) <= Small,
                    NEW q \in Answered, q.vec # NoVec, q.text = <<>>, NEW r \in Hits(q)
             PROVE  /\ Len(r) = Min({q.k, Cardinality(Allowed(q))})
                    /\ \A k \in Allowed(q) \ ToSet(r) : \A i \in DOMAIN r :
                         ExactDist(ix, q.vec, r[i]) <= ExactDist(ix, q.vec, k)
  BY DEF SearchComplete
<1>1. q.vec \in Int /\ q.k \in Nat /\ ~Incomparable(ix)
  BY DataAssumption DEF Answered, SearchRaises
<1>2. PICK cheaper \in BOOLEAN :
        \E d \in Dense(q, Plan(q, cheaper)), l \in Lexical(q, Plan(q, cheaper)) : r = Merge(d, l, q.k)
  BY DEF Hits
<1> DEFINE plan == Plan(q, cheaper)
<1>3. plan.exact /\ plan.fetch = q.k * Oversample
  BY DEF Plan
<1> HIDE DEF plan
<1>4. PICK d \in Dense(q, plan), l \in Lexical(q, plan) : r = Merge(d, l, q.k)
  BY <1>2 DEF plan
<1>5. d \in ExactScan(q, plan.fetch, Allowed(q))
  BY <1>3, <1>4 DEF Dense
<1>6. r = Cut(d, q.k)
  BY <1>4 DEF Lexical, Merge
<1>7. plan.fetch \in Nat /\ q.k <= plan.fetch
  <2>1. Oversample \in Nat /\ Oversample >= 1
    BY SearchAssumption
  <2> QED BY <1>1, <1>3, <2>1
<1>8. Allowed(q) \subseteq DOMAIN versions
  BY DEF Allowed
<1>9. TheNearest(Cut(d, q.k), q.vec, q.k, Allowed(q))
  BY <1>1, <1>5, <1>7, <1>8, ScanIs
<1> QED BY <1>6, <1>9 DEF TheNearest

\* HNSWIndex.add, _prune: the lists, layers and entry point of the graph.
THEOREM GraphShapeHolds == Spec => []GraphShape
BY Invariance, ShapeKept, PTL

\* QueryPlanner.plan, _exact_search: with a flat index, or no more documents than
\* small_collection_threshold, a search for a vector is complete and exact.
THEOREM SmallSearchComplete ==
  Spec => [](ix.kind = "flat" \/ Cardinality(DOMAIN current) <= Small => SearchComplete)
<1>1. Inv => (ix.kind = "flat" \/ Cardinality(DOMAIN current) <= Small => SearchComplete)
  BY SmallComplete
<1> QED BY <1>1, Invariance, PTL
=============================================================================
