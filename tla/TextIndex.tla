----------------------------- MODULE TextIndex -----------------------------
(***************************************************************************)
(* The inverted index of annex/text/bm25.py and the analyzer in front of   *)
(* it, as operators on a record: postings (term -> key -> count), docLen,  *)
(* docTerms and totalLen.  A text is a sequence of words.                  *)
(*                                                                         *)
(* Scores are floating point; which of two matching documents scores more  *)
(* is left open, so a search has a set of possible rankings.               *)
(***************************************************************************)
EXTENDS Integers, Sequences, FiniteSets, SequencesExt, FiniteSetsExt, TLC

CONSTANTS
  Words, StopWords,
  Stem           \* the term a word is indexed under

ASSUME WordsAssumption == StopWords \subseteq Words /\ DOMAIN Stem = Words \ StopWords

EmptyMap == [x \in {} |-> 0]
Put(f, x, v) ==
  IF x \in DOMAIN f THEN [f EXCEPT ![x] = v]
  ELSE [y \in DOMAIN f \cup {x} |-> IF y = x THEN v ELSE f[y]]
Drop(f, x) == [y \in DOMAIN f \ {x} |-> f[y]]
Count(s, x) == Cardinality({i \in DOMAIN s : s[i] = x})
\* The members of S in the strict total order Less.
Sorted(S, Less(_, _)) ==
  [i \in 1..Cardinality(S) |->
     CHOOSE x \in S : Cardinality({y \in S : Less(y, x)}) = i - 1]
\* What s has at the positions I, in the same order.
Pick(s, I) == LET at == Sorted(I, LAMBDA i, j : i < j) IN [i \in DOMAIN at |-> s[at[i]]]
\* base after the steps 1..n, each of which depends on its number.
Iterate(Step(_, _), base, n) ==
  LET state[i \in 0..n] == IF i = 0 THEN base ELSE Step(state[i - 1], i) IN state[n]

-----------------------------------------------------------------------------
\* Tokenizer.tokenize: stop words go, the rest is stemmed.
Tokenize(text) ==
  LET kept == Pick(text, {i \in DOMAIN text : text[i] \notin StopWords})
  IN  [i \in DOMAIN kept |-> Stem[kept[i]]]

NoTexts == [postings |-> EmptyMap, docLen |-> EmptyMap, docTerms |-> EmptyMap, totalLen |-> 0]

\* Mutant: a term whose last document goes keeps its empty postings list.
TextRemoveLeavesTerm(bm, key) ==
  IF key \notin DOMAIN bm.docLen THEN bm
  ELSE [postings |-> [t \in DOMAIN bm.postings |-> Drop(bm.postings[t], key)],
        docLen   |-> Drop(bm.docLen, key),
        docTerms |-> Drop(bm.docTerms, key),
        totalLen |-> bm.totalLen - bm.docLen[key]]

\* BM25Index.remove
TextRemove(bm, key) ==
  IF key \notin DOMAIN bm.docLen THEN bm
  ELSE LET gone == {t \in bm.docTerms[key] : DOMAIN bm.postings[t] \subseteq {key}} IN
       [postings |-> [t \in DOMAIN bm.postings \ gone |->
                        IF t \in bm.docTerms[key] THEN Drop(bm.postings[t], key)
                        ELSE bm.postings[t]],
        docLen   |-> Drop(bm.docLen, key),
        docTerms |-> Drop(bm.docTerms, key),
        totalLen |-> bm.totalLen - bm.docLen[key]]

\* BM25Index.add: index, or index again, the text of a key.
TextAdd(bm, key, text) ==
  LET old   == TextRemove(bm, key)
      toks  == Tokenize(text)
      terms == ToSet(toks)
      Of(t) == IF t \in DOMAIN old.postings THEN old.postings[t] ELSE EmptyMap
  IN [postings |-> [t \in DOMAIN old.postings \cup terms |->
                      IF t \in terms THEN Put(Of(t), key, Count(toks, t)) ELSE Of(t)],
      docLen   |-> Put(old.docLen, key, Len(toks)),
      docTerms |-> Put(old.docTerms, key, terms),
      totalLen |-> old.totalLen + Len(toks)]

\* BM25Index.search: the allowed documents with a term of the query get a
\* score; the first k of them by score, in any order the scores may give.
TextMatches(bm, query, ok) ==
  ok \cap UNION {DOMAIN bm.postings[t] : t \in ToSet(Tokenize(query)) \cap DOMAIN bm.postings}

TextRankings(bm, query, k, ok) ==
  {SubSeq(r, 1, Min({k, Len(r)})) : r \in SetToSeqs(TextMatches(bm, query, ok))}

-----------------------------------------------------------------------------
\* Reference: the index of the texts in `texts' (key -> text), built at once.
IndexOf(texts) ==
  LET toks == [x \in DOMAIN texts |-> Tokenize(texts[x])] IN
  [postings |-> [t \in UNION {ToSet(toks[x]) : x \in DOMAIN texts} |->
                   [x \in {y \in DOMAIN texts : t \in ToSet(toks[y])} |-> Count(toks[x], t)]],
   docLen   |-> [x \in DOMAIN texts |-> Len(toks[x])],
   docTerms |-> [x \in DOMAIN texts |-> ToSet(toks[x])],
   totalLen |-> Cardinality(UNION {{x} \X DOMAIN toks[x] : x \in DOMAIN texts})]
=============================================================================
