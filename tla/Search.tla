------------------------------- MODULE Search -------------------------------
(***************************************************************************)
(* Search over a collection (annex/db.py, annex/query): the version table, *)
(* the vector index and the text index that its writes keep in lock-step,  *)
(* and what a planned, filtered, fused search answers from them.  Calls    *)
(* are whole here: Collection has their steps, and the snapshots; with no  *)
(* snapshot open vacuum() drops every dead version.                        *)
(***************************************************************************)
EXTENDS VectorIndex, Filter

CONSTANTS
  Docs, Contents, \* documents, and what may be stored: [point, meta, text]
  Kinds,          \* index configurations: [kind, keep]
  Queries,        \* [vec, text, k, ef, filter]
  Comparands,     \* right-hand sides of filters
  NoVec,          \* the `vec' of a query without a vector
  TrainAt,        \* vectors that wait before the quantiser is trained
  Small,          \* small_collection_threshold
  Oversample, RrfK,
  MaxKeys,        \* bound: keys
  MaxCodes,       \* bound: keys of an index that keeps no originals
  LevelsOf        \* bound: the levels a key may be given

ASSUME SearchAssumption ==
  /\ TrainAt \in Nat \ {0} /\ Small \in Nat /\ Oversample \in Nat \ {0} /\ RrfK \in Nat
  /\ MaxKeys \in Nat /\ MaxCodes \in 0..MaxKeys /\ LevelsOf \in [0..MaxKeys - 1 -> SUBSET Nat]

\* Exact vectors and the flat index keep the originals; texts are of known words.
ASSUME DataAssumption ==
  /\ \A c \in Kinds : /\ c.kind \in {"flat", "hnsw", "hnsw_pq"} /\ c.keep \in BOOLEAN
                      /\ c.kind # "hnsw_pq" => c.keep
  /\ \A c \in Contents : c.point \in Int /\ c.text \in Seq(Words)
  /\ \A q \in Queries : /\ q.vec \in Int \cup {NoVec} /\ q.text \in Seq(Words)
                        /\ q.k \in Nat /\ q.ef \in Nat
  /\ NoVec \notin Int

\* A metadata value, or what it is compared with, is of a type and has a number.
ASSUME ValueAssumption ==
  \A v \in Comparands \cup UNION {{c.meta[f] : f \in DOMAIN c.meta} : c \in Contents} :
    v = [type |-> v.type, v |-> v.v] /\ v.v \in Int

VARIABLES
  stored,    \* the record store's live records, by sequence number
  versions,  \* _versions: key -> [doc, content, live]
  current,   \* _current
  nextKey,   \* _next_key
  ix,        \* _index
  bm,        \* _bm25
  raised     \* history: a write raised since the collection was opened

vars == <<stored, versions, current, nextKey, ix, bm, raised>>

Init ==
  /\ stored = <<>> /\ versions = EmptyMap /\ current = EmptyMap /\ nextKey = 0
  /\ \E c \in Kinds : ix = NoVectors(c.kind, c.keep)
  /\ bm = NoTexts /\ raised = FALSE

-----------------------------------------------------------------------------
(* Writes *)

Without(d) == Pick(stored, {i \in DOMAIN stored : stored[i].doc # d})
\* The text index knows the versions that have a text.
AddText(b, key, text) == IF text = <<>> THEN b ELSE TextAdd(b, key, text)

\* _maybe_train: enough vectors have accumulated, the one in hand included.
MustTrain == ix.kind = "hnsw_pq" /\ ~Trained(ix) /\ Cardinality(DOMAIN ix.pending) + 1 >= TrainAt
Sample(point) == {ix.pending[k] : k \in DOMAIN ix.pending} \cup {point}

\* _apply_upsert.  The record is stored first; what raises after that (the old
\* version is gone, the index has nothing to compare with) leaves the rest undone.
Upsert(d, c, level, book) ==
  LET lost == d \in DOMAIN current /\ current[d] \notin DOMAIN versions
      base == IF MustTrain THEN Train(ix, book) ELSE ix
      superseded == [k \in DOMAIN versions |->
        [versions[k] EXCEPT !.live = @ /\ (d \notin DOMAIN current \/ current[d] # k)]]
  IN
  /\ nextKey < (IF ix.keep THEN MaxKeys ELSE MaxCodes) /\ level \in LevelsOf[nextKey]
  /\ book \in IF MustTrain THEN Books(Sample(c.point)) ELSE {{}}
  /\ stored' = Append(Without(d), [doc |-> d, content |-> c])
  /\ IF lost
     THEN raised' = TRUE /\ UNCHANGED <<versions, current, nextKey, ix, bm>>
     ELSE /\ nextKey' = nextKey + 1
          /\ ix' = IndexAdd(base, nextKey, c.point, level)
          /\ IF AddRaises(base)
             THEN versions' = superseded /\ raised' = TRUE /\ UNCHANGED <<current, bm>>
             ELSE /\ versions' = Put(superseded, nextKey, [doc |-> d, content |-> c, live |-> TRUE])
                  /\ current' = Put(current, d, nextKey)
                  /\ bm' = AddText(bm, nextKey, c.text)
                  /\ UNCHANGED raised

\* Mutant: the index forgets a document at once, not when it is vacuumed.
DeleteFromIndex(d) ==
  /\ d \in DOMAIN current
  /\ current' = Drop(current, d) /\ stored' = Without(d)
  /\ versions' = [k \in DOMAIN versions |-> [versions[k] EXCEPT !.live = @ /\ current[d] # k]]
  /\ ix' = IndexRemove(ix, current[d])
  /\ raised' = (raised \/ current[d] \notin DOMAIN versions)
  /\ UNCHANGED <<nextKey, bm>>

\* delete; a version that is gone raises, after the record was deleted.
Delete(d) ==
  /\ d \in DOMAIN current
  /\ current' = Drop(current, d)
  /\ stored' = Without(d)
  /\ versions' = [k \in DOMAIN versions |-> [versions[k] EXCEPT !.live = @ /\ current[d] # k]]
  /\ raised' = (raised \/ current[d] \notin DOMAIN versions)
  /\ UNCHANGED <<nextKey, ix, bm>>

Vacuum ==
  LET dead == {k \in DOMAIN versions : ~versions[k].live} IN
  /\ dead # {}
  /\ ix' = FoldSet(LAMBDA k, index : IndexRemove(index, k), ix, dead)
  /\ bm' = FoldSet(LAMBDA k, index : TextRemove(index, k), bm, dead)
  /\ versions' = [k \in DOMAIN versions \ dead |-> versions[k]]
  /\ UNCHANGED <<stored, current, nextKey, raised>>

\* A new index of the points (a sequence), keys given in their order; a
\* quantiser is trained on them first.
LevelChoices(n) == {f \in [1..n -> UNION {LevelsOf[k] : k \in DOMAIN LevelsOf}] :
                      \A i \in 1..n : f[i] \in LevelsOf[i - 1]}
BuildIndex(points, levels, book) ==
  LET empty == NoVectors(ix.kind, ix.keep)
      trained == IF ix.kind = "hnsw_pq" /\ points # <<>> THEN Train(empty, book) ELSE empty
  IN Iterate(LAMBDA acc, i : IndexAdd(acc, i - 1, points[i], levels[i]), trained, Len(points))

\* The tables of the records in seq, numbered from 0, and their indexes.
Rebuilt(recs, points) ==
  /\ versions' = [k \in 0..Len(recs) - 1 |->
       [doc |-> recs[k + 1].doc, content |-> recs[k + 1].content, live |-> TRUE]]
  /\ current' = [d \in {recs[i].doc : i \in DOMAIN recs} |->
       CHOOSE k \in 0..Len(recs) - 1 : recs[k + 1].doc = d]
  /\ nextKey' = Len(recs)
  /\ \E levels \in LevelChoices(Len(recs)), book \in Books(ToSet(points)) :
       ix' = BuildIndex(points, levels, book)
  /\ bm' = Iterate(LAMBDA b, i : AddText(b, i - 1, recs[i].content.text), NoTexts, Len(recs))

\* rebuild_index: the current versions, in the order of the dict (any order
\* here), with the vectors the index holds.  It raises, and changes nothing,
\* when a current version is gone or the vectors cannot be decoded.
RebuildIndex ==
  /\ \A d \in DOMAIN current : current[d] \in DOMAIN versions
  /\ current # EmptyMap => ~Incomparable(ix)
  /\ \E order \in SetToSeqs(DOMAIN current) :
       Rebuilt([i \in DOMAIN order |-> versions[current[order[i]]]],
               [i \in DOMAIN order |-> VectorOf(ix, current[order[i]])])
  /\ UNCHANGED <<stored, raised>>

\* The process ends and the collection is opened again: _rebuild_from_store.
Reopen ==
  /\ Rebuilt(stored, [i \in DOMAIN stored |-> stored[i].content.point])
  /\ raised' = FALSE
  /\ UNCHANGED stored

Next ==
  \/ \E d \in Docs, c \in Contents, level \in 0..1, book \in SUBSET {e.point : e \in Contents} :
       Upsert(d, c, level, book)
  \/ \E d \in Docs : Delete(d)
  \/ Vacuum \/ RebuildIndex \/ Reopen

Spec == Init /\ [][Next]_vars

-----------------------------------------------------------------------------
(* Reads *)

\* Mutant: dead versions are answered too.
AllowedDead(q) == {k \in DOMAIN versions : Accepts(q.filter, versions[k].content.meta)}

\* _visibility: the keys a search may answer with.
Allowed(q) == {k \in DOMAIN versions :
                 versions[k].live /\ Accepts(q.filter, versions[k].content.meta)}

\* QueryPlanner.plan: `cheaper' is the outcome of its cost estimate.
Plan(q, cheaper) ==
  IF q.vec = NoVec /\ q.text # <<>>
  THEN [strategy |-> "lexical_only", exact |-> FALSE, fetch |-> q.k, ef |-> 0]
  ELSE LET exact == ix.kind = "flat" \/ Cardinality(DOMAIN current) <= Small \/ cheaper IN
       [strategy |-> IF q.text # <<>> THEN "hybrid" ELSE IF exact THEN "exact_scan" ELSE "ann_graph",
        exact |-> exact, fetch |-> q.k * Oversample, ef |-> Max({q.ef, q.k})]

\* _exact_search: by exact distance; among equals in any order.
ExactScan(q, k, keys) ==
  {Cut(r, k) : r \in {s \in SetToSeqs(keys) : \A i \in 1..Len(s) - 1 :
                        ExactDist(ix, q.vec, s[i]) <= ExactDist(ix, q.vec, s[i + 1])}}

Dense(q, plan) ==
  IF q.vec = NoVec THEN {<<>>}
  ELSE IF plan.exact THEN ExactScan(q, plan.fetch, Allowed(q))
  ELSE {GraphSearch(ix, q.vec, plan.fetch, plan.ef, Allowed(q))}

Lexical(q, plan) ==
  IF q.text = <<>> THEN {<<>>} ELSE TextRankings(bm, q.text, plan.fetch, Allowed(q))

Rank(r, key) == CHOOSE i \in DOMAIN r : r[i] = key

\* reciprocal_rank_fusion of two rankings with equal weights, a score being a
\* multiple of 1/Scale; a stable sort, the keys of the first ranking first.
Scale == Iterate(LAMBDA a, i : a * (RrfK + i), 1, MaxKeys)
Score(r, key) == IF Contains(r, key) THEN Scale \div (RrfK + Rank(r, key)) ELSE 0
\* The keys of both, in the order a dict gets them.
Keys(dense, lexical) == dense \o Pick(lexical, {i \in DOMAIN lexical : ~Contains(dense, lexical[i])})

\* Mutant: the fused list is sorted the wrong way round.
FuseAscending(dense, lexical, k) ==
  LET keys == Keys(dense, lexical)
      S(i) == Score(dense, keys[i]) + Score(lexical, keys[i])
      order == Sorted(DOMAIN keys, LAMBDA i, j : S(i) < S(j) \/ (S(i) = S(j) /\ i < j))
  IN Cut([i \in DOMAIN order |-> keys[order[i]]], k)

Fuse(dense, lexical, k) ==
  LET keys == Keys(dense, lexical)
      S(i) == Score(dense, keys[i]) + Score(lexical, keys[i])
      order == Sorted(DOMAIN keys, LAMBDA i, j : S(i) > S(j) \/ (S(i) = S(j) /\ i < j))
  IN Cut([i \in DOMAIN order |-> keys[order[i]]], k)

\* _merge
Merge(dense, lexical, k) ==
  IF lexical = <<>> THEN Cut(dense, k)
  ELSE IF dense = <<>> THEN Cut(lexical, k)
  ELSE Fuse(dense, lexical, k)

\* A search with a vector raises while there is nothing to compare it with.
SearchRaises(q) == q.vec # NoVec /\ Incomparable(ix)

\* search: the keys of the hits, in order, for every estimate and scoring.
Hits(q) ==
  UNION {LET plan == Plan(q, cheaper) IN
         {Merge(d, l, q.k) : d \in Dense(q, plan), l \in Lexical(q, plan)} : cheaper \in BOOLEAN}

Answered == {q \in Queries : ~SearchRaises(q)}

-----------------------------------------------------------------------------
(* Properties *)

Live == {k \in DOMAIN versions : versions[k].live}

\* Every key handed out is new to the three tables, and every live version can
\* be found in the indexes: "the three subsystems stay in lock-step".
LockStep ==
  /\ \A k \in DOMAIN versions \cup DOMAIN ix.levels \cup DOMAIN bm.docLen : k < nextKey
  /\ DOMAIN versions \subseteq DOMAIN ix.levels \ ix.deleted
  /\ ~raised => \A k \in Live : current[versions[k].doc] = k

\* The hits of a search are different documents, no more than asked for, that
\* satisfy the filter and are stored as they are shown.
HitsAreStored ==
  \A q \in Answered : \A r \in Hits(q) :
    /\ Len(r) <= q.k
    /\ \A i \in DOMAIN r :
         LET v == versions[r[i]] IN
         /\ \A j \in DOMAIN r : versions[r[j]].doc = v.doc => i = j
         /\ Accepts(q.filter, v.content.meta)
         /\ ~raised => Contains(stored, [doc |-> v.doc, content |-> v.content])

\* No search for vectors comes back short: whatever plan is made, and however
\* narrow the beam, it has min(k, documents that match) hits; and the nearest
\* ones when the beam and the reranked candidates are no fewer than the nodes.
SearchComplete ==
  \A q \in Answered : q.vec # NoVec /\ q.text = <<>> =>
    LET all == Allowed(q)
        wide == Max({q.ef, q.k}) >= nextKey /\ (ix.kind = "hnsw_pq" => q.k * Rerank >= nextKey)
    IN \A r \in Hits(q) :
         /\ Len(r) = Min({q.k, Cardinality(all)})
         /\ wide => \A k \in all \ ToSet(r) : \A i \in DOMAIN r :
                      ExactDist(ix, q.vec, r[i]) <= ExactDist(ix, q.vec, k)

\* The graph stays a graph a walk can use: lists within their layer and within
\* their bound, no node its own neighbour or twice in a list, the entry point in
\* the top layer, and every node of the base layer can be walked to.
GraphShape ==
  ix.entry # NoKey =>
    /\ ix.levels[ix.entry] = ix.top
    /\ ~raised => \A k \in DOMAIN ix.levels : ix.levels[k] <= ix.top
    /\ \A lv \in DOMAIN ix.links : \A k \in DOMAIN ix.links[lv] :
         LET nbs == ix.links[lv][k] IN
         /\ ix.levels[k] >= lv /\ Len(nbs) <= MaxLinks(lv)
         /\ k \notin ToSet(nbs) /\ Cardinality(ToSet(nbs)) = Len(nbs)
         /\ \A n \in ToSet(nbs) : ix.levels[n] >= lv
BaseReached == ix.entry # NoKey => DOMAIN versions \subseteq Reached(ix, 0, {ix.entry})
GraphWellFormed == GraphShape /\ BaseReached

\* No vector is forgotten by the quantiser: each waits for its training, or has
\* the code of the book in use.
CodesCurrent ==
  ix.kind = "hnsw_pq" =>
    IF Trained(ix) THEN DOMAIN ix.pending = {} /\ DOMAIN ix.code = DOMAIN ix.levels
                        /\ \A k \in DOMAIN ix.vec : ix.code[k] = Encode(ix.book, ix.vec[k])
    ELSE DOMAIN ix.pending = DOMAIN ix.levels

\* After any adds, removals and rebuilds the text index is the one that would be
\* built at once from the texts of the versions.
TextIndexExact ==
  bm = IndexOf([k \in {j \in DOMAIN versions : versions[j].content.text # <<>>} |->
                  versions[k].content.text])

\* In a fused list nothing comes after what it beats, or draws with, in every
\* ranking it is in.
FusionMonotone ==
  \A q \in Answered : \A cheaper \in BOOLEAN :
    LET plan == Plan(q, cheaper) IN
    \A d \in Dense(q, plan), l \in Lexical(q, plan) :
      LET r == Merge(d, l, q.k)
          Beats(a, b) == \A list \in {d, l} : Contains(list, b) =>
                           Contains(list, a) /\ Rank(list, a) < Rank(list, b)
      IN d # <<>> /\ l # <<>> =>
           \A i, j \in DOMAIN r : i < j => ~Beats(r[j], r[i])

\* What {$ne: v} finds is what {$eq: v} does not, documents without the field
\* or with a value of another type included; likewise $nin and $in; $between is
\* $gte and $lte; and $lt and $gte part the documents that have such a value.
FilterDuals ==
  LET Matching(op, rhs) == {k \in Live :
        Accepts(<<Field("year", {<<op, rhs>>})>>, versions[k].content.meta)}
  IN \A v, w \in Comparands :
       /\ Matching("$ne", v) = Live \ Matching("$eq", v)
       /\ Matching("$nin", {v, w}) = Live \ Matching("$in", {v, w})
       /\ Matching("$between", <<v, w>>) = Matching("$gte", v) \cap Matching("$lte", w)
       /\ Matching("$lt", v) = {k \in Matching("$exists", TRUE) \ Matching("$gte", v) :
                                 versions[k].content.meta["year"].type = v.type}
       /\ Matching("$eq", v) = Matching("$lte", v) \ Matching("$lt", v)
=============================================================================
