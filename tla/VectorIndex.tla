---------------------------- MODULE VectorIndex ----------------------------
(***************************************************************************)
(* The vector indexes of annex/index: HNSW over exact or product-quantised *)
(* vectors, and the flat one, as operators on a record                     *)
(*   kind, keep            "flat", "hnsw" or "hnsw_pq"; originals are kept *)
(*   vec, code, pending    the space: key -> vector, code word, vector     *)
(*   book                  the trained code words; {} before training      *)
(*   levels, links         the graph: key -> level, layer -> key -> list   *)
(*   deleted, entry, top   tombstones, entry point (NoKey) and its level   *)
(* (in a flat index the domain of levels is the set _live).                *)
(* Vectors are integers with their difference as the distance, quantised   *)
(* to the nearest word of the book.  The level of a new node, random in    *)
(* the code, is an argument.                                               *)
(***************************************************************************)
EXTENDS TextIndex

CONSTANTS
  NoKey,
  M,              \* hnsw.m: links a node chooses; layer 0 holds 2M
  EfConstruction,
  Rerank,         \* pq.rerank_factor
  Centroids       \* words of the quantiser's book

ASSUME IndexAssumption ==
  /\ M \in Nat /\ M >= 2 /\ EfConstruction \in Nat /\ EfConstruction >= M
  /\ Rerank \in Nat \ {0} /\ Centroids \in Nat \ {0} /\ NoKey \notin Nat

Dist(a, b) == IF a > b THEN a - b ELSE b - a
Cut(s, n) == SubSeq(s, 1, Min({n, Len(s)}))

-----------------------------------------------------------------------------
(* The space: where vectors are kept and what their distance is *)

NoVectors(kind, keep) ==
  [kind |-> kind, keep |-> keep, vec |-> EmptyMap, code |-> EmptyMap, pending |-> EmptyMap,
   book |-> {}, levels |-> EmptyMap, links |-> EmptyMap, deleted |-> {},
   entry |-> NoKey, top |-> -1]

Trained(ix) == ix.book # {}
Encode(book, v) == CHOOSE c \in book : \A b \in book : Dist(c, v) <= Dist(b, v)

\* kmeans: no more vectors than centroids are their own centroids; of more, any
\* choice among them stands for the centroids that are found.
Books(sample) ==
  IF Cardinality(sample) <= Centroids THEN {sample} ELSE kSubset(Centroids, sample)

\* PQSpace.train: what waited for the book is encoded.
Train(ix, book) ==
  [ix EXCEPT !.book = book, !.pending = EmptyMap,
             !.code = [k \in DOMAIN @ \cup DOMAIN ix.pending |->
                         IF k \in DOMAIN ix.pending THEN Encode(book, ix.pending[k]) ELSE @[k]]]

\* Mutant: vectors are encoded with the book only when it is trained.
SetVectorPending(ix, key, v) ==
  [ix EXCEPT !.vec = IF ix.keep THEN Put(@, key, v) ELSE @,
             !.pending = IF ix.kind = "hnsw_pq" THEN Put(@, key, v) ELSE @]

\* ExactSpace.set, PQSpace.set
SetVector(ix, key, v) ==
  [ix EXCEPT !.vec = IF ix.keep THEN Put(@, key, v) ELSE @,
             !.code = IF Trained(ix) THEN Put(@, key, Encode(ix.book, v)) ELSE @,
             !.pending = IF ix.kind = "hnsw_pq" /\ ~Trained(ix) THEN Put(@, key, v) ELSE @]

\* get, exact_distances, distance_between: the original, or what its code says.
VectorOf(ix, key) == IF ix.keep THEN ix.vec[key] ELSE ix.code[key]
ExactDist(ix, q, key) == Dist(q, VectorOf(ix, key))
PairDist(ix, a, b) == Dist(VectorOf(ix, a), VectorOf(ix, b))
\* distances_ctx: a trained quantiser compares with the code word.
QueryDist(ix, q, key) == Dist(q, IF Trained(ix) THEN ix.code[key] ELSE ix.vec[key])
\* Before training, and without the originals, there is nothing to compare with.
Incomparable(ix) == ~ix.keep /\ ~Trained(ix)

-----------------------------------------------------------------------------
(* Graph walks *)

LinksOf(ix, lv, key) == IF key \in DOMAIN ix.links[lv] THEN ix.links[lv][key] ELSE <<>>
\* The order of the heaps: by distance, then by key.
Nearer(ix, q, a, b) ==
  \/ QueryDist(ix, q, a) < QueryDist(ix, q, b)
  \/ QueryDist(ix, q, a) = QueryDist(ix, q, b) /\ a < b
Nearest(ix, q, S) == CHOOSE a \in S : \A b \in S \ {a} : Nearer(ix, q, a, b)

\* The nearest neighbour (the first of them) of ep, if it is nearer than ep.
Closer(ix, q, ep, lv) ==
  LET nbs == LinksOf(ix, lv, ep)
      D(i) == QueryDist(ix, q, nbs[i])
      j == CHOOSE i \in DOMAIN nbs :
             \A h \in DOMAIN nbs : D(i) < D(h) \/ (D(i) = D(h) /\ i <= h)
  IN IF nbs # <<>> /\ D(j) < QueryDist(ix, q, ep) THEN nbs[j] ELSE ep

\* _greedy_descend: nearer while there is a nearer one, at most once for a node.
GreedyDescend(ix, q, ep, lv) ==
  Iterate(LAMBDA e, i : Closer(ix, q, e, lv), ep, Cardinality(DOMAIN ix.levels))

\* From the entry point through the layers above `level'.
Descend(ix, q, level) ==
  Iterate(LAMBDA ep, i : GreedyDescend(ix, q, ep, ix.top + 1 - i), ix.entry, Max({ix.top - level, 0}))

\* The result a full heap gives up, and the distance a newcomer has to beat.
Worst(ix, q, res) ==
  CHOOSE a \in res : \A b \in res \ {a} :
    \/ QueryDist(ix, q, a) > QueryDist(ix, q, b)
    \/ QueryDist(ix, q, a) = QueryDist(ix, q, b) /\ a < b

\* One unvisited neighbour: not worth a visit once the heap is full and it is
\* no nearer; else a candidate, and a result if it may be one.
Consider(ix, q, ef, ok, s, n) ==
  LET far == Cardinality(s.res) >= ef
             /\ QueryDist(ix, q, n) >= QueryDist(ix, q, Worst(ix, q, s.res))
      res == s.res \cup ({n} \cap ok)
  IN IF far THEN s
     ELSE [s EXCEPT
             !.cand = @ \cup {n},
             !.res = IF Cardinality(res) > ef THEN res \ {Worst(ix, q, res)} ELSE res]

\* One round: the neighbours of the nearest candidate, if it is worth it.
Round(ix, q, ef, lv, ok, s) ==
  LET node == Nearest(ix, q, s.cand)
      nbs == LinksOf(ix, lv, node)
      fresh == Pick(nbs, {i \in DOMAIN nbs : nbs[i] \notin s.met})
      over == \/ s.cand = {}
              \/ Cardinality(s.res) >= ef
                 /\ QueryDist(ix, q, node) > QueryDist(ix, q, Worst(ix, q, s.res))
  IN IF over THEN s
     ELSE Iterate(LAMBDA t, i : Consider(ix, q, ef, ok, t, fresh[i]),
                  [s EXCEPT !.cand = @ \ {node}, !.met = @ \cup ToSet(fresh)], Len(fresh))

\* Mutant: nodes that may not be results are not walked through either.
SearchLayerBlocked(ix, q, ep, ef, lv, ok) ==
  LET open == [ix EXCEPT !.links[lv] =
                 [k \in DOMAIN @ |-> SelectSeq(@[k], LAMBDA n : n \in ok)]]
  IN Iterate(LAMBDA s, i : Round(open, q, ef, lv, ok, s),
             [cand |-> {ep}, res |-> {ep} \cap ok, met |-> {ep}], Cardinality(DOMAIN ix.levels)).res

\* _search_layer: the nearest of ok that a walk from ep in layer lv meets, at
\* most ef; nodes outside ok are walked through all the same.  Every node is a
\* candidate at most once, so that there are no more rounds than nodes.
SearchLayer(ix, q, ep, ef, lv, ok) ==
  Iterate(LAMBDA s, i : Round(ix, q, ef, lv, ok, s),
          [cand |-> {ep}, res |-> {ep} \cap ok, met |-> {ep}], Cardinality(DOMAIN ix.levels)).res

\* _select_neighbors: of the candidates, with their distances D to base, the
\* nearest first, none that is nearer to one chosen before it; topped up with
\* those passed over.
SelectNeighbors(ix, base, D, m) ==
  LET pool == Sorted(DOMAIN D \ {base}, LAMBDA a, b : D[a] < D[b] \/ (D[a] = D[b] /\ a < b))
      Choose(s, c) ==
        IF Len(s.selected) >= m THEN s
        ELSE IF \A i \in DOMAIN s.selected : PairDist(ix, c, s.selected[i]) >= D[c]
             THEN [s EXCEPT !.selected = Append(@, c)]
             ELSE [s EXCEPT !.discarded = Append(@, c)]
      s == Iterate(LAMBDA t, i : Choose(t, pool[i]),
                   [selected |-> <<>>, discarded |-> <<>>], Len(pool))
  IN Cut(s.selected \o s.discarded, m)

-----------------------------------------------------------------------------
(* add, remove, search *)

MaxLinks(lv) == IF lv = 0 THEN 2 * M ELSE M

\* Mutant: the list of a neighbour is not pruned when it grows too long.
LinkBackUnpruned(ix, lv, key, nb) ==
  LET nbs == LinksOf(ix, lv, nb)
      all == IF Contains(nbs, key) THEN nbs ELSE Append(nbs, key)
  IN [ix EXCEPT !.links[lv] = Put(@, nb, all)]

\* nb, chosen by key, links back to it and prunes its list.
LinkBack(ix, lv, key, nb) ==
  LET nbs == LinksOf(ix, lv, nb)
      all == IF Contains(nbs, key) THEN nbs ELSE Append(nbs, key)
      kept == IF Len(all) <= MaxLinks(lv) THEN all
              ELSE SelectNeighbors(ix, nb, [o \in ToSet(all) |-> PairDist(ix, nb, o)], MaxLinks(lv))
  IN [ix EXCEPT !.links[lv] = Put(@, nb, kept)]

\* The links of a new node in one layer; the walk goes on from the nearest found.
LinkAt(s, key, v, lv) ==
  LET ix == s.ix
      found == SearchLayer(ix, v, s.ep, EfConstruction, lv, DOMAIN ix.levels)
      chosen == SelectNeighbors(ix, key, [o \in found |-> QueryDist(ix, v, o)], M)
      own == [ix EXCEPT !.links[lv] = Put(@, key, chosen)]
  IN [ix |-> Iterate(LAMBDA acc, i : LinkBack(acc, lv, key, chosen[i]), own, Len(chosen)),
      ep |-> Nearest(ix, v, found)]

\* The node is there, in its layers, without a link.
AddNode(ix, key, v, level) ==
  LET set == SetVector(ix, key, v)
      layers == DOMAIN ix.links \cup 0..level
      Layer(lv) == IF lv \in DOMAIN ix.links THEN ix.links[lv] ELSE EmptyMap
  IN [set EXCEPT
        !.levels = Put(@, key, level), !.deleted = @ \ {key},
        !.links = [lv \in layers |-> IF lv <= level THEN Put(Layer(lv), key, <<>>) ELSE Layer(lv)]]

\* HNSWIndex.add raises in the first distance, with the node already there.
AddRaises(ix) == ix.kind = "hnsw_pq" /\ Incomparable(ix) /\ ix.entry # NoKey

\* HNSWIndex.add of a key the graph does not hold; FlatIndex.add.
IndexAdd(ix, key, v, level) ==
  LET node == AddNode(ix, key, v, level)
      shared == Min({level, ix.top})
      linked == Iterate(LAMBDA s, i : LinkAt(s, key, v, shared + 1 - i),
                        [ix |-> node, ep |-> Descend(node, v, level)], shared + 1).ix
  IN IF ix.kind = "flat" THEN [SetVector(ix, key, v) EXCEPT !.levels = Put(@, key, 0)]
     ELSE IF AddRaises(ix) THEN node
     ELSE IF ix.entry = NoKey THEN [node EXCEPT !.entry = key, !.top = level]
     ELSE IF level > ix.top THEN [linked EXCEPT !.entry = key, !.top = level]
     ELSE linked

\* HNSWIndex.remove leaves a tombstone, FlatIndex.remove forgets the key; for a
\* key the graph does not know it raises, which vacuum() ignores.
IndexRemove(ix, key) ==
  IF ix.kind = "flat" THEN [ix EXCEPT !.levels = Drop(@, key)]
  ELSE [ix EXCEPT !.deleted = @ \cup ({key} \cap DOMAIN ix.levels)]

\* HNSWIndex.search: down to layer 0, a beam there, and with a quantiser more
\* candidates than asked for, put in the order of the exact distances.
GraphSearch(ix, q, k, ef, ok) ==
  IF k <= 0 \/ ix.entry = NoKey THEN <<>>
  ELSE LET pq == ix.kind = "hnsw_pq"
           fetch == IF pq THEN k * Rerank ELSE k
           found == SearchLayer(ix, q, Descend(ix, q, 0), Max({ef, fetch}), 0, ok \ ix.deleted)
           ranked == Cut(Sorted(found, LAMBDA a, b : Nearer(ix, q, a, b)), fetch)
           Before(i, j) == \/ ExactDist(ix, q, ranked[i]) < ExactDist(ix, q, ranked[j])
                           \/ ExactDist(ix, q, ranked[i]) = ExactDist(ix, q, ranked[j]) /\ i < j
           order == Sorted(DOMAIN ranked, Before)
       IN Cut(IF pq THEN [i \in DOMAIN order |-> ranked[order[i]]] ELSE ranked, k)

-----------------------------------------------------------------------------
(* What a graph has to be *)

\* The keys a walk in layer lv gets to from the keys S.
Reached(ix, lv, S) ==
  LET reached[R \in SUBSET DOMAIN ix.levels] ==
        LET more == R \cup UNION {ToSet(LinksOf(ix, lv, k)) : k \in R}
        IN IF more = R THEN R ELSE reached[more]
  IN reached[S]
=============================================================================
