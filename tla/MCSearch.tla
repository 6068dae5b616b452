------------------------------ MODULE MCSearch ------------------------------
(* A small collection with documents on a line, for TLC. *)
EXTENDS Search

CONSTANTS d1, d2

MCDocs == {d1, d2}
MCWords == {"cat", "cats", "dog", "the"}
MCStopWords == {"the"}
MCStem == [w \in {"cat", "cats", "dog"} |-> IF w = "cats" THEN "cat" ELSE w]

Num(n) == [type |-> "int", v |-> n]
Str(n) == [type |-> "str", v |-> n]
MCComparands == {Num(1), Num(2), Str(1)}

MCContents ==
  {[point |-> 0, meta |-> [year |-> Num(1)], text |-> <<"cat", "the", "cat">>],
   [point |-> 2, meta |-> [year |-> Str(1)], text |-> <<"cats", "dog">>],
   [point |-> 3, meta |-> EmptyMap, text |-> <<"the">>]}

MCKinds == {[kind |-> "flat", keep |-> TRUE], [kind |-> "hnsw", keep |-> TRUE],
            [kind |-> "hnsw_pq", keep |-> TRUE], [kind |-> "hnsw_pq", keep |-> FALSE]}

\* A first node below or in the top layer, a last one below or in it.
MCLevelsOf == [k \in 0..MaxKeys - 1 |-> IF k \in {0, 3} THEN {0, 1} ELSE {1}]

\* No action tells one document from another.
MCSymmetry == Permutations(MCDocs)

MCQueries ==
  {[vec |-> 1, text |-> <<>>, k |-> 1, ef |-> 1, filter |-> NoFilter],
   [vec |-> 3, text |-> <<>>, k |-> 2, ef |-> 9, 
    filter |-> <<Field("year", {<<"$eq", Num(1)>>}), Not(1)>>],
   [vec |-> 0, text |-> <<"cat">>, k |-> 2, ef |-> 1, filter |-> NoFilter],
   [vec |-> NoVec, text |-> <<"dog", "cats">>, k |-> 2, ef |-> 1,
    filter |-> <<Field("year", {<<"$gt", Num(0)>>}), Field("year", {<<"$exists", FALSE>>}), Or({1, 2})>>]}
=============================================================================
