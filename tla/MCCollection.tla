---------------------------- MODULE MCCollection ----------------------------
(* A small collection for TLC. *)
EXTENDS Collection, TLC

CONSTANTS d1, d2, v1, r1, t1

MCDocs == {d1, d2}
\* One value tells a document from none.
MCValues == {v1}
MCReaders == {r1}
MCTxns == {t1}

\* No action tells one document from another.
MCSymmetry == Permutations(MCDocs)
=============================================================================
