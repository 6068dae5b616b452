----------------------------- MODULE MCDatabase -----------------------------
(* Two threads and two documents of one collection for TLC. *)
EXTENDS Database, TLC

CONSTANTS t1, t2, d1, d2

MCThreads == {t1, t2}
MCNames == {"papers"}
MCDocs == {d1, d2}

\* No action tells threads or documents apart.
MCSymmetry == Permutations(MCThreads) \cup Permutations(MCDocs)
=============================================================================
