------------------------------ MODULE MCReplica ------------------------------
(* Two replicas of two documents for TLC. *)
EXTENDS Replica, TLC

CONSTANTS r1, r2, d1, d2, v1, v2

MCReplicas == {r1, r2}
MCDocs == {d1, d2}
MCValues == {v1, v2}

\* No action tells replicas, documents or values apart.
MCSymmetry == Permutations(MCReplicas) \cup Permutations(MCDocs) \cup Permutations(MCValues)
=============================================================================
