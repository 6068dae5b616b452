------------------------------- MODULE MCRaft -------------------------------
(* Small clusters for TLC. *)
EXTENDS Raft, TLC

CONSTANTS n1, n2, n3, c1

MCNodes == {n1, n2, n3}
MCPair == {n1, n2}
MCCommands == {c1}
MCSymmetry == Permutations(MCNodes)
MCPairSymmetry == Permutations(MCPair)
=============================================================================
