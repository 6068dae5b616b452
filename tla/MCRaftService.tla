--------------------------- MODULE MCRaftService ---------------------------
(* Two services with a client and two loops between them, for TLC. *)
EXTENDS RaftService

CONSTANTS n1, n2, c1, c2, l1, l2

MCNodes == {n1, n2}
MCClients == {c1, c2}
MCLoops == {l1, l2}
MCHome == [t \in Threads |-> IF t \in {c2} THEN n2 ELSE n1]
=============================================================================
