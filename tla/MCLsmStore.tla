----------------------------- MODULE MCLsmStore -----------------------------
(* Small instances of LsmStore for TLC. *)
EXTENDS LsmStore, TLC

CONSTANTS k1, k2, v1, v2

MCKeys == {k1, k2}
\* One value tells a record from its tombstone; two also tell an older version
\* of a record from a newer one.
MCOneValue == {v1}
MCTwoValues == {v1, v2}

\* No action tells one record id, or one value, from another.
MCSymmetry == Permutations(MCKeys) \cup Permutations(MCTwoValues)
=============================================================================
