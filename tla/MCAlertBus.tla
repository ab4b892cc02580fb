----------------------------- MODULE MCAlertBus -----------------------------
(* Three requests in flight at once, one reader, a history of two alerts. *)
EXTENDS AlertBus

CONSTANTS w1, w2, w3, k1, k2, r1

MCWorkers == {w1, w2, w3}
MCKeys == {k1, k2}
MCReaders == {r1}

Symmetry == Permutations(MCWorkers) \cup Permutations(MCKeys)
=============================================================================
