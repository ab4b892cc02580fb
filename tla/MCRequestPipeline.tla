------------------------- MODULE MCRequestPipeline --------------------------
(* Two tasks, four requests, a channel of one line: a third line waits. *)
EXTENDS RequestPipeline

CONSTANTS w1, w2, k1, k2

MCWorkers == {w1, w2}
MCKeys == {k1, k2}
=============================================================================
