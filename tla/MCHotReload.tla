---------------------------- MODULE MCHotReload -----------------------------
(* Two good contents and one that does not compile; one request in flight
   at a time (requests only read, each for itself). *)
EXTENDS HotReload, TLC

CONSTANTS old, new, bad, q1

MCContents == {old, new, bad}
MCGood == {old, new}
MCRequests == {q1}
=============================================================================
