--------------------------- MODULE MCRateLimiter ----------------------------
(* One address more than the shard holds, two concurrent checks. *)
EXTENDS RateLimiter, TLC

CONSTANTS a, b, c, d, e, t1, t2

MCIps == {a, b, c, d, e}
MCThreads == {t1, t2}

Symmetry == Permutations(MCIps) \cup Permutations(MCThreads)
=============================================================================
