---------------------------- MODULE MCAlertStream ----------------------------
(* Two alerts of two kinds, one publishing task, two answers under way, one fault. *)
EXTENDS AlertStream

CONSTANTS k1, k2

MCKeys == {k1, k2}
=============================================================================
