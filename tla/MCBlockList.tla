---------------------------- MODULE MCBlockList -----------------------------
(* Two tasks, two addresses and an unparsable text.  Another spelling of an
   address would only repeat its steps: nothing keeps the text. *)
EXTENDS BlockList, TLC

CONSTANTS a, b, junk, t1, t2

MCThreads == {t1, t2}
MCIps == {a, b}
MCTexts == {a, b, junk}
MCCanon == [x \in MCTexts |-> IF x = junk THEN NoIp ELSE x]

Symmetry == Permutations(MCThreads)
=============================================================================
