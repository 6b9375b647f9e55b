---------------------------- MODULE MCChimpTask ----------------------------
(* Instances of ChimpTask for TLC.  Handle slots are interchangeable only  *)
(* through FreeSlot's CHOOSE, so only the tasks other than Main are        *)
(* declared symmetric, and only in runs without liveness.                  *)
EXTENDS ChimpTask, TLC

Workers == Tasks \ {Main}

Symmetry == Permutations(Workers)
=============================================================================
