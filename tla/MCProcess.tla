----------------------------- MODULE MCProcess -----------------------------
(***************************************************************************)
(* Two processes and four tasks; eight user pages, stacks of at most two:  *)
(* room for three stacks, or for two and a heap.  Two processes at their   *)
(* largest need more frames than the thirteen there are, so that every     *)
(* allocation fails in some state.                                         *)
(***************************************************************************)
EXTENDS Process, TLC

CONSTANTS t1, t2, t3, t4

MCTask   == {t1, t2, t3, t4}
Symmetry == Permutations(MCTask)
MCFrames == 1..13
MCImages == {0, 1, 2}
MCDeltas == {1, -1, 2, -2}
=============================================================================
