----------------------------- MODULE MCUserHeap -----------------------------
(***************************************************************************)
(* A heap of at most three growths of six units, two units to a page;      *)
(* objects from one unit to more than one growth; alignments that leave    *)
(* the size as it is and that round it up.                                 *)
(***************************************************************************)
EXTENDS UserHeap

MCSizes  == {0, 1, 3, 7}
MCAligns == {1, 2}
=============================================================================
