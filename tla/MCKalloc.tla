------------------------------ MODULE MCKalloc ------------------------------
(***************************************************************************)
(* Frames of three units, so classes 1 and 2 and clusters of three objects *)
(* (those of class 2 lie across a frame's edge); two descriptors a page,   *)
(* so that a class fills its first page and chains a second; objects of    *)
(* four units, two frames.  Five frames let memory run out in every way.   *)
(***************************************************************************)
EXTENDS Kalloc

MCFrames == 1..5
MCSizes  == {1, 2, 4}
=============================================================================
