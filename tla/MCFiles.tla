------------------------------ MODULE MCFiles ------------------------------
(***************************************************************************)
(* Two processes, one with a second task that may outlive it, the worker,  *)
(* and memory for one window less than can be opened.                      *)
(***************************************************************************)
EXTENDS Files

CONSTANTS a1, a2, b1, w, k1, k2

MCTask   == {a1, a2, b1}
MCHome   == [t \in MCTask |-> IF t = b1 THEN 2 ELSE 1]
MCMain   == <<a1, b1>>
MCBlocks == {k1, k2}
=============================================================================
