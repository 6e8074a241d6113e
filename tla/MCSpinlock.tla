----------------------------- MODULE MCSpinlock -----------------------------
(***************************************************************************)
(* Two CPUs: c1 runs two tasks and a device interrupt handler, c2 runs one *)
(* task.  Two locks nested in one order.                                   *)
(***************************************************************************)
EXTENDS Spinlock, TLC

CONSTANTS c1, c2, t1, t2, t3, h1, lmap, lqueue

MCCpuOf == [x \in {t1, t2, h1} |-> c1] @@ [x \in {t3} |-> c2]
MCRank  == [l \in {lmap, lqueue} |-> IF l = lmap THEN 1 ELSE 2]
MCOps   == [x \in {t1, t2, h1, t3} |-> IF x \in {t1} THEN 2 ELSE 1]
=============================================================================
