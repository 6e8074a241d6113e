---------------------------- MODULE MCSchedFull ----------------------------
(***************************************************************************)
(* Two CPUs, a kernel task and the user task it may create: every call     *)
(* that crosses CPUs -- spawn, join, migration, wake-ups by IPM -- in any  *)
(* order and with the timer between any two steps.                         *)
(***************************************************************************)
EXTENDS Sched

CONSTANTS c1, c2

MCCpu      == {c1, c2}
MCWorker   == [c \in MCCpu |-> IF c = c1 THEN 1 ELSE 2]
MCHome     == [t \in 1..3 |-> IF t = 2 THEN c2 ELSE c1]
MCCalls    == {"spawn_on_cpu", "join", "migrate", "io", "serve", "exit"}
MCLeft     == [t \in 1..4 |-> IF t <= 2 THEN 0 ELSE 5 - t]
MCUser     == {4}
MCKeyboard == {}
=============================================================================
