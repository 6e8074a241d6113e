---------------------------- MODULE MCSchedWait ----------------------------
(***************************************************************************)
(* Two CPUs and one wait channel: a kernel task on c1 and a user task on   *)
(* c2, two calls each, wait and signal, and c1's keyboard handler signals. *)
(***************************************************************************)
EXTENDS Sched

CONSTANTS c1, c2

MCCpu      == {c1, c2}
MCWorker   == [c \in MCCpu |-> IF c = c1 THEN 1 ELSE 2]
MCHome     == [t \in 1..4 |-> IF t \in {2, 4} THEN c2 ELSE c1]
MCCalls    == {"wait", "signal"}
MCLeft     == [t \in 1..4 |-> IF t <= 2 THEN 0 ELSE 2]
MCUser     == {4}
MCKeyboard == {c1}
=============================================================================
