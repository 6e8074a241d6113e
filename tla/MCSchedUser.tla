---------------------------- MODULE MCSchedUser ----------------------------
(***************************************************************************)
(* One CPU whose tasks are all user tasks: system calls run with IF = 0.   *)
(* They spawn, join, sleep and exit while the worker buries the dead.      *)
(***************************************************************************)
EXTENDS Sched

CONSTANT c1

MCCpu      == {c1}
MCWorker   == [c \in MCCpu |-> 1]
MCHome     == [t \in 1..3 |-> c1]
MCCalls    == {"spawn", "join", "sleep", "exit"}
MCLeft     == [t \in 1..4 |-> IF t = 2 THEN 2 ELSE IF t = 3 THEN 1 ELSE 0]
MCUser     == 1..4
MCKeyboard == {}
=============================================================================
