----------------------------- MODULE WaitQueue -----------------------------
(***************************************************************************)
(* What a wait channel promises: tasks that wait queue up, a signal lets   *)
(* the first of them go, a task comes back from wait only when it was let  *)
(* go, and then it does come back.                                         *)
(***************************************************************************)
EXTENDS Naturals, Sequences

CONSTANT Task

VARIABLES
    inside,     \* the tasks that have called wait and not returned
    queue       \* those of them no signal has reached, first come first

wqvars == <<inside, queue>>

Queued(t) == \E i \in 1..Len(queue) : queue[i] = t

Init == inside = {} /\ queue = <<>>

Enter(t) == /\ t \notin inside
            /\ inside' = inside \cup {t}
            /\ queue' = Append(queue, t)

SignalFirst == /\ queue # <<>>
               /\ queue' = Tail(queue)
               /\ UNCHANGED inside

Leave(t) == /\ t \in inside /\ ~Queued(t)
            /\ inside' = inside \ {t}
            /\ UNCHANGED queue

Next == SignalFirst \/ \E t \in Task : Enter(t) \/ Leave(t)

Spec == Init /\ [][Next]_wqvars

FairSpec == Spec /\ \A t \in Task : WF_wqvars(Leave(t))
=============================================================================
