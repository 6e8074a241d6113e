------------------------------ MODULE IoService ------------------------------
(***************************************************************************)
(* What a disk promises to tasks that wait for it: every request is        *)
(* answered, once, and whoever is answered goes on.                        *)
(***************************************************************************)
CONSTANT Client

VARIABLES
    asked,      \* the clients whose request is not answered yet
    answered    \* the clients answered that have not gone on yet

iovars == <<asked, answered>>

Init == asked = {} /\ answered = {}

Ask(c) == /\ c \notin asked \cup answered
          /\ asked' = asked \cup {c}
          /\ UNCHANGED answered

Answer(c) == /\ c \in asked
             /\ asked' = asked \ {c}
             /\ answered' = answered \cup {c}

GoOn(c) == /\ c \in answered
           /\ answered' = answered \ {c}
           /\ UNCHANGED asked

Next == \E c \in Client : Ask(c) \/ Answer(c) \/ GoOn(c)

Spec == Init /\ [][Next]_iovars

Fairness == \A c \in Client : WF_iovars(Answer(c)) /\ WF_iovars(GoOn(c))

FairSpec == Spec /\ Fairness
=============================================================================
