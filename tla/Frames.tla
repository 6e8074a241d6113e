------------------------------- MODULE Frames -------------------------------
(***************************************************************************)
(* What a physical frame allocator promises: a frame is free or held by    *)
(* one owner, an allocation gives frames that were free, what is given     *)
(* back is free again, and no frame gets lost or appears from nowhere.     *)
(***************************************************************************)
CONSTANT Owner

VARIABLES
    free,       \* the frames nobody holds
    held        \* the frames each owner holds

fvars == <<free, held>>

Init == held = [o \in Owner |-> {}]

Alloc(o, S) == /\ S \subseteq free
               /\ free' = free \ S
               /\ held' = [held EXCEPT ![o] = @ \cup S]

Free(o, S) == /\ S \subseteq held[o]
              /\ held' = [held EXCEPT ![o] = @ \ S]
              /\ free' = free \cup S

Next == \E o \in Owner : \/ \E S \in SUBSET free : Alloc(o, S)
                         \/ \E S \in SUBSET held[o] : Free(o, S)

Spec == Init /\ [][Next]_fvars
=============================================================================
