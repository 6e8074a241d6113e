----------------------------- MODULE LockOwner -----------------------------
(***************************************************************************)
(* What a spinlock promises: every lock has at most one owner, the owner   *)
(* gets it while it is free and is the only one to give it back.           *)
(***************************************************************************)
CONSTANTS Ctx, Lock, NoOwner

VARIABLE owner

Init == owner = [l \in Lock |-> NoOwner]

Acquire(x, l) == /\ owner[l] = NoOwner
                 /\ owner' = [owner EXCEPT ![l] = x]

Release(x, l) == /\ owner[l] = x
                 /\ owner' = [owner EXCEPT ![l] = NoOwner]

Next == \E x \in Ctx, l \in Lock : Acquire(x, l) \/ Release(x, l)

Spec == Init /\ [][Next]_owner
=============================================================================
