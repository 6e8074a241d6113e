------------------------------- MODULE Arena -------------------------------
(***************************************************************************)
(* What a heap promises its callers, whatever lists, bitmaps or headers it *)
(* keeps: the memory of an object belongs to its holder alone until the    *)
(* holder gives it back.  An object is [at, len], in units of memory.      *)
(***************************************************************************)
EXTENDS Integers

VARIABLE held       \* the objects given to callers and not yet given back

Extent(b)   == b.at .. (b.at + b.len - 1)
Apart(x, y) == Extent(x) \cap Extent(y) = {}

Init == held = {}

Give == \E b \in held' \ held :
            /\ b.len > 0
            /\ \A x \in held : Apart(x, b)
            /\ held' = held \cup {b}

TakeBack == \E b \in held : held' = held \ {b}

Next == Give \/ TakeBack

Spec == Init /\ [][Next]_held
=============================================================================
