----------------------------- MODULE MCStorage -----------------------------
(***************************************************************************)
(* A disk of six sectors of two bytes, buffers of two sectors.  Either two *)
(* tasks call once, each on a drive of its own that its worker polls, or   *)
(* one task calls repeatedly on a drive that is polled or that interrupts; *)
(* or both call once on one drive.                                         *)
(***************************************************************************)
EXTENDS Storage

CONSTANTS t1, t2

MCClient == {t1, t2}
Ab(x, y) == [t \in MCClient |-> IF t = t1 THEN x ELSE y]
MCShared == { [polled |-> p, drive |-> Ab(1, 1), calls |-> Ab(1, 1)] :
                 p \in BOOLEAN }
MCSetups == MCShared \cup
            { [polled |-> TRUE,  drive |-> Ab(1, 2), calls |-> Ab(1, 1)],
              [polled |-> TRUE,  drive |-> Ab(1, 2), calls |-> Ab(2, 0)],
              [polled |-> FALSE, drive |-> Ab(1, 2), calls |-> Ab(3, 0)] }
MCAddrs  == {1, 3, 9, 10}
MCSizes  == {1, 3}
MCIos    == { [op |-> "Read", lba |-> 1, sectors |-> 1],
              [op |-> "Read", lba |-> 0, sectors |-> 3],
              [op |-> "Read", lba |-> 5, sectors |-> 2],
              [op |-> "Write", lba |-> 1, sectors |-> 1] }
=============================================================================
