----------------------------- MODULE MCPhysMem -----------------------------
(***************************************************************************)
(* A machine of some nine frames of 16 bytes, the kernel low in RAM, three *)
(* memory maps: one available entry; two of them, not aligned, with a hole *)
(* and a module, the last frame beginning at RAM's last byte; a reserved   *)
(* entry, not aligned either, over the available one.                      *)
(***************************************************************************)
EXTENDS PhysMem

CONSTANTS heap, driver

MCOwner == {heap, driver}
Ram(b, l) == [base |-> b, len |-> l, avail |-> TRUE]
Rsv(b, l) == [base |-> b, len |-> l, avail |-> FALSE]
Span(s, e) == [start |-> s, end |-> e]

MCBoots == {
    [mmap |-> {Ram(0, 144)}, kernel |-> Span(16, 30), kmod |-> {}],
    [mmap |-> {Ram(0, 90), Ram(97, 48)}, kernel |-> Span(16, 25),
     kmod |-> {Span(32, 40)}],
    [mmap |-> {Ram(0, 144), Rsv(70, 20)}, kernel |-> Span(0, 20), kmod |-> {}] }
MCRequests == 1..3
=============================================================================
