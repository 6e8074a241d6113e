------------------------------ MODULE Storage ------------------------------
(***************************************************************************)
(* The disk path: tasks that read through a BufferedDiskIO or call         *)
(* submit_sync_io (kernel/src/drivers/storage/mod.rs), the AHCI driver     *)
(* with its three queues per drive, its worker task per drive and its      *)
(* interrupt handler (ahci.rs), and the HBA's registers they share.        *)
(*                                                                         *)
(* AHCI_BUS is one spinlock around the queues and the registers; a step    *)
(* is one critical section, cut where the HBA may change a register in the *)
(* middle of one.  Blocking a task and waking it follow Task::block and    *)
(* Task::wake: a wake-up that comes first makes the block return at once.  *)
(***************************************************************************)
EXTENDS Integers, Sequences, FiniteSets, SequencesExt

CONSTANTS
    Client,         \* tasks, each with a BufferedDiskIO of its own
    NDrives,
    Setups,         \* whether the driver polls; which drive a client uses and
                    \* (bound) how often it calls
    SectorSize, SectorCount,
    CACHE_SIZE,     \* of a BufferedDiskIO, in bytes
    MaxSectors,     \* of one command (8 in the code)
    ReadAddrs, ReadSizes,       \* bounds: what clients read
    SyncIos,        \* bound: what clients pass to submit_sync_io
    isr, None

Drive == 1..NDrives
Io == [op : {"Read", "Write"}, lba : Nat, sectors : Nat]

\* An IORequest: whose it is, what it asks, whether its callback stores it
\* in REQID_IOREQ_MAP, and its completion.
Request == [c : Client, io : Io, id : Nat, track : BOOLEAN,
            res : {"NotIssued", "InvalidOp", "OutOfBoundIO", "Ok"}]

ASSUME StorageAssumption ==
    /\ NDrives \in Nat
    /\ \A s \in Setups : /\ s.polled \in BOOLEAN
                         /\ s.drive \in [Client -> Drive]
                         /\ s.calls \in [Client -> Nat]
    /\ SectorSize \in Nat \ {0} /\ SectorCount \in Nat
    /\ CACHE_SIZE \in Nat /\ MaxSectors \in Nat
    /\ CACHE_SIZE \div SectorSize <= MaxSectors
    /\ ReadAddrs \subseteq Nat /\ ReadSizes \subseteq Nat
    /\ SyncIos \subseteq Io
    /\ isr \notin Drive /\ None \notin Nat \cup Request \cup {isr}

VARIABLES
    setup,      \* the machine: fixed after boot
    cl,         \* the clients
    buf,        \* the first sector of what a client's buffer holds, or None
    permit,     \* wake-ups a client has not consumed
    answers,    \* REQID_IOREQ_MAP
    next_id,    \* NEXT_REQ_ID
    request_queue, submitted_queue, completed_queue,
    wk,         \* the drive workers
    bus,        \* who holds AHCI_BUS
    irq,        \* locals of irq_handler, whose one caller holds AHCI_BUS
    port,       \* a port's CI bit 0, its IS register, the command in slot 0
    his,        \* the HBA's IS register
    edge        \* an interrupt is pending at the CPU (edge-triggered)

vars == <<setup, cl, buf, permit, answers, next_id, request_queue,
          submitted_queue, completed_queue, wk, bus, irq, port, his, edge>>

queues   == <<request_queue, submitted_queue, completed_queue>>
hardware == <<port, his, edge>>
sync_io  == <<answers, next_id>>

Client0 == [pc |-> "idle", left |-> 0, first_lba |-> 0, sec_count |-> 0,
            addr |-> 0, bytes |-> 0, req |-> None, out |-> None]
Worker0 == [pc |-> "comp", n |-> 0, hand |-> None]
Irq0    == [drv |-> 0, ci |-> FALSE, pc |-> "look"]

Init ==
    /\ setup \in Setups
    /\ cl = [c \in Client |-> [Client0 EXCEPT !.left = setup.calls[c]]]
    /\ buf = [c \in Client |-> None]
    /\ permit = [c \in Client |-> 0]
    /\ answers = {} /\ next_id = 0
    /\ request_queue = [d \in Drive |-> <<>>]
    /\ submitted_queue = [d \in Drive |-> <<>>]
    /\ completed_queue = [d \in Drive |-> <<>>]
    /\ wk = [d \in Drive |-> Worker0]
    /\ bus = None
    /\ irq = Irq0
    /\ port = [d \in Drive |-> [ci |-> FALSE, is |-> FALSE, cmd |-> None]]
    /\ his = {} /\ edge = FALSE

(***************************************************************************)
(* BufferedDiskIO and submit_sync_io                                       *)
(***************************************************************************)
Idle(c) == cl[c].pc = "idle" /\ cl[c].left > 0

\* Broken variant: only the end of the range is looked at.
EndCovered(b, addr, bytes) ==
    addr + bytes < (b.first_lba + b.sec_count) * SectorSize

Covered(b, addr, bytes) ==
    /\ addr >= b.first_lba * SectorSize
    /\ addr + bytes < (b.first_lba + b.sec_count) * SectorSize

\* read's answer: where in the buffer the data is, or an error.
Answer(b) ==
    LET off == b.addr - b.first_lba * SectorSize IN
    IF b.bytes > b.sec_count * SectorSize - off
    THEN [ok |-> FALSE] ELSE [ok |-> TRUE, off |-> off]

Done(b, out) == [b EXCEPT !.pc = "idle", !.req = None, !.out = out]

OutOfBound(io) == io.lba + io.sectors > SectorCount

\* A read the buffer covers.
ReadHit(c, addr, bytes) ==
    LET b == [cl[c] EXCEPT !.left = @ - 1, !.addr = addr, !.bytes = bytes] IN
    /\ Idle(c)
    /\ Covered(cl[c], addr, bytes)
    /\ cl' = [cl EXCEPT ![c] = Done(b, Answer(b))]
    /\ UNCHANGED <<setup, buf, permit, sync_io, queues, wk, bus, irq, hardware>>

\* Any other read: fetch_from zeroes the buffer and calls issue_io, which
\* refuses a request beyond the disk at once; nobody looks at the refusal.
ReadMiss(c, addr, bytes) ==
    LET lba == addr \div SectorSize
        n   == CACHE_SIZE \div SectorSize
        io  == [op |-> "Read", lba |-> lba, sectors |-> n]
        b   == [cl[c] EXCEPT !.left = @ - 1, !.addr = addr, !.bytes = bytes,
                             !.first_lba = lba, !.sec_count = n]
    IN
    /\ Idle(c)
    /\ ~Covered(cl[c], addr, bytes)
    /\ buf' = [buf EXCEPT ![c] = None]
    /\ cl' = [cl EXCEPT ![c] =
                 IF OutOfBound(io) THEN Done(b, Answer(b))
                 ELSE [b EXCEPT !.pc = "push", !.out = None,
                          !.req = [c |-> c, io |-> io, id |-> 0, track |-> FALSE,
                                   res |-> "NotIssued"]]]
    /\ UNCHANGED <<setup, permit, sync_io, queues, wk, bus, irq, hardware>>

\* submit_sync_io: a fresh id and a callback that stores the completion,
\* called by issue_io itself if the request lies beyond the disk.
SubmitSync(c, io) ==
    LET r == [c |-> c, io |-> io, id |-> next_id, track |-> TRUE,
              res |-> "NotIssued"] IN
    /\ Idle(c)
    /\ next_id' = next_id + 1
    /\ cl' = [cl EXCEPT ![c] = [cl[c] EXCEPT !.left = @ - 1, !.out = None, !.req = r,
                 !.pc = IF OutOfBound(io) THEN "collect" ELSE "push"]]
    /\ answers' = IF OutOfBound(io)
                  THEN answers \cup {[r EXCEPT !.res = "OutOfBoundIO"]}
                  ELSE answers
    /\ UNCHANGED <<setup, buf, permit, queues, wk, bus, irq, hardware>>

\* issue_io's critical section.
Push(c) ==
    LET d == setup.drive[c] IN
    /\ cl[c].pc = "push" /\ bus = None
    /\ request_queue' = [request_queue EXCEPT ![d] = Append(@, cl[c].req)]
    /\ cl' = [cl EXCEPT ![c].pc = "block"]
    /\ UNCHANGED <<setup, buf, permit, sync_io, submitted_queue,
                   completed_queue, wk, bus, irq, hardware>>

\* Task::block returns.
GoOn(c) ==
    /\ cl[c].pc = "block" /\ permit[c] > 0
    /\ permit' = [permit EXCEPT ![c] = @ - 1]
    /\ cl' = [cl EXCEPT ![c] = IF cl[c].req.track THEN [@ EXCEPT !.pc = "collect"]
                               ELSE Done(@, Answer(@))]
    /\ UNCHANGED <<setup, buf, sync_io, queues, wk, bus, irq, hardware>>

\* REQID_IOREQ_MAP.lock().remove(id)
Collect(c) ==
    LET mine == {r \in answers : r.id = cl[c].req.id} IN
    /\ cl[c].pc = "collect"
    /\ answers' = answers \ mine
    /\ cl' = [cl EXCEPT ![c] = Done(@, [io |-> @.req.io, got |-> mine])]
    /\ UNCHANGED <<setup, buf, permit, next_id, queues, wk, bus, irq, hardware>>

(***************************************************************************)
(* drive_worker                                                            *)
(***************************************************************************)
Working(d, l) == wk[d].pc = l /\ (l \in {"submit", "ccount", "comp"} => bus = None)

CountRequests(d) ==
    /\ Working(d, "comp") /\ wk[d].n = 0
    /\ wk' = [wk EXCEPT ![d].pc = "submit", ![d].n = Len(request_queue[d])]
    /\ UNCHANGED <<setup, cl, buf, permit, sync_io, queues, bus, irq, hardware>>

\* submit_io_command, up to the wait for the drive: a command that cannot be
\* sent completes at once; otherwise slot 0 is filled and IS cleared.
Submit(d) ==
    LET r == Head(request_queue[d]) IN
    /\ Working(d, "submit") /\ wk[d].n > 0
    /\ request_queue' = [request_queue EXCEPT ![d] = Tail(@)]
    /\ IF r.io.op = "Read" /\ r.io.sectors <= MaxSectors
       THEN /\ wk' = [wk EXCEPT ![d].pc = "issue", ![d].hand = r]
            /\ port' = [port EXCEPT ![d].is = FALSE]
            /\ bus' = d
            /\ UNCHANGED completed_queue
       ELSE /\ wk' = [wk EXCEPT ![d].n = @ - 1]
            /\ completed_queue' = [completed_queue EXCEPT ![d] = Append(@,
                   [r EXCEPT !.res = IF r.io.op = "Read" THEN "NotIssued"
                                                         ELSE "InvalidOp"])]
            /\ UNCHANGED <<port, bus>>
    /\ UNCHANGED <<setup, cl, buf, permit, sync_io, submitted_queue, irq, his,
                   edge>>

\* port_wait_while_busy, port_issue_cmd and the rest of submit_io_command.
Issue(d) ==
    LET r == wk[d].hand IN
    /\ wk[d].pc = "issue" /\ ~port[d].ci
    /\ port' = [port EXCEPT ![d].ci = TRUE, ![d].cmd = r]
    /\ submitted_queue' = [submitted_queue EXCEPT ![d] = Append(@, r)]
    /\ wk' = [wk EXCEPT ![d] = [pc |-> "submit", n |-> @.n - 1, hand |-> None]]
    /\ bus' = None
    /\ UNCHANGED <<setup, cl, buf, permit, sync_io, request_queue,
                   completed_queue, irq, his, edge>>

\* Without an interrupt line the worker calls irq_handler itself.
Poll(d) ==
    /\ Working(d, "submit") /\ wk[d].n = 0 /\ setup.polled
    /\ IF his = {}
       THEN wk' = [wk EXCEPT ![d].pc = "ccount"] /\ UNCHANGED <<bus, irq>>
       ELSE /\ wk' = [wk EXCEPT ![d].pc = "irq"]
            /\ bus' = d
            /\ irq' = [Irq0 EXCEPT !.drv = 1]
    /\ UNCHANGED <<setup, cl, buf, permit, sync_io, queues, hardware>>

CountCompletions(d) ==
    /\ \/ Working(d, "submit") /\ wk[d].n = 0 /\ ~setup.polled
       \/ Working(d, "ccount")
    /\ wk' = [wk EXCEPT ![d].pc = "comp", ![d].n = Len(completed_queue[d])]
    /\ UNCHANGED <<setup, cl, buf, permit, sync_io, queues, bus, irq, hardware>>

\* Broken variant: the completion is looked at and left in the queue.
PeekCompletion(d) ==
    /\ Working(d, "comp") /\ wk[d].n > 0
    /\ wk' = [wk EXCEPT ![d] = [pc |-> "cb", n |-> @.n - 1,
                                hand |-> Head(completed_queue[d])]]
    /\ UNCHANGED <<setup, cl, buf, permit, sync_io, queues, bus, irq, hardware>>

TakeCompletion(d) ==
    /\ Working(d, "comp") /\ wk[d].n > 0
    /\ wk' = [wk EXCEPT ![d] = [pc |-> "cb", n |-> @.n - 1,
                                hand |-> Head(completed_queue[d])]]
    /\ completed_queue' = [completed_queue EXCEPT ![d] = Tail(@)]
    /\ UNCHANGED <<setup, cl, buf, permit, sync_io, request_queue,
                   submitted_queue, bus, irq, hardware>>

\* Broken variant: the map is not told.
Forget(r) == UNCHANGED answers

\* submit_sync_io's completion_cb; BufferedDiskIO's does nothing.
completion_cb(r) == answers' = IF r.track THEN answers \cup {r} ELSE answers

Callback(d) ==
    /\ wk[d].pc = "cb"
    /\ completion_cb(wk[d].hand)
    /\ wk' = [wk EXCEPT ![d].pc = "wake"]
    /\ UNCHANGED <<setup, cl, buf, permit, next_id, queues, bus, irq, hardware>>

Wake(d) ==
    /\ wk[d].pc = "wake"
    /\ permit' = [permit EXCEPT ![wk[d].hand.c] = @ + 1]
    /\ wk' = [wk EXCEPT ![d].pc = "comp", ![d].hand = None]
    /\ UNCHANGED <<setup, cl, buf, sync_io, queues, bus, irq, hardware>>

Worker(d) == \/ CountRequests(d) \/ Submit(d) \/ Issue(d) \/ Poll(d)
             \/ CountCompletions(d) \/ TakeCompletion(d) \/ Callback(d) \/ Wake(d)

(***************************************************************************)
(* irq_handler, called by the interrupt or by a polling worker.            *)
(***************************************************************************)
IrqEnter ==
    /\ ~setup.polled /\ edge /\ bus = None
    /\ edge' = FALSE
    /\ IF his = {} THEN UNCHANGED <<bus, irq>>
                   ELSE bus' = isr /\ irq' = [Irq0 EXCEPT !.drv = 1]
    /\ UNCHANGED <<setup, cl, buf, permit, sync_io, queues, wk, port, his>>

InHandler == irq.drv > 0

HasEvent(d) == port[d].is

\* A port without an event is passed over; of the others CI is read.
Look ==
    /\ InHandler /\ irq.drv \in Drive /\ irq.pc = "look"
    /\ irq' = IF HasEvent(irq.drv)
              THEN [irq EXCEPT !.ci = port[irq.drv].ci, !.pc = "drain"]
              ELSE [irq EXCEPT !.drv = @ + 1]
    /\ UNCHANGED <<setup, cl, buf, permit, sync_io, queues, wk, bus, hardware>>

\* Every submitted request is popped; those whose CI bit was clear go to the
\* completed queue, the others nowhere.
Drain ==
    LET d == irq.drv
        ok == [i \in DOMAIN submitted_queue[d] |->
                  [submitted_queue[d][i] EXCEPT !.res = "Ok"]]
    IN
    /\ InHandler /\ irq.pc = "drain"
    /\ submitted_queue' = [submitted_queue EXCEPT ![d] = <<>>]
    /\ completed_queue' = [completed_queue EXCEPT ![d] =
                              IF irq.ci THEN @ ELSE @ \o ok]
    /\ port' = [port EXCEPT ![d].is = FALSE]
    /\ irq' = [Irq0 EXCEPT !.drv = d + 1]
    /\ UNCHANGED <<setup, cl, buf, permit, sync_io, request_queue, wk, bus, his,
                   edge>>

\* Broken variant: the HBA's events stay.
LeaveEvents == UNCHANGED <<his, edge>>

\* The HBA's IS register is cleared; the bit of a port that has an event by
\* now comes back, with a new edge of the interrupt line or without one.
ClearEvents ==
    /\ his' = {d \in Drive : port[d].is}
    /\ \E again \in BOOLEAN : edge' = (edge \/ (again /\ his' # {}))

IrqEnd ==
    /\ InHandler /\ irq.drv \notin Drive
    /\ ClearEvents
    /\ bus' = None
    /\ irq' = Irq0
    /\ wk' = IF bus = isr THEN wk ELSE [wk EXCEPT ![bus].pc = "ccount"]
    /\ UNCHANGED <<setup, cl, buf, permit, sync_io, queues, port>>

Handler == IrqEnter \/ Look \/ Drain \/ IrqEnd

(***************************************************************************)
(* The HBA: data in the buffer, CI clear, IS set, and an edge if the line  *)
(* was low.  It has read the command by the time CI is set.                *)
(***************************************************************************)
Complete(d) ==
    LET r == port[d].cmd IN
    /\ port[d].ci
    /\ port' = [port EXCEPT ![d] = [ci |-> FALSE, is |-> TRUE, cmd |-> None]]
    /\ buf' = IF r.track THEN buf ELSE [buf EXCEPT ![r.c] = r.io.lba]
    /\ his' = his \cup {d}
    /\ edge' = (edge \/ his = {})
    /\ UNCHANGED <<setup, cl, permit, sync_io, queues, wk, bus, irq>>

Call(c) == \/ \E a \in ReadAddrs, n \in ReadSizes : ReadHit(c, a, n) \/ ReadMiss(c, a, n)
           \/ \E io \in SyncIos : SubmitSync(c, io)

Proceed(c) == Push(c) \/ GoOn(c) \/ Collect(c)

Next ==
    \/ \E c \in Client : Call(c) \/ Proceed(c)
    \/ \E d \in Drive : Worker(d) \/ Complete(d)
    \/ Handler

Spec == Init /\ [][Next]_vars

\* Tasks that can run do, drives finish their commands, interrupts are
\* taken.  AHCI_BUS is a spinlock others take too, so getting it is a matter
\* of strong fairness.
Fairness ==
    /\ \A c \in Client : SF_vars(Proceed(c))
    /\ \A d \in Drive : SF_vars(Worker(d)) /\ WF_vars(Complete(d))
    /\ SF_vars(Handler)

FairSpec == Spec /\ Fairness

-----------------------------------------------------------------------------
(* Properties                                                              *)

\* Where the request of client c is: in the drive's queues or in the
\* worker's hands.
Places(c) ==
    LET Mine(q) == Cardinality({i \in DOMAIN q : q[i].c = c})
        d == setup.drive[c]
    IN  Mine(request_queue[d]) + Mine(submitted_queue[d])
        + Mine(completed_queue[d])
        + (IF wk[d].hand # None /\ wk[d].hand.c = c THEN 1 ELSE 0)

Blocked(c) == IF cl[c].pc = "block" THEN 1 ELSE 0

\* A request is nowhere twice, whoever else uses the drive: no task is woken
\* twice for one request, and no wake-up is left over to end a later call
\* before its time.
RequestOnce == \A c \in Client : Places(c) + permit[c] <= Blocked(c)

\* The AHCIDrive's comments say that a request is in the submitted queue
\* while it has been "sent to the drive but [hasn't] completed yet", then in
\* the completed one until its handler is called: so a task that waits has
\* its request somewhere.  Not so with two tasks on one drive.
NoRequestLost == \A c \in Client : Places(c) + permit[c] = Blocked(c)

\* "The returned virtual memory address (from the internal buffer) is where
\* the data can be found": what read returns lies in the buffer and is the
\* disk's data at the address asked for -- if the buffer's window lies on
\* the disk; one that reaches beyond it is left full of zeros.
ReadsTrue ==
    \A c \in Client :
        LET b == cl[c] IN
        (/\ b.pc = "idle" /\ b.out # None /\ DOMAIN b.out = {"ok", "off"}
         /\ b.first_lba + b.sec_count <= SectorCount) =>
            /\ b.out.off >= 0 /\ b.out.off + b.bytes <= CACHE_SIZE
            /\ buf[c] # None /\ buf[c] * SectorSize + b.out.off = b.addr

\* submit_sync_io returns the completion of its own request, whoever else
\* submits and completes meanwhile, and nothing stays in the map.
OutcomeOf(io) == IF OutOfBound(io) THEN "OutOfBoundIO"
                 ELSE IF io.op = "Write" THEN "InvalidOp"
                 ELSE IF io.sectors > MaxSectors THEN "NotIssued" ELSE "Ok"

AnswerIsOwn ==
    /\ \A c \in Client :
        LET out == cl[c].out IN
        out # None /\ DOMAIN out = {"io", "got"} =>
            \E r \in out.got : /\ out.got = {r} /\ r.c = c /\ r.io = out.io
                               /\ r.res = OutcomeOf(r.io)
    /\ \A r \in answers : cl[r.c].req # None /\ cl[r.c].req.id = r.id

\* Seen from the waiting tasks the driver is a service that answers a request
\* once at most, and every request in the end where no two tasks call on one
\* drive.
OneCaller ==
    \A c, e \in Client :
        c # e /\ setup.drive[c] = setup.drive[e] =>
            setup.calls[c] = 0 \/ setup.calls[e] = 0

Service == INSTANCE IoService WITH
               asked <- {c \in Client : cl[c].pc = "block" /\ permit[c] = 0},
               answered <- {c \in Client : permit[c] > 0}
ImplementsIoService == Service!Spec /\ (OneCaller => Service!Fairness)
=============================================================================
