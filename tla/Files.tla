------------------------------- MODULE Files -------------------------------
(***************************************************************************)
(* Open files: the File objects of kernel/src/fs/mod.rs with their shared  *)
(* counts, the descriptors of a process (mem/virt.rs), the system calls    *)
(* on them (kernel.rs), and the two drivers whose handles have a life of   *)
(* their own: FAT files (fs/fat/mod.rs) and windows (drivers/gui.rs).      *)
(*                                                                         *)
(* Two locks are held while another is waited for and are modelled by      *)
(* their holders: PROCESSES during the drop of a descriptor or of all      *)
(* files of a process, WIN_LIST while a window is created.  The others     *)
(* (OPEN_FILES, MOUNT_POINTS, a file's count) are held for one step.       *)
(***************************************************************************)
EXTENDS Integers, Sequences, FiniteSets

CONSTANTS
    Task, Home,     \* the tasks and their processes
    Main,           \* process -> its main task
    Worker,         \* the worker task that drops dead tasks
    None,
    Blocks,         \* memory for so many windows (PhysMem::alloc_continuous)
    MaxOpens        \* bound: files opened, and window handles given out

Pid == DOMAIN Main

ASSUME FilesAssumption ==
    /\ Home \in [Task -> Pid] /\ Main \in [Pid -> Task]
    /\ \A p \in Pid : Home[Main[p]] = p
    /\ Worker \notin Task /\ None \notin Task \cup {Worker}
    /\ MaxOpens \in Nat /\ IsFiniteSet(Blocks)

VARIABLES
    procs,      \* PROCESSES: process -> its vector of Files
    file,       \* the files that were opened, [dev, hnd, count]
    held,       \* process -> descriptors its programs hold, and of what file
    open_files, \* OPEN_FILES: handles of the FAT driver
    next_fat,   \* NEXT_HANDLE
    wins,       \* WIN_LIST: handle -> block of memory
    next_whnd,  \* NEXT_WHND
    free,       \* blocks of memory nobody has
    dmap,       \* process -> blocks mapped into it
    plock, wlock,   \* holders of PROCESSES and WIN_LIST
    pc,         \* task -> [at, todo]: where it is, the Files it is to drop
    stopped     \* an expect() failed

vars == <<procs, file, held, open_files, next_fat, wins, next_whnd, free,
          dmap, plock, wlock, pc, stopped>>
fat     == <<open_files, next_fat>>
windows == <<wins, next_whnd, free, dmap>>
locks   == <<plock, wlock>>

\* NEXT_WHND's first value; smaller ones are no windows.
HND_WINDOW0 == 16

At(a, where, files) == pc' = [pc EXCEPT ![a] = [at |-> where, todo |-> files]]
Is(a, where) == ~stopped /\ pc[a].at = where

\* Handle 0 of the FAT driver was the INIT program's, closed when the first
\* user task started.
Init == /\ procs = [p \in Pid |-> <<>>]
        /\ file = <<>>
        /\ held = [p \in Pid |-> <<>>]
        /\ open_files = {} /\ next_fat = 1
        /\ wins = <<>> /\ next_whnd = HND_WINDOW0
        /\ free = Blocks
        /\ dmap = [p \in Pid |-> {}]
        /\ plock = None /\ wlock = None
        /\ pc = [a \in Task \cup {Worker} |-> [at |-> "idle", todo |-> <<>>]]
        /\ stopped = FALSE

Panic == /\ stopped' = TRUE
         /\ UNCHANGED <<procs, file, held, fat, windows, locks, pc>>

-----------------------------------------------------------------------------
(* File::open and the descriptor it gets                                   *)

\* How many calls of open there were, the ones under way included.
Opening == {"fat_open", "win_lock", "win_map"}
Opens == Len(file) + Cardinality({t \in Task : pc[t].at \in Opening})

\* File::open makes the File, with handle 0, and calls the driver.  The FAT
\* driver walks the path on disk; a window takes its handle first.
OpenFat(t) == /\ Is(t, "idle") /\ Opens < MaxOpens
              /\ At(t, "fat_open", <<>>)
              /\ UNCHANGED <<procs, file, held, fat, windows, locks, stopped>>

OpenWindow(t) == /\ Is(t, "idle") /\ Opens < MaxOpens
                 /\ next_whnd < HND_WINDOW0 + MaxOpens
                 /\ At(t, "win_lock", <<next_whnd>>)
                 /\ next_whnd' = next_whnd + 1
                 /\ UNCHANGED <<procs, file, held, fat, wins, free, dmap,
                                locks, stopped>>

Opened(t, dev, hnd) ==
    /\ file' = Append(file, [dev |-> dev, hnd |-> hnd, count |-> 1])
    /\ At(t, "opened", <<Len(file) + 1>>)

\* What the FAT driver makes of Close for handle h.
Closed(h) == open_files' = open_files \ {h}

\* fopen's end: a handle and an entry in OPEN_FILES, or an error, and the
\* File is dropped with the handle 0 it was made with.
FatOpened(t) ==
    /\ Is(t, "fat_open")
    /\ \/ /\ Opened(t, "fat", next_fat)
          /\ open_files' = open_files \cup {next_fat}
          /\ next_fat' = next_fat + 1
       \/ /\ At(t, "idle", <<>>)
          /\ Closed(0)
          /\ UNCHANGED <<file, next_fat>>
    /\ UNCHANGED <<procs, held, windows, locks, stopped>>

\* create_window takes WIN_LIST and allocates; with no memory the File is
\* dropped, whose handle 0 is no window.
CreateWindow(t) ==
    /\ Is(t, "win_lock") /\ wlock = None
    /\ IF free = {}
       THEN At(t, "idle", <<>>) /\ UNCHANGED <<free, wlock>>
       ELSE \E b \in free : /\ free' = free \ {b}
                            /\ wlock' = t
                            /\ At(t, "win_map", Append(pc[t].todo, b))
    /\ UNCHANGED <<procs, file, held, fat, wins, next_whnd, dmap, plock,
                   stopped>>

\* ... then dmap takes PROCESSES, and panics if the process is gone.
MapWindow(t) ==
    LET p == Home[t]
        hnd == pc[t].todo[1]
        b == pc[t].todo[2]
    IN
    /\ Is(t, "win_map") /\ plock = None
    /\ IF p \notin DOMAIN procs THEN Panic ELSE
       /\ dmap' = [dmap EXCEPT ![p] = @ \cup {b}]
       /\ wins' = [h \in DOMAIN wins \cup {hnd} |->
                        IF h = hnd THEN b ELSE wins[h]]
       /\ wlock' = None
       /\ Opened(t, "gui", hnd)
       /\ UNCHANGED <<procs, held, fat, next_whnd, free, plock, stopped>>

\* add_file: the new descriptor is the last index of the vector; what the
\* program keeps (rtlib's File.fd) is that number.
AddFile(t) ==
    LET p == Home[t]
        f == pc[t].todo[1]
    IN
    /\ Is(t, "opened") /\ plock = None
    /\ IF p \notin DOMAIN procs THEN Panic ELSE
       LET fd == Len(procs[p]) + 1 IN
       /\ procs' = [procs EXCEPT ![p] = Append(@, f)]
       /\ held' = [held EXCEPT ![p] = [d \in DOMAIN @ \cup {fd} |->
                                           IF d = fd THEN f ELSE @[d]]]
       /\ At(t, "idle", <<>>)
       /\ UNCHANGED <<file, fat, windows, locks, stopped>>

-----------------------------------------------------------------------------
(* Use and close                                                           *)

Has(t, fd) == Home[t] \in DOMAIN procs /\ fd \in DOMAIN procs[Home[t]]

\* Broken variant: the clone is not counted.
GetFileUncounted(t, fd) ==
    /\ Is(t, "idle") /\ plock = None
    /\ Has(t, fd)
    /\ At(t, "using", <<procs[Home[t]][fd]>>)
    /\ UNCHANGED <<procs, file, held, fat, windows, locks, stopped>>

\* read, write, enum and exec: get_file clones the File of the descriptor.
GetFile(t, fd) ==
    /\ Is(t, "idle") /\ plock = None
    /\ Has(t, fd)
    /\ LET f == procs[Home[t]][fd] IN
       /\ file' = [file EXCEPT ![f].count = @ + 1]
       /\ At(t, "using", <<f>>)
    /\ UNCHANGED <<procs, held, fat, windows, locks, stopped>>

\* The driver's part; a window needs WIN_LIST.  Then the clone is dropped.
Use(t) == /\ Is(t, "using")
          /\ file[pc[t].todo[1]].dev = "gui" => wlock = None
          /\ At(t, "dropping", pc[t].todo)
          /\ UNCHANGED <<procs, file, held, fat, windows, locks, stopped>>

\* v.remove(i): what is above it moves down.
Removed(v, i) == SubSeq(v, 1, i - 1) \o SubSeq(v, i + 1, Len(v))

\* remove_file: the File leaves the vector and is dropped under PROCESSES.
Close(t, fd) ==
    LET p == Home[t] IN
    /\ Is(t, "idle") /\ plock = None
    /\ Has(t, fd)
    /\ procs' = [procs EXCEPT ![p] = Removed(@, fd)]
    /\ held' = [held EXCEPT ![p] = [d \in DOMAIN @ \ {fd} |-> @[d]]]
    /\ plock' = t
    /\ At(t, "dropping", <<procs[p][fd]>>)
    /\ UNCHANGED <<file, fat, windows, wlock, stopped>>

\* The drop of one File is over: on to the next, or PROCESSES is released.
Dropped(a) ==
    LET rest == Tail(pc[a].todo) IN
    IF rest # <<>> THEN At(a, "dropping", rest) /\ UNCHANGED plock
    ELSE /\ At(a, "idle", <<>>)
         /\ plock' = IF plock = a THEN None ELSE plock

\* Drop of a File: all but the last only count down; the last one closes.
DropFile(a) ==
    LET f == pc[a].todo[1] IN
    /\ Is(a, "dropping")
    /\ file' = [file EXCEPT ![f].count = @ - 1]
    /\ IF file[f].count > 1 THEN Dropped(a)
       ELSE At(a, "closing", pc[a].todo) /\ UNCHANGED plock
    /\ UNCHANGED <<procs, held, fat, windows, wlock, stopped>>

CloseFat(a) ==
    LET f == file[pc[a].todo[1]] IN
    /\ Is(a, "closing") /\ f.dev = "fat"
    /\ Closed(f.hnd)
    /\ Dropped(a)
    /\ UNCHANGED <<procs, file, held, next_fat, windows, wlock, stopped>>

\* Broken variant: the memory of the first window of the list is freed.
DestroyWindowWrong(a) ==
    /\ Is(a, "closing") /\ file[pc[a].todo[1]].dev = "gui" /\ wlock = None
    /\ free' = free \cup {wins[CHOOSE h \in DOMAIN wins : TRUE]}
    /\ wins' = [w \in DOMAIN wins \ {file[pc[a].todo[1]].hnd} |-> wins[w]]
    /\ At(a, "drawing", pc[a].todo)
    /\ UNCHANGED <<procs, file, held, fat, next_whnd, dmap, locks, stopped>>

\* destroy_window: the window leaves the list, its memory is freed; the
\* mapping in the process stays.  Then the screen is drawn, which takes
\* WIN_LIST again.
DestroyWindow(a) ==
    LET h == file[pc[a].todo[1]].hnd IN
    /\ Is(a, "closing") /\ file[pc[a].todo[1]].dev = "gui" /\ wlock = None
    /\ free' = free \cup {wins[h]}
    /\ wins' = [w \in DOMAIN wins \ {h} |-> wins[w]]
    /\ At(a, "drawing", pc[a].todo)
    /\ UNCHANGED <<procs, file, held, fat, next_whnd, dmap, locks, stopped>>

UpdateScreen(a) ==
    /\ Is(a, "drawing") /\ wlock = None
    /\ Dropped(a)
    /\ UNCHANGED <<procs, file, held, fat, windows, wlock, stopped>>

-----------------------------------------------------------------------------
(* The end of a process                                                    *)

Exit(t) == /\ Is(t, "idle")
           /\ At(t, "dead", <<>>)
           /\ UNCHANGED <<procs, file, held, fat, windows, locks, stopped>>

\* task_dropped of a main task: the process leaves the table and, still
\* under PROCESSES, its page tables and its Files are dropped.  Its other
\* tasks go on.
DropProcess(p) ==
    /\ Is(Worker, "idle") /\ plock = None
    /\ p \in DOMAIN procs /\ pc[Main[p]].at = "dead"
    /\ procs' = [q \in DOMAIN procs \ {p} |-> procs[q]]
    /\ dmap' = [dmap EXCEPT ![p] = {}]
    /\ IF procs[p] = <<>> THEN UNCHANGED <<pc, plock>>
       ELSE At(Worker, "dropping", procs[p]) /\ plock' = Worker
    /\ UNCHANGED <<file, held, fat, wins, next_whnd, free, wlock, stopped>>

Next == \/ \E t \in Task :
            \/ OpenFat(t) \/ OpenWindow(t)
            \/ FatOpened(t)
            \/ CreateWindow(t) \/ MapWindow(t)
            \/ AddFile(t)
            \/ \E fd \in 1 .. MaxOpens : GetFile(t, fd) \/ Close(t, fd)
            \/ Use(t)
            \/ Exit(t)
        \/ \E a \in Task \cup {Worker} :
            \/ DropFile(a) \/ CloseFat(a) \/ DestroyWindow(a)
            \/ UpdateScreen(a)
        \/ \E p \in Pid : DropProcess(p)

Spec == Init /\ [][Next]_vars

-----------------------------------------------------------------------------
(* Properties                                                              *)

Actor == Task \cup {Worker}

\* Where lists, one per process or per actor, hold File f.
Entries(f, lists) ==
    UNION {{x} \X {i \in DOMAIN lists[x] : lists[x][i] = f} : x \in DOMAIN lists}

\* The instances of a File: in vectors, opened and not added yet, clones, and
\* those that wait for their drop.
Waiting(a) == IF pc[a].at \in {"opened", "using", "dropping"} THEN pc[a].todo
              ELSE IF pc[a].at \in {"closing", "drawing"} THEN Tail(pc[a].todo)
              ELSE <<>>
Instances(f) == Cardinality(Entries(f, procs))
                + Cardinality(Entries(f, [a \in Actor |-> Waiting(a)]))

\* Those whose close is under way.
BeingClosed == {pc[a].todo[1] : a \in {b \in Actor : pc[b].at = "closing"}}

\* fs/mod.rs:32 "closed when the last File instance is dropped": the shared
\* count is the number of instances, and the driver has a file open, under a
\* handle of its own, exactly as long as there is one or its close is under
\* way.  So nobody's clone or descriptor is cut off, whatever other tasks
\* close, open in vain or leave behind, and no handle stays open.
HandlesExact ==
    LET live(dev) == {f \in DOMAIN file : /\ file[f].dev = dev
                            /\ (file[f].count > 0 \/ f \in BeingClosed)}
    IN
    /\ \A f \in DOMAIN file : file[f].count = Instances(f)
    /\ open_files = {file[f].hnd : f \in live("fat")}
    /\ DOMAIN wins = {file[f].hnd : f \in live("gui")}
    /\ \A f, g \in DOMAIN file : (f # g /\ file[f].dev = file[g].dev)
                                    => file[f].hnd # file[g].hnd

\* Memory is given to one window at a time and comes back: every block is
\* free, of one window of the list, or of one being made, once; and while a
\* process has a descriptor of a window it has the window's memory mapped.
\* (Who else has it mapped is WindowPrivate's question.)
BlocksAccounted ==
    LET making == {t \in Task : pc[t].at = "win_map"}
        new == {pc[t].todo[2] : t \in making}
        shown == {wins[h] : h \in DOMAIN wins}
    IN
    /\ free \cup new \cup shown = Blocks
    /\ Cardinality(free) + Cardinality(making) + Cardinality(DOMAIN wins)
            = Cardinality(Blocks)
    /\ \A p \in DOMAIN procs : \A i \in DOMAIN procs[p] :
        LET f == file[procs[p][i]] IN
        f.dev = "gui" => wins[f.hnd] \in dmap[p]

\* The memory of a process's window is mapped in no other process.  Not so
\* after destroy_window, which leaves the mapping ("BUG", gui.rs:131) in the
\* process that had the block before.
WindowPrivate ==
    \A p, q \in DOMAIN procs : \A i \in DOMAIN procs[p] :
        LET f == file[procs[p][i]] IN
        p # q /\ f.dev = "gui" => wins[f.hnd] \notin dmap[q]

\* A descriptor that open returned denotes the file it was returned for until
\* the program closes it (fs/mod.rs:358, "its own FD->HND mapping").
DescriptorsKept ==
    \A p \in DOMAIN procs : \A fd \in DOMAIN held[p] :
        fd \in DOMAIN procs[p] /\ procs[p][fd] = held[p][fd]
=============================================================================
