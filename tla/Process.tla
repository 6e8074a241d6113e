------------------------------ MODULE Process ------------------------------
(***************************************************************************)
(* Processes and their address spaces: kernel/src/mem/virt.rs, with the    *)
(* page tables it fills (arch/x86_64/mmu.rs) and the launchers of          *)
(* kernel.rs.  Every operation holds PROCESSES from its first to its last  *)
(* line, so it is one step; what interleaves are the tasks: a process is   *)
(* spawned, launched by a kernel task, joined by further tasks, which die  *)
(* and are dropped by a worker some time later.                            *)
(*                                                                         *)
(* User memory is counted in pages from MIN_VIRTUAL_USER (page 0): image,  *)
(* heap upwards, stacks downwards from page Top - 1.  PML4 and PDPT are    *)
(* one frame here, a page directory and its table another, one for every   *)
(* Region pages.  The frame allocator is the set `free`.                   *)
(***************************************************************************)
EXTENDS Integers, Sequences, FiniteSets

CONSTANTS
    Task, Frames,
    MaxPid,         \* bound: processes spawned
    Top,            \* pages below MAX_USTACK_VIRTUAL
    Region,         \* pages under one page table
    Images,         \* bound: sizes of programs, in pages
    Deltas,         \* bound: what resize_heap is called with, in pages
    InitPages, ExpandPages, MaxPages    \* DEFAULT_USTACK_*: 4, 4, 4096

ASSUME ProcessAssumption ==
    /\ Frames \subseteq Nat /\ IsFiniteSet(Frames)
    /\ Top \in Nat /\ Region \in Nat \ {0}
    /\ Images \subseteq Nat /\ Deltas \subseteq Int
    /\ {InitPages, ExpandPages, MaxPages} \subseteq Nat \ {0}
    /\ InitPages <= MaxPages

VARIABLES
    procs,      \* PROCESSES: pid -> address space
    next_pid,   \* NEXT_PID
    free,       \* the frames PhysMem would grant
    task,       \* per task [st, pid]: "unborn"; in kuser_proc_launcher or
                \* kuser_task_launcher for pid; a "user" task of pid; "dead"
                \* until its Task object is dropped, then "gone"
    stopped     \* "no", or the panic that stopped the kernel: "oom", "mapped"

vars == <<procs, next_pid, free, task, stopped>>

User == "user"

\* AddressSpace::new: top is stack_top + 1, base and heap the heap's range,
\* map the user pages and tables the paging structures, with their frames.
NewSpace(root) == [children |-> <<>>, top |-> Top, base |-> 0, heap |-> 0,
                   map |-> <<>>, tables |-> [r \in {-1} |-> root]]

Init == /\ procs = <<>>
        /\ next_pid = 1
        /\ free = Frames
        /\ task = [t \in Task |-> [st |-> "unborn", pid |-> 0]]
        /\ stopped = "no"

-----------------------------------------------------------------------------
(* Frames and page tables                                                  *)

Lowest(S, n)  == {f \in S : Cardinality({g \in S : g < f}) < n}
Highest(S, n) == {f \in S : Cardinality({g \in S : g > f}) < n}
Kth(S, k)     == CHOOSE f \in S : Cardinality({g \in S : g < f}) = k
Set(f, g)       == [x \in DOMAIN f \cup DOMAIN g |->
                       IF x \in DOMAIN g THEN g[x] ELSE f[x]]
Without(f, S)   == [x \in (DOMAIN f) \ S |-> f[x]]
FramesOf(f)     == {f[x] : x \in DOMAIN f}

\* map_pages: the page tables that are missing are allocated (panic if there
\* is no frame), a page that is mapped already is a panic.  The answer holds
\* the address space and the frames left of `avail`.
Map(p, from, frames, avail) ==
    LET pages == from .. (from + Cardinality(frames) - 1)
        need  == {x \div Region : x \in pages} \ DOMAIN p.tables
        tabs  == Lowest(avail, Cardinality(need))
        rank(x, S) == Cardinality({y \in S : y < x})
    IN  IF Cardinality(tabs) < Cardinality(need)
        THEN [as |-> p, left |-> avail, stop |-> "oom"]
        ELSE IF pages \cap DOMAIN p.map # {}
        THEN [as |-> p, left |-> avail, stop |-> "mapped"]
        ELSE [as |-> [p EXCEPT
                !.map = Set(@, [x \in pages |-> Kth(frames, x - from)]),
                !.tables = Set(@, [r \in need |-> Kth(tabs, rank(r, need))])],
              left |-> avail \ tabs, stop |-> "no"]

\* Broken variant: the frames of all pages of the process.
FreedAll(p, pages) == {p.map[x] : x \in DOMAIN p.map}

\* Broken variant: off by one, the lowest page keeps its frame.
FreedAbove(p, pages) ==
    {p.map[x] : x \in {y \in pages \cap DOMAIN p.map : \E z \in pages : z < y}}

\* unmap_page of pages that are mapped, and PhysMem::free of their frames.
Unmap(p, pages) == [p EXCEPT !.map = Without(@, pages)]
Freed(p, pages) == {p.map[x] : x \in pages \cap DOMAIN p.map}

Put(pid, as) == procs' = Set(procs, [x \in {pid} |-> as])
Becomes(t, st, pid) == task' = [task EXCEPT ![t] = [st |-> st, pid |-> pid]]

Panic(why) == /\ stopped' = why
              /\ UNCHANGED <<procs, next_pid, free, task>>

-----------------------------------------------------------------------------
(* Spawning and launching                                                  *)

\* Who may call: kinit for the first process, user tasks for the others.
Running(t) == stopped = "no" /\ task[t].st = User

\* syscall Spawn: the space is made, then a task to load it.  create_task
\* answers 0 when there is no kernel stack, which nobody looks at.
Spawn ==
    /\ stopped = "no" /\ next_pid <= MaxPid
    /\ next_pid > 1 => \E t \in Task : Running(t)
    /\ IF free = {} THEN Panic("oom") ELSE
       LET root == Lowest(free, 1) IN
       /\ Put(next_pid, NewSpace(Kth(root, 0)))
       /\ free' = free \ root
       /\ next_pid' = next_pid + 1
       /\ \/ \E t \in Task : /\ task[t].st = "unborn"
                             /\ Becomes(t, "proc_launcher", next_pid)
          \/ UNCHANGED task
       /\ UNCHANGED stopped

\* Broken variant: only the stack's first pages are checked.
RefusedLate(p, avail) == \/ p.top - InitPages <= p.base + p.heap
                         \/ Cardinality(avail) < InitPages

\* attach_task of t to space p: refused if its largest stack would meet the
\* heap or no frames are left; else the first pages are mapped under top,
\* and top moves below the largest stack.  It never moves back.
Refused(p, avail) == \/ p.top - MaxPages <= p.base + p.heap
                     \/ Cardinality(avail) < InitPages

Attach(t, p, avail) ==
    LET stack == Highest(avail, InitPages)
        m == Map(p, p.top - InitPages, stack, avail \ stack)
        kid == [tid |-> t, base |-> p.top, pages |-> InitPages]
    IN  [m EXCEPT !.as = [m.as EXCEPT !.top = p.top - MaxPages,
                                      !.children = Append(p.children, kid)]]

\* A launcher that fails returns and so ends its task, with pid 0.
LauncherFails(t) == Becomes(t, "gone", 0)

Enters(t, pid, m) ==
    IF m.stop # "no" THEN Panic(m.stop) ELSE
    /\ Put(pid, m.as)
    /\ free' = m.left
    /\ Becomes(t, User, pid)
    /\ UNCHANGED <<next_pid, stopped>>

\* launch_elf by the task that is to be the main one.  The image is mapped,
\* then read from disk; if that fails its frames are freed, yet stay mapped,
\* and the process stays in the table.
LaunchElf(t, n, loaded) ==
    LET pid == task[t].pid
        img == Highest(free, n)
        m   == Map([procs[pid] EXCEPT !.base = n], 0, img, free \ img)
    IN
    /\ stopped = "no" /\ task[t].st = "proc_launcher"
    /\ IF n < 1 \/ Cardinality(img) < n
       THEN LauncherFails(t) /\ UNCHANGED <<procs, next_pid, free, stopped>>
       ELSE IF m.stop # "no" THEN Panic(m.stop)
       ELSE IF ~loaded \/ Refused(m.as, m.left)
       THEN /\ Put(pid, m.as)
            /\ free' = IF loaded THEN m.left ELSE m.left \cup img
            /\ LauncherFails(t)
            /\ UNCHANGED <<next_pid, stopped>>
       ELSE Enters(t, pid, Attach(t, m.as, m.left))

\* syscall Spawn of a task: a launcher for the caller's process.
SpawnTask(t, new) ==
    /\ Running(t)
    /\ task[new].st = "unborn"
    /\ Becomes(new, "task_launcher", task[t].pid)
    /\ UNCHANGED <<procs, next_pid, free, stopped>>

\* move_to_process: the process may have died since.
MoveToProcess(t) ==
    LET pid == task[t].pid IN
    /\ stopped = "no" /\ task[t].st = "task_launcher"
    /\ IF pid \notin DOMAIN procs \/ Refused(procs[pid], free)
       THEN LauncherFails(t) /\ UNCHANGED <<procs, next_pid, free, stopped>>
       ELSE Enters(t, pid, Attach(t, procs[pid], free))

-----------------------------------------------------------------------------
(* Memory of a running process                                             *)

Mine(t) == task[t].pid \in DOMAIN procs

Changed(t, m) ==
    IF m.stop # "no" THEN Panic(m.stop) ELSE
    /\ Put(task[t].pid, m.as)
    /\ free' = m.left
    /\ UNCHANGED <<next_pid, task, stopped>>

Grow(t, n) ==
    LET p == procs[task[t].pid]
        frames == Highest(free, n)
        m == Map(p, p.base + p.heap, frames, free \ frames)
    IN  /\ p.base + p.heap + n < p.top
        /\ Cardinality(frames) = n
        /\ Changed(t, [m EXCEPT !.as = [m.as EXCEPT !.heap = p.heap + n]])

Shrink(t, n) ==
    LET p == procs[task[t].pid]
        pages == (p.base + p.heap - n) .. (p.base + p.heap - 1)
    IN  /\ n <= p.heap
        /\ Changed(t, [as |-> [Unmap(p, pages) EXCEPT !.heap = p.heap - n],
                       left |-> free \cup Freed(p, pages), stop |-> "no"])

\* resize_heap; a refused call changes nothing.
ResizeHeap(t, d) == /\ Running(t) /\ Mine(t)
                    /\ IF d > 0 THEN Grow(t, d) ELSE Shrink(t, -d)

\* handle_page_fault of a user task at page x, which is not mapped.  Within
\* its own stack's range expand_stack adds a multiple of ExpandPages; a fault
\* that is not handled ends the task.
Child(p, t) == CHOOSE i \in DOMAIN p.children : p.children[i].tid = t

Extra(c, x) ==
    ((c.base - c.pages - x + ExpandPages - 1) \div ExpandPages) * ExpandPages

PageFault(t, x) ==
    LET p == procs[task[t].pid]
        i == Child(p, t)
        c == p.children[i]
        n == Extra(c, x)
        frames == Highest(free, n)
        m == Map(p, c.base - c.pages - n, frames, free \ frames)
    IN
    /\ Running(t) /\ Mine(t)
    /\ x \notin DOMAIN p.map
    /\ IF /\ x \in (c.base - MaxPages) .. (c.base - c.pages - 1)
          /\ c.pages + n <= MaxPages
          /\ p.top - (c.pages + n) > p.base + p.heap
          /\ Cardinality(frames) = n
       THEN Changed(t, [m EXCEPT !.as = [m.as EXCEPT
                            !.children[i] = [c EXCEPT !.pages = c.pages + n]]])
       ELSE /\ Becomes(t, "dead", task[t].pid)
            /\ UNCHANGED <<procs, next_pid, free, stopped>>

-----------------------------------------------------------------------------
(* The end of tasks and processes                                          *)

\* Task::exit: a system call, or the return to the exit handler.
Exit(t) ==
    /\ Running(t)
    /\ Becomes(t, "dead", task[t].pid)
    /\ UNCHANGED <<procs, next_pid, free, stopped>>

\* Drop of an address space (mmu.rs:691-743): user pages above the first
\* address and all paging structures.
Released(p) == Freed(p, DOMAIN p.map \ {0}) \cup FramesOf(p.tables)

\* children.retain(|c| c.tid != tid): a task is a child once.
Removed(v, i) == SubSeq(v, 1, i - 1) \o SubSeq(v, i + 1, Len(v))

\* task_dropped, on the worker: with its main task the process goes;
\* another task's stack is unmapped and freed.
TaskDropped(t) ==
    LET pid == task[t].pid
        p == procs[pid]
        c == p.children[Child(p, t)]
        stack == (c.base - c.pages) .. (c.base - 1)
    IN
    /\ stopped = "no" /\ task[t].st = "dead"
    /\ Becomes(t, "gone", pid)
    /\ IF ~Mine(t) THEN UNCHANGED <<procs, free>>
       ELSE IF p.children[1].tid = t
       THEN /\ procs' = Without(procs, {pid})
            /\ free' = free \cup Released(p)
       ELSE /\ Put(pid, [Unmap(p, stack) EXCEPT
                            !.children = Removed(@, Child(p, t))])
            /\ free' = free \cup Freed(p, stack)
    /\ UNCHANGED <<next_pid, stopped>>

Next == \/ Spawn
        \/ \E t \in Task :
            \/ \E n \in Images, ok \in BOOLEAN : LaunchElf(t, n, ok)
            \/ \E u \in Task : SpawnTask(t, u)
            \/ MoveToProcess(t)
            \/ \E d \in Deltas : ResizeHeap(t, d)
            \/ \E x \in 0 .. (Top - 1) : PageFault(t, x)
            \/ Exit(t)
            \/ TaskDropped(t)

Spec == Init /\ [][Next]_vars

-----------------------------------------------------------------------------
(* Properties                                                              *)

Launched == {i \in DOMAIN procs : procs[i].children # <<>>}
Stack(c) == (c.base - c.pages) .. (c.base - 1)
Kids(p)  == {p.children[i] : i \in DOMAIN p.children}

\* A process in the table and the scheduler agree: its children are its user
\* tasks that are not dropped yet, each once, the main task first.
KidsAreTasks ==
    \A i \in DOMAIN procs :
        /\ {c.tid : c \in Kids(procs[i])} =
                {t \in Task : task[t].pid = i /\ task[t].st \in {User, "dead"}}
        /\ Cardinality(Kids(procs[i])) = Len(procs[i].children)

\* The layout of virt.rs:69-83 holds in every launched process: exactly the
\* image, the heap and the stacks are mapped, the heap ends below the next
\* stack, a stack stays in its range and above those of later tasks, and no
\* page is ever mapped over another.
LayoutSound ==
    /\ KidsAreTasks
    /\ stopped # "mapped"
    /\ \A i \in Launched :
        LET p == procs[i] IN
        /\ DOMAIN p.map = 0 .. (p.base + p.heap - 1)
                          \cup UNION {Stack(c) : c \in Kids(p)}
        /\ p.base + p.heap < p.top
        /\ \A c \in Kids(p) :
            /\ c.pages <= MaxPages /\ p.top + MaxPages <= c.base
            /\ \A e \in Kids(p) \ {c} :
                c.base + MaxPages <= e.base \/ e.base + MaxPages <= c.base

\* The frames a process uses; a process that was never launched has its page
\* tables, its image may have been given back.
Uses(i) == FramesOf(procs[i].tables)
           \cup IF i \in Launched THEN FramesOf(procs[i].map) ELSE {}

\* Memory is a process's own: no frame is mapped twice, used by two
\* processes, both table and page, or free while a process uses it.
OwnMemory ==
    \A i \in DOMAIN procs :
        LET p == procs[i] IN
        /\ Uses(i) \cap free = {}
        /\ \A j \in DOMAIN procs \ {i} : Uses(i) \cap Uses(j) = {}
        /\ Cardinality(FramesOf(p.tables)) = Cardinality(DOMAIN p.tables)
        /\ i \in Launched =>
            /\ Cardinality(FramesOf(p.map)) = Cardinality(DOMAIN p.map)
            /\ FramesOf(p.map) \cap FramesOf(p.tables) = {}

\* The frames that are neither free nor used by a process of the table.
Used == UNION {Uses(i) : i \in DOMAIN procs}
Lost == Frames \ (free \cup Used)

\* While processes live, no frame gets lost or comes from nowhere: growing
\* and shrinking heaps, faults and the stacks they add, new and dropped
\* tasks, spawns and launches that succeed exchange frames with the allocator
\* one for one, whoever else runs meanwhile.
FailedLaunch(i) == procs'[i].children = <<>> /\ procs'[i].map # procs[i].map
FramesConserved ==
    [][(/\ DOMAIN procs \subseteq DOMAIN procs'
        /\ \A i \in DOMAIN procs : ~FailedLaunch(i)) => Lost' = Lost]_vars

\* "self.vmap.drop ... releases the paging structs and any physical frames
\* (program image, stack, etc.) pointed to by those structs": the frames of a
\* process that ends are free.
FramesComeBack ==
    [][\A i \in DOMAIN procs \ DOMAIN procs' : Uses(i) \subseteq free']_vars
=============================================================================
