------------------------------ MODULE Spinlock ------------------------------
(***************************************************************************)
(* The kernel's two mutual-exclusion devices, one machine step at a time:  *)
(* Spinlock (kernel/src/util.rs), which disables interrupts and swaps a    *)
(* flag shared by all CPUs, and the Preemption guard (kernel/src/sched),   *)
(* which only disables interrupts on its own CPU.                          *)
(*                                                                         *)
(* A context is a task, pinned to a CPU, or the interrupt handler of a     *)
(* CPU.  Interrupt gates clear IF, and a context switch or an interrupt    *)
(* saves RFLAGS, so IF is a part of the context: ie[x] is the live flag    *)
(* while x runs and the saved one while it does not.                       *)
(*                                                                         *)
(* The clients are arbitrary code: any nesting of guards dropped in scope  *)
(* order (what Rust generates), system calls, blocking, interrupts.  Locks *)
(* are nested by increasing Rank, the discipline the kernel's code follows *)
(* for TID_CPU_MAP, MSG_QUEUE, LOAD_BALANCER and the WaitChannel lists.    *)
(***************************************************************************)
EXTENDS Naturals, Sequences

CONSTANTS CPU, Task, Irq,       \* an Irq is the handler context of a CPU
          CpuOf,                \* the CPU of every context
          Lock, Rank,           \* the nesting order of the locks
          NoLock,               \* names the Preemption guard in a guard stack
          NoOwner,              \* the owner of a free lock
          Sleepers,             \* tasks that call Task::block with locks held
          MaxOps                \* bound: guards a context takes and system calls it makes

Ctx == Task \cup Irq

ASSUME SpinlockAssumption ==
    /\ Task \cap Irq = {}
    /\ CpuOf \in [Ctx -> CPU]
    /\ \A h, k \in Irq : CpuOf[h] = CpuOf[k] => h = k
    /\ NoLock \notin Lock
    /\ NoOwner \notin Ctx
    /\ Rank \in [Lock -> Nat]
    /\ MaxOps \in [Ctx -> Nat]
    /\ \A c \in CPU : \E t \in Task : CpuOf[t] = c
    /\ Sleepers \subseteq Task

VARIABLES
    is_locked,  \* AtomicBool of every Spinlock
    ie,         \* RFLAGS.IF of every context
    cur,        \* the context each CPU executes
    task,       \* the current task of each CPU, handlers return to it
    mode,       \* "thread", "syscall" (entered through int 0x20) or "irq"
    pc,         \* where the context is in lock(), try_lock() or drop()
    want,       \* the lock being taken and whether by try_lock
    ints,       \* the local `ie` of lock() and try_lock()
    guards,     \* the live guards of a context, innermost last
    ops         \* guards and system calls the context has left

vars == <<is_locked, ie, cur, task, mode, pc, want, ints, guards, ops>>

Guard == [lock : Lock \cup {NoLock}, ints : BOOLEAN]
Want   == [lock : Lock \cup {NoLock}, try : BOOLEAN]
NoWant == [lock |-> NoLock, try |-> FALSE]

Running(x) == cur[CpuOf[x]] = x
Top(x)     == guards[x][Len(guards[x])]
Push(x, g) == guards' = [guards EXCEPT ![x] = Append(@, g)]
Pop(x)     == guards' = [guards EXCEPT ![x] = SubSeq(@, 1, Len(@) - 1)]
Goto(x, l) == pc' = [pc EXCEPT ![x] = l]

\* The i-th guard of x protects its lock: the innermost one no longer does
\* once drop() has stored FALSE and has only the interrupts left to restore.
HoldsAt(x, i) == /\ i \in 1..Len(guards[x])
                 /\ guards[x][i].lock # NoLock
                 /\ ~(pc[x] = "reenable" /\ i = Len(guards[x]))

Holds(x, l)   == \E i \in 1..Len(guards[x]) :
                     HoldsAt(x, i) /\ guards[x][i].lock = l

Spinless(x)   == \A i \in 1..Len(guards[x]) : guards[x][i].lock = NoLock

Init ==
    /\ is_locked = [l \in Lock |-> FALSE]
    /\ ie = [x \in Ctx |-> x \in Task]
    /\ cur \in {f \in [CPU -> Task] : \A c \in CPU : CpuOf[f[c]] = c}
    /\ task = cur
    /\ mode = [x \in Ctx |-> IF x \in Task THEN "thread" ELSE "irq"]
    /\ pc = [x \in Ctx |-> "code"]
    /\ want = [x \in Ctx |-> NoWant]
    /\ ints = [x \in Ctx |-> FALSE]
    /\ guards = [x \in Ctx |-> <<>>]
    /\ ops = MaxOps

(***************************************************************************)
(* Spinlock::lock and Spinlock::try_lock                                   *)
(***************************************************************************)
\* Broken variant: lock() that leaves interrupts on.
ClearIFNot(x) == /\ ints' = [ints EXCEPT ![x] = ie[x]]
                 /\ UNCHANGED ie
                 /\ Goto(x, "swap")

\* `let ie = cpu_ints_enabled(); cpu_disable_ints();` at the top of the loop.
ClearIF(x) == /\ ints' = [ints EXCEPT ![x] = ie[x]]
              /\ ie' = [ie EXCEPT ![x] = FALSE]
              /\ Goto(x, "swap")

\* lock() and try_lock() return: their locals are gone.
Return(x) == /\ want' = [want EXCEPT ![x] = NoWant]
             /\ ints' = [ints EXCEPT ![x] = FALSE]
             /\ Goto(x, "code")

Call(x, l, try) ==
    /\ Running(x)
    /\ pc[x] = "code"
    /\ ops[x] > 0
    /\ \A i \in 1..Len(guards[x]) :
           guards[x][i].lock # NoLock => Rank[guards[x][i].lock] < Rank[l]
    /\ ops' = [ops EXCEPT ![x] = @ - 1]
    /\ want' = [want EXCEPT ![x] = [lock |-> l, try |-> try]]
    /\ ClearIF(x)
    /\ UNCHANGED <<is_locked, cur, task, mode, guards>>

\* Broken variant: the swap's old value is not looked at.
SwapTakesAnyway(x) ==
    /\ Running(x)
    /\ pc[x] = "swap"
    /\ is_locked' = [is_locked EXCEPT ![want[x].lock] = TRUE]
    /\ Push(x, [lock |-> want[x].lock, ints |-> ints[x]])
    /\ Return(x)
    /\ UNCHANGED <<ie, cur, task, mode, ops>>

SwapTakes(x) ==
    /\ Running(x)
    /\ pc[x] = "swap"
    /\ ~is_locked[want[x].lock]
    /\ is_locked' = [is_locked EXCEPT ![want[x].lock] = TRUE]
    /\ Push(x, [lock |-> want[x].lock, ints |-> ints[x]])
    /\ Return(x)
    /\ UNCHANGED <<ie, cur, task, mode, ops>>

\* Broken variant: a failed swap forgets cpu_restore_ints.
SwapFailsMasked(x) ==
    /\ Running(x)
    /\ pc[x] = "swap"
    /\ is_locked[want[x].lock]
    /\ IF want[x].try
       THEN Return(x)
       ELSE Goto(x, "spin") /\ UNCHANGED <<want, ints>>
    /\ UNCHANGED <<is_locked, ie, cur, task, mode, guards, ops>>

\* The lock was taken: cpu_restore_ints, then try_lock() returns None and
\* lock() spins.
SwapFails(x) ==
    /\ Running(x)
    /\ pc[x] = "swap"
    /\ is_locked[want[x].lock]
    /\ ie' = [ie EXCEPT ![x] = ints[x]]
    /\ IF want[x].try
       THEN Return(x)
       ELSE Goto(x, "spin") /\ UNCHANGED <<want, ints>>
    /\ UNCHANGED <<is_locked, cur, task, mode, guards, ops>>

SpinEnds(x) ==
    /\ Running(x)
    /\ pc[x] = "spin"
    /\ ~is_locked[want[x].lock]
    /\ ClearIF(x)
    /\ UNCHANGED <<is_locked, cur, task, mode, want, guards, ops>>

(***************************************************************************)
(* Drop for SpinlockCriticalSection: release first, then restore IF.       *)
(***************************************************************************)
DropStore(x) ==
    /\ Running(x)
    /\ pc[x] = "code"
    /\ guards[x] # <<>>
    /\ Top(x).lock # NoLock
    /\ is_locked' = [is_locked EXCEPT ![Top(x).lock] = FALSE]
    /\ Goto(x, "reenable")
    /\ UNCHANGED <<ie, cur, task, mode, want, ints, guards, ops>>

DropRestore(x) ==
    /\ Running(x)
    /\ pc[x] = "reenable"
    /\ ie' = [ie EXCEPT ![x] = Top(x).ints]
    /\ Pop(x)
    /\ Goto(x, "code")
    /\ UNCHANGED <<is_locked, cur, task, mode, want, ints, ops>>

(***************************************************************************)
(* Preemption::lock and Drop for Preemption                                *)
(***************************************************************************)
PreemptionLock(x) ==
    /\ Running(x)
    /\ pc[x] = "code"
    /\ ops[x] > 0
    /\ ops' = [ops EXCEPT ![x] = @ - 1]
    /\ Push(x, [lock |-> NoLock, ints |-> ie[x]])
    /\ ie' = [ie EXCEPT ![x] = FALSE]
    /\ UNCHANGED <<is_locked, cur, task, mode, pc, want, ints>>

PreemptionDrop(x) ==
    /\ Running(x)
    /\ pc[x] = "code"
    /\ guards[x] # <<>>
    /\ Top(x).lock = NoLock
    /\ ie' = [ie EXCEPT ![x] = @ \/ Top(x).ints]
    /\ Pop(x)
    /\ UNCHANGED <<is_locked, cur, task, mode, pc, want, ints, ops>>

(***************************************************************************)
(* System calls run with IF = 0; iretq goes back to user code with IF = 1. *)
(***************************************************************************)
SyscallEnter(t) ==
    /\ Running(t)
    /\ pc[t] = "code"
    /\ guards[t] = <<>>
    /\ mode[t] = "thread"
    /\ ops[t] > 0
    /\ ops' = [ops EXCEPT ![t] = @ - 1]
    /\ mode' = [mode EXCEPT ![t] = "syscall"]
    /\ ie' = [ie EXCEPT ![t] = FALSE]
    /\ UNCHANGED <<is_locked, cur, task, pc, want, ints, guards>>

SyscallExit(t) ==
    /\ Running(t)
    /\ pc[t] = "code"
    /\ guards[t] = <<>>
    /\ mode[t] = "syscall"
    /\ mode' = [mode EXCEPT ![t] = "thread"]
    /\ ie' = [ie EXCEPT ![t] = TRUE]
    /\ UNCHANGED <<is_locked, cur, task, pc, want, ints, guards, ops>>

(***************************************************************************)
(* Losing and getting the CPU.                                             *)
(***************************************************************************)
\* Broken variant: a CPU runs a task of another CPU's queue.
SwitchToStranger(c, next) == /\ next # task[c]
                             /\ task' = [task EXCEPT ![c] = next]
                             /\ cur' = [cur EXCEPT ![c] = next]

SwitchTo(c, next) == /\ CpuOf[next] = c
                     /\ next # task[c]
                     /\ task' = [task EXCEPT ![c] = next]
                     /\ cur' = [cur EXCEPT ![c] = next]

\* The timer interrupt ends in preempt_irq, which may switch to any task of
\* the CPU; it is taken only while IF is set.
TimerIrq(c, next) ==
    /\ cur[c] \in Task
    /\ ie[cur[c]]
    /\ SwitchTo(c, next)
    /\ UNCHANGED <<is_locked, ie, mode, pc, want, ints, guards, ops>>

\* Task::block: enables interrupts if the caller runs with IF = 0 (a system
\* call, or under a spinlock), then int 0x21, which switches whatever IF is.
\* It does not look at the caller's guards.  Callers have none, but for
\* Sleepers: launch_elf waits for the disk with PROCESSES locked.
Block(t, next) ==
    /\ Running(t)
    /\ pc[t] = "code"
    /\ guards[t] = <<>> \/ t \in Sleepers
    /\ SwitchTo(CpuOf[t], next)
    /\ ie' = [ie EXCEPT ![t] = TRUE]
    /\ UNCHANGED <<is_locked, mode, pc, want, ints, guards, ops>>

\* WaitChannel::wait calls block_task with the Preemption guard held: the
\* switch happens with IF = 0 and the guard is dropped after the wake-up.
BlockUnderGuard(t, next) ==
    /\ Running(t)
    /\ pc[t] = "code"
    /\ guards[t] # <<>>
    /\ Spinless(t)
    /\ SwitchTo(CpuOf[t], next)
    /\ UNCHANGED <<is_locked, ie, mode, pc, want, ints, guards, ops>>

\* A device interrupt: its handler is code of the CPU's Irq context.
IrqEnter(h) ==
    LET c == CpuOf[h] IN
    /\ cur[c] \in Task
    /\ ie[cur[c]]
    /\ ops[h] > 0
    /\ cur' = [cur EXCEPT ![c] = h]
    /\ UNCHANGED <<is_locked, ie, task, mode, pc, want, ints, guards, ops>>

IrqExit(h) ==
    LET c == CpuOf[h] IN
    /\ cur[c] = h
    /\ pc[h] = "code"
    /\ guards[h] = <<>>
    /\ cur' = [cur EXCEPT ![c] = task[c]]
    /\ UNCHANGED <<is_locked, ie, task, mode, pc, want, ints, guards, ops>>

LockStep(x) == SwapTakes(x) \/ SwapFails(x) \/ SpinEnds(x)
DropStep(x) == DropStore(x) \/ DropRestore(x) \/ PreemptionDrop(x)

Next ==
    \/ \E x \in Ctx, l \in Lock, try \in BOOLEAN : Call(x, l, try)
    \/ \E x \in Ctx : LockStep(x) \/ DropStep(x) \/ PreemptionLock(x)
    \/ \E t \in Task : SyscallEnter(t) \/ SyscallExit(t)
    \/ \E t, next \in Task : Block(t, next) \/ BlockUnderGuard(t, next)
    \/ \E c \in CPU, next \in Task : TimerIrq(c, next)
    \/ \E h \in Irq : IrqEnter(h) \/ IrqExit(h)

Spec == Init /\ [][Next]_vars

(***************************************************************************)
(* Fairness.  A context that keeps getting the CPU executes its next       *)
(* instruction and leaves its critical sections and system calls, the      *)
(* round-robin timer gives every task of a CPU its turn, and an interrupt  *)
(* handler, which nothing preempts, returns.                               *)
(***************************************************************************)
Proceed(x) ==
    \/ LockStep(x) \/ DropStep(x)
    \/ x \in Task /\ SyscallExit(x)
    \/ x \in Irq /\ IrqExit(x)

Fairness ==
    /\ \A x \in Ctx : SF_vars(Proceed(x))
    /\ \A t \in Task : SF_vars(TimerIrq(CpuOf[t], t))

FairSpec == Spec /\ Fairness

----------------------------------------------------------------------------
TypeOK ==
    /\ is_locked \in [Lock -> BOOLEAN]
    /\ ie \in [Ctx -> BOOLEAN]
    /\ cur \in [CPU -> Ctx]
    /\ \A c \in CPU : CpuOf[cur[c]] = c
    /\ task \in [CPU -> Task]
    /\ \A c \in CPU : CpuOf[task[c]] = c
    /\ mode \in [Ctx -> {"thread", "syscall", "irq"}]
    /\ \A x \in Ctx : mode[x] = "irq" <=> x \in Irq
    /\ pc \in [Ctx -> {"code", "swap", "spin", "reenable"}]
    /\ want \in [Ctx -> Want]
    /\ ints \in [Ctx -> BOOLEAN]
    /\ guards \in [Ctx -> Seq(Guard)]
    /\ ops \in [Ctx -> Nat]

\* Two guards of one lock never exist at the same time, on any CPUs, in any
\* mix of tasks and interrupt handlers, even while one drop() is half done.
MutualExclusion ==
    \A x, y \in Ctx :
        \A i \in 1..Len(guards[x]), j \in 1..Len(guards[y]) :
            (/\ HoldsAt(x, i) /\ HoldsAt(y, j)
             /\ guards[x][i].lock = guards[y][j].lock) => x = y /\ i = j

\* Whoever holds a spinlock is executing with interrupts off.  So nothing
\* else of its CPU, task or handler, can come to spin on that lock: a single
\* CPU never deadlocks on a lock its own preempted task holds.  (The comments
\* in sched ask for it when a task blocks; with Sleepers it does not hold.)
HolderKeepsCpu ==
    \A x \in Ctx : ~Spinless(x) => Running(x) /\ ~ie[x]

\* Guards give back exactly what they took: thread code outside of every
\* guard runs with interrupts on, whatever was nested and interrupted before,
\* and a handler never turns them on.
InterruptsRestored ==
    \A x \in Ctx :
        /\ (mode[x] = "thread" /\ guards[x] = <<>>
            /\ pc[x] \in {"code", "spin"}) => ie[x]
        /\ mode[x] = "irq" => ~ie[x]

\* A lock that is taken is given back, whatever is interrupted, preempted or
\* spinning meanwhile, as long as nobody sleeps with a lock.
LockReleased == \A l \in Lock : is_locked[l] ~> ~is_locked[l]

\* The owner of each lock, as the abstract specification sees it.
owner == [l \in Lock |-> IF \E x \in Ctx : Holds(x, l)
                           THEN CHOOSE x \in Ctx : Holds(x, l) ELSE NoOwner]

Owner == INSTANCE LockOwner

\* The flag, the interrupt juggling and the retries implement a lock with a
\* single owner.
ImplementsOwner == Owner!Spec
=============================================================================
