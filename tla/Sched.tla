------------------------------- MODULE Sched -------------------------------
(***************************************************************************)
(* The kernel's task scheduler, kernel/src/sched: per-CPU task pools and   *)
(* run queues, round-robin preemption, block/unblock, sleep, join, spawn,  *)
(* exit, migration, wait channels, the per-CPU worker task and the shared  *)
(* queue of inter-processor messages (IPMs).                               *)
(*                                                                         *)
(* A step is what runs between two places where another actor can get in:  *)
(* a timer interrupt (while IF is set) or another CPU (through the shared  *)
(* lists, each access of which is one short critical section).  Code under *)
(* `let _ = Preemption::lock()` is NOT protected: the guard is dropped at  *)
(* once, so those functions are split where the timer can hit.             *)
(*                                                                         *)
(* Tasks are clients that make the kernel's calls in any order, up to Left *)
(* calls each, and then return from their function, which exits them.      *)
(***************************************************************************)
EXTENDS Integers, Sequences, FiniteSets, SequencesExt

CONSTANTS
    CPU,
    MaxTid,         \* bound: task ids handed out
    Worker,         \* the worker task of every CPU
    Home,           \* the tasks that exist when the model starts: their CPU
    Calls,          \* the calls a task may make
    Left,           \* bound: how many of them
    UserTask,       \* tasks whose calls are system calls: IF = 0 on entry
    Keyboard,       \* CPUs whose interrupt handler signals the wait channel
    MaxIrqs,        \* bound: signals from interrupt handlers
    None

Tid == 1..MaxTid

\* The channel's lock is held by a task or, in a handler, by a CPU.
ASSUME SchedAssumption ==
    /\ None \notin CPU /\ CPU \cap Tid = {}
    /\ MaxTid \in Nat
    /\ Worker \in [CPU -> Tid]
    /\ \A c, d \in CPU : Worker[c] = Worker[d] => c = d
    /\ DOMAIN Home \subseteq Tid
    /\ \A c \in CPU : Worker[c] \in DOMAIN Home /\ Home[Worker[c]] = c
    /\ \A t \in DOMAIN Home : Home[t] \in CPU
    /\ \A t, u \in Tid : u \in DOMAIN Home /\ t <= u => t \in DOMAIN Home
    /\ Left \in [Tid -> Nat]
    /\ UserTask \subseteq Tid
    /\ Keyboard \subseteq CPU
    /\ MaxIrqs \in Nat

VARIABLES
    task,       \* the Task structures
    th,         \* the thread of each task: where it is in the kernel
    pool,       \* TASK_POOL of every CPU
    rq,         \* run queue of the RoundRobinScheduler of every CPU
    curr,       \* CURR_TID of every CPU
    tid_cpu,    \* TID_CPU_MAP
    next_tid,   \* NEXT_TASK_ID
    known,      \* history: the tids TID_CPU_MAP ever had, which calls are about
    lb,         \* num_tasks of every CPU in LOAD_BALANCER
    mq,         \* MSG_QUEUE
    wk,         \* locals of every worker: messages taken, joiners, victim
    waiters,    \* a WaitChannel's list
    holder,     \* the task or CPU handler that has the channel's lock
    ioq,        \* tasks whose synchronous request a driver task has to serve
    due,        \* sleeping tasks whose wake-up time has passed
    irqs,       \* handler signals left (bounded by MaxIrqs)
    fault       \* the panic or undefined behaviour that stopped the kernel

vars == <<task, th, pool, rq, curr, tid_cpu, next_tid, known, lb, mq, wk,
          waiters, holder, ioq, due, irqs, fault>>

calls  == <<waiters, holder, ioq>>      \* what only the clients' calls touch
ids    == <<next_tid, known>>
shared == <<tid_cpu, ids, lb>>          \* what the CPUs share, under locks
rest   == <<due, irqs, fault>>

NewTask == [state |-> "New", cpu |-> None, blocked |-> 0, joiners |-> <<>>,
            ret |-> 0]
Thread0 == [pc |-> "run", ie |-> TRUE, back |-> "run", obj |-> 0, arg |-> None,
            left |-> 0]
Client(t) == [Thread0 EXCEPT !.left = Left[t]]

\* IPMs.  MoveTask carries the task; here the moved task stays in `task`
\* and is in nobody's pool while the message is on its way.
Ipm(dest, kind, tid, from, val) ==
    [dest |-> dest, kind |-> kind, tid |-> tid, from |-> from, val |-> val]

Send(m)    == mq' = Append(mq, m)
T(c)       == curr[c]
At(c, l)   == fault = "none" /\ holder # c /\ th[T(c)].pc = l
Goto(c, l) == th' = [th EXCEPT ![T(c)].pc = l]
Fault(f)   == /\ fault' = f
              /\ UNCHANGED <<task, th, pool, rq, curr, shared, mq, wk, calls, due, irqs>>

\* A call returns to the task's own code; iretq turns interrupts on again.
Return(c)  == th' = [th EXCEPT ![T(c)] = [Thread0 EXCEPT !.left = th[T(c)].left]]

Calling(c, call) == At(c, "run") /\ call \in Calls /\ th[T(c)].left > 0

\* A call of the running task starts; a system call gate clears IF.
Gate(c) == T(c) \notin UserTask

Enter(c, l, ie, back, obj) ==
    LET me == th[T(c)] IN
    th' = [th EXCEPT ![T(c)] = [me EXCEPT !.pc = l, !.ie = ie, !.back = back,
                                          !.obj = obj, !.left = me.left - 1]]

Workers == {Worker[c] : c \in CPU}

\* Broken variant: an existing entry stays.
MapOnce(t, c) == tid_cpu' = [tid_cpu EXCEPT ![t] = IF @ = None THEN c ELSE @]

MapTo(t, c) == tid_cpu' = [tid_cpu EXCEPT ![t] = c]

LeavePool(t, c) == pool' = [pool EXCEPT ![c] = @ \ {t}]

\* LoadBalancer::add_task and rem_task.
\* Broken variant: the task is still counted.
UncountNot(c) == UNCHANGED lb

Count(c)   == lb' = [lb EXCEPT ![c] = @ + 1]
Uncount(c) == lb' = [lb EXCEPT ![c] = @ - 1]

\* The numbers of a set in their order, and what a sequence has at a set of
\* indices, in its order.
Nth(I, k)  == CHOOSE i \in I : Cardinality({j \in I : j < i}) = k - 1
Sorted(I)  == [k \in 1..Cardinality(I) |-> Nth(I, k)]
Kept(s, I) == [k \in 1..Cardinality(I) |-> s[Nth(I, k)]]

Init ==
    /\ pool = [c \in CPU |-> {t \in DOMAIN Home : Home[t] = c}]
    /\ curr = Worker
    /\ rq = [c \in CPU |-> Sorted(pool[c])]
    /\ task = [t \in Tid |-> IF t \notin DOMAIN Home THEN NewTask
                             ELSE [NewTask EXCEPT
                                     !.cpu = Home[t],
                                     !.state = IF t \in Workers THEN "Running"
                                                                ELSE "Ready"]]
    /\ th = [t \in Tid |-> IF t \in Workers THEN [Thread0 EXCEPT !.pc = "scan"]
                                            ELSE Client(t)]
    /\ tid_cpu = [t \in Tid |-> IF t \in DOMAIN Home THEN Home[t] ELSE None]
    /\ next_tid = Cardinality(DOMAIN Home) + 1
    /\ known = DOMAIN Home
    /\ lb = [c \in CPU |-> Cardinality(pool[c])]
    /\ mq = <<>>
    /\ wk = [c \in CPU |-> [inbox |-> <<>>, todo |-> <<>>, victim |-> 0]]
    /\ waiters = <<>> /\ holder = None /\ ioq = <<>>
    /\ due = {} /\ irqs = MaxIrqs /\ fault = "none"

(***************************************************************************)
(* preempt_irq: rotate the queue to the first task that is not asleep and  *)
(* switch to it.  tk and q are the tasks and the queue as its caller just  *)
(* left them.  A queue of sleepers only keeps the interrupt spinning.      *)
(***************************************************************************)
\* Broken variants: a sleeper is skipped whatever the time; hlt goes on after
\* the interrupt.
EligibleAwake(tk, t) == tk[t].state # "Sleeping"
StaysHalted(l)       == l

Eligible(tk, t)     == tk[t].state # "Sleeping" \/ t \in due
Outgoing(state)     == IF state = "Running" THEN "Ready" ELSE state
AfterInterrupt(l)   == IF l = "halt" THEN "scan" ELSE l

PreemptIrq(c, tk, q) ==
    LET stop == {i \in 1..Len(q) : q[i] \notin pool[c] \/ Eligible(tk, q[i])}
        i    == Min(stop)
        next == q[i]
        old  == curr[c]
        woken == [tk EXCEPT ![next].state = IF @ = "Sleeping" THEN "Ready" ELSE @]
    IN
    IF q = <<>>
    THEN /\ fault' = "The run queue should never get empty!"
         /\ UNCHANGED <<task, rq, curr, due>>
    ELSE /\ stop # {}
         /\ IF next \notin pool[c] \/ old \notin pool[c]
            THEN /\ fault' = "Task not found"
                 /\ UNCHANGED <<task, rq, curr, due>>
            ELSE /\ rq' = [rq EXCEPT ![c] = SubSeq(q, i + 1, Len(q))
                                            \o SubSeq(q, 1, i)]
                 /\ curr' = [curr EXCEPT ![c] = next]
                 /\ task' = IF next = old THEN woken
                            ELSE [woken EXCEPT
                                    ![old].state = Outgoing(@),
                                    ![next].state = "Running"]
                 /\ due' = due \ {next}
                 /\ UNCHANGED fault

\* The timer interrupt.  It also ends the worker's hlt.
Timer(c) ==
    /\ fault = "none"
    /\ holder # c
    /\ th[T(c)].ie
    /\ PreemptIrq(c, task, rq[c])
    /\ th' = [th EXCEPT ![T(c)].pc = AfterInterrupt(@)]
    /\ UNCHANGED <<pool, shared, mq, wk, calls, irqs>>

\* Time passes: the wake-up time of a sleeping task is reached.
TimePasses(t) ==
    /\ fault = "none"
    /\ task[t].state = "Sleeping"
    /\ t \notin due
    /\ due' = due \cup {t}
    /\ UNCHANGED <<task, th, pool, rq, curr, shared, mq, wk, calls, irqs, fault>>

(***************************************************************************)
(* block_task of the current task.  Its Preemption guard is dropped at     *)
(* once, so the timer can hit between the steps unless the caller runs     *)
(* with IF = 0.  `back` is where the caller goes on once woken.            *)
(***************************************************************************)
\* Broken variant: the task stays in the run queue.
NotRemoved(q, t) == q

EarlyUnblock(n) == n # 0
RemTask(q, t)   == Kept(q, {i \in DOMAIN q : q[i] # t})

BlockAdd(c) ==
    LET t == T(c) IN
    /\ At(c, "blk_add")
    /\ task' = [task EXCEPT ![t].blocked = @ + 1]
    /\ th' = [th EXCEPT ![t].pc = IF EarlyUnblock(task[t].blocked) THEN th[t].back
                                                         ELSE "blk_state"]
    /\ UNCHANGED <<pool, rq, curr, shared, mq, wk, calls, rest>>

BlockState(c) ==
    /\ At(c, "blk_state")
    /\ task' = [task EXCEPT ![T(c)].state = IF @ = "Migrating" THEN @
                                                               ELSE "Blocked"]
    /\ Goto(c, "blk_rem")
    /\ UNCHANGED <<pool, rq, curr, shared, mq, wk, calls, rest>>

BlockRem(c) ==
    /\ At(c, "blk_rem")
    /\ rq' = [rq EXCEPT ![c] = RemTask(@, T(c))]
    /\ Goto(c, "blk_int")
    /\ UNCHANGED <<task, pool, curr, shared, mq, wk, calls, rest>>

BlockInt(c) ==
    LET t == T(c) IN
    /\ At(c, "blk_int") \/ At(c, "slp_int")
    /\ PreemptIrq(c, task, rq[c])
    /\ th' = [th EXCEPT ![t].pc = th[t].back]
    /\ UNCHANGED <<pool, shared, mq, wk, calls, irqs>>

\* Task::block turns interrupts on before it calls block_task.
Block(c, back) == th' = [th EXCEPT ![T(c)].pc = "blk_add", ![T(c)].ie = TRUE,
                                   ![T(c)].back = back]

(***************************************************************************)
(* unblock_task(obj), called with interrupts on.                           *)
(***************************************************************************)
Unblock(c, t, back) == th' = [th EXCEPT ![T(c)].pc = "ub_map",
                                        ![T(c)].obj = t, ![T(c)].back = back]

UnblockMap(c) ==
    LET me == th[T(c)] IN
    /\ At(c, "ub_map")
    /\ th' = [th EXCEPT ![T(c)].pc = IF tid_cpu[me.obj] = None THEN me.back
                                                               ELSE "ub_cpu",
                        ![T(c)].arg = tid_cpu[me.obj]]
    /\ UNCHANGED <<task, pool, rq, curr, shared, mq, wk, calls, rest>>

UnblockRemote(c) ==
    LET me == th[T(c)] IN
    /\ At(c, "ub_cpu")
    /\ me.arg # c
    /\ Send(Ipm(me.arg, "Unblock", me.obj, c, 0))
    /\ Goto(c, me.back)
    /\ UNCHANGED <<task, pool, rq, curr, shared, wk, calls, rest>>

UnblockCount(c) ==
    LET me == th[T(c)]
        tk == task[me.obj]
    IN
    /\ At(c, "ub_cpu")
    /\ me.arg = c
    /\ IF me.obj \notin pool[c]
       THEN Fault("Task not found")
       ELSE /\ task' = [task EXCEPT ![me.obj] =
                          IF tk.state = "Sleeping"
                          THEN [tk EXCEPT !.state = "Ready"]
                          ELSE [tk EXCEPT !.blocked = @ - 1]]
            /\ due' = IF tk.state = "Sleeping" THEN due \ {me.obj} ELSE due
            /\ Goto(c, IF tk.state # "Sleeping" /\ tk.blocked = 1
                       THEN "ub_ready" ELSE me.back)
            /\ UNCHANGED <<pool, rq, curr, shared, mq, wk, calls, irqs, fault>>

UnblockReady(c) ==
    /\ At(c, "ub_ready")
    /\ task' = [task EXCEPT ![th[T(c)].obj].state = "Ready"]
    /\ Goto(c, "ub_add")
    /\ UNCHANGED <<pool, rq, curr, shared, mq, wk, calls, rest>>

UnblockAdd(c) ==
    /\ At(c, "ub_add")
    /\ rq' = [rq EXCEPT ![c] = Append(@, th[T(c)].obj)]
    /\ Goto(c, th[T(c)].back)
    /\ UNCHANGED <<task, pool, curr, shared, mq, wk, calls, rest>>

UnblockIpm(c, t) == Ipm(tid_cpu[t], "Unblock", t, c, 0)
Elsewhere(c, t)  == tid_cpu[t] # c

\* unblock_task(t) on CPU c with IF = 0: one step, for nothing of c can get
\* in.  The caller frames what is left.
UnblockAtOnce(c, t) ==
    IF tid_cpu[t] = None
    THEN UNCHANGED <<task, rq, mq, due, fault>>
    ELSE IF Elsewhere(c, t)
    THEN Send(UnblockIpm(c, t)) /\ UNCHANGED <<task, rq, due, fault>>
    ELSE IF t \notin pool[c]
    THEN fault' = "Task not found" /\ UNCHANGED <<task, rq, mq, due>>
    ELSE IF task[t].state = "Sleeping"
    THEN /\ task' = [task EXCEPT ![t].state = "Ready"]
         /\ due' = due \ {t}
         /\ UNCHANGED <<rq, mq, fault>>
    ELSE /\ task' = [task EXCEPT ![t].blocked = @ - 1,
                                 ![t].state = IF task[t].blocked = 1
                                              THEN "Ready" ELSE @]
         /\ rq' = IF task[t].blocked = 1 THEN [rq EXCEPT ![c] = Append(@, t)]
                                         ELSE rq
         /\ UNCHANGED <<mq, due, fault>>

(***************************************************************************)
(* WaitChannel.  wait runs with IF = 0 from the push to the switch; signal *)
(* and signal_all hold the channel's lock, thus IF = 0, while they pop.    *)
(***************************************************************************)
\* Broken variants: the Preemption guard is dropped at once (`let _ =`); the
\* last waiter is let go first.
GuardDropped(c) == Gate(c)
PopLast(t)      == t = Last(waiters) /\ waiters' = Front(waiters)

Guarded(c)   == FALSE
PopWaiter(t) == t = Head(waiters) /\ waiters' = Tail(waiters)

Wait(c) ==
    /\ Calling(c, "wait")
    /\ holder = None
    /\ waiters' = Append(waiters, T(c))
    /\ Enter(c, "blk_add", Guarded(c), "wait_ret", 0)
    /\ UNCHANGED <<task, pool, rq, curr, shared, mq, wk, holder, ioq, rest>>

Signal(c, n) ==
    /\ Calling(c, "signal")
    /\ holder = None
    /\ holder' = T(c)
    /\ Enter(c, "sig", FALSE, "run", n)
    /\ UNCHANGED <<task, pool, rq, curr, shared, mq, wk, waiters, ioq, rest>>

SignalPop(c) ==
    /\ At(c, "sig")
    /\ th[T(c)].obj > 0 /\ waiters # <<>>
    /\ \E t \in Range(waiters) : PopWaiter(t) /\ UnblockAtOnce(c, t)
    /\ th' = [th EXCEPT ![T(c)].obj = @ - 1]
    /\ UNCHANGED <<pool, curr, shared, wk, holder, ioq, irqs>>

SignalEnd(c) ==
    /\ At(c, "sig")
    /\ th[T(c)].obj = 0 \/ waiters = <<>>
    /\ holder' = None
    /\ Return(c)
    /\ UNCHANGED <<task, pool, rq, curr, shared, mq, wk, waiters, ioq, rest>>

\* A device interrupt whose handler calls signal_all (the keyboard's).
IrqEnter(c) ==
    /\ fault = "none"
    /\ c \in Keyboard /\ irqs > 0
    /\ th[T(c)].ie /\ holder = None
    /\ holder' = c
    /\ irqs' = irqs - 1
    /\ th' = [th EXCEPT ![T(c)].pc = AfterInterrupt(@)]
    /\ UNCHANGED <<task, pool, rq, curr, shared, mq, wk, waiters, ioq, due, fault>>

IrqSignalPop(c) ==
    /\ fault = "none" /\ holder = c
    /\ waiters # <<>>
    /\ \E t \in Range(waiters) : PopWaiter(t) /\ UnblockAtOnce(c, t)
    /\ UNCHANGED <<th, pool, curr, shared, wk, holder, ioq, irqs>>

IrqExit(c) ==
    /\ fault = "none" /\ holder = c
    /\ waiters = <<>>
    /\ holder' = None
    /\ UNCHANGED <<task, th, pool, rq, curr, shared, mq, wk, waiters, ioq, rest>>

\* The calls that have nothing left to do return to the task.
CallReturns(c) ==
    /\ \E l \in {"ret", "wait_ret", "joined"} : At(c, l)
    /\ Return(c)
    /\ UNCHANGED <<task, pool, rq, curr, shared, mq, wk, calls, rest>>

(***************************************************************************)
(* sleep: the state first, the switch after; the task stays in the queue.  *)
(***************************************************************************)
FallAsleep(c) == /\ task' = [task EXCEPT ![T(c)].state = "Sleeping"]
                 /\ due' = due \ {T(c)}

Sleep(c) ==
    /\ Calling(c, "sleep")
    /\ FallAsleep(c)
    /\ Enter(c, "slp_int", Gate(c), "ret", 0)
    /\ UNCHANGED <<pool, rq, curr, shared, mq, wk, calls, irqs, fault>>

\* terminate_task.  Its guard is a real one: IF = 0 up to the last switch.
Exit(c) ==
    LET t == T(c) IN
    /\ At(c, "run") /\ "exit" \in Calls
    /\ Uncount(c)
    /\ PreemptIrq(c, [task EXCEPT ![t].state = "Terminating"], RemTask(rq[c], t))
    /\ th' = [th EXCEPT ![t] = [Thread0 EXCEPT !.pc = "dead"]]
    /\ UNCHANGED <<pool, tid_cpu, ids, mq, wk, calls, irqs>>

(***************************************************************************)
(* A synchronous request to a driver: submit_sync_io queues it and blocks, *)
(* the driver's task takes it, completes it and wakes the waiter.          *)
(***************************************************************************)
Io(c) ==
    /\ Calling(c, "io")
    /\ ioq' = Append(ioq, T(c))
    /\ Enter(c, "blk_add", TRUE, "ret", 0)
    /\ UNCHANGED <<task, pool, rq, curr, shared, mq, wk, waiters, holder, rest>>

Serve(c) ==
    /\ Calling(c, "serve")
    /\ ioq # <<>>
    /\ ioq' = Tail(ioq)
    /\ Enter(c, "ub_map", Gate(c), "ret", Head(ioq))
    /\ UNCHANGED <<task, pool, rq, curr, shared, mq, wk, waiters, holder, rest>>

(***************************************************************************)
(* join.  A target on this CPU takes the joiner in its list at once; for   *)
(* one on another CPU the joiner asks by IPM and waits for the answer: the *)
(* target's tid, or 0 when it is not there (any more), then it polls.      *)
(***************************************************************************)
Join(c, t) ==
    LET me == th[T(c)] IN
    /\ Calling(c, "join")
    /\ t \in known \ (Workers \cup {T(c)})
    /\ th' = [th EXCEPT ![T(c)] =
                 [me EXCEPT !.pc = IF tid_cpu[t] = None THEN "joined"
                                   ELSE IF tid_cpu[t] = c THEN "join_pool"
                                   ELSE "join_ask",
                            !.ie = Gate(c), !.back = "joined", !.obj = t,
                            !.arg = tid_cpu[t], !.left = me.left - 1]]
    /\ UNCHANGED <<task, pool, rq, curr, shared, mq, wk, calls, rest>>

JoinLocal(c) ==
    LET t == th[T(c)].obj IN
    /\ At(c, "join_pool")
    /\ IF t \in pool[c]
       THEN /\ task' = [task EXCEPT ![t].joiners = Append(@, T(c))]
            /\ Goto(c, "blk_add")
       ELSE /\ Goto(c, "join_ask")
            /\ UNCHANGED task
    /\ UNCHANGED <<pool, rq, curr, shared, mq, wk, calls, rest>>

JoinAsk(c) ==
    LET me == th[T(c)] IN
    /\ At(c, "join_ask")
    /\ Send(Ipm(me.arg, "AddJoiner", me.obj, c, T(c)))
    /\ Block(c, "join_ans")
    /\ UNCHANGED <<task, pool, rq, curr, shared, wk, calls, rest>>

\* Broken variant: the answer is not stored.
SetMsgRetNot(t, val) == UNCHANGED task

SetMsgRet(t, val) == task' = [task EXCEPT ![t].ret = val]

\* Broken variant: a target that is not there is taken for one that exited.
OtherAnswerExited == "joined"

OtherAnswer == "join_poll"

JoinAnswer(c) ==
    /\ At(c, "join_ans")
    /\ SetMsgRet(T(c), 0)
    /\ IF task[T(c)].ret = th[T(c)].obj THEN Block(c, "joined")
                                        ELSE Goto(c, OtherAnswer)
    /\ UNCHANGED <<pool, rq, curr, shared, mq, wk, calls, rest>>

JoinPoll(c) ==
    /\ At(c, "join_poll")
    /\ IF tid_cpu[th[T(c)].obj] = None
       THEN Goto(c, "joined") /\ UNCHANGED <<task, due>>
       ELSE /\ FallAsleep(c)
            /\ th' = [th EXCEPT ![T(c)].pc = "slp_int",
                                ![T(c)].back = "join_poll"]
    /\ UNCHANGED <<pool, rq, curr, shared, mq, wk, calls, irqs, fault>>

(***************************************************************************)
(* create_task on CPU c, by the thread of a local spawn or by the worker   *)
(* for a CreateTask message.  Its guard is dropped at once too: the task   *)
(* is in the pool before TID_CPU_MAP has it, and in the run queue, so that *)
(* it may run, before its state becomes Ready.  That store goes through a  *)
(* pointer into the pool taken before: undefined once the worker has       *)
(* removed the task.  The CPU is read once, at the start, into `arg`.      *)
(***************************************************************************)
CreateTid(c) ==
    /\ At(c, "cr_new")
    /\ next_tid <= MaxTid
    /\ next_tid' = next_tid + 1
    /\ th' = [th EXCEPT ![T(c)].pc = "cr_pool", ![T(c)].obj = next_tid,
                        ![T(c)].arg = c]
    /\ UNCHANGED <<task, pool, rq, curr, tid_cpu, known, lb, mq, wk, calls, rest>>

CreateInsert(c) ==
    LET t == th[T(c)].obj
        d == th[T(c)].arg
    IN
    /\ At(c, "cr_pool")
    /\ pool' = [pool EXCEPT ![d] = @ \cup {t}]
    /\ task' = [task EXCEPT ![t] = [NewTask EXCEPT !.cpu = d]]
    /\ Goto(c, "cr_map")
    /\ UNCHANGED <<rq, curr, shared, mq, wk, calls, rest>>

CreateMap(c) ==
    LET t == th[T(c)].obj IN
    /\ At(c, "cr_map")
    /\ MapTo(t, th[T(c)].arg)
    /\ known' = known \cup {t}
    /\ th' = [th EXCEPT ![t] = Client(t), ![T(c)].pc = "cr_add"]
    /\ UNCHANGED <<task, pool, rq, curr, next_tid, lb, mq, wk, calls, rest>>

CreateAdd(c) ==
    /\ At(c, "cr_add")
    /\ rq' = [rq EXCEPT ![th[T(c)].arg] = Append(@, th[T(c)].obj)]
    /\ Goto(c, "cr_ready")
    /\ UNCHANGED <<task, pool, curr, shared, mq, wk, calls, rest>>

CreateReady(c) ==
    LET t == th[T(c)].obj IN
    /\ At(c, "cr_ready")
    /\ IF t \notin pool[th[T(c)].arg]
       THEN Fault("store through a dangling pointer")
       ELSE /\ task' = [task EXCEPT ![t].state = "Ready"]
            /\ Goto(c, "cr_lb")
            /\ UNCHANGED <<pool, rq, curr, shared, mq, wk, calls, rest>>

CreateCount(c) ==
    /\ At(c, "cr_lb")
    /\ Count(c)
    /\ Goto(c, th[T(c)].back)
    /\ UNCHANGED <<task, pool, rq, curr, tid_cpu, ids, mq, wk, calls, rest>>

\* select_cpu: a CPU with the least tasks.
LeastLoaded == {d \in CPU : \A e \in CPU : lb[d] <= lb[e]}

\* spawn_on_cpu(d); spawn lets the load balancer choose d.  A caller that asks
\* another CPU keeps in `obj` the first tid that can be its task's.
Spawn(c, d) ==
    /\ Calling(c, "spawn_on_cpu") \/ (Calling(c, "spawn") /\ d \in LeastLoaded)
    /\ next_tid <= MaxTid
    /\ IF d = c
       THEN Enter(c, "cr_new", Gate(c), "ret", 0) /\ UNCHANGED mq
       ELSE /\ Send(Ipm(d, "CreateTask", T(c), c, 0))
            /\ Enter(c, "blk_add", TRUE, "spawn_ret", next_tid)
    /\ UNCHANGED <<task, pool, rq, curr, shared, wk, calls, rest>>

\* get_msg_ret: the tid that the other CPU's worker answered.
SpawnAnswer(c) ==
    /\ At(c, "spawn_ret")
    /\ SetMsgRet(T(c), 0)
    /\ Goto(c, "ret")
    /\ UNCHANGED <<pool, rq, curr, shared, mq, wk, calls, rest>>

\* migrate_to_cpu(d); the worker does the rest.
Migrate(c, d) ==
    /\ Calling(c, "migrate")
    /\ d # c
    /\ task' = [task EXCEPT ![T(c)].cpu = d, ![T(c)].state = "Migrating"]
    /\ Enter(c, "blk_add", Gate(c), "ret", 0)
    /\ UNCHANGED <<pool, rq, curr, shared, mq, wk, calls, rest>>

(***************************************************************************)
(* The worker task of CPU c, percpu_sched_worker: at most one dead or      *)
(* migrating task of its pool, then all the messages for its CPU, then hlt *)
(* until the next interrupt.                                               *)
(***************************************************************************)
Scan(c) ==
    LET dead   == {t \in pool[c] : task[t].state = "Terminating"}
        moving == {t \in pool[c] : task[t].state = "Migrating"}
    IN
    /\ At(c, "scan")
    /\ wk' = [wk EXCEPT ![c].victim = IF dead # {} THEN Min(dead)
                                      ELSE IF moving # {} THEN Max(moving)
                                      ELSE 0]
    /\ Goto(c, IF dead # {} THEN "remove"
               ELSE IF moving # {} THEN "move_out" ELSE "fetch")
    /\ UNCHANGED <<task, pool, rq, curr, shared, mq, calls, rest>>

\* Removing the task drops it; Drop wakes the joiners of a Terminating one.
RemoveDead(c) ==
    LET t == wk[c].victim IN
    /\ At(c, "remove")
    /\ LeavePool(t, c)
    /\ wk' = [wk EXCEPT ![c].todo = IF task[t].state = "Terminating"
                                    THEN task[t].joiners ELSE <<>>]
    /\ task' = [task EXCEPT ![t].joiners = <<>>]
    /\ Goto(c, "drop")
    /\ UNCHANGED <<rq, curr, shared, mq, calls, rest>>

DropJoiner(c) ==
    /\ At(c, "drop")
    /\ wk[c].todo # <<>>
    /\ wk' = [wk EXCEPT ![c].todo = Tail(@)]
    /\ Unblock(c, Head(wk[c].todo), "drop")
    /\ UNCHANGED <<task, pool, rq, curr, shared, mq, calls, rest>>

DropEnd(c) ==
    LET t == wk[c].victim IN
    /\ At(c, "drop")
    /\ wk[c].todo = <<>>
    /\ tid_cpu' = [tid_cpu EXCEPT ![t] = None]
    /\ task' = [task EXCEPT ![t].state = IF @ = "Terminating" THEN "Dropped"
                                                              ELSE @]
    /\ wk' = [wk EXCEPT ![c].victim = 0]
    /\ th' = [th EXCEPT ![T(c)] = [Thread0 EXCEPT !.pc = "fetch"]]
    /\ UNCHANGED <<pool, rq, curr, ids, lb, mq, calls, rest>>

\* The worker takes the task out of the pool, then uncounts it, then sends it.
MoveOut(c) ==
    /\ At(c, "move_out")
    /\ LeavePool(wk[c].victim, c)
    /\ Goto(c, "mv_lb")
    /\ UNCHANGED <<task, rq, curr, shared, mq, wk, calls, rest>>

MoveUncount(c) ==
    /\ At(c, "mv_lb")
    /\ Uncount(c)
    /\ Goto(c, "mv_send")
    /\ UNCHANGED <<task, pool, rq, curr, tid_cpu, ids, mq, wk, calls, rest>>

MoveSend(c) ==
    LET t == wk[c].victim IN
    /\ At(c, "mv_send")
    /\ task' = [task EXCEPT ![t].state = "Blocked"]
    /\ Send(Ipm(task[t].cpu, "MoveTask", t, c, 0))
    /\ wk' = [wk EXCEPT ![c].victim = 0]
    /\ Goto(c, "fetch")
    /\ UNCHANGED <<pool, rq, curr, shared, calls, rest>>

Addressed(c) == {i \in DOMAIN mq : mq[i].dest = c}

Fetch(c) ==
    /\ At(c, "fetch")
    /\ wk' = [wk EXCEPT ![c].inbox = Kept(mq, Addressed(c))]
    /\ mq' = Kept(mq, DOMAIN mq \ Addressed(c))
    /\ Goto(c, "ipm")
    /\ UNCHANGED <<task, pool, rq, curr, shared, calls, rest>>

\* process_ipm, one action per kind of message.
Next_ipm(c, kind) ==
    At(c, "ipm") /\ wk[c].inbox # <<>> /\ Head(wk[c].inbox).kind = kind
Pop(c) == wk' = [wk EXCEPT ![c].inbox = Tail(@)]

DoMoveTask(c) ==
    LET t == Head(wk[c].inbox).tid IN
    /\ Next_ipm(c, "MoveTask")
    /\ pool' = [pool EXCEPT ![c] = @ \cup {t}]
    /\ Pop(c)
    /\ th' = [th EXCEPT ![T(c)].pc = "mv_map", ![T(c)].obj = t, ![T(c)].arg = c]
    /\ UNCHANGED <<task, rq, curr, shared, mq, calls, rest>>

\* One step: TID_CPU_MAP stays locked until the load balancer has the task.
MoveMap(c) ==
    LET t == th[T(c)].obj IN
    /\ At(c, "mv_map")
    /\ MapTo(t, th[T(c)].arg)
    /\ Count(c)
    /\ Unblock(c, t, "ipm")
    /\ UNCHANGED <<task, pool, rq, curr, ids, mq, wk, calls, rest>>

DoUnblock(c) ==
    /\ Next_ipm(c, "Unblock")
    /\ Unblock(c, Head(wk[c].inbox).tid, "ipm")
    /\ Pop(c)
    /\ UNCHANGED <<task, pool, rq, curr, shared, mq, calls, rest>>

\* The message stays at the head until its task exists and is answered.
DoCreateTask(c) ==
    /\ Next_ipm(c, "CreateTask")
    /\ th' = [th EXCEPT ![T(c)].pc = "cr_new", ![T(c)].back = "answer"]
    /\ UNCHANGED <<task, pool, rq, curr, shared, mq, wk, calls, rest>>

AnswerCreate(c) ==
    LET m == Head(wk[c].inbox) IN
    /\ At(c, "answer")
    /\ Send(Ipm(m.from, "RespondAndUnblock", m.tid, c, th[T(c)].obj))
    /\ Pop(c)
    /\ th' = [th EXCEPT ![T(c)] = [Thread0 EXCEPT !.pc = "ipm"]]
    /\ UNCHANGED <<task, pool, rq, curr, shared, calls, rest>>

DoRespond(c) ==
    LET m == Head(wk[c].inbox) IN
    /\ Next_ipm(c, "RespondAndUnblock")
    /\ IF m.tid \notin pool[c]
       THEN Fault("Task not found!")
       ELSE /\ SetMsgRet(m.tid, m.val)
            /\ Unblock(c, m.tid, "ipm")
            /\ Pop(c)
            /\ UNCHANGED <<pool, rq, curr, shared, mq, calls, rest>>

DoAddJoiner(c) ==
    LET m    == Head(wk[c].inbox)
        here == m.tid \in pool[c]
    IN
    /\ Next_ipm(c, "AddJoiner")
    /\ task' = IF here THEN [task EXCEPT ![m.tid].joiners = Append(@, m.val)]
                       ELSE task
    /\ Send(Ipm(m.from, "RespondAndUnblock", m.val, c,
                IF here THEN m.tid ELSE 0))
    /\ Pop(c)
    /\ UNCHANGED <<th, pool, rq, curr, shared, calls, rest>>

\* Interrupts on, hlt: only an interrupt ends it.
Halt(c) ==
    /\ At(c, "ipm")
    /\ wk[c].inbox = <<>>
    /\ th' = [th EXCEPT ![T(c)] = [Thread0 EXCEPT !.pc = "halt"]]
    /\ UNCHANGED <<task, pool, rq, curr, shared, mq, wk, calls, rest>>

-----------------------------------------------------------------------------

\* What the running task of c calls, of its own will: signal(1), signal_all.
Call(c) ==
    \/ Wait(c) \/ Signal(c, 1) \/ Signal(c, MaxTid)
    \/ Sleep(c) \/ Exit(c) \/ Io(c) \/ Serve(c)
    \/ \E t \in Tid : Join(c, t)
    \/ \E d \in CPU : Spawn(c, d) \/ Migrate(c, d)

\* A step of the kernel code the running task of c is in.
Kernel(c) ==
    \/ BlockAdd(c) \/ BlockState(c) \/ BlockRem(c) \/ BlockInt(c)
    \/ UnblockMap(c) \/ UnblockRemote(c) \/ UnblockCount(c)
    \/ UnblockReady(c) \/ UnblockAdd(c)
    \/ SignalPop(c) \/ SignalEnd(c) \/ CallReturns(c)
    \/ JoinLocal(c) \/ JoinAsk(c) \/ JoinAnswer(c) \/ JoinPoll(c)
    \/ CreateTid(c) \/ CreateInsert(c) \/ CreateMap(c) \/ CreateAdd(c)
    \/ CreateReady(c) \/ CreateCount(c)
    \/ SpawnAnswer(c)
    \/ Scan(c) \/ RemoveDead(c) \/ DropJoiner(c) \/ DropEnd(c)
    \/ MoveOut(c) \/ MoveUncount(c) \/ MoveSend(c)
    \/ Fetch(c) \/ DoMoveTask(c) \/ MoveMap(c) \/ DoUnblock(c) \/ DoCreateTask(c)
    \/ AnswerCreate(c) \/ DoRespond(c) \/ DoAddJoiner(c) \/ Halt(c)

Handler(c) == IrqSignalPop(c) \/ IrqExit(c)

Next ==
    \/ \E c \in CPU : Call(c) \/ Kernel(c) \/ Handler(c) \/ IrqEnter(c) \/ Timer(c)
    \/ \E t \in Tid : TimePasses(t)

Spec == Init /\ [][Next]_vars

\* A task gets its next kernel step done in one of the quanta it is given,
\* the timer fires, time passes; nobody has to make a call.
Fairness ==
    /\ \A t \in Tid : SF_vars(\E c \in CPU : T(c) = t /\ Kernel(c))
    /\ \A c \in CPU : SF_vars(Timer(c)) /\ WF_vars(Handler(c))
    /\ \A t \in Tid : WF_vars(TimePasses(t))

FairSpec == Spec /\ Fairness

-----------------------------------------------------------------------------

\* Nothing the calls do stops the kernel: no `expect` of the scheduler fails,
\* no store goes through a dangling pointer.  Migration can (mod.rs:409).
NoPanic == fault = "none"

\* Threads on c between the two halves of an unblock or of a creation of t.
Readying(t) == \E u \in Tid : th[u].pc \in {"ub_ready", "ub_add"} /\ th[u].obj = t
Creating(t) == \E u \in Tid : th[u].pc \in {"cr_map", "cr_add"} /\ th[u].obj = t

\* A task of a pool that is off the run queue has a reason to be: it has
\* exited, somebody is putting it there, or a block call of it is not undone
\* yet -- "a reference counter for handling racing/multiple block/unblock
\* calls" -- so that an unblock call is still to come.
NoTaskLost ==
    \A c \in CPU : \A t \in pool[c] \ Range(rq[c]) :
        \/ task[t].state \in {"Terminating", "Dropped"}
        \/ Readying(t) \/ Creating(t)
        \/ task[t].blocked > 0

\* The run queue of a CPU holds tasks of its pool, each once, and always the
\* CPU's worker, so that it never gets empty.
QueueSound ==
    \A c \in CPU : /\ IsInjective(rq[c])
                   /\ Range(rq[c]) \subseteq pool[c]
                   /\ Worker[c] \in Range(rq[c])

\* However calls and migrations race, a task is in one place: in one CPU's pool
\* or in one MoveTask message, never in both.  No CPU runs a task that another
\* one has.  TID_CPU_MAP names the CPU whose pool has the task, but while the
\* thread that put it there is on its way to tell the map.
Moving(t) == {m \in Range(mq) \cup UNION {Range(wk[c].inbox) : c \in CPU} :
                m.kind = "MoveTask" /\ m.tid = t}
Telling(c, t) == \E u \in Tid : /\ th[u].pc \in {"cr_map", "mv_map"}
                               /\ th[u].obj = t /\ th[u].arg = c
OneHome ==
    /\ \A c, d \in CPU : c # d => pool[c] \cap pool[d] = {} /\ T(c) # T(d)
    /\ \A c \in CPU : \A t \in pool[c] :
           Moving(t) = {} /\ (tid_cpu[t] = c \/ Telling(c, t))
    /\ \A c \in CPU : Worker[c] \in Range(rq[c])

\* join comes back only when its target has exited, whichever way it waited:
\* in the target's list, by IPM or polling.
JoinedIsDead ==
    \A c \in CPU : At(c, "joined") => th[th[T(c)].obj].pc = "dead"

\* A caller that asked another CPU goes on only once its own question has been
\* answered: no request and no answer of it is on its way then, a spawn has a
\* tid handed out since it asked, none of an earlier call, and a join its
\* target's or 0, "not here".
Asked(t) == {m \in Range(mq) \cup UNION {Range(wk[c].inbox) : c \in CPU} :
                \/ m.kind \in {"CreateTask", "RespondAndUnblock"} /\ m.tid = t
                \/ m.kind = "AddJoiner" /\ m.val = t}
AnswersMatch ==
    \A c \in CPU :
        LET r == task[T(c)].ret
            o == th[T(c)].obj
        IN
        /\ At(c, "spawn_ret") => Asked(T(c)) = {} /\ r \in o..(next_tid - 1)
        /\ At(c, "join_ans") => Asked(T(c)) = {} /\ r \in {0, o}

\* The load balancer's count of a CPU is the number of tasks of its pool that
\* have not exited, but for one a creation has yet to count.
LoadExact ==
    \A c \in CPU :
        lb[c] = Cardinality({t \in pool[c] : task[t].state # "Terminating"})
                - Cardinality({u \in pool[c] :
                                 th[u].pc \in {"cr_map", "cr_add", "cr_ready", "cr_lb"}})

\* A task that has exited stays so until it is dropped: "Exited/Died but
\* waiting for resource (stack,etc) dealloc".  Not so of a task created with
\* IF set: it can exit before its creator stores Ready (mod.rs:571).
DeadStaysDead ==
    [][\A t \in Tid : task[t].state = "Terminating"
                        => task'[t].state \in {"Terminating", "Dropped"}]_vars

\* Every task that exits is removed by its CPU's worker in the end.
DeadAreDropped ==
    \A t \in Tid : th[t].pc = "dead" ~> tid_cpu[t] = None

\* Whoever sleeps wakes up.
SleepersWake ==
    \A t \in Tid : task[t].state = "Sleeping" ~> task[t].state # "Sleeping"

\* wait and signal behave as a queue of waiters that are let go one by one in
\* their order, and every one let go does come back from wait.
inside == {t \in Tid : th[t].back = "wait_ret"}
WQ == INSTANCE WaitQueue WITH Task <- Tid, queue <- waiters
ImplementsWaitQueue == WQ!FairSpec
=============================================================================
