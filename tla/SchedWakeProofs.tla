-------------------------- MODULE SchedWakeProofs --------------------------
(***************************************************************************)
(* Proofs about what the scheduler's tasks wait for, for any number of     *)
(* CPUs and tasks, any calls but migrations and any number of interrupts:  *)
(* every block has its unblock somewhere.  From that follow what join      *)
(* promises, whose answers callers get, what can stop the kernel, that a   *)
(* wait channel is a queue, and that no task that blocks on one is lost.   *)
(***************************************************************************)
EXTENDS SchedProofs

-----------------------------------------------------------------------------
(* Steps that move an unblock: what becomes of the tasks                   *)

\* The thread me goes on to r; no tid is handed out, and the pools lose only
\* the dead.
Paces(me, r) ==
    /\ th' = [th EXCEPT ![me] = r] /\ UNCHANGED <<tid_cpu, next_tid, known>>
    /\ \A d \in CPU : /\ pool'[d] \subseteq pool[d]
                      /\ \A t \in pool[d] \ pool'[d] : th[t].pc = "dead"

LEMMA PacesTreads ==
    ASSUME IInv, NEW me, NEW r, Paces(me, r)
    PROVE  Treads(me, r)
BY NumbersSettled DEF Paces, Treads

LEMMA KnownAreBelow ==
    ASSUME IInv
    PROVE  0 < next_tid /\ \A t \in known : t < next_tid
BY DEF IInv, Numbers

LEMMA PacesSteady ==
    ASSUME IInv, NEW me, NEW r, Paces(me, r), th[me].pc # "dead"
    PROVE  Steady
BY PacesTreads, TreadsSteady

\* Nobody is brought to a queue who was not.
Unbrought(t) ==
    /\ Readying(t)' => Readying(t)
    /\ Coming(t)' => Coming(t)
    /\ \A v \in Tid : Brings(v, t)' => Brings(v, t)

\* What the invariant says of a task alone.
Alone(t) ==
    /\ t \notin Workers => Track(t) /\ Parked(t)
    /\ Hand(t) /\ Nap(t) /\ Fate(t) /\ Brought(t)

LEMMA BroughtKept ==
    ASSUME NEW t \in Tid, Brought(t), Unbrought(t), tid_cpu' = tid_cpu,
           th'[t] = th[t] \/ (~Readying(t) /\ ~Coming(t)),
           task'[t].blocked = task[t].blocked
    PROVE  Brought(t)'
<1>1. \A v \in Tid : Brings(v, t)' => t \notin Workers /\ tid_cpu'[v] = tid_cpu'[t]
  BY DEF Brought, Unbrought
<1>2. \A v, w \in Tid : Brings(v, t)' /\ Brings(w, t)' => v = w
  <2>1. \A v, w \in Tid : Brings(v, t) /\ Brings(w, t) => v = w
    BY DEF Brought
  <2>2. \A v \in Tid : Brings(v, t)' => Brings(v, t)
    BY DEF Unbrought
  <2>. QED BY <2>1, <2>2
<1>3. Readying(t)' => (th[t].pc \in (Blk \ {"blk_add"}) \cup Rets)' /\ (Due(t) # 1)'
  <2>1. Readying(t)' => th'[t] = th[t] /\ Readying(t)
    BY DEF Unbrought
  <2>2. th'[t] = th[t] => Due(t)' = Due(t)
    BY DEF Due
  <2>. QED BY <2>1, <2>2 DEF Brought
<1>4. Coming(t)' => th'[t].pc = "run"
  BY DEF Unbrought, Brought
<1>. QED BY <1>1, <1>2, <1>3, <1>4 DEF Brought

LEMMA OtherKept ==
    ASSUME IInv, WInv, NEW me \in Tid, me \in known, NEW r, Paces(me, r), th[me].pc # "dead",
           NEW t \in Tid \ {me}, task'[t].blocked = task[t].blocked,
           task'[t].ret = task[t].ret \/ task'[t].ret < next_tid,
           task'[t].state \in {"Terminating", "Migrating", "Sleeping"}
              => task'[t].state = task[t].state,
           \A d \in CPU : t \in Range(rq'[d]) => t \in Range(rq[d]),
           UNCHANGED curr, Unbrought(t)
    PROVE  Alone(t)'
<1>1. /\ th \in [Tid -> ThreadType]
      /\ th'[me] = r /\ th'[t] = th[t] /\ tid_cpu' = tid_cpu /\ next_tid' = next_tid /\ known' = known
  BY DEF Paces, IInv, Threads
<1>2. Hand(t) /\ Nap(t) /\ Fate(t) /\ Brought(t) /\ (t \notin Workers => Track(t) /\ Parked(t))
  BY DEF WInv, Body
<1>3. Due(t)' = Due(t)
  BY <1>1 DEF Due
<1>4. t \notin Workers => Track(t)'
  BY <1>1, <1>2 DEF Track, Paces, Awaits, Goal
<1>5. t \notin Workers => Parked(t)'
  <2>1. Off(t)' => Off(t)
    BY <1>1, <1>3 DEF Off, Unbrought
  <2>2. t \notin Workers => Parked(t)
    BY <1>2
  <2>. QED BY <1>1, <2>1, <2>2 DEF Parked
<1>6. Hand(t)'
  <2>1. th[t].pc = "cr_map" => th[t].obj \in pool'[th[t].arg]
    BY <1>2, NewbornStays DEF Hand, Paces
  <2>. QED BY <1>1, <1>2, <2>1 DEF Hand
<1>7. Nap(t)'
  BY <1>1, <1>2 DEF Nap
<1>8. Fate(t)'
  <2>1. /\ task'[t].state # "Migrating" /\ (task'[t].state = "Terminating" => th'[t].pc = "dead")
        /\ task'[t].ret < next_tid
    BY <1>1, <1>2 DEF Fate
  <2>2. t \in known => th'[t].pc = "dead" \/ \E d \in CPU : t \in pool'[d]
    BY <1>1, <1>2 DEF Fate, Paces
  <2>3. t \notin known => th'[t].pc = "run" /\ t \in New
    BY <1>1, <1>2 DEF Fate
  <2>. QED BY <1>1, <2>1, <2>2, <2>3 DEF Fate
<1>9. Brought(t)'
  BY <1>1, <1>2, BroughtKept
<1>. QED BY <1>4, <1>5, <1>6, <1>7, <1>8, <1>9 DEF Alone

\* The running thread goes on, not blocked.
LEMMA OwnerKept ==
    ASSUME IInv, WInv, NEW c \in CPU, NEW me, me = T(c), NEW r, Paces(me, r),
           th[me].pc \in WakePcs \cup MakePcs \cup {"sig"},
           r.pc \notin Blk \cup {"dead"},
           task'[me] = task[me], Unbrought(me), Hand(me)', me \notin Workers => Track(me)'
    PROVE  Alone(me)'
<1>1. /\ me \in Tid /\ me \in pool[c] /\ th \in [Tid -> ThreadType] /\ me \in known
      /\ th'[me] = r /\ tid_cpu' = tid_cpu /\ next_tid' = next_tid /\ known' = known
  <2>1. me \in Tid /\ me \in pool[c] /\ me \in known /\ th \in [Tid -> ThreadType]
    BY Here DEF IInv, Threads
  <2>. QED BY <2>1 DEF Paces
<1>2. Nap(me) /\ Fate(me) /\ Brought(me)
  BY <1>1 DEF WInv, Body
<1>3. task[me].state # "Sleeping" /\ th[me].pc # "dead"
  BY <1>2 DEF Nap, WakePcs, MakePcs
<1>4. ~Readying(me) /\ ~Coming(me) /\ (me \notin Workers => task[me].blocked = 0)
  <2>1. CASE me \in Workers
    BY <1>2, <2>1 DEF Brought, Brings, Readying, Coming
  <2>2. CASE me \notin Workers
    <3>1. th[me].pc \notin Blk \cup {"spawn_ret", "join_ans"}
      BY DEF Blk, WakePcs, MakePcs
    <3>. QED BY <2>2, <3>1, Resting
  <2>. QED BY <2>1, <2>2
<1>5. Brought(me)'
  BY <1>1, <1>2, <1>4, BroughtKept
<1>6. Nap(me)'
  BY <1>3 DEF Nap
<1>7. Fate(me)'
  <2>1. task[me].state # "Terminating" /\ task[me].state # "Migrating" /\ task[me].ret < next_tid
    BY <1>2, <1>3 DEF Fate
  <2>2. r.pc = "dead" \/ \E d \in CPU : me \in pool'[d]
    BY <1>1, <1>3 DEF Paces
  <2>. QED BY <1>1, <2>1, <2>2 DEF Fate
<1>8. me \notin Workers => Parked(me)'
  <2>. SUFFICES ASSUME me \notin Workers PROVE ~Off(me)'
    BY DEF Parked
  <2>1. Due(me)' = 0
    BY <1>1, <1>4 DEF Due, Owed, Blk
  <2>2. ~Readying(me)' /\ ~Coming(me)'
    BY <1>4 DEF Unbrought
  <2>. QED BY <1>1, <2>1, <2>2 DEF Off
<1>. QED BY <1>5, <1>6, <1>7, <1>8 DEF Alone

\* An account that is settled, seen after the step.
LEMMA AccountSettled ==
    ASSUME IInv, WInv, NEW t \in Tid \ Workers, Steady, UNCHANGED tid_cpu,
           Goal(th'[t]) = Goal(th[t]), th'[t].obj = th[t].obj,
           NEW a, NEW ret, NEW K, NEW ans, NEW ask,
           Ledger(Goal(th[t]), a, ret, th[t].obj, K, ans, ask, th[th[t].obj].pc,
                  tid_cpu[t], tid_cpu[th[t].obj]),
           Due(t)' = a, task'[t].ret = ret, Wakers(t)' \subseteq K,
           Said(boxes, Answer, t)' \subseteq ans, Said(boxes, "AddJoiner", t)' \subseteq ask
    PROVE  Account(t)'
<1>. DEFINE g == Goal(th[t])
            u == th[t].obj
<1>1. Track(t)
  BY DEF WInv, Body
<1>2. g \in {"joined", "join_ans"} => u \in Tid /\ u \in known
  BY <1>1, NumbersSettled DEF Track, Awaits
<1>3. g \in {"joined", "join_ans"} /\ th[u].pc = "dead" => th'[u].pc = "dead"
  BY <1>2 DEF Steady
<1>. HIDE DEF g, u
<1>4. Ledger(g, a, ret, u, Wakers(t)', Said(boxes, Answer, t)', Said(boxes, "AddJoiner", t)',
             th'[u].pc, tid_cpu[t], tid_cpu[u])
  <2>1. /\ Wakers(t)' \in SUBSET K
        /\ Said(boxes, Answer, t)' \in SUBSET ans /\ Said(boxes, "AddJoiner", t)' \in SUBSET ask
    OBVIOUS
  <2>2. Ledger(g, a, ret, u, K, ans, ask, th[u].pc, tid_cpu[t], tid_cpu[u])
    BY DEF g, u
  <2>. QED BY <1>3, <2>1, <2>2, LedgerFewer
<1>. QED BY <1>4 DEF Account, Due, Answer, g, u

\* A task is paid one unblock that it is owed.
LEMMA PaidKept ==
    ASSUME IInv, WInv, NEW me \in Tid, NEW r, Paces(me, r), th[me].pc # "dead", UNCHANGED curr,
           NEW c \in CPU, NEW x \in Tid, tid_cpu[x] = c, tid_cpu[me] = c, th'[x] = th[x],
           NEW p \in Wakers(x),
           p = InQueue \/ \E v \in Tid : p = InHand(v) /\ (v \in Workers => v = Worker[c]),
           task'[x].blocked = task[x].blocked - 1, task'[x].ret = task[x].ret,
           task'[x].state \in {task[x].state, "Ready"},
           \A v \in Tid : Brings(v, x)' => Brings(v, x) \/ (v = me /\ task[x].blocked = 1),
           Coming(x)' => Coming(x),
           \A d \in CPU : x \in Range(rq'[d]) =>
                x \in Range(rq[d]) \/ (task[x].blocked = 1 /\ \A v \in Tid : Brings(v, x)' => Brings(v, x)),
           Wakers(x)' \subseteq Wakers(x) \ {p}, \A k : Said(boxes, k, x)' \subseteq Said(boxes, k, x)
    PROVE  x \notin Workers /\ Alone(x)' /\ Account(x)'
<1>1. /\ th \in [Tid -> ThreadType] /\ task[x].blocked \in Int
      /\ tid_cpu' = tid_cpu /\ next_tid' = next_tid /\ known' = known
  BY DEF Paces, IInv, Threads, Tasks, TaskType
<1>2. /\ x \notin Workers /\ Account(x) /\ Goal(th[x]) \in Rets
      /\ th[x].pc # "dead" /\ x \in known /\ task[x].state # "Sleeping"
  BY HasWaker
<1>3. Track(x) /\ Parked(x) /\ Hand(x) /\ Fate(x) /\ Brought(x)
  BY <1>2 DEF WInv, Body
<1>. DEFINE g == Goal(th[x])
            u == th[x].obj
            ans == Said(boxes, Answer, x)
            ask == Said(boxes, "AddJoiner", x)
            n == task[x].blocked
            K == Wakers(x)
<1>4. Ledger(g, Due(x), task[x].ret, u, K, ans, ask, th[u].pc, c, tid_cpu[u])
  BY <1>2 DEF Account, Due, Answer
<1>. DEFINE a == Due(x)
            ret == task[x].ret
            L == K \ {p}
<1>5. a \in {0, 1} /\ Ledger(g, a - 1, ret, u, L, ans, ask, th[u].pc, c, tid_cpu[u])
  <2>1. L \in SUBSET (K \ {p}) /\ p \in K
    OBVIOUS
  <2>. HIDE DEF g, u, ans, ask, K, L, a, ret
  <2>. QED BY <1>4, <2>1, LedgerPays DEF a, ret
<1>20. Due(x)' = a - 1
  BY <1>1 DEF Due, Owed
<1>6. Account(x)'
  <2>1. Steady
    BY PacesSteady
  <2>. DEFINE e == a - 1
  <2>2. Due(x)' = e /\ task'[x].ret = ret
    BY <1>20
  <2>3. Ledger(g, e, ret, u, L, ans, ask, th[u].pc, tid_cpu[x], tid_cpu[u])
    BY <1>5
  <2>4. Wakers(x)' \subseteq L /\ Said(boxes, Answer, x)' \subseteq ans /\ Said(boxes, "AddJoiner", x)' \subseteq ask
    OBVIOUS
  <2>5. Goal(th'[x]) = g /\ th'[x].obj = u /\ UNCHANGED tid_cpu /\ x \in Tid \ Workers
    BY <1>1, <1>2
  <2>. HIDE DEF L, ans, ask, e, ret
  <2>. QED BY <2>1, <2>2, <2>3, <2>4, <2>5, AccountSettled
<1>. HIDE DEF g, u, ans, ask, K
<1>7. th[x].pc \in Blk \cup Rets /\ th[x].pc # "run"
  BY <1>2 DEF Goal, Blk, Rets
<1>8. ~Coming(x)
  BY <1>3, <1>7 DEF Brought
<1>9. n = 1 => Due(x) = 1 /\ th[x].pc # "blk_add" /\ ~Readying(x) /\ \A v \in Tid : ~Brings(v, x)
  <2>. SUFFICES ASSUME n = 1 PROVE Due(x) = 1 /\ th[x].pc # "blk_add" /\ ~Readying(x)
    BY <1>8 DEF Brings, Readying, Coming
  <2>1. Due(x) = 1 /\ th[x].pc # "blk_add"
    BY <1>5 DEF Due, Owed
  <2>. QED BY <1>3, <2>1 DEF Brought
<1>10. Track(x)'
  BY <1>1, <1>3 DEF Track, Paces, Awaits, Goal
<1>11. Hand(x)' /\ Nap(x)'
  BY <1>1, <1>2, <1>3, <1>7 DEF Hand, Nap, Blk, Rets
<1>12. Fate(x)'
  <2>1. \E d \in CPU : x \in pool'[d]
    BY <1>2, <1>3 DEF Fate, Paces
  <2>. QED BY <1>1, <1>2, <1>3, <2>1 DEF Fate
<1>13. (\A v \in Tid : Brings(v, x)' => Brings(v, x)) => Unbrought(x)
  <2>. SUFFICES ASSUME \A v \in Tid : Brings(v, x)' => Brings(v, x) PROVE Readying(x)' => Readying(x)
    BY DEF Unbrought
  <2>1. ASSUME NEW v \in Tid, Brings(v, x) PROVE th[v].pc \in {"ub_ready", "ub_add"} /\ th[v].obj = x
    BY <1>8, <2>1 DEF Brings, Coming
  <2>2. ASSUME NEW v \in Tid, th'[v].pc \in {"ub_ready", "ub_add"}, th'[v].obj = x PROVE Brings(v, x)
    BY <2>2 DEF Brings
  <2>. QED BY <2>1, <2>2 DEF Readying
<1>14. ~Coming(x)'
  BY <1>8
<1>15. Readying(x)' => Due(x)' # 1 /\ th[x].pc # "blk_add"
  <2>1. Due(x)' # 1
    BY <1>5, <1>20
  <2>2. CASE n = 1
    BY <1>9, <2>1, <2>2
  <2>3. CASE n # 1
    <3>1. Unbrought(x)
      BY <1>13, <2>3 DEF n
    <3>. QED BY <1>3, <2>1, <3>1 DEF Unbrought, Brought, Blk, Rets
  <2>. QED BY <2>2, <2>3
<1>16. Brought(x)'
  <2>1. ASSUME NEW v \in Tid, Brings(v, x)' PROVE tid_cpu'[v] = tid_cpu'[x]
    BY <1>1, <1>3, <2>1 DEF Brought
  <2>2. ASSUME NEW v \in Tid, NEW w \in Tid, Brings(v, x)', Brings(w, x)' PROVE v = w
    <3>1. CASE n = 1
      BY <1>9, <2>2, <3>1
    <3>2. CASE n # 1
      BY <1>3, <2>2, <3>2 DEF Brought, n
    <3>. QED BY <3>1, <3>2
  <2>. QED BY <1>2, <1>7, <1>14, <1>15, <2>1, <2>2 DEF Brought
<1>17. Parked(x)'
  <2>. SUFFICES ASSUME Off(x)', NEW d \in CPU
                PROVE  x \notin Range(rq'[d]) /\ (th[x].pc # "blk_int" => curr[d] # x)
    BY DEF Parked
  <2>0. th[x].pc \in {"blk_int"} \cup Rets /\ Readying(x)'
    <3>1. Due(x)' # 1
      BY <1>5, <1>20
    <3>. QED BY <1>2, <1>14, <3>1 DEF Off
  <2>1. CASE n = 1
    <3>1. Off(x)
      BY <1>9, <2>0, <2>1 DEF Off
    <3>2. ~(\A v \in Tid : Brings(v, x)' => Brings(v, x))
      BY <1>9, <1>13, <2>0, <2>1 DEF Unbrought
    <3>. QED BY <1>3, <3>1, <3>2 DEF Parked
  <2>2. CASE n # 1
    <3>1. Readying(x)
      BY <1>13, <2>0, <2>2 DEF n, Unbrought
    <3>2. Off(x)
      BY <2>0, <3>1 DEF Off
    <3>. QED BY <1>3, <2>2, <3>2 DEF Parked, n
  <2>. QED BY <2>1, <2>2
<1>. QED BY <1>2, <1>6, <1>10, <1>11, <1>12, <1>16, <1>17 DEF Alone

\* A task is put in the run queue: whoever brings it has done so.
LEMMA AddedKept ==
    ASSUME IInv, WInv, NEW me \in Tid, NEW r, Paces(me, r), UNCHANGED <<curr, task>>,
           th[me].pc \in {"ub_add", "cr_add"}, NEW x, x = th[me].obj,
           r.pc \notin {"ub_ready", "ub_add", "cr_add"}
    PROVE  /\ x \in Tid \ Workers /\ x # me /\ x \in known /\ tid_cpu[x] = tid_cpu[me]
           /\ Alone(x)' /\ \A t \in Tid : Unbrought(t)
<1>1. /\ th \in [Tid -> ThreadType] /\ tid_cpu' = tid_cpu /\ next_tid' = next_tid /\ known' = known
      /\ th'[me] = r /\ \A t \in Tid \ {me} : th'[t] = th[t]
  BY DEF Paces, IInv, Threads
<1>2. x \in Tid /\ Hand(me)
  <2>1. Hand(me)
    BY DEF WInv, Body
  <2>2. th[me].pc = "cr_add" => x \in Tid
    BY <2>1 DEF Hand, New
  <2>3. th[me].pc = "ub_add" => x \in Tid
    BY DEF IInv, Threads, Sound, WakePcs
  <2>. QED BY <2>1, <2>2, <2>3
<1>3. Brought(x) /\ Hand(x) /\ Nap(x) /\ Fate(x) /\ Brings(me, x)
  BY <1>2 DEF WInv, Body, Brings
<1>4. /\ x \notin Workers /\ tid_cpu[me] = tid_cpu[x]
      /\ \A v \in Tid : Brings(v, x) => v = me
  BY <1>3 DEF Brought
<1>5. Track(x) /\ Parked(x)
  BY <1>2, <1>4 DEF WInv, Body
<1>6. \/ th[me].pc = "ub_add" /\ th[x].pc \in (Blk \ {"blk_add"}) \cup Rets /\ Due(x) # 1
      \/ th[me].pc = "cr_add" /\ th[x].pc = "run"
  BY <1>3 DEF Brought, Readying, Coming
<1>7. x # me /\ th[x].pc # "dead"
  BY <1>6 DEF Blk, Rets
<1>8. x \in known
  <2>1. th[x].pc = "run" => x \in known
    BY <1>2, <1>6 DEF Hand, Blk, Rets
  <2>. QED BY <1>3, <1>6, <2>1 DEF Fate, Blk, Rets
<1>9. \A v \in Tid : \A t : Brings(v, t)' => Brings(v, t) /\ v # me
  BY <1>1 DEF Brings
<1>10. \A v \in Tid : ~Brings(v, x)'
  BY <1>4, <1>9
<1>11. ~Readying(x)' /\ ~Coming(x)'
  BY <1>10 DEF Brings, Readying, Coming
<1>12. \A t \in Tid : Unbrought(t)
  <2>. SUFFICES ASSUME NEW t \in Tid PROVE (Readying(t)' => Readying(t)) /\ (Coming(t)' => Coming(t))
    BY <1>9 DEF Unbrought
  <2>1. \A v \in Tid : th'[v].pc \in {"ub_ready", "ub_add", "cr_add"} => th'[v] = th[v]
    BY <1>1
  <2>. QED BY <2>1 DEF Readying, Coming
<1>13. th'[x] = th[x]
  BY <1>1, <1>2, <1>7
<1>14. Track(x)'
  BY <1>1, <1>5, <1>13 DEF Track, Paces, Awaits, Goal
<1>15. Hand(x)' /\ Nap(x)'
  BY <1>1, <1>3, <1>6, <1>13 DEF Hand, Nap, Blk, Rets
<1>16. Fate(x)'
  <2>1. \E d \in CPU : x \in pool'[d]
    BY <1>3, <1>7, <1>8 DEF Fate, Paces
  <2>. QED BY <1>1, <1>3, <1>7, <1>8, <1>13, <2>1 DEF Fate
<1>17. Brought(x)'
  BY <1>10, <1>11 DEF Brought
<1>18. Parked(x)'
  <2>1. Due(x)' = Due(x)
    BY <1>13 DEF Due
  <2>2. ~Off(x)'
    BY <1>6, <1>7, <1>11, <1>13, <2>1 DEF Off, Rets
  <2>. QED BY <2>2 DEF Parked
<1>. QED BY <1>2, <1>4, <1>7, <1>8, <1>12, <1>14, <1>15, <1>16, <1>17, <1>18 DEF Alone

\* What every task keeps for itself, the workers and the queues keep together.
LEMMA BodyAlone ==
    ASSUME \A t \in Tid : Alone(t)', \A d \in CPU : Desk(d)' /\ Row(d)'
    PROVE  Body'
  BY DEF Alone, Body

LEMMA RowsGrow ==
    ASSUME WInv, UNCHANGED <<tid_cpu, next_tid, known>>, NEW x,
           \A d \in CPU : \A t \in Range(rq'[d]) :
                t \in Range(rq[d]) \/ (t = x /\ x \in Tid /\ x \in known /\ tid_cpu[x] = d)
    PROVE  \A d \in CPU : Row(d)'
<1>. SUFFICES ASSUME NEW d \in CPU, NEW t \in Range(rq'[d])
              PROVE  t \in known /\ tid_cpu[t] = d
  BY DEF Row
<1>. QED BY DEF WInv, Body, Row

-----------------------------------------------------------------------------
(* What becomes of the accounts and of the messages                        *)

\* The tasks X have settled their accounts, the others have no more unblocks
\* to come than they had.
LEMMA AccountsMoved ==
    ASSUME IInv, WInv, NEW me \in Tid, NEW r, Paces(me, r), th[me].pc # "dead",
           NEW X, \A t \in X : t \notin Workers /\ Account(t)',
           \A t \in Tid \ X : /\ Wakers(t)' \subseteq Wakers(t)
                              /\ \A k : Said(boxes, k, t)' \subseteq Said(boxes, k, t),
           \A t \in Tid \ (X \cup {me}) : /\ task'[t].blocked = task[t].blocked
                                          /\ task'[t].ret = task[t].ret,
           me \notin Workers \cup X => Account(me)'
    PROVE  Accounts'
<1>1. ASSUME NEW t \in Workers, t \in Tid PROVE Wakers(t)' = {}
  BY <1>1 DEF WInv, Accounts
<1>2. ASSUME NEW t \in Tid \ Workers, t # me, t \notin X PROVE Account(t)'
  <2>1. th'[t] = th[t]
    BY <1>2 DEF Paces, IInv, Threads
  <2>2. Due(t)' = Due(t) /\ Goal(th'[t]) = Goal(th[t]) /\ th'[t].obj = th[t].obj
        /\ task'[t].ret = task[t].ret
    BY <1>2, <2>1 DEF Due
  <2>3. Steady /\ tid_cpu'[t] = tid_cpu[t]
    BY PacesSteady DEF Paces
  <2>. QED BY <1>2, <2>2, <2>3, AccountKept
<1>. QED BY <1>1, <1>2 DEF Accounts

\* A client whose call has nothing to do with blocks.
LEMMA AccountIdle ==
    ASSUME NEW t \in Tid, Wakers(t)' = {}, task'[t].blocked = 0, task'[t].ret = 0,
           th'[t].pc \notin Blk \cup {"joined", "spawn_ret", "join_ans"}
    PROVE  Account(t)'
<1>. DEFINE ans == Said(boxes, "RespondAndUnblock", t)'
            ask == Said(boxes, "AddJoiner", t)'
            u   == th'[t].obj
            end == th'[u].pc
            d   == tid_cpu'[t]
            home == tid_cpu'[u]
            g == th'[t].pc
<1>1. Goal(th'[t]) = g /\ Owed(th'[t], task'[t].blocked) = 0
  BY DEF Goal, Owed, Blk
<1>2. Ledger(g, 0, 0, u, {}, ans, ask, end, d, home)
  <2>. HIDE DEF ans, ask, u, end, d, home
  <2>. QED BY LedgerIdle
<1>. QED BY <1>1, <1>2 DEF Account

\* Answers and the unblocks that follow them go to one CPU.
LEMMA GoStraight ==
    ASSUME IInv, WInv
    PROVE  Straight(boxes) /\ Ordered(boxes)
<1>1. \A x \in Place : boxes[x] = Box(x)
  BY BoxesAre
<1>. QED BY <1>1 DEF WInv, Mails, Straight, Fit

\* What the messages say in the next state.
LEMMA SaidNext ==
    ASSUME NEW f, boxes' = f
    PROVE  \A k, t : Said(boxes, k, t)' = Said(f, k, t)
  BY DEF Said, Mail, Wakee, What

LEMMA MailsNext ==
    ASSUME IInv, WInv, NEW me, NEW r, Paces(me, r), NEW f \in Queuing, boxes' = f, Ordered(f),
           \A x \in Place : \A i \in DOMAIN f[x] :
              \/ Fit(f[x][i])'
              \/ \E y \in Place : \E j \in DOMAIN boxes[y] : f[x][i] = boxes[y][j]
    PROVE  Mails'
<1>1. Ordered(boxes)'
  BY DEF Ordered, Wakee, Later
<1>2. \A x \in Place : Box(x)' = f[x]
  BY DEF boxes
<1>3. ASSUME NEW x \in Place, NEW i \in DOMAIN f[x] PROVE Fit(f[x][i])'
  <2>1. CASE Fit(f[x][i])'
    BY <2>1
  <2>2. CASE \E y \in Place : \E j \in DOMAIN boxes[y] : f[x][i] = boxes[y][j]
    <3>1. PICK y \in Place : \E j \in DOMAIN boxes[y] : f[x][i] = boxes[y][j]
      BY <2>2
    <3>2. PICK j \in DOMAIN boxes[y] : f[x][i] = boxes[y][j]
      BY <3>1
    <3>3. boxes[y] = Box(y) /\ boxes[y] \in Seq(Message)
      BY BoxesAre DEF Queuing
    <3>4. Fit(boxes[y][j]) /\ boxes[y][j] \in Message
      BY <3>3 DEF WInv, Mails
    <3>5. \A n \in Message : Fit(n) => Fit(n)'
      BY PacesTreads, FitKept
    <3>6. f[x][i] \in Message /\ Fit(f[x][i])
      BY <3>2, <3>4
    <3>. QED BY <3>5, <3>6
  <2>. QED BY <1>3, <2>1, <2>2
<1>. QED BY <1>1, <1>2, <1>3 DEF Mails

\* Lists get longer at their end and shorter at their start.
LEMMA ListGrows ==
    ASSUME NEW S, NEW s \in Seq(S), NEW v \in S
    PROVE  /\ Append(s, v) \in Seq(S) /\ \A t : t \in Range(Append(s, v)) => t \in Range(s) \/ t = v
           /\ IsInjective(s) /\ v \notin Range(s) => IsInjective(Append(s, v))
<1>. DEFINE w == Append(s, v)
            n == Len(s)
<1>1. /\ w \in Seq(S) /\ Len(w) = n + 1 /\ w[n + 1] = v /\ n \in Nat
      /\ \A i \in 1 .. n : w[i] = s[i]
  BY AppendProperties
<1>2. DOMAIN s = 1 .. n
  OBVIOUS
<1>. HIDE DEF w, n
<1>3. DOMAIN w = 1 .. (n + 1)
  BY <1>1
<1>4. ASSUME NEW i \in DOMAIN w
      PROVE  (i \in DOMAIN s /\ w[i] = s[i]) \/ (i = n + 1 /\ w[i] = v)
  BY <1>1, <1>2, <1>3
<1>5. ASSUME NEW t \in Range(w) PROVE t \in Range(s) \/ t = v
  BY <1>4 DEF Range
<1>6. ASSUME IsInjective(s), v \notin Range(s) PROVE IsInjective(w)
  BY <1>4, <1>6 DEF IsInjective, Range
<1>. QED BY <1>1, <1>5, <1>6 DEF w

LEMMA ListShrinks ==
    ASSUME NEW S, NEW s \in Seq(S), s # <<>>
    PROVE  /\ Head(s) \in S /\ Head(s) \in Range(s) /\ Tail(s) \in Seq(S)
           /\ \A t \in Range(Tail(s)) : t \in Range(s)
           /\ IsInjective(s) => IsInjective(Tail(s)) /\ Head(s) \notin Range(Tail(s))
<1>. DEFINE w == Tail(s)
            n == Len(s)
            h == Head(s)
<1>1. /\ w \in Seq(S) /\ Len(w) = n - 1 /\ n \in Nat /\ h \in S
      /\ \A i \in 1 .. Len(w) : w[i] = s[i + 1]
  BY HeadTailProperties
<1>2. DOMAIN s = 1 .. n /\ n # 0 /\ h = s[1]
  OBVIOUS
<1>. HIDE DEF w, n, h
<1>3. DOMAIN w = 1 .. (n - 1)
  BY <1>1
<1>4. ASSUME NEW i \in DOMAIN w
      PROVE  i \in Int /\ i >= 1 /\ i + 1 \in DOMAIN s /\ w[i] = s[i + 1]
  BY <1>1, <1>2, <1>3
<1>5. ASSUME NEW t \in Range(w) PROVE t \in Range(s)
  BY <1>4 DEF Range
<1>6. 1 \in DOMAIN s
  BY <1>1, <1>2
<1>7. h \in Range(s)
  BY <1>2, <1>6 DEF Range
<1>8. ASSUME IsInjective(s) PROVE IsInjective(w) /\ h \notin Range(w)
  <2>1. ASSUME NEW i \in DOMAIN w, NEW j \in DOMAIN w, w[i] = w[j] PROVE i = j
    <3>1. i + 1 = j + 1
      BY <1>4, <1>8, <2>1 DEF IsInjective
    <3>. QED BY <1>4, <3>1
  <2>2. ASSUME NEW i \in DOMAIN w, w[i] = h PROVE FALSE
    <3>1. i + 1 = 1
      BY <1>2, <1>4, <1>6, <1>8, <2>2 DEF IsInjective
    <3>. QED BY <1>4, <3>1
  <2>. QED BY <2>1, <2>2 DEF IsInjective, Range
<1>. QED BY <1>1, <1>5, <1>7, <1>8 DEF w, h

\* Each unblock to come after the step is in one of these places.
LEMMA SpottedNext ==
    ASSUME NEW t
    PROVE  /\ InQueue \in Wakers(t)' => t \in Range(waiters')
           /\ InIo \in Wakers(t)' => t \in Range(ioq')
           /\ \A u : InList(u) \in Wakers(t)' => u \in Tid /\ t \in Range(task'[u].joiners)
           /\ \A c : InTodo(c) \in Wakers(t)' => c \in CPU /\ t \in Range(wk'[c].todo)
           /\ \A v : InHand(v) \in Wakers(t)' => v \in Tid /\ Unblocks(th'[v], t)
           /\ \A k : InMail(k) \in Wakers(t)' => k \in Kinds /\ Said(boxes, k, t)' # {}
<1>1. \A p : p \in Wakers(t)' =>
      \/ p = InQueue /\ t \in Range(waiters')
      \/ p = InIo /\ t \in Range(ioq')
      \/ \E u \in Tid : p = InList(u) /\ t \in Range(task'[u].joiners)
      \/ \E c \in CPU : p = InTodo(c) /\ t \in Range(wk'[c].todo)
      \/ \E v \in Tid : p = InHand(v) /\ Unblocks(th'[v], t)
      \/ \E k \in Kinds : p = InMail(k) /\ Said(boxes, k, t)' # {}
  BY DEF Wakers, InQueue, InIo, InList, InTodo, InHand, InMail, Unblocks
<1>. QED BY <1>1, SpotsDiffer

\* A client starts to block: one unblock of it is to come, from p.
Starts0(me, p, g, u) ==
    /\ \/ g = "wait_ret" /\ p = InQueue
       \/ g = "ret" /\ p = InIo
       \/ g = "joined" /\ p = InList(u)
       \/ g = "spawn_ret" /\ p = InMail("CreateTask")
       \/ g = "join_ans" /\ p = InMail("AddJoiner") /\ Said(boxes, "AddJoiner", me)' \subseteq {u}
    /\ g \in {"joined", "join_ans"} => u \in Tid /\ u \in known
    /\ g = "spawn_ret" => u <= next_tid
    /\ Wakers(me)' \subseteq Wakers(me) \cup {p}
    /\ \A t \in Tid \ {me} : /\ Wakers(t)' \subseteq Wakers(t)
                             /\ \A k : Said(boxes, k, t)' \subseteq Said(boxes, k, t)

LEMMA BlockStarts ==
    ASSUME IInv, WInv, NEW c \in CPU, NEW me, me = T(c), NEW r,
           th' = [th EXCEPT ![me] = r], UNCHANGED <<pool, rq, curr, tid_cpu, next_tid, known, wk>>,
           \A t \in Tid : /\ task'[t].blocked = task[t].blocked /\ task'[t].ret = task[t].ret
                          /\ task'[t].state = task[t].state,
           th[me].pc \in {"run", "join_pool", "join_ask"}, r.pc = "blk_add",
           NEW p, Starts0(me, p, r.back, r.obj), Mails', Rows'
    PROVE  WInv'
<1>1. /\ me \notin Workers /\ me \in Tid /\ me \in pool[c] /\ th'[me] = r
      /\ th[me].pc \notin Blk \cup {"spawn_ret", "join_ans", "dead"}
  <2>1. me \notin Workers /\ me \in Tid /\ me \in pool[c]
    BY InCall, Here DEF CallPcs, Backs
  <2>. QED BY <2>1 DEF Blk, IInv, Threads
<1>2. /\ ~Coming(me) /\ ~Readying(me) /\ task[me].blocked = 0 /\ task[me].ret = 0 /\ Wakers(me) = {}
  BY <1>1, Resting
<1>3. Paces(me, r) /\ Spares(me) /\ Thins
  <2>1. Spares(me)
    BY DEF Spares
  <2>. QED BY <2>1 DEF Paces, Thins
<1>4. r.back \in Rets
  BY DEF Starts0, Rets
<1>5. Track(me)'
  BY <1>1, <1>4 DEF Track, Awaits, Goal, Blk, Rets, WakePcs, MakePcs, Starts0
<1>6. ~Coming(me)' /\ ~Readying(me)'
  BY <1>1, <1>2 DEF Coming, Readying, IInv, Threads
<1>7. Owner(me, r)
  <2>1. Nap(me) /\ Fate(me)
    BY <1>1 DEF WInv, Body
  <2>2. task[me].state \notin {"Sleeping", "Terminating", "Migrating"}
    BY <1>1, <2>1 DEF Nap, Fate
  <2>3. Hand(me)' /\ Nap(me)'
    BY <1>1, <2>2 DEF Hand, Nap, Makes
  <2>4. Parked(me)'
    BY <1>1, <1>6 DEF Parked, Off, Rets
  <2>. QED BY <1>1, <1>2, <1>5, <2>2, <2>3, <2>4 DEF Owner
<1>8. \A d \in CPU : Desk(d)'
  <2>1. \A d \in CPU : wk'[d].victim = wk[d].victim /\ wk'[d].inbox = wk[d].inbox
    OBVIOUS
  <2>. QED BY <1>1, <2>1, DesksKept
<1>9. Body'
  BY <1>3, <1>7, <1>8, PacesTreads, BodyKept
<1>10. Account(me)'
  <2>. DEFINE ans == Said(boxes, Answer, me)'
              ask == Said(boxes, "AddJoiner", me)'
              g == r.back
              u == r.obj
              end == th'[u].pc
              K == Wakers(me)'
              d == tid_cpu[me]
              home == tid_cpu[u]
  <2>1. K \in SUBSET {p}
    BY <1>2 DEF Starts0
  <2>2. /\ g \in Rets
        /\ \/ g = "wait_ret" /\ p = InQueue
           \/ g = "ret" /\ p = InIo
           \/ g = "joined" /\ p = InList(u)
           \/ g = "spawn_ret" /\ p = InMail("CreateTask")
           \/ g = "join_ans" /\ p = InMail("AddJoiner") /\ ask \subseteq {u}
    BY <1>4 DEF Starts0
  <2>3. Ledger(g, 1, 0, u, K, ans, ask, end, d, home)
    <3>. HIDE DEF ans, ask, g, u, end, K, d, home
    <3>. QED BY <2>1, <2>2, LedgerEnters
  <2>4. Goal(th'[me]) = g /\ Owed(th'[me], task'[me].blocked) = 1 /\ task'[me].ret = 0
    BY <1>1, <1>2 DEF Goal, Owed, Blk
  <2>. HIDE DEF K
  <2>. QED BY <1>1, <2>3, <2>4 DEF Account, Answer, K
<1>11. Accounts'
  <2>. DEFINE X == {me}
  <2>1. \A t \in X : t \notin Workers /\ Account(t)'
    BY <1>1, <1>10
  <2>2. \A t \in Tid \ X : /\ Wakers(t)' \subseteq Wakers(t)
                           /\ \A k : Said(boxes, k, t)' \subseteq Said(boxes, k, t)
    BY DEF Starts0
  <2>3. \A t \in Tid \ (X \cup {me}) : /\ task'[t].blocked = task[t].blocked
                                       /\ task'[t].ret = task[t].ret
    OBVIOUS
  <2>4. me \in X
    OBVIOUS
  <2>5. me \in Tid /\ th[me].pc # "dead"
    BY <1>1
  <2>. HIDE DEF X
  <2>. QED BY <1>3, <2>1, <2>2, <2>3, <2>4, <2>5, AccountsMoved
<1>. QED BY <1>9, <1>11 DEF WInv

\* What becomes of the boxes when a message is sent or taken.
LEMMA BoxesNext ==
    ASSUME NEW f \in Queuing, f[None] = mq', \A d \in CPU : f[d] = wk'[d].inbox
    PROVE  boxes' = f
<1>1. \A x \in Place : Box(x)' = f[x]
  BY SchedAssumption DEF Box, Place, SchedAssumption
<1>. QED BY <1>1 DEF boxes, Queuing

LEMMA MailsStay ==
    ASSUME IInv, WInv, NEW me, NEW r, Paces(me, r), UNCHANGED mq,
           \A d \in CPU : wk'[d].inbox = wk[d].inbox
    PROVE  Mails' /\ \A k, t : Said(boxes, k, t)' = Said(boxes, k, t)
<1>1. boxes' = boxes
  BY BoxesStay
<1>. DEFINE f == boxes
<1>2. f \in Queuing /\ boxes' = f /\ Ordered(f)
  BY <1>1, BoxesAre DEF WInv, Mails
<1>3. \A x \in Place : \A i \in DOMAIN f[x] :
         \E y \in Place : \E j \in DOMAIN boxes[y] : f[x][i] = boxes[y][j]
  OBVIOUS
<1>4. \A k, t : Said(boxes, k, t)' = Said(f, k, t)
  BY <1>1, SaidNext
<1>5. Mails'
  BY <1>2, <1>3, MailsNext
<1>. QED BY <1>4, <1>5

\* A message is sent: nothing like it is on its way.
LEMMA MailsPosted ==
    ASSUME IInv, WInv, NEW me, NEW r, Paces(me, r), NEW m \in Message, Fit(m)',
           mq' = Append(mq, m), \A d \in CPU : wk'[d].inbox = wk[d].inbox,
           Said(boxes, m.kind, Wakee(m)) = {},
           m.kind = Answer => Said(boxes, "Unblock", Wakee(m)) = {}
    PROVE  /\ Mails' /\ \A k, t : Said(boxes, k, t)' \subseteq Said(boxes, k, t) \cup {What(m)}
           /\ \A k, t : k # m.kind \/ t # Wakee(m) => Said(boxes, k, t)' \subseteq Said(boxes, k, t)
<1>0. PICK b, f : b = boxes /\ f = Posting(b, m)
  OBVIOUS
<1>1. /\ b \in Queuing /\ None \in Place /\ b[None] = mq
      /\ \A c \in CPU : c \in Place /\ c # None /\ b[c] = wk[c].inbox
  BY <1>0, BoxesAre, SchedAssumption DEF SchedAssumption
<1>2. Ordered(b)
  BY <1>0 DEF WInv, Mails
<1>3. f \in Queuing /\ Adds(b, f, m)
  <2>1. Said(b, m.kind, Wakee(m)) = {} /\ (m.kind = Answer => Said(b, "Unblock", Wakee(m)) = {})
    BY <1>0
  <2>. QED BY <1>0, <1>1, <1>2, <2>1, MessageAdded
<1>4. f[None] = mq' /\ \A d \in CPU : f[d] = wk'[d].inbox
  BY <1>0, <1>1 DEF Posting, Queuing
<1>5. boxes' = f
  BY <1>3, <1>4, BoxesNext
<1>6. \A k, t : Said(boxes, k, t)' = Said(f, k, t)
  BY <1>5, SaidNext
<1>7. Mails'
  <2>1. Ordered(f)
    BY <1>3 DEF Adds
  <2>2. \A x \in Place : \A i \in DOMAIN f[x] :
          \/ Fit(f[x][i])'
          \/ \E y \in Place : \E j \in DOMAIN boxes[y] : f[x][i] = boxes[y][j]
    <3>1. ASSUME NEW x \in Place, NEW i \in DOMAIN f[x],
                 ~\E y \in Place : \E j \in DOMAIN boxes[y] : f[x][i] = boxes[y][j]
          PROVE  Fit(f[x][i])'
      <4>1. f[x][i] = m
        BY <1>0, <1>3, <3>1 DEF Adds
      <4>2. \A n : n = m => Fit(n)'
        OBVIOUS
      <4>. QED BY <4>1, <4>2
    <3>. QED BY <3>1
  <2>. QED BY <1>3, <1>5, <2>1, <2>2, MailsNext
<1>. QED BY <1>0, <1>3, <1>6, <1>7 DEF Adds

\* A worker takes its first message.
LEMMA BoxesPopped ==
    ASSUME IInv, WInv, NEW c \in CPU, wk[c].inbox # <<>>, NEW p, p = Popping(boxes, c)
    PROVE  /\ p \in Queuing /\ Flown(boxes, p) /\ p[None] = mq /\ p[c] = Tail(wk[c].inbox)
           /\ \A d \in CPU \ {c} : p[d] = wk[d].inbox
           /\ \A m : m = Head(wk[c].inbox) => Said(p, m.kind, Wakee(m)) = {}
<1>. DEFINE b == boxes
<1>1. /\ b \in Queuing /\ None \in Place /\ b[None] = mq /\ c # None
      /\ \A d \in CPU : d \in Place /\ d # None /\ b[d] = wk[d].inbox
  BY BoxesAre, SchedAssumption DEF SchedAssumption
<1>2. Ordered(b) /\ Straight(b)
  BY GoStraight
<1>3. p = Popping(b, c)
  OBVIOUS
<1>. HIDE DEF b
<1>4. p[None] = mq /\ p[c] = Tail(wk[c].inbox) /\ \A d \in CPU \ {c} : p[d] = wk[d].inbox
  BY <1>1, <1>3 DEF Popping, Queuing
<1>5. ASSUME NEW m, m = Head(wk[c].inbox)
      PROVE  p \in Queuing /\ Flown(b, p) /\ Said(p, m.kind, Wakee(m)) = {}
  <2>1. b \in Queuing /\ b[c] # <<>> /\ m = Head(b[c])
    BY <1>1, <1>5
  <2>. QED BY <1>2, <1>3, <2>1, MessagePops
<1>. QED BY <1>4, <1>5 DEF b

LEMMA MailsPopped ==
    ASSUME IInv, WInv, NEW me, NEW r, Paces(me, r), UNCHANGED mq, NEW c \in CPU,
           wk[c].inbox # <<>>, wk'[c].inbox = Tail(wk[c].inbox),
           \A d \in CPU \ {c} : wk'[d].inbox = wk[d].inbox, NEW m, m = Head(wk[c].inbox)
    PROVE  /\ Mails' /\ \A k, t : Said(boxes, k, t)' \subseteq Said(boxes, k, t)
           /\ Said(boxes, m.kind, Wakee(m))' = {}
<1>0. PICK f : f = Popping(boxes, c)
  OBVIOUS
<1>3. /\ f \in Queuing /\ Flown(boxes, f) /\ f[None] = mq /\ f[c] = Tail(wk[c].inbox)
      /\ \A d \in CPU \ {c} : f[d] = wk[d].inbox
      /\ \A n : n = Head(wk[c].inbox) => Said(f, n.kind, Wakee(n)) = {}
  BY <1>0, BoxesPopped
<1>4. f[None] = mq' /\ \A d \in CPU : f[d] = wk'[d].inbox
  BY <1>3
<1>5. boxes' = f
  BY <1>3, <1>4, BoxesNext
<1>6. \A k, t : Said(boxes, k, t)' = Said(f, k, t)
  BY <1>5, SaidNext
<1>7. Mails'
  <2>1. Ordered(f)
    BY <1>3 DEF Flown
  <2>2. \A x \in Place : \A i \in DOMAIN f[x] :
          \E y \in Place : \E j \in DOMAIN boxes[y] : f[x][i] = boxes[y][j]
    BY <1>0, <1>3 DEF Flown
  <2>. QED BY <1>3, <1>5, <2>1, <2>2, MailsNext
<1>. QED BY <1>0, <1>3, <1>6, <1>7 DEF Flown

\* The first message of a worker.
LEMMA FirstMessage ==
    ASSUME IInv, WInv, NEW c \in CPU, wk[c].inbox # <<>>, NEW m, m = Head(wk[c].inbox)
    PROVE  /\ m \in Message /\ Fit(m) /\ m.dest = c /\ wk[c].inbox \in Seq(Message)
           /\ What(m) \in Said(boxes, m.kind, Wakee(m))
           /\ m.kind = "Unblock" => Said(boxes, Answer, Wakee(m)) = {}
<1>. DEFINE b == boxes
<1>1. /\ b \in Queuing /\ c \in Place /\ b[c] = wk[c].inbox /\ c # None
      /\ \A x \in Place : b[x] = Box(x)
  BY BoxesAre, SchedAssumption DEF SchedAssumption
<1>2. Ordered(b)
  BY GoStraight
<1>3. m = b[c][1] /\ 1 \in DOMAIN b[c] /\ m \in Message
  <2>1. b[c] \in Seq(Message)
    BY <1>1 DEF Queuing
  <2>. QED BY <1>1, <2>1, HeadTailProperties
<1>. HIDE DEF b
<1>4. Fit(m)
  BY <1>1, <1>3 DEF WInv, Mails
<1>5. m.dest = c
  BY <1>1, <1>2, <1>3 DEF Ordered
<1>6. What(m) \in Said(b, m.kind, Wakee(m))
  BY <1>1, <1>3, SaidIs
<1>7. ASSUME m.kind = "Unblock" PROVE Said(b, Answer, Wakee(m)) = {}
  <2>1. ASSUME NEW x \in Place, NEW i \in DOMAIN b[x],
               b[x][i].kind = Answer, Wakee(b[x][i]) = Wakee(m)
        PROVE  FALSE
    <3>1. Later(c, 1, x, i)
      BY <1>1, <1>2, <1>3, <1>7, <2>1 DEF Ordered
    <3>2. x = c /\ 1 > i
      BY <1>1, <3>1 DEF Later
    <3>3. i \in Nat /\ i >= 1
      BY <1>1, <2>1 DEF Queuing
    <3>. QED BY <3>2, <3>3
  <2>. QED BY <2>1, SaidNothing
<1>. QED BY <1>1, <1>3, <1>4, <1>5, <1>6, <1>7 DEF b, Queuing

\* A worker takes its first message, m, and sends another, n.
LEMMA MailsPassed ==
    ASSUME IInv, WInv, NEW me, NEW r, Paces(me, r), NEW c \in CPU,
           wk[c].inbox # <<>>, wk'[c].inbox = Tail(wk[c].inbox),
           \A d \in CPU \ {c} : wk'[d].inbox = wk[d].inbox, NEW m, m = Head(wk[c].inbox),
           NEW n \in Message, Fit(n)', mq' = Append(mq, n),
           Said(boxes, n.kind, Wakee(n)) = {},
           n.kind = Answer => Said(boxes, "Unblock", Wakee(n)) = {}
    PROVE  /\ Mails' /\ \A k, t : Said(boxes, k, t)' \subseteq Said(boxes, k, t) \cup {What(n)}
           /\ \A k, t : k # n.kind \/ t # Wakee(n) => Said(boxes, k, t)' \subseteq Said(boxes, k, t)
           /\ m.kind # n.kind => Said(boxes, m.kind, Wakee(m))' = {}
<1>0. PICK p, f : p = Popping(boxes, c) /\ f = Posting(p, n)
  OBVIOUS
<1>3. /\ p \in Queuing /\ Flown(boxes, p) /\ p[None] = mq /\ p[c] = Tail(wk[c].inbox)
      /\ \A d \in CPU \ {c} : p[d] = wk[d].inbox
      /\ \A k : k = Head(wk[c].inbox) => Said(p, k.kind, Wakee(k)) = {}
  BY <1>0, BoxesPopped
<1>1. c # None /\ None \in Place /\ \A d \in CPU : d \in Place /\ d # None
  BY SchedAssumption DEF SchedAssumption, Place
<1>4. p[None] = mq /\ \A d \in CPU : p[d] = wk'[d].inbox
  BY <1>3
<1>5. f \in Queuing /\ Adds(p, f, n)
  <2>1. Ordered(p)
    BY <1>3 DEF Flown
  <2>2. Said(p, n.kind, Wakee(n)) = {} /\ (n.kind = Answer => Said(p, "Unblock", Wakee(n)) = {})
    BY <1>0, <1>3 DEF Flown
  <2>. QED BY <1>0, <1>3, <2>1, <2>2, MessageAdded
<1>6. f[None] = mq' /\ \A d \in CPU : f[d] = wk'[d].inbox
  BY <1>0, <1>1, <1>3, <1>4 DEF Posting, Queuing
<1>7. boxes' = f
  BY <1>5, <1>6, BoxesNext
<1>8. \A k, t : Said(boxes, k, t)' = Said(f, k, t)
  BY <1>7, SaidNext
<1>9. Mails'
  <2>1. Ordered(f)
    BY <1>5 DEF Adds
  <2>2. \A x \in Place : \A i \in DOMAIN f[x] :
          \/ Fit(f[x][i])'
          \/ \E y \in Place : \E j \in DOMAIN boxes[y] : f[x][i] = boxes[y][j]
    <3>1. ASSUME NEW x \in Place, NEW i \in DOMAIN f[x],
                 ~\E y \in Place : \E j \in DOMAIN boxes[y] : f[x][i] = boxes[y][j]
          PROVE  Fit(f[x][i])'
      <4>1. f[x][i] = n
        <5>1. ~\E y \in Place : \E j \in DOMAIN p[y] : f[x][i] = p[y][j]
          BY <1>0, <1>3, <3>1 DEF Flown
        <5>. QED BY <1>5, <3>1, <5>1 DEF Adds
      <4>2. \A k : k = n => Fit(k)'
        OBVIOUS
      <4>. QED BY <4>1, <4>2
    <3>. QED BY <3>1
  <2>. QED BY <1>5, <1>7, <2>1, <2>2, MailsNext
<1>10. \A k, t : Said(p, k, t) \subseteq Said(boxes, k, t)
  BY <1>0, <1>3 DEF Flown
<1>11. m.kind # n.kind => Said(f, m.kind, Wakee(m)) = {}
  <2>1. m.kind # n.kind => Said(f, m.kind, Wakee(m)) \subseteq Said(p, m.kind, Wakee(m))
    BY <1>5 DEF Adds
  <2>. QED BY <1>3, <2>1
<1>12. \A k, t : Said(f, k, t) \subseteq Said(p, k, t) \cup {What(n)}
  BY <1>5 DEF Adds
<1>13. \A k, t : k # n.kind \/ t # Wakee(n) => Said(f, k, t) \subseteq Said(p, k, t)
  BY <1>5 DEF Adds
<1>14. \A k, t : Said(f, k, t) \subseteq Said(boxes, k, t) \cup {What(n)}
  BY <1>10, <1>12
<1>15. \A k, t : k # n.kind \/ t # Wakee(n) => Said(f, k, t) \subseteq Said(boxes, k, t)
  BY <1>10, <1>13
<1>. QED BY <1>8, <1>9, <1>11, <1>14, <1>15

-----------------------------------------------------------------------------
(* Calls that block                                                        *)

\* At most the unblock p of the task x has come to be.
Gains(x, p) == \A t :
    /\ t \in Range(waiters') => t \in Range(waiters) \/ (t = x /\ p = InQueue)
    /\ t \in Range(ioq') => t \in Range(ioq) \/ (t = x /\ p = InIo)
    /\ \A u \in Tid : t \in Range(task'[u].joiners) =>
                        t \in Range(task[u].joiners) \/ (t = x /\ p = InList(u))
    /\ \A d \in CPU : t \in Range(wk'[d].todo) => t \in Range(wk[d].todo) \/ (t = x /\ p = InTodo(d))
    /\ \A v \in Tid : Unblocks(th'[v], t) => Unblocks(th[v], t) \/ (t = x /\ p = InHand(v))
    /\ \A k \in Kinds : Said(boxes, k, t)' # {} => Said(boxes, k, t) # {} \/ (t = x /\ p = InMail(k))

LEMMA GainsOne ==
    ASSUME NEW x, NEW p, Gains(x, p)
    PROVE  /\ Wakers(x)' \subseteq Wakers(x) \cup {p}
           /\ \A t : t # x => Wakers(t)' \subseteq Wakers(t)
<1>1. ASSUME NEW t, NEW G, t = x => p \in G PROVE Wakers(t)' \subseteq Wakers(t) \cup G
  <2>1. /\ t \in Range(waiters') => t \in Range(waiters) \/ InQueue \in G
        /\ t \in Range(ioq') => t \in Range(ioq) \/ InIo \in G
        /\ \A u \in Tid : t \in Range(task'[u].joiners) => t \in Range(task[u].joiners) \/ InList(u) \in G
        /\ \A d \in CPU : t \in Range(wk'[d].todo) => t \in Range(wk[d].todo) \/ InTodo(d) \in G
        /\ \A v \in Tid : Unblocks(th'[v], t) => Unblocks(th[v], t) \/ InHand(v) \in G
        /\ \A k \in Kinds : Said(boxes, k, t)' # {} => Said(boxes, k, t) # {} \/ InMail(k) \in G
    <3>1. \A q : (t = x /\ p = q) => q \in G
      BY <1>1
    <3>2. /\ t \in Range(waiters') => t \in Range(waiters) \/ (t = x /\ p = InQueue)
          /\ t \in Range(ioq') => t \in Range(ioq) \/ (t = x /\ p = InIo)
          /\ \A u \in Tid : t \in Range(task'[u].joiners) =>
                              t \in Range(task[u].joiners) \/ (t = x /\ p = InList(u))
          /\ \A d \in CPU : t \in Range(wk'[d].todo) =>
                              t \in Range(wk[d].todo) \/ (t = x /\ p = InTodo(d))
          /\ \A v \in Tid : Unblocks(th'[v], t) => Unblocks(th[v], t) \/ (t = x /\ p = InHand(v))
          /\ \A k \in Kinds : Said(boxes, k, t)' # {} =>
                              Said(boxes, k, t) # {} \/ (t = x /\ p = InMail(k))
      BY Zenon DEF Gains
    <3>. QED BY <3>1, <3>2
  <2>. QED BY <2>1, WakersMove
<1>2. Wakers(x)' \subseteq Wakers(x) \cup {p}
  BY <1>1
<1>3. ASSUME NEW t, t # x PROVE Wakers(t)' \subseteq Wakers(t)
  <2>1. Wakers(t)' \subseteq Wakers(t) \cup {}
    BY <1>1, <1>3
  <2>. QED BY <2>1
<1>. QED BY <1>2, <1>3

\* The thread me goes on and takes nobody to unblock in its hands.
LEMMA HandsFree ==
    ASSUME IInv, NEW me \in Tid, NEW r, th' = [th EXCEPT ![me] = r], r.pc \notin {"ub_map", "ub_cpu"}
    PROVE  \A v \in Tid : \A t : Unblocks(th'[v], t) => Unblocks(th[v], t) /\ v # me
  BY DEF Unblocks, IInv, Threads

LEMMA WaitWakes ==
    ASSUME IInv, WInv, NEW c \in CPU, Wait(c) \/ Io(c)
    PROVE  WInv'
<1>. SUFFICES ASSUME NEW me, me = T(c) PROVE WInv'
  OBVIOUS
<1>1. PICK p, g :
      /\ UNCHANGED <<task, pool, rq, curr, tid_cpu, next_tid, known, mq, wk>>
      /\ th[me].pc = "run"
      /\ \E ie : Enter(c, "blk_add", ie, g, 0)
      /\ \/ g = "wait_ret" /\ p = InQueue /\ waiters' = Append(waiters, me) /\ ioq' = ioq
         \/ g = "ret" /\ p = InIo /\ ioq' = Append(ioq, me) /\ waiters' = waiters
  <2>1. CASE Wait(c)
    <3>1. /\ UNCHANGED <<task, pool, rq, curr, tid_cpu, next_tid, known, mq, wk>>
          /\ th[me].pc = "run" /\ waiters' = Append(waiters, me) /\ ioq' = ioq
          /\ Enter(c, "blk_add", Guarded(c), "wait_ret", 0)
      BY <2>1 DEF Wait, shared, ids, Calling, At
    <3>. QED BY <3>1
  <2>2. CASE Io(c)
    <3>1. /\ UNCHANGED <<task, pool, rq, curr, tid_cpu, next_tid, known, mq, wk>>
          /\ th[me].pc = "run" /\ ioq' = Append(ioq, me) /\ waiters' = waiters
          /\ Enter(c, "blk_add", TRUE, "ret", 0)
      BY <2>2 DEF Io, shared, ids, Calling, At
    <3>. QED BY <3>1
  <2>. QED BY <2>1, <2>2
<1>2. me \notin Workers /\ me \in Tid
  BY <1>1, InCall, Here DEF CallPcs, Backs
<1>3. PICK r : Sets(me, r, "blk_add", g, 0, th[me].arg)
  BY <1>1, EntersAt
<1>4. Wakers(me) = {}
  BY <1>1, <1>2, Resting DEF Blk
<1>5. me \notin Range(waiters) /\ me \notin Range(ioq)
  BY <1>4, Spotted
<1>6. waiters \in Seq(Tid) /\ ioq \in Seq(Tid) /\ IsInjective(waiters) /\ IsInjective(ioq)
  BY DEF IInv, Lists, WInv, Rows
<1>7. /\ IsInjective(waiters') /\ IsInjective(ioq')
      /\ \A t : t \in Range(waiters') => t \in Range(waiters) \/ (t = me /\ p = InQueue)
      /\ \A t : t \in Range(ioq') => t \in Range(ioq) \/ (t = me /\ p = InIo)
  <2>1. CASE p = InQueue /\ waiters' = Append(waiters, me) /\ ioq' = ioq
    BY <1>2, <1>5, <1>6, <2>1, ListGrows
  <2>2. CASE p = InIo /\ ioq' = Append(ioq, me) /\ waiters' = waiters
    BY <1>2, <1>5, <1>6, <2>2, ListGrows
  <2>. QED BY <1>1, <2>1, <2>2
<1>8. Rows'
  BY <1>1, <1>7 DEF WInv, Rows
<1>9. Paces(me, r)
  BY <1>1, <1>3 DEF Paces, Sets
<1>10. Mails' /\ \A k, t : Said(boxes, k, t)' = Said(boxes, k, t)
  BY <1>1, <1>9, MailsStay
<1>11. \A v \in Tid : \A t : Unblocks(th'[v], t) => Unblocks(th[v], t)
  BY <1>2, <1>3, HandsFree DEF Sets
<1>12. Gains(me, p)
  BY <1>1, <1>7, <1>10, <1>11 DEF Gains
<1>13. Starts0(me, p, g, 0)
  <2>1. /\ Wakers(me)' \subseteq Wakers(me) \cup {p}
        /\ \A t : t # me => Wakers(t)' \subseteq Wakers(t)
    BY <1>12, GainsOne
  <2>. QED BY <1>1, <1>10, <2>1 DEF Starts0
<1>. QED BY <1>1, <1>3, <1>8, <1>10, <1>13, BlockStarts DEF Sets

LEMMA JoinLocalWakes ==
    ASSUME IInv, WInv, NEW c \in CPU, JoinLocal(c)
    PROVE  WInv'
<1>. SUFFICES ASSUME NEW me, me = T(c), NEW t, t = th[me].obj PROVE WInv'
  OBVIOUS
<1>1. /\ UNCHANGED <<pool, rq, curr, tid_cpu, next_tid, known, mq, wk, waiters, ioq>>
      /\ th[me].pc = "join_pool"
      /\ \/ t \in pool[c] /\ task' = [task EXCEPT ![t].joiners = Append(@, me)] /\ Goto(c, "blk_add")
         \/ t \notin pool[c] /\ task' = task /\ Goto(c, "join_ask")
  BY DEF JoinLocal, shared, ids, calls, At
<1>2. me \notin Workers /\ me \in Tid /\ task \in [Tid -> TaskType] /\ tid_cpu[me] = c
  <2>1. me \notin Workers
    BY <1>1, InCall DEF CallPcs, Backs
  <2>. QED BY <2>1, Here, Resting DEF IInv, Tasks
<1>3. Track(me)
  BY <1>2 DEF WInv, Body
<1>4. t \in Tid /\ t \in known /\ th[me].back = "joined" /\ th[me].arg = c
  BY <1>1, <1>2, <1>3, NumbersSettled DEF Track, Awaits, Goal, Blk
<1>5. CASE t \notin pool[c] /\ task' = task /\ Goto(c, "join_ask")
  <2>1. PICK r : Sets(me, r, "join_ask", "joined", t, c)
    BY <1>4, <1>5, GoesTo
  <2>2. Locals(me, r) /\ Unhands(me, r)
    BY <1>1, <1>5, <2>1 DEF Locals, Unhands, Sets
  <2>3. Track(me)'
    BY <1>1, <1>4, <1>5, <2>1 DEF Sets, Track, Awaits, Goal, Blk, WakePcs, MakePcs
  <2>. QED BY <1>1, <1>2, <1>5, <2>1, <2>2, <2>3, ClientLocally DEF Sets, Blk
<1>6. CASE task' = [task EXCEPT ![t].joiners = Append(@, me)] /\ Goto(c, "blk_add")
  <2>1. PICK r : Sets(me, r, "blk_add", "joined", t, c)
    BY <1>4, <1>6, GoesTo
  <2>. DEFINE j == task[t].joiners
  <2>2. /\ task'[t].joiners = Append(j, me)
        /\ \A u \in Tid : /\ u # t => task'[u].joiners = task[u].joiners
                          /\ task'[u].blocked = task[u].blocked /\ task'[u].ret = task[u].ret
                          /\ task'[u].state = task[u].state
    BY <1>2, <1>4, <1>6 DEF TaskType
  <2>3. Wakers(me) = {}
    BY <1>1, <1>2, Resting DEF Blk
  <2>4. me \notin Range(j) /\ j \in Seq(Tid) /\ IsInjective(j)
    <3>1. me \notin Range(j)
      BY <1>4, <2>3, Spotted
    <3>2. j \in Seq(Tid)
      BY <1>2, <1>4 DEF TaskType
    <3>. QED BY <1>4, <3>1, <3>2 DEF WInv, Rows
  <2>5. /\ IsInjective(Append(j, me))
        /\ \A v : v \in Range(Append(j, me)) => v \in Range(j) \/ v = me
    BY <1>2, <2>4, ListGrows
  <2>6. Rows'
    <3>1. \A u \in Tid : IsInjective(task'[u].joiners)
      BY <2>2, <2>5 DEF WInv, Rows
    <3>. QED BY <1>1, <3>1 DEF WInv, Rows
  <2>7. Paces(me, r)
    BY <1>1, <2>1 DEF Paces, Sets
  <2>8. Mails' /\ \A k, v : Said(boxes, k, v)' = Said(boxes, k, v)
    BY <1>1, <2>7, MailsStay
  <2>9. \A v \in Tid : \A x : Unblocks(th'[v], x) => Unblocks(th[v], x)
    BY <1>2, <2>1, HandsFree DEF Sets
  <2>10. \A x : \A u \in Tid : x \in Range(task'[u].joiners) =>
                  x \in Range(task[u].joiners) \/ (x = me /\ InList(t) = InList(u))
    BY <2>2, <2>5
  <2>11. Gains(me, InList(t))
    BY <1>1, <2>8, <2>9, <2>10 DEF Gains
  <2>12. Starts0(me, InList(t), "joined", t)
    <3>1. /\ Wakers(me)' \subseteq Wakers(me) \cup {InList(t)}
          /\ \A v : v # me => Wakers(v)' \subseteq Wakers(v)
      BY <2>11, GainsOne
    <3>. QED BY <1>4, <2>8, <3>1 DEF Starts0
  <2>13. Starts0(me, InList(t), r.back, r.obj)
    BY <2>1, <2>12 DEF Sets
  <2>14. /\ th' = [th EXCEPT ![me] = r] /\ UNCHANGED <<pool, rq, curr, tid_cpu, next_tid, known, wk>>
         /\ \A u \in Tid : /\ task'[u].blocked = task[u].blocked /\ task'[u].ret = task[u].ret
                           /\ task'[u].state = task[u].state
         /\ th[me].pc \in {"run", "join_pool", "join_ask"} /\ r.pc = "blk_add"
    BY <1>1, <2>1, <2>2 DEF Sets
  <2>. QED BY <2>6, <2>8, <2>13, <2>14, BlockStarts
<1>. QED BY <1>1, <1>5, <1>6

\* A client asks another CPU's worker and blocks.
LEMMA AsksAndBlocks ==
    ASSUME IInv, WInv, NEW c \in CPU, NEW me, me = T(c), th[me].pc \in {"run", "join_ask"},
           NEW g, NEW u, NEW arg, NEW r, Sets(me, r, "blk_add", g, u, arg),
           UNCHANGED <<task, pool, rq, curr, tid_cpu, next_tid, known, wk, waiters, ioq>>,
           NEW m \in Message, Fit(m), Wakee(m) = me, mq' = Append(mq, m),
           \/ g = "spawn_ret" /\ m.kind = "CreateTask" /\ u <= next_tid
           \/ g = "join_ans" /\ m.kind = "AddJoiner" /\ What(m) = u /\ u \in Tid /\ u \in known
    PROVE  WInv'
<1>1. me \notin Workers /\ me \in Tid /\ m.kind \in {"CreateTask", "AddJoiner"}
  BY InCall, Here DEF CallPcs, Backs
<1>2. Wakers(me) = {}
  BY <1>1, Resting DEF Blk
<1>3. Paces(me, r)
  BY DEF Paces, Sets
<1>4. Fit(m)'
  BY <1>3, PacesTreads, FitKept
<1>5. Said(boxes, m.kind, me) = {} /\ m.kind # Answer
  BY <1>1, <1>2, Spotted DEF Kinds, Answer
<1>6. /\ Mails' /\ \A k, t : Said(boxes, k, t)' \subseteq Said(boxes, k, t) \cup {What(m)}
      /\ \A k, t : k # m.kind \/ t # me => Said(boxes, k, t)' \subseteq Said(boxes, k, t)
  BY <1>3, <1>4, <1>5, MailsPosted
<1>7. \A v \in Tid : \A t : Unblocks(th'[v], t) => Unblocks(th[v], t)
  BY <1>1, HandsFree DEF Sets
<1>. DEFINE p == InMail(m.kind)
<1>8. \A t : \A k \in Kinds : Said(boxes, k, t)' # {} =>
                Said(boxes, k, t) # {} \/ (t = me /\ p = InMail(k))
  BY <1>6
<1>9. Gains(me, p)
  <2>. HIDE DEF p
  <2>. QED BY <1>7, <1>8 DEF Gains
<1>10. /\ Wakers(me)' \subseteq Wakers(me) \cup {p}
       /\ \A t : t # me => Wakers(t)' \subseteq Wakers(t)
  <2>. HIDE DEF p
  <2>. QED BY <1>9, GainsOne
<1>11. g = "join_ans" => Said(boxes, "AddJoiner", me)' \subseteq {u}
  BY <1>5, <1>6
<1>12. Starts0(me, p, g, u)
  <2>1. \A t \in Tid \ {me} : \A k : Said(boxes, k, t)' \subseteq Said(boxes, k, t)
    BY <1>6
  <2>. QED BY <1>10, <1>11, <2>1 DEF Starts0
<1>13. Rows'
  BY DEF WInv, Rows
<1>. HIDE DEF p
<1>. QED BY <1>6, <1>12, <1>13, BlockStarts DEF Sets

LEMMA JoinAskWakes ==
    ASSUME IInv, WInv, NEW c \in CPU, JoinAsk(c)
    PROVE  WInv'
<1>. SUFFICES ASSUME NEW me, me = T(c), NEW s, s = th[me] PROVE WInv'
  OBVIOUS
<1>. DEFINE m == Ipm(s.arg, "AddJoiner", s.obj, c, me)
<1>1. /\ UNCHANGED <<task, pool, rq, curr, tid_cpu, next_tid, known, wk, waiters, ioq>>
      /\ s.pc = "join_ask" /\ mq' = Append(mq, m) /\ Block(c, "join_ans")
  BY DEF JoinAsk, Send, shared, ids, calls, At
<1>2. /\ me \notin Workers /\ me \in Tid /\ tid_cpu[me] = c
      /\ th \in [Tid -> ThreadType] /\ s \in ThreadType
  <2>1. me \notin Workers
    BY <1>1, InCall DEF CallPcs, Backs
  <2>. QED BY <2>1, Here, Resting DEF IInv, Threads
<1>3. Track(me)
  BY <1>2 DEF WInv, Body
<1>4. /\ s.obj \in Tid /\ s.obj \in known /\ s.arg \in CPU
      /\ ~(s.arg = tid_cpu[me] /\ s.obj \in pool[s.arg])
  BY <1>1, <1>3, NumbersSettled DEF Track, Awaits, Goal, Blk
<1>5. PICK r : Sets(me, r, "blk_add", "join_ans", s.obj, s.arg)
  <2>. DEFINE r == [s EXCEPT !.pc = "blk_add", !.ie = TRUE, !.back = "join_ans"]
  <2>1. th' = [th EXCEPT ![me] = r]
    BY <1>1, <1>2 DEF Block, ThreadType
  <2>2. r.pc = "blk_add" /\ r.back = "join_ans" /\ r.obj = s.obj /\ r.arg = s.arg
    BY <1>2 DEF ThreadType
  <2>. HIDE DEF r
  <2>3. th'[me] = r
    BY <1>2, <2>1
  <2>. QED BY <2>1, <2>2, <2>3 DEF Sets
<1>6. /\ m \in Message /\ m.kind = "AddJoiner" /\ Wakee(m) = me /\ What(m) = s.obj
      /\ m.from = c /\ m.dest = s.arg /\ m.tid = s.obj /\ m.val = me
  BY <1>2, <1>4 DEF Ipm, Message, Wakee, What, Place
<1>. HIDE DEF m
<1>7. Fit(m)
  BY <1>2, <1>4, <1>6 DEF Fit, Kinds, Answer
<1>. QED BY <1>1, <1>4, <1>5, <1>6, <1>7, AsksAndBlocks

LEMMA SpawnThereWakes ==
    ASSUME IInv, WInv, NEW c \in CPU, NEW d \in CPU, d # c, Spawn(c, d)
    PROVE  WInv'
<1>. SUFFICES ASSUME NEW me, me = T(c) PROVE WInv'
  OBVIOUS
<1>. DEFINE m == Ipm(d, "CreateTask", me, c, 0)
<1>1. /\ UNCHANGED <<task, pool, rq, curr, tid_cpu, next_tid, known, wk, waiters, ioq>>
      /\ th[me].pc = "run" /\ mq' = Append(mq, m)
      /\ Enter(c, "blk_add", TRUE, "spawn_ret", next_tid)
  BY DEF Spawn, Send, Calling, shared, ids, calls, At
<1>2. me \notin Workers /\ me \in Tid /\ tid_cpu[me] = c
  <2>1. me \notin Workers
    BY <1>1, InCall DEF CallPcs, Backs
  <2>. QED BY <2>1, Here, Resting
<1>3. PICK r : Sets(me, r, "blk_add", "spawn_ret", next_tid, th[me].arg)
  BY <1>1, EntersAt
<1>4. m \in Message /\ m.kind = "CreateTask" /\ Wakee(m) = me /\ m.from = c
  BY <1>2 DEF Ipm, Message, Wakee, Place
<1>. HIDE DEF m
<1>5. Fit(m)
  BY <1>2, <1>4 DEF Fit, Kinds, Answer
<1>6. next_tid <= next_tid
  BY NumbersSettled
<1>. QED BY <1>1, <1>3, <1>4, <1>5, <1>6, AsksAndBlocks

-----------------------------------------------------------------------------
(* Unblocks that go on their way                                           *)

\* The thread me goes on and takes x to unblock in its hands.
LEMMA HandsOne ==
    ASSUME IInv, NEW me \in Tid, NEW r, th' = [th EXCEPT ![me] = r], NEW x, r.obj = x
    PROVE  \A v \in Tid : \A t :
              Unblocks(th'[v], t) => Unblocks(th[v], t) \/ (t = x /\ InHand(me) = InHand(v))
  BY DEF Unblocks, IInv, Threads

\* Whoever helps another is in no call that blocks, before and after.
LEMMA OwnerOn ==
    ASSUME IInv, WInv, NEW c \in CPU, NEW me, me = T(c), NEW r, Paces(me, r),
           task'[me].blocked = task[me].blocked, task'[me].state = task[me].state,
           task'[me].ret = task[me].ret,
           th[me].pc \notin Blk \cup {"spawn_ret", "join_ans", "slp_int"},
           r.pc \notin Blk \cup {"dead", "ub_ready", "ub_add", "cr_add"},
           Hand(me)', me \notin Workers => Track(me)'
    PROVE  Owner(me, r)
<1>1. /\ me \in Tid /\ th'[me] = r /\ th \in [Tid -> ThreadType] /\ curr[c] = me
      /\ \A t \in Tid \ {me} : th'[t] = th[t]
  <2>1. me \in Tid /\ th \in [Tid -> ThreadType] /\ curr[c] = me
    BY Here DEF IInv, Threads, T
  <2>. QED BY <2>1 DEF Paces
<1>2. Nap(me) /\ Fate(me) /\ Sound(me, th[me])
  BY <1>1 DEF WInv, Body, IInv, Threads
<1>3. th[me].pc # "dead" /\ (me \notin Workers => ~Coming(me) /\ ~Readying(me) /\ task[me].blocked = 0)
  <2>1. CASE me \in Workers
    BY <1>2, <2>1 DEF Sound, WorkPcs, MakePcs, WakePcs
  <2>2. CASE me \notin Workers
    BY <2>2, Resting
  <2>. QED BY <2>1, <2>2
<1>4. task[me].state # "Sleeping"
  <2>1. th[me].pc # "slp_int" /\ curr[c] = me
    BY <1>1
  <2>. QED BY <1>2, <2>1 DEF Nap
<1>5. Nap(me)'
  BY <1>4 DEF Nap
<1>6. task'[me].state # "Migrating" /\ (task'[me].state = "Terminating" => r.pc = "dead")
  BY <1>2, <1>3 DEF Fate
<1>7. me \notin Workers => Parked(me)'
  <2>. SUFFICES ASSUME me \notin Workers PROVE ~Off(me)'
    BY DEF Parked
  <2>1. ~Coming(me)' /\ ~Readying(me)'
    BY <1>1, <1>3 DEF Coming, Readying
  <2>2. Due(me)' = 0
    BY <1>1, <1>3 DEF Due, Owed, Blk
  <2>. QED BY <1>1, <2>1, <2>2 DEF Off, Blk
<1>. QED BY <1>3, <1>5, <1>6, <1>7 DEF Owner

\* A thread helps the task x on, which has its account in order.
LEMMA HelperMoves ==
    ASSUME IInv, WInv, NEW c \in CPU, NEW me, me = T(c), NEW r, Paces(me, r), Thins,
           \A t \in Tid : task'[t].blocked = task[t].blocked /\ task'[t].state = task[t].state,
           th[me].pc \notin Blk \cup {"spawn_ret", "join_ans", "slp_int"},
           r.pc \notin Blk \cup {"joined", "spawn_ret", "join_ans", "dead", "ub_ready", "ub_add", "cr_add"},
           Hand(me)', me \notin Workers => Track(me)', \A d \in CPU : Desk(d)',
           Mails', Rows', NEW x \in Tid, Wakers(x) # {}, Account(x)',
           task'[x].ret = task[x].ret \/ task'[x].ret \in 0 .. (next_tid - 1),
           \A t \in Tid \ {x} : /\ Wakers(t)' \subseteq Wakers(t) /\ task'[t].ret = task[t].ret
                                /\ \A k : Said(boxes, k, t)' \subseteq Said(boxes, k, t)
    PROVE  WInv'
<1>1. me \in Tid /\ th'[me] = r
  BY Here DEF Paces, IInv, Threads
<1>2. x \notin Workers
  BY HasWaker
<1>3. me \notin Workers => Wakers(me) = {} /\ task[me].blocked = 0 /\ task[me].ret = 0
  BY Resting
<1>4. x # me
  BY <1>2, <1>3
<1>5. Spares(me)
  BY DEF Spares
<1>7. Owner(me, r)
  <2>1. r.pc \notin Blk \cup {"dead", "ub_ready", "ub_add", "cr_add"}
    OBVIOUS
  <2>2. task'[me].ret = task[me].ret
    BY <1>1, <1>4
  <2>. QED BY <1>1, <2>1, <2>2, OwnerOn
<1>8. Body'
  BY <1>5, <1>7, PacesTreads, BodyKept
<1>9. me \notin Workers => Account(me)'
  <2>. SUFFICES ASSUME me \notin Workers PROVE Account(me)'
    OBVIOUS
  <2>1. Wakers(me)' = {} /\ task'[me].blocked = 0 /\ task'[me].ret = 0
    BY <1>1, <1>3, <1>4
  <2>2. th'[me].pc \notin Blk \cup {"joined", "spawn_ret", "join_ans"}
    BY <1>1
  <2>. QED BY <1>1, <2>1, <2>2, AccountIdle
<1>10. Accounts'
  <2>. DEFINE X == {x}
  <2>1. \A t \in X : t \notin Workers /\ Account(t)'
    BY <1>2
  <2>2. \A t \in Tid \ X : /\ Wakers(t)' \subseteq Wakers(t)
                           /\ \A k : Said(boxes, k, t)' \subseteq Said(boxes, k, t)
    OBVIOUS
  <2>3. \A t \in Tid \ (X \cup {me}) : /\ task'[t].blocked = task[t].blocked
                                       /\ task'[t].ret = task[t].ret
    OBVIOUS
  <2>4. me \notin Workers \cup X => Account(me)'
    BY <1>9
  <2>5. th[me].pc # "dead"
    BY <1>7 DEF Owner
  <2>. HIDE DEF X
  <2>. QED BY <1>1, <2>1, <2>2, <2>3, <2>4, <2>5, AccountsMoved
<1>. QED BY <1>8, <1>10 DEF WInv

LEMMA AccountPassed ==
    ASSUME IInv, WInv, NEW me \in Tid, NEW r, Paces(me, r), th[me].pc # "dead",
           NEW x \in Tid, x # me, NEW p \in Wakers(x), NEW q, Passes(p, q, tid_cpu[x]),
           Wakers(x)' \subseteq Wakers(x) \cup {q}, p \notin Wakers(x)',
           task'[x].blocked = task[x].blocked, task'[x].ret = task[x].ret,
           Said(boxes, Answer, x)' \subseteq Said(boxes, Answer, x),
           Said(boxes, "AddJoiner", x)' \subseteq Said(boxes, "AddJoiner", x)
    PROVE  Account(x)'
<1>1. x \notin Workers /\ Account(x) /\ tid_cpu[x] \in CPU
  BY HasWaker
<1>2. th'[x] = th[x] /\ UNCHANGED tid_cpu /\ Steady
  BY PacesSteady DEF Paces, IInv, Threads
<1>. DEFINE g == Goal(th[x])
            a == Due(x)
            ret == task[x].ret
            u == th[x].obj
            K == Wakers(x)
            L == (K \ {p}) \cup {q}
            ans == Said(boxes, Answer, x)
            ask == Said(boxes, "AddJoiner", x)
            end == th[u].pc
            d == tid_cpu[x]
            home == tid_cpu[u]
<1>3. Ledger(g, a, ret, u, K, ans, ask, end, d, home)
  BY <1>1 DEF Account, Due, Answer
<1>4. d \in CPU /\ L \in SUBSET ((K \ {p}) \cup {q}) /\ Wakers(x)' \subseteq L
      /\ p \in K /\ Passes(p, q, d)
  BY <1>1
<1>5. /\ Due(x)' = a /\ task'[x].ret = ret /\ Goal(th'[x]) = g /\ th'[x].obj = u
      /\ Said(boxes, Answer, x)' \subseteq ans /\ Said(boxes, "AddJoiner", x)' \subseteq ask
  BY <1>2 DEF Due
<1>. HIDE DEF g, a, ret, u, K, L, ans, ask, end, d, home
<1>6. Ledger(g, a, ret, u, L, ans, ask, end, d, home)
  BY <1>3, <1>4, LedgerPasses
<1>7. Ledger(Goal(th[x]), a, ret, th[x].obj, L, ans, ask, th[th[x].obj].pc, tid_cpu[x], tid_cpu[th[x].obj])
  BY <1>6 DEF g, u, end, d, home
<1>8. x \in Tid \ Workers /\ Goal(th'[x]) = Goal(th[x]) /\ th'[x].obj = th[x].obj
  BY <1>1, <1>5 DEF g, u
<1>. QED BY <1>2, <1>4, <1>5, <1>7, <1>8, AccountSettled

LEMMA ServeWakes ==
    ASSUME IInv, WInv, NEW c \in CPU, Serve(c)
    PROVE  WInv'
<1>. SUFFICES ASSUME NEW me, me = T(c), NEW x, x = Head(ioq) PROVE WInv'
  OBVIOUS
<1>1. /\ UNCHANGED <<task, pool, rq, curr, tid_cpu, next_tid, known, mq, wk, waiters>>
      /\ th[me].pc = "run" /\ ioq # <<>> /\ ioq' = Tail(ioq)
      /\ Enter(c, "ub_map", Gate(c), "ret", x)
  BY DEF Serve, shared, ids, Calling, At
<1>2. me \notin Workers /\ me \in Tid
  BY <1>1, InCall, Here DEF CallPcs, Backs
<1>3. PICK r : Sets(me, r, "ub_map", "ret", x, th[me].arg)
  BY <1>1, EntersAt
<1>4. /\ x \in Tid /\ x \in Range(ioq) /\ \A t \in Range(ioq') : t \in Range(ioq)
      /\ IsInjective(ioq') /\ x \notin Range(ioq')
  <2>1. ioq \in Seq(Tid) /\ IsInjective(ioq)
    BY DEF IInv, Lists, WInv, Rows
  <2>. QED BY <1>1, <2>1, ListShrinks
<1>5. InIo \in Wakers(x)
  BY <1>4, Spotted
<1>6. x # me
  <2>1. Wakers(me) = {}
    BY <1>1, <1>2, Resting DEF Blk
  <2>. QED BY <1>5, <2>1
<1>7. Paces(me, r) /\ Thins
  BY <1>1, <1>3 DEF Paces, Sets, Thins
<1>8. Mails' /\ \A k, t : Said(boxes, k, t)' = Said(boxes, k, t)
  BY <1>1, <1>7, MailsStay
<1>9. Rows'
  BY <1>1, <1>4 DEF WInv, Rows
<1>10. \A v \in Tid : \A t : Unblocks(th'[v], t) => Unblocks(th[v], t) \/ (t = x /\ InHand(me) = InHand(v))
  <2>1. th' = [th EXCEPT ![me] = r] /\ r.obj = x
    BY <1>3 DEF Sets
  <2>. QED BY <1>2, <2>1, HandsOne
<1>11. Gains(x, InHand(me))
  BY <1>1, <1>4, <1>8, <1>10 DEF Gains
<1>12. /\ Wakers(x)' \subseteq Wakers(x) \cup {InHand(me)}
       /\ \A t : t # x => Wakers(t)' \subseteq Wakers(t)
  BY <1>11, GainsOne
<1>13. InIo \notin Wakers(x)'
  BY <1>4, SpottedNext
<1>14. Account(x)'
  <2>1. Passes(InIo, InHand(me), tid_cpu[x])
    BY <1>2 DEF Passes
  <2>2. th[me].pc # "dead" /\ UNCHANGED task
    BY <1>1
  <2>. QED BY <1>2, <1>4, <1>5, <1>6, <1>7, <1>8, <1>12, <1>13, <2>1, <2>2, AccountPassed
<1>15. Hand(me)' /\ Track(me)'
  BY <1>3 DEF Sets, Hand, Makes, Track, Awaits, Goal, Blk, WakePcs, MakePcs
<1>16. \A d \in CPU : Desk(d)'
  <2>1. th[me].pc \notin Blk \cup {"dead"}
    BY <1>1 DEF Blk
  <2>. QED BY <1>1, <1>2, <1>3, <2>1, DesksKept DEF Sets
<1>17. /\ th[me].pc \notin Blk \cup {"spawn_ret", "join_ans", "slp_int"}
       /\ r.pc \notin Blk \cup {"joined", "spawn_ret", "join_ans", "dead", "ub_ready", "ub_add", "cr_add"}
  BY <1>1, <1>3 DEF Sets, Blk
<1>18. \A t \in Tid \ {x} : /\ Wakers(t)' \subseteq Wakers(t) /\ task'[t].ret = task[t].ret
                            /\ \A k : Said(boxes, k, t)' \subseteq Said(boxes, k, t)
  BY <1>1, <1>8, <1>12
<1>19. \A t \in Tid : task'[t].blocked = task[t].blocked /\ task'[t].state = task[t].state
  BY <1>1
<1>20. Wakers(x) # {} /\ task'[x].ret = task[x].ret
  BY <1>1, <1>5
<1>. QED BY <1>4, <1>7, <1>8, <1>9, <1>14, <1>15, <1>16, <1>17, <1>18, <1>19, <1>20, HelperMoves

\* Where a thread that unblocks goes on.
LEMMA WakesBack ==
    ASSUME IInv, WInv, NEW c \in CPU, NEW me, me = T(c), th[me].pc \in WakePcs
    PROVE  /\ me \in Tid /\ th[me].obj \in Tid
           /\ me \in Workers => me = Worker[c] /\ th[me].back \in {"ipm", "drop"}
           /\ me \notin Workers => th[me].back = "ret"
<1>1. me \in Tid /\ Sound(me, th[me]) /\ (me \in Workers => me = Worker[c])
  BY Here
<1>2. me \notin Workers => Track(me)
  BY <1>1 DEF WInv, Body
<1>. QED BY <1>1, <1>2 DEF Sound, Track

\* The thread that has unblocked goes back to its caller.
LEMMA GoesBack ==
    ASSUME IInv, WInv, NEW c \in CPU, NEW me, me = T(c), th[me].pc \in WakePcs,
           NEW r, Sets(me, r, th[me].back, th[me].back, th[me].obj, th[me].arg),
           UNCHANGED <<tid_cpu, next_tid, known, wk>>
    PROVE  /\ Hand(me)' /\ (me \notin Workers => Track(me)') /\ \A d \in CPU : Desk(d)'
           /\ th[me].pc \notin Blk \cup {"spawn_ret", "join_ans", "slp_int"}
           /\ r.pc \notin Blk \cup {"joined", "spawn_ret", "join_ans", "dead", "ub_map", "ub_cpu",
                                    "ub_ready", "ub_add", "cr_add"}
<1>1. /\ me \in Tid /\ (me \in Workers => th[me].back \in {"ipm", "drop"})
      /\ (me \notin Workers => th[me].back = "ret")
  BY WakesBack
<1>2. Hand(me)' /\ (me \notin Workers => Track(me)')
  BY <1>1 DEF Sets, Hand, Makes, Track, Awaits, Goal, Blk, Rets, WakePcs, MakePcs
<1>3. me \in Workers =>
        /\ ~Serves(r) /\ ~Made(r) /\ r.pc \notin MovePcs
        /\ Holds(r) \/ Buries(r) => Holds(th[me]) \/ Buries(th[me])
  BY <1>1 DEF Sets, Serves, Made, Makes, Holds, Buries, WakePcs, MakePcs, MovePcs
<1>4. \A d \in CPU : wk'[d].victim = wk[d].victim /\ wk'[d].inbox = wk[d].inbox
  OBVIOUS
<1>5. th[me].pc # "dead" /\ th[me].pc \notin Blk /\ th' = [th EXCEPT ![me] = r]
  BY DEF WakePcs, Sets, Blk
<1>6. \A d \in CPU : Desk(d)'
  BY <1>3, <1>4, <1>5, DesksKept
<1>7. th[me].pc \notin Blk \cup {"spawn_ret", "join_ans", "slp_int"}
  BY DEF Blk, WakePcs
<1>8. r.pc \notin Blk \cup {"joined", "spawn_ret", "join_ans", "dead", "ub_map", "ub_cpu",
                            "ub_ready", "ub_add", "cr_add"}
  BY <1>1 DEF Sets, Blk
<1>. QED BY <1>2, <1>6, <1>7, <1>8

\* An unblock that has yet to be sent is not on its way in a message too.
LEMMA SoleUnblock ==
    ASSUME IInv, WInv, NEW x \in Tid, NEW p \in Wakers(x),
           p = InQueue \/ \E v \in Tid : v # Worker[tid_cpu[x]] /\ p = InHand(v)
    PROVE  InMail("Unblock") \notin Wakers(x)
<1>. DEFINE d == tid_cpu[x]
            K == Wakers(x)
            g == Goal(th[x])
            a == Owed(th[x], task[x].blocked)
            ret == task[x].ret
            u == th[x].obj
            ans == Said(boxes, "RespondAndUnblock", x)
            ask == Said(boxes, "AddJoiner", x)
            end == th[u].pc
            home == tid_cpu[u]
<1>1. Ledger(g, a, ret, u, K, ans, ask, end, d, home) /\ d \in CPU
  BY HasWaker DEF Account
<1>. HIDE DEF d, K, g, a, ret, u, ans, ask, end, home
<1>2. /\ InQueue \in K => InMail("Unblock") \notin K
      /\ \A v \in Tid : v # Worker[d] /\ InHand(v) \in K => InMail("Unblock") \notin K
  BY <1>1, LedgerSole
<1>. QED BY <1>2 DEF K, d

\* The message to the task's CPU.
LEMMA UnblockSent ==
    ASSUME IInv, WInv, NEW me \in Tid, NEW r, Paces(me, r), th[me].pc # "dead",
           NEW c \in CPU, NEW x \in Tid, x # me,
           NEW p \in Wakers(x), p \notin Wakers(x)',
           p = InQueue \/ \E v \in Tid : v # Worker[tid_cpu[x]] /\ p = InHand(v),
           NEW m, m = Ipm(tid_cpu[x], "Unblock", x, c, 0), mq' = Append(mq, m), UNCHANGED wk,
           ioq' = ioq, \A t \in Range(waiters') : t \in Range(waiters),
           \A u \in Tid : task'[u].joiners = task[u].joiners,
           task'[x].blocked = task[x].blocked, task'[x].ret = task[x].ret,
           \A v \in Tid : \A t : Unblocks(th'[v], t) => Unblocks(th[v], t)
    PROVE  /\ Mails' /\ Account(x)'
           /\ \A t \in Tid \ {x} : /\ Wakers(t)' \subseteq Wakers(t)
                                   /\ \A k : Said(boxes, k, t)' \subseteq Said(boxes, k, t)
<1>1. tid_cpu[x] \in CPU /\ Account(x) /\ tid_cpu' = tid_cpu
  BY HasWaker DEF Paces
<1>2. /\ m \in Message /\ m.kind = "Unblock" /\ Wakee(m) = x /\ m.dest = tid_cpu[x] /\ m.tid = x
  BY <1>1 DEF Ipm, Message, Wakee, Place
<1>3. InMail("Unblock") \notin Wakers(x)
  BY SoleUnblock
<1>4. Said(boxes, "Unblock", x) = {}
  BY <1>3, Spotted DEF Kinds
<1>5. Fit(m)'
  BY <1>1, <1>2 DEF Fit, Kinds, Answer
<1>. HIDE DEF Ipm
<1>6. /\ Mails' /\ \A k, t : k # "Unblock" \/ t # x => Said(boxes, k, t)' \subseteq Said(boxes, k, t)
  <2>1. /\ Said(boxes, m.kind, Wakee(m)) = {} /\ m.kind # Answer
        /\ \A d \in CPU : wk'[d].inbox = wk[d].inbox
    BY <1>2, <1>4 DEF Answer
  <2>2. /\ Mails' /\ \A k, t : k # m.kind \/ t # Wakee(m) => Said(boxes, k, t)' \subseteq Said(boxes, k, t)
    BY <1>2, <1>5, <2>1, MailsPosted
  <2>. QED BY <1>2, <2>2
<1>. DEFINE q == InMail("Unblock")
<1>7. \A t : \A k \in Kinds : Said(boxes, k, t)' # {} =>
                Said(boxes, k, t) # {} \/ (t = x /\ q = InMail(k))
  BY <1>6
<1>8. Gains(x, q)
  <2>. HIDE DEF q
  <2>. QED BY <1>7 DEF Gains
<1>9. /\ Wakers(x)' \subseteq Wakers(x) \cup {q} /\ \A t : t # x => Wakers(t)' \subseteq Wakers(t)
  <2>. HIDE DEF q
  <2>. QED BY <1>8, GainsOne
<1>10. Passes(p, q, tid_cpu[x])
  BY DEF Passes
<1>11. Account(x)'
  <2>1. /\ Said(boxes, Answer, x)' \subseteq Said(boxes, Answer, x)
        /\ Said(boxes, "AddJoiner", x)' \subseteq Said(boxes, "AddJoiner", x)
    BY <1>6 DEF Answer
  <2>. HIDE DEF q
  <2>. QED BY <1>9, <1>10, <2>1, AccountPassed
<1>. QED BY <1>6, <1>9, <1>11

LEMMA UnblockRemoteWakes ==
    ASSUME IInv, WInv, NEW c \in CPU, UnblockRemote(c)
    PROVE  WInv'
<1>. SUFFICES ASSUME NEW me, me = T(c), NEW x, x = th[me].obj PROVE WInv'
  OBVIOUS
<1>1. /\ UNCHANGED <<task, pool, rq, curr, tid_cpu, next_tid, known, wk, waiters, ioq>>
      /\ th[me].pc = "ub_cpu" /\ th[me].arg # c
      /\ mq' = Append(mq, Ipm(th[me].arg, "Unblock", x, c, 0))
      /\ Goto(c, th[me].back)
  BY DEF UnblockRemote, Send, shared, ids, calls, At
<1>2. me \in Tid /\ x \in Tid /\ th[me].pc \in WakePcs /\ (me \in Workers => me = Worker[c])
  <2>1. th[me].pc \in WakePcs
    BY <1>1 DEF WakePcs
  <2>. QED BY <2>1, WakesBack
<1>3. th[me].arg = tid_cpu[x]
  BY <1>1, <1>2 DEF WInv, Body, Hand
<1>4. InHand(me) \in Wakers(x)
  <2>1. Unblocks(th[me], x)
    BY <1>1 DEF Unblocks
  <2>. QED BY <1>2, <2>1, Spotted
<1>5. tid_cpu[x] \in CPU /\ x \notin Workers
  BY <1>2, <1>4, HasWaker
<1>6. me # Worker[tid_cpu[x]] /\ x # me
  <2>1. me # Worker[tid_cpu[x]]
    BY <1>1, <1>2, <1>3, <1>5, SchedAssumption DEF SchedAssumption, Workers
  <2>2. me \notin Workers => Wakers(me) = {}
    BY <1>1, Resting DEF Blk
  <2>. QED BY <1>4, <1>5, <2>1, <2>2
<1>7. PICK r : Sets(me, r, th[me].back, th[me].back, x, th[me].arg)
  BY <1>1, GoesTo
<1>8. /\ Hand(me)' /\ (me \notin Workers => Track(me)') /\ \A d \in CPU : Desk(d)'
      /\ th[me].pc \notin Blk \cup {"spawn_ret", "join_ans", "slp_int"}
      /\ r.pc \notin Blk \cup {"joined", "spawn_ret", "join_ans", "dead", "ub_map", "ub_cpu",
                               "ub_ready", "ub_add", "cr_add"}
  BY <1>1, <1>2, <1>7, GoesBack
<1>9. Paces(me, r) /\ Thins
  BY <1>1, <1>7 DEF Paces, Sets, Thins
<1>10. \A v \in Tid : \A t : Unblocks(th'[v], t) => Unblocks(th[v], t) /\ v # me
  BY <1>2, <1>7, <1>8, HandsFree DEF Sets
<1>11. InHand(me) \notin Wakers(x)'
  BY <1>2, <1>10, SpottedNext
<1>12. /\ Mails' /\ Account(x)'
       /\ \A t \in Tid \ {x} : /\ Wakers(t)' \subseteq Wakers(t)
                               /\ \A k : Said(boxes, k, t)' \subseteq Said(boxes, k, t)
  <2>. DEFINE p == InHand(me)
  <2>1. PICK m : m = Ipm(tid_cpu[x], "Unblock", x, c, 0)
    OBVIOUS
  <2>2. mq' = Append(mq, m) /\ th[me].pc # "dead"
    BY <1>1, <1>3, <2>1
  <2>3. p = InQueue \/ \E v \in Tid : v # Worker[tid_cpu[x]] /\ p = InHand(v)
    BY <1>2, <1>6
  <2>4. p \in Wakers(x) /\ p \notin Wakers(x)'
    BY <1>4, <1>11
  <2>5. /\ UNCHANGED wk /\ ioq' = ioq /\ \A t \in Range(waiters') : t \in Range(waiters)
        /\ \A u \in Tid : task'[u].joiners = task[u].joiners
        /\ task'[x].blocked = task[x].blocked /\ task'[x].ret = task[x].ret
        /\ \A v \in Tid : \A t : Unblocks(th'[v], t) => Unblocks(th[v], t)
    BY <1>1, <1>10
  <2>. HIDE DEF p
  <2>. QED BY <1>2, <1>6, <1>9, <2>1, <2>2, <2>3, <2>4, <2>5, UnblockSent
<1>13. Rows'
  BY <1>1 DEF WInv, Rows
<1>14. \A t \in Tid : /\ task'[t].blocked = task[t].blocked /\ task'[t].state = task[t].state
                      /\ task'[t].ret = task[t].ret
  BY <1>1
<1>15. Wakers(x) # {}
  BY <1>4
<1>. QED BY <1>2, <1>8, <1>9, <1>12, <1>13, <1>14, <1>15, HelperMoves

\* The worker c hands a message or a joiner on.
LEMMA DesksMoved ==
    ASSUME IInv, WInv, NEW c \in CPU, NEW me, me = T(c), th[me].pc \in WorkPcs, NEW r,
           th' = [th EXCEPT ![me] = r], \A d \in CPU : wk'[d].victim = wk[d].victim,
           \A d \in CPU \ {c} : wk'[d].inbox = wk[d].inbox,
           ~Serves(r), ~Holds(r), Buries(r) => Buries(th[me]), r.pc \notin MovePcs
    PROVE  \A d \in CPU : Desk(d)'
<1>. SUFFICES ASSUME NEW d \in CPU PROVE Desk(d)'
  OBVIOUS
<1>1. /\ Desk(d) /\ me \in Tid /\ me = Worker[c] /\ me \in Workers
      /\ (d # c => Worker[d] # me)
  BY Here, SchedAssumption DEF WInv, Body, SchedAssumption
<1>2. \A u \in Tid : th[u].pc = "dead" => th'[u].pc = "dead"
  BY <1>1 DEF IInv, Threads, WorkPcs
<1>3. CASE d = c
  <2>1. th'[Worker[d]] = r
    BY <1>1, <1>3 DEF IInv, Threads
  <2>2. ~Made(r)
    BY DEF Serves, Made, Makes, MakePcs
  <2>3. Buries(r) => wk[c].victim \in Tid /\ th[wk[c].victim].pc = "dead"
    BY <1>1, <1>3 DEF Desk, IInv, Victims
  <2>4. Buries(r) => th'[wk'[d].victim].pc = "dead"
    BY <1>2, <1>3, <2>3
  <2>. QED BY <2>1, <2>2, <2>4 DEF Desk, Serves, Made, Holds, Buries
<1>4. CASE d # c
  <2>1. th[me].pc # "dead"
    BY DEF WorkPcs
  <2>. QED BY <1>1, <1>4, <2>1, DeskOfOther
<1>. QED BY <1>3, <1>4

LEMMA WorkerMoves ==
    ASSUME IInv, WInv, NEW c \in CPU, NEW me, me = T(c), th[me].pc \in WorkPcs, NEW r,
           th' = [th EXCEPT ![me] = r], UNCHANGED <<pool, rq, curr, tid_cpu, next_tid, known>>,
           \/ r.pc = "ipm" \/ (r.pc = "ub_map" /\ r.back = "ipm")
           \/ th[me].pc = "drop" /\ r.pc = "ub_map" /\ r.back = "drop",
           \A d \in CPU : wk'[d].victim = wk[d].victim,
           \A d \in CPU \ {c} : wk'[d].inbox = wk[d].inbox,
           \A t \in Tid : task'[t].blocked = task[t].blocked /\ task'[t].state = task[t].state,
           Mails', Rows', NEW x \in Tid, Wakers(x) # {}, Account(x)',
           task'[x].ret = task[x].ret \/ task'[x].ret \in 0 .. (next_tid - 1),
           \A t \in Tid \ {x} : /\ Wakers(t)' \subseteq Wakers(t) /\ task'[t].ret = task[t].ret
                                /\ \A k : Said(boxes, k, t)' \subseteq Said(boxes, k, t)
    PROVE  WInv'
<1>1. me \in Workers /\ me \in Tid /\ th \in [Tid -> ThreadType]
  BY Here DEF IInv, Threads
<1>2. Paces(me, r) /\ Thins
  BY DEF Paces, Thins
<1>3. Hand(me)'
  BY <1>1 DEF Hand, Makes
<1>4. ~Serves(r) /\ ~Holds(r) /\ (Buries(r) => Buries(th[me])) /\ r.pc \notin MovePcs
  BY DEF Serves, MakePcs, Holds, Buries, WakePcs, MovePcs
<1>5. \A d \in CPU : Desk(d)'
  BY <1>4, DesksMoved
<1>6. /\ th[me].pc \notin Blk \cup {"spawn_ret", "join_ans", "slp_int"}
      /\ r.pc \notin Blk \cup {"joined", "spawn_ret", "join_ans", "dead", "ub_ready", "ub_add", "cr_add"}
  BY DEF Blk, WorkPcs
<1>. QED BY <1>1, <1>2, <1>3, <1>5, <1>6, HelperMoves

LEMMA UnblockAt ==
    ASSUME IInv, NEW c \in CPU, NEW me, me = T(c), NEW x, NEW back, Unblock(c, x, back)
    PROVE  \E r : Sets(me, r, "ub_map", back, x, th[me].arg)
<1>. DEFINE s == th[me]
            r == [s EXCEPT !.pc = "ub_map", !.obj = x, !.back = back]
<1>1. me \in Tid /\ th \in [Tid -> ThreadType] /\ s \in ThreadType
  BY Here DEF IInv, Threads
<1>2. th' = [th EXCEPT ![me] = r]
  BY <1>1 DEF Unblock, ThreadType
<1>. HIDE DEF s
<1>3. r.pc = "ub_map" /\ r.back = back /\ r.obj = x /\ r.arg = s.arg
  BY <1>1 DEF ThreadType
<1>. HIDE DEF r
<1>4. th'[me] = r
  BY <1>1, <1>2
<1>. QED BY <1>2, <1>3, <1>4 DEF Sets, s

LEMMA DropJoinerWakes ==
    ASSUME IInv, WInv, NEW c \in CPU, DropJoiner(c)
    PROVE  WInv'
<1>. SUFFICES ASSUME NEW me, me = T(c), NEW l, l = wk[c].todo, NEW x, x = Head(l) PROVE WInv'
  OBVIOUS
<1>1. /\ UNCHANGED <<task, pool, rq, curr, tid_cpu, next_tid, known, mq, waiters, ioq>>
      /\ th[me].pc = "drop" /\ l # <<>> /\ Unblock(c, x, "drop")
      /\ wk' = [wk EXCEPT ![c].todo = Tail(@)]
  BY DEF DropJoiner, shared, ids, calls, At
<1>2. /\ me \in Tid /\ me \in Workers /\ me = Worker[c] /\ wk \in [CPU -> WorkType]
      /\ th[me].pc \in WorkPcs
  BY <1>1, Here DEF WorkPcs, IInv, Moves
<1>3. PICK r : Sets(me, r, "ub_map", "drop", x, th[me].arg)
  BY <1>1, UnblockAt
<1>4. /\ wk'[c].todo = Tail(l)
      /\ \A d \in CPU : /\ wk'[d].inbox = wk[d].inbox /\ wk'[d].victim = wk[d].victim
                        /\ d # c => wk'[d].todo = wk[d].todo
  BY <1>1, <1>2 DEF WorkType
<1>5. /\ x \in Tid /\ x \in Range(l) /\ \A t \in Range(Tail(l)) : t \in Range(l)
      /\ IsInjective(Tail(l)) /\ x \notin Range(Tail(l))
  <2>1. l \in Seq(Tid) /\ IsInjective(l)
    BY <1>2 DEF WorkType, WInv, Rows
  <2>. QED BY <1>1, <2>1, ListShrinks
<1>6. InTodo(c) \in Wakers(x)
  BY <1>5, Spotted
<1>7. x # me
  BY <1>2, <1>5, <1>6, HasWaker
<1>8. Paces(me, r)
  BY <1>1, <1>3 DEF Paces, Sets
<1>9. Mails' /\ \A k, t : Said(boxes, k, t)' = Said(boxes, k, t)
  BY <1>1, <1>4, <1>8, MailsStay
<1>10. Rows'
  BY <1>1, <1>4, <1>5 DEF WInv, Rows
<1>11. \A v \in Tid : \A t : Unblocks(th'[v], t) => Unblocks(th[v], t) \/ (t = x /\ InHand(me) = InHand(v))
  <2>1. th' = [th EXCEPT ![me] = r] /\ r.obj = x
    BY <1>3 DEF Sets
  <2>. QED BY <1>2, <2>1, HandsOne
<1>12. Gains(x, InHand(me))
  <2>1. \A t : \A d \in CPU : t \in Range(wk'[d].todo) => t \in Range(wk[d].todo)
    BY <1>4, <1>5
  <2>. QED BY <1>1, <1>9, <1>11, <2>1 DEF Gains
<1>13. /\ Wakers(x)' \subseteq Wakers(x) \cup {InHand(me)}
       /\ \A t : t # x => Wakers(t)' \subseteq Wakers(t)
  BY <1>12, GainsOne
<1>14. InTodo(c) \notin Wakers(x)'
  BY <1>4, <1>5, SpottedNext
<1>15. Account(x)'
  <2>1. Passes(InTodo(c), InHand(me), tid_cpu[x])
    BY <1>2 DEF Passes
  <2>2. th[me].pc # "dead" /\ UNCHANGED task
    BY <1>1
  <2>. QED BY <1>2, <1>5, <1>6, <1>7, <1>8, <1>9, <1>13, <1>14, <2>1, <2>2, AccountPassed
<1>16. \A t \in Tid \ {x} : /\ Wakers(t)' \subseteq Wakers(t) /\ task'[t].ret = task[t].ret
                            /\ \A k : Said(boxes, k, t)' \subseteq Said(boxes, k, t)
  BY <1>1, <1>9, <1>13
<1>17. /\ th' = [th EXCEPT ![me] = r] /\ UNCHANGED <<pool, rq, curr, tid_cpu, next_tid, known>>
       /\ r.pc = "ub_map" /\ r.back = "drop"
       /\ \A t \in Tid : task'[t].blocked = task[t].blocked /\ task'[t].state = task[t].state
  BY <1>1, <1>3 DEF Sets
<1>18. Wakers(x) # {}
  BY <1>6
<1>. QED BY <1>1, <1>2, <1>4, <1>5, <1>9, <1>10, <1>15, <1>16, <1>17, <1>18, WorkerMoves

LEMMA Pops ==
    ASSUME IInv, NEW c \in CPU, Pop(c)
    PROVE  /\ wk'[c].inbox = Tail(wk[c].inbox)
           /\ \A d \in CPU : wk'[d].victim = wk[d].victim /\ wk'[d].todo = wk[d].todo
           /\ \A d \in CPU \ {c} : wk'[d].inbox = wk[d].inbox
  BY DEF Pop, IInv, Moves, WorkType

\* The worker has the unblock of a task of its CPU in its hands now.
LEMMA AccountFetched ==
    ASSUME IInv, WInv, NEW c \in CPU, NEW me, me = Worker[c], NEW r, Paces(me, r), th[me].pc # "dead",
           NEW x \in Tid, x # me, tid_cpu[x] = c, task'[x].blocked = task[x].blocked,
           InMail("Unblock") \in Wakers(x), Said(boxes, Answer, x) = {}, task'[x].ret = task[x].ret,
           Wakers(x)' \subseteq Wakers(x) \cup {InHand(me)}, InMail("Unblock") \notin Wakers(x)',
           \A k : Said(boxes, k, x)' \subseteq Said(boxes, k, x)
    PROVE  Account(x)'
<1>1. x \notin Workers /\ Account(x)
  BY HasWaker
<1>2. th'[x] = th[x] /\ UNCHANGED tid_cpu /\ Steady
  <2>1. me \in Tid /\ Steady
    BY PacesSteady, SchedAssumption DEF SchedAssumption
  <2>. QED BY <2>1 DEF Paces, IInv, Threads
<1>. DEFINE g == Goal(th[x])
            a == Due(x)
            ret == task[x].ret
            u == th[x].obj
            K == Wakers(x)
            L == (K \ {InMail("Unblock")}) \cup {InHand(Worker[c])}
            ans == Said(boxes, Answer, x)
            ask == Said(boxes, "AddJoiner", x)
            end == th[u].pc
            home == tid_cpu[u]
<1>3. Ledger(g, a, ret, u, K, ans, ask, end, c, home)
  BY <1>1 DEF Account, Due, Answer
<1>4. /\ L \in SUBSET ((K \ {InMail("Unblock")}) \cup {InHand(Worker[c])}) /\ Wakers(x)' \subseteq L
      /\ InMail("Unblock") \in K /\ InMail("RespondAndUnblock") \notin K
  <2>1. InMail("RespondAndUnblock") \notin K
    BY Spotted DEF Answer
  <2>. QED BY <2>1
<1>5. /\ Due(x)' = a /\ task'[x].ret = ret /\ Goal(th'[x]) = g /\ th'[x].obj = u
      /\ Said(boxes, Answer, x)' \subseteq ans /\ Said(boxes, "AddJoiner", x)' \subseteq ask
  BY <1>2 DEF Due
<1>. HIDE DEF g, a, ret, u, K, L, ans, ask, end, home
<1>6. Ledger(g, a, ret, u, L, ans, ask, end, c, home)
  BY <1>3, <1>4, LedgerFetched
<1>7. Ledger(Goal(th[x]), a, ret, th[x].obj, L, ans, ask, th[th[x].obj].pc, tid_cpu[x], tid_cpu[th[x].obj])
  BY <1>6 DEF g, u, end, home
<1>8. x \in Tid \ Workers /\ Goal(th'[x]) = Goal(th[x]) /\ th'[x].obj = th[x].obj
  BY <1>1, <1>5 DEF g, u
<1>. QED BY <1>2, <1>4, <1>5, <1>7, <1>8, AccountSettled

\* The worker has stored the answer v and goes on to unblock the task.
LEMMA AccountAnswered ==
    ASSUME IInv, WInv, NEW c \in CPU, NEW me, me = Worker[c], NEW r, Paces(me, r), th[me].pc # "dead",
           NEW x \in Tid, x # me, tid_cpu[x] = c, task'[x].blocked = task[x].blocked,
           InMail(Answer) \in Wakers(x), NEW v \in Said(boxes, Answer, x), task'[x].ret = v,
           Wakers(x)' \subseteq Wakers(x) \cup {InHand(me)}, InMail(Answer) \notin Wakers(x)',
           \A k : Said(boxes, k, x)' \subseteq Said(boxes, k, x)
    PROVE  Account(x)'
<1>1. x \notin Workers /\ Account(x)
  BY HasWaker
<1>2. th'[x] = th[x] /\ UNCHANGED tid_cpu /\ Steady
  <2>1. me \in Tid /\ Steady
    BY PacesSteady, SchedAssumption DEF SchedAssumption
  <2>. QED BY <2>1 DEF Paces, IInv, Threads
<1>. DEFINE g == Goal(th[x])
            a == Due(x)
            ret == task[x].ret
            u == th[x].obj
            K == Wakers(x)
            L == (K \ {InMail("RespondAndUnblock")}) \cup {InHand(Worker[c])}
            ans == Said(boxes, Answer, x)
            ask == Said(boxes, "AddJoiner", x)
            end == th[u].pc
            home == tid_cpu[u]
<1>3. Ledger(g, a, ret, u, K, ans, ask, end, c, home)
  BY <1>1 DEF Account, Due, Answer
<1>4. /\ L \in SUBSET ((K \ {InMail("RespondAndUnblock")}) \cup {InHand(Worker[c])})
      /\ Wakers(x)' \subseteq L /\ InMail("RespondAndUnblock") \in K /\ v \in ans
  BY DEF Answer
<1>5. /\ Due(x)' = a /\ task'[x].ret = v /\ Goal(th'[x]) = g /\ th'[x].obj = u
      /\ Said(boxes, Answer, x)' \subseteq ans /\ Said(boxes, "AddJoiner", x)' \subseteq ask
  BY <1>2 DEF Due
<1>. HIDE DEF g, a, ret, u, K, L, ans, ask, end, home
<1>6. Ledger(g, a, v, u, L, ans, ask, end, c, home)
  BY <1>3, <1>4, LedgerAnswered
<1>7. Ledger(Goal(th[x]), a, v, th[x].obj, L, ans, ask, th[th[x].obj].pc, tid_cpu[x], tid_cpu[th[x].obj])
  BY <1>6 DEF g, u, end, home
<1>8. x \in Tid \ Workers /\ Goal(th'[x]) = Goal(th[x]) /\ th'[x].obj = th[x].obj
  BY <1>1, <1>5 DEF g, u
<1>. QED BY <1>2, <1>4, <1>5, <1>7, <1>8, AccountSettled

\* An unblock, or an answer and the unblock, taken by the worker.
LEMMA DoUnblockWakes ==
    ASSUME IInv, WInv, NEW c \in CPU, DoUnblock(c) \/ DoRespond(c), fault' = "none"
    PROVE  WInv'
<1>. SUFFICES ASSUME NEW me, me = T(c), NEW m, m = Head(wk[c].inbox), NEW x, x = m.tid PROVE WInv'
  OBVIOUS
<1>1. /\ UNCHANGED <<pool, rq, curr, tid_cpu, next_tid, known, mq, waiters, ioq>>
      /\ th[me].pc = "ipm" /\ wk[c].inbox # <<>> /\ Unblock(c, x, "ipm") /\ Pop(c)
      /\ \/ m.kind = "Unblock" /\ task' = task
         \/ m.kind = Answer /\ task' = [task EXCEPT ![x].ret = m.val]
  <2>1. CASE DoUnblock(c)
    BY <2>1 DEF DoUnblock, Next_ipm, shared, ids, calls, At
  <2>2. CASE DoRespond(c)
    <3>1. m.tid \in pool[c]
      BY <2>2 DEF DoRespond, Fault
    <3>. QED BY <2>2, <3>1 DEF DoRespond, Next_ipm, SetMsgRet, shared, ids, calls, At, Answer
  <2>. QED BY <2>1, <2>2
<1>2. /\ me \in Tid /\ me \in Workers /\ me = Worker[c] /\ task \in [Tid -> TaskType]
      /\ th[me].pc \in WorkPcs /\ th[me].pc # "dead"
  BY <1>1, Here DEF WorkPcs, IInv, Tasks
<1>3. PICK r : Sets(me, r, "ub_map", "ipm", x, th[me].arg)
  BY <1>1, UnblockAt
<1>4. /\ wk'[c].inbox = Tail(wk[c].inbox)
      /\ \A d \in CPU : wk'[d].victim = wk[d].victim /\ wk'[d].todo = wk[d].todo
      /\ \A d \in CPU \ {c} : wk'[d].inbox = wk[d].inbox
  BY <1>1, Pops
<1>5. /\ x \in Tid /\ Wakee(m) = x /\ tid_cpu[x] = c /\ What(m) = m.val /\ m.kind \in Kinds
      /\ m.val \in Said(boxes, m.kind, x) /\ (m.kind = "Unblock" => Said(boxes, Answer, x) = {})
      /\ (m.kind = Answer => m.val \in 0 .. (next_tid - 1))
  <2>1. /\ m \in Message /\ Fit(m) /\ m.dest = c /\ What(m) \in Said(boxes, m.kind, Wakee(m))
        /\ (m.kind = "Unblock" => Said(boxes, Answer, Wakee(m)) = {})
    BY <1>1, FirstMessage
  <2>2. Wakee(m) = x /\ What(m) = m.val
    BY <1>1 DEF Wakee, What, Answer
  <2>3. x \in Tid /\ (m.kind = Answer => m.val \in Nat)
    BY <2>1 DEF Message, Answer
  <2>4. next_tid \in Nat /\ (m.kind = Answer => m.val < next_tid)
    BY <2>1, NumbersSettled DEF Fit
  <2>. QED BY <1>1, <2>1, <2>2, <2>3, <2>4 DEF Fit
<1>6. InMail(m.kind) \in Wakers(x)
  BY <1>5, Spotted
<1>7. x # me /\ Wakers(x) # {}
  BY <1>2, <1>5, <1>6, HasWaker
<1>8. Paces(me, r)
  BY <1>1, <1>3 DEF Paces, Sets
<1>9. /\ Mails' /\ \A k, t : Said(boxes, k, t)' \subseteq Said(boxes, k, t)
      /\ Said(boxes, m.kind, x)' = {}
  <2>1. /\ Mails' /\ \A k, t : Said(boxes, k, t)' \subseteq Said(boxes, k, t)
        /\ Said(boxes, m.kind, Wakee(m))' = {}
    BY <1>1, <1>4, <1>8, MailsPopped
  <2>. QED BY <1>5, <2>1
<1>10. /\ \A t \in Tid : /\ task'[t].blocked = task[t].blocked /\ task'[t].state = task[t].state
                         /\ task'[t].joiners = task[t].joiners
                         /\ t # x => task'[t].ret = task[t].ret
       /\ m.kind = "Unblock" => task'[x].ret = task[x].ret
       /\ m.kind = Answer => task'[x].ret = m.val
  <2>1. CASE m.kind = "Unblock" /\ task' = task
    BY <2>1 DEF Answer
  <2>2. CASE m.kind = Answer /\ task' = [task EXCEPT ![x].ret = m.val]
    BY <1>2, <1>5, <2>2 DEF TaskType, Answer
  <2>. QED BY <1>1, <2>1, <2>2
<1>11. Rows'
  BY <1>1, <1>4, <1>10 DEF WInv, Rows
<1>12. \A v \in Tid : \A t : Unblocks(th'[v], t) => Unblocks(th[v], t) \/ (t = x /\ InHand(me) = InHand(v))
  <2>1. th' = [th EXCEPT ![me] = r] /\ r.obj = x
    BY <1>3 DEF Sets
  <2>. QED BY <1>2, <2>1, HandsOne
<1>13. Gains(x, InHand(me))
  <2>1. \A t : \A k \in Kinds : Said(boxes, k, t)' # {} => Said(boxes, k, t) # {}
    BY <1>9
  <2>. QED BY <1>1, <1>4, <1>10, <1>12, <2>1 DEF Gains
<1>14. /\ Wakers(x)' \subseteq Wakers(x) \cup {InHand(me)}
       /\ \A t : t # x => Wakers(t)' \subseteq Wakers(t)
  BY <1>13, GainsOne
<1>15. InMail(m.kind) \notin Wakers(x)'
  BY <1>9, SpottedNext
<1>16. Account(x)'
  <2>1. CASE m.kind = "Unblock"
    <3>1. /\ InMail("Unblock") \in Wakers(x) /\ Said(boxes, Answer, x) = {}
          /\ InMail("Unblock") \notin Wakers(x)' /\ task'[x].ret = task[x].ret
      BY <1>5, <1>6, <1>10, <1>15, <2>1
    <3>2. \A k : Said(boxes, k, x)' \subseteq Said(boxes, k, x)
      BY <1>9
    <3>3. task'[x].blocked = task[x].blocked
      BY <1>5, <1>10
    <3>. QED BY <1>2, <1>5, <1>7, <1>8, <1>14, <3>1, <3>2, <3>3, AccountFetched
  <2>2. CASE m.kind = Answer
    <3>1. /\ InMail(Answer) \in Wakers(x) /\ InMail(Answer) \notin Wakers(x)'
          /\ m.val \in Said(boxes, Answer, x) /\ task'[x].ret = m.val
      BY <1>5, <1>6, <1>10, <1>15, <2>2
    <3>2. \A k : Said(boxes, k, x)' \subseteq Said(boxes, k, x)
      BY <1>9
    <3>3. task'[x].blocked = task[x].blocked
      BY <1>5, <1>10
    <3>. QED BY <1>2, <1>5, <1>7, <1>8, <1>14, <3>1, <3>2, <3>3, AccountAnswered
  <2>. QED BY <1>1, <2>1, <2>2
<1>17. \A t \in Tid \ {x} : /\ Wakers(t)' \subseteq Wakers(t) /\ task'[t].ret = task[t].ret
                            /\ \A k : Said(boxes, k, t)' \subseteq Said(boxes, k, t)
  BY <1>9, <1>10, <1>14
<1>18. /\ th' = [th EXCEPT ![me] = r] /\ UNCHANGED <<pool, rq, curr, tid_cpu, next_tid, known>>
       /\ r.pc = "ub_map" /\ r.back = "ipm"
       /\ \A t \in Tid : task'[t].blocked = task[t].blocked /\ task'[t].state = task[t].state
  BY <1>1, <1>3, <1>10 DEF Sets
<1>19. task'[x].ret = task[x].ret \/ task'[x].ret \in 0 .. (next_tid - 1)
  BY <1>1, <1>5, <1>10
<1>. QED BY <1>2, <1>4, <1>5, <1>7, <1>9, <1>11, <1>16, <1>17, <1>18, <1>19, WorkerMoves

\* A task whose request is not answered yet has no other unblock to come.
LEMMA SoleRequest ==
    ASSUME IInv, WInv, NEW x \in Tid, NEW k \in {"AddJoiner", "CreateTask"}, InMail(k) \in Wakers(x)
    PROVE  /\ Wakers(x) = {InMail(k)} /\ tid_cpu[x] \in CPU
           /\ Said(boxes, Answer, x) = {} /\ Said(boxes, "Unblock", x) = {}
<1>. DEFINE d == tid_cpu[x]
            K == Wakers(x)
            g == Goal(th[x])
            a == Owed(th[x], task[x].blocked)
            ret == task[x].ret
            u == th[x].obj
            ans == Said(boxes, "RespondAndUnblock", x)
            ask == Said(boxes, "AddJoiner", x)
            end == th[u].pc
            home == tid_cpu[u]
<1>1. Ledger(g, a, ret, u, K, ans, ask, end, d, home) /\ d \in CPU
  BY HasWaker DEF Account
<1>. HIDE DEF d, K, g, a, ret, u, ans, ask, end, home
<1>2. \A l \in {"AddJoiner", "CreateTask"} : InMail(l) \in K => K = {InMail(l)}
  BY <1>1, LedgerSole
<1>3. K = {InMail(k)}
  BY <1>2 DEF K
<1>4. InMail(Answer) # InMail(k) /\ InMail("Unblock") # InMail(k)
  BY MailsDiffer DEF Answer
<1>5. Answer \in Kinds /\ "Unblock" \in Kinds
  BY DEF Answer, Kinds
<1>6. InMail(Answer) \notin Wakers(x) /\ InMail("Unblock") \notin Wakers(x)
  BY <1>3, <1>4 DEF K
<1>. QED BY <1>1, <1>3, <1>5, <1>6, Spotted DEF K, d

\* The worker has made the task v that was asked for, and answers.
LEMMA AccountCreated ==
    ASSUME IInv, WInv, NEW me \in Tid, NEW r, Paces(me, r), th[me].pc # "dead",
           NEW x \in Tid, x # me, task'[x].blocked = task[x].blocked, task'[x].ret = task[x].ret,
           InMail("CreateTask") \in Wakers(x), NEW v \in Since(th[x].obj),
           Wakers(x)' \subseteq Wakers(x) \cup {InMail(Answer)}, InMail("CreateTask") \notin Wakers(x)',
           Said(boxes, Answer, x)' \subseteq {v},
           Said(boxes, "AddJoiner", x)' \subseteq Said(boxes, "AddJoiner", x)
    PROVE  Account(x)'
<1>1. x \notin Workers /\ Account(x) /\ tid_cpu[x] \in CPU
  BY HasWaker
<1>2. th'[x] = th[x] /\ UNCHANGED tid_cpu /\ Steady
  <2>1. Steady
    BY PacesSteady
  <2>. QED BY <2>1 DEF Paces, IInv, Threads
<1>. DEFINE g == Goal(th[x])
            a == Due(x)
            ret == task[x].ret
            u == th[x].obj
            K == Wakers(x)
            L == (K \ {InMail("CreateTask")}) \cup {InMail("RespondAndUnblock")}
            ans == Said(boxes, Answer, x)
            ans2 == {v}
            ask == Said(boxes, "AddJoiner", x)
            end == th[u].pc
            home == tid_cpu[u]
            d == tid_cpu[x]
<1>3. Ledger(g, a, ret, u, K, ans, ask, end, d, home) /\ d \in CPU
  BY <1>1 DEF Account, Due, Answer
<1>4. /\ L \in SUBSET ((K \ {InMail("CreateTask")}) \cup {InMail("RespondAndUnblock")})
      /\ Wakers(x)' \subseteq L /\ InMail("CreateTask") \in K /\ ans2 \in SUBSET {v}
      /\ v \in Since(u)
  BY DEF Answer
<1>5. /\ Due(x)' = a /\ task'[x].ret = ret /\ Goal(th'[x]) = g /\ th'[x].obj = u
      /\ Said(boxes, Answer, x)' \subseteq ans2 /\ Said(boxes, "AddJoiner", x)' \subseteq ask
  BY <1>2 DEF Due
<1>. HIDE DEF g, a, ret, u, K, L, ans, ans2, ask, end, home, d
<1>6. Ledger(g, a, ret, u, L, ans2, ask, end, d, home)
  BY <1>3, <1>4, LedgerCreated
<1>7. Ledger(Goal(th[x]), a, ret, th[x].obj, L, ans2, ask, th[th[x].obj].pc, tid_cpu[x], tid_cpu[th[x].obj])
  BY <1>6 DEF g, u, end, home, d
<1>8. x \in Tid \ Workers /\ Goal(th'[x]) = Goal(th[x]) /\ th'[x].obj = th[x].obj
  BY <1>1, <1>5 DEF g, u
<1>. QED BY <1>2, <1>4, <1>5, <1>7, <1>8, AccountSettled

LEMMA AnswerCreateWakes ==
    ASSUME IInv, WInv, NEW c \in CPU, AnswerCreate(c)
    PROVE  WInv'
<1>. SUFFICES ASSUME NEW me, me = T(c), NEW m, m = Head(wk[c].inbox), NEW x, x = m.tid,
                     NEW v, v = th[me].obj
              PROVE  WInv'
  OBVIOUS
<1>0. PICK n : n = Ipm(m.from, Answer, x, c, v)
  OBVIOUS
<1>1. /\ UNCHANGED <<task, pool, rq, curr, tid_cpu, next_tid, known, waiters, ioq>>
      /\ th[me].pc = "answer" /\ mq' = Append(mq, n) /\ Pop(c)
      /\ th' = [th EXCEPT ![me] = [Thread0 EXCEPT !.pc = "ipm"]]
  BY <1>0 DEF AnswerCreate, Send, shared, ids, calls, At, Answer
<1>2. /\ me \in Tid /\ me \in Workers /\ me = Worker[c] /\ th \in [Tid -> ThreadType]
      /\ th[me].pc \in WorkPcs
  BY <1>1, Here DEF WorkPcs, IInv, Threads
<1>3. PICK r : r = [Thread0 EXCEPT !.pc = "ipm"]
  OBVIOUS
<1>4. th' = [th EXCEPT ![me] = r] /\ th'[me] = r /\ r.pc = "ipm"
  BY <1>1, <1>2, <1>3 DEF Thread0
<1>5. wk[c].inbox # <<>> /\ m.kind = "CreateTask"
  <2>1. Serves(th[me])
    BY <1>1 DEF Serves
  <2>. QED BY <1>2, <2>1 DEF IInv, Served, WInv, Body, Desk
<1>6. v \in New /\ v \in known
  BY <1>1, <1>2 DEF WInv, Body, Hand
<1>7. /\ wk'[c].inbox = Tail(wk[c].inbox)
      /\ \A d \in CPU : wk'[d].victim = wk[d].victim /\ wk'[d].todo = wk[d].todo
      /\ \A d \in CPU \ {c} : wk'[d].inbox = wk[d].inbox
  BY <1>1, Pops
<1>8. /\ x \in Tid /\ Wakee(m) = x /\ m.from = tid_cpu[x] /\ m.from \in CPU
      /\ InMail("CreateTask") \in Wakers(x)
  <2>1. m \in Message /\ Fit(m) /\ What(m) \in Said(boxes, m.kind, Wakee(m))
    BY <1>5, FirstMessage
  <2>2. Wakee(m) = x
    BY <1>5 DEF Wakee
  <2>3. x \in Tid /\ m.from \in CPU
    BY <2>1 DEF Message
  <2>4. Said(boxes, "CreateTask", x) # {} /\ "CreateTask" \in Kinds
    BY <1>5, <2>1, <2>2 DEF Kinds
  <2>5. m.from = tid_cpu[x]
    BY <1>5, <2>1, <2>2 DEF Fit
  <2>. QED BY <2>2, <2>3, <2>4, <2>5, Spotted
<1>24. v \in Since(th[x].obj)
  <2>1. Desk(c) /\ Made(th[Worker[c]])
    BY <1>1, <1>2 DEF WInv, Body, Made
  <2>2. th[x].obj <= v
    BY <1>2, <2>1 DEF Desk
  <2>3. th[x].obj \in Nat /\ v \in Nat
    BY <1>2, <1>8 DEF ThreadType
  <2>. QED BY <1>6, <2>2, <2>3 DEF Since
<1>9. /\ Wakers(x) = {InMail("CreateTask")} /\ Said(boxes, Answer, x) = {}
      /\ Said(boxes, "Unblock", x) = {}
  BY <1>8, SoleRequest
<1>10. x # me /\ Wakers(x) # {}
  BY <1>2, <1>8, HasWaker
<1>11. Paces(me, r)
  BY <1>1, <1>4 DEF Paces
<1>12. /\ n \in Message /\ n.kind = Answer /\ Wakee(n) = x /\ What(n) = v /\ Fit(n)'
  <2>1. n.kind = Answer /\ n.dest = m.from /\ n.tid = x /\ n.val = v
    BY <1>0 DEF Ipm
  <2>2. n \in Message
    BY <1>0, <1>6, <1>8, SchedAssumption DEF Ipm, Message, Place, New, Tid, Answer
  <2>3. Fit(n)'
    BY <1>1, <1>6, <1>8, <2>1, KnownAreBelow DEF Fit, Kinds, Answer, Wakee
  <2>. QED BY <2>1, <2>2, <2>3 DEF Wakee, What, Answer
<1>13. /\ Mails' /\ \A k, t : Said(boxes, k, t)' \subseteq Said(boxes, k, t) \cup {What(n)}
       /\ \A k, t : k # n.kind \/ t # Wakee(n) => Said(boxes, k, t)' \subseteq Said(boxes, k, t)
       /\ m.kind # n.kind => Said(boxes, m.kind, Wakee(m))' = {}
  <2>1. /\ Said(boxes, n.kind, Wakee(n)) = {}
        /\ n.kind = Answer => Said(boxes, "Unblock", Wakee(n)) = {}
    BY <1>9, <1>12
  <2>2. wk[c].inbox # <<>> /\ mq' = Append(mq, n) /\ n \in Message /\ Fit(n)'
    BY <1>1, <1>5, <1>12
  <2>. QED BY <1>7, <1>11, <2>1, <2>2, MailsPassed
<1>14. /\ \A k, t : k # Answer \/ t # x => Said(boxes, k, t)' \subseteq Said(boxes, k, t)
       /\ Said(boxes, Answer, x)' \subseteq {v} /\ Said(boxes, "CreateTask", x)' = {}
  <2>1. Said(boxes, Answer, x)' \subseteq Said(boxes, Answer, x) \cup {v}
    BY <1>12, <1>13
  <2>2. Answer # "CreateTask"
    BY DEF Answer
  <2>. QED BY <1>5, <1>8, <1>9, <1>12, <1>13, <2>1, <2>2
<1>15. Rows'
  BY <1>1, <1>7 DEF WInv, Rows
<1>16. \A w \in Tid : \A t : Unblocks(th'[w], t) => Unblocks(th[w], t)
  BY <1>2, <1>4, HandsFree
<1>17. Gains(x, InMail(Answer))
  <2>1. \A t : \A k \in Kinds : Said(boxes, k, t)' # {} =>
               Said(boxes, k, t) # {} \/ (t = x /\ InMail(Answer) = InMail(k))
    BY <1>14
  <2>. QED BY <1>1, <1>7, <1>16, <2>1 DEF Gains
<1>18. /\ Wakers(x)' \subseteq Wakers(x) \cup {InMail(Answer)}
       /\ \A t : t # x => Wakers(t)' \subseteq Wakers(t)
  BY <1>17, GainsOne
<1>19. InMail("CreateTask") \notin Wakers(x)'
  BY <1>14, SpottedNext
<1>20. Account(x)'
  <2>1. /\ th[me].pc # "dead" /\ task' = task
        /\ Said(boxes, "AddJoiner", x)' \subseteq Said(boxes, "AddJoiner", x)
    BY <1>1, <1>14 DEF Answer
  <2>. QED BY <1>2, <1>8, <1>10, <1>11, <1>14, <1>18, <1>19, <1>24, <2>1, AccountCreated
<1>21. \A t \in Tid \ {x} : /\ Wakers(t)' \subseteq Wakers(t) /\ task'[t].ret = task[t].ret
                            /\ \A k : Said(boxes, k, t)' \subseteq Said(boxes, k, t)
  BY <1>1, <1>14, <1>18
<1>22. \A t \in Tid : task'[t].blocked = task[t].blocked /\ task'[t].state = task[t].state
  BY <1>1
<1>23. UNCHANGED <<pool, rq, curr, tid_cpu, next_tid, known>> /\ task'[x].ret = task[x].ret
  BY <1>1
<1>. QED BY <1>2, <1>4, <1>7, <1>8, <1>10, <1>13, <1>15, <1>20, <1>21, <1>22, <1>23, WorkerMoves

\* The joiner asks for the task it joins.
LEMMA AsksForIt ==
    ASSUME IInv, WInv, NEW x \in Tid, InMail("AddJoiner") \in Wakers(x),
           NEW w \in Said(boxes, "AddJoiner", x)
    PROVE  w = th[x].obj
<1>. DEFINE d == tid_cpu[x]
            K == Wakers(x)
            g == Goal(th[x])
            a == Owed(th[x], task[x].blocked)
            ret == task[x].ret
            u == th[x].obj
            ans == Said(boxes, "RespondAndUnblock", x)
            ask == Said(boxes, "AddJoiner", x)
            end == th[u].pc
            home == tid_cpu[u]
<1>1. Ledger(g, a, ret, u, K, ans, ask, end, d, home) /\ d \in CPU
  BY HasWaker DEF Account
<1>2. InMail("AddJoiner") \in K /\ w \in ask
  OBVIOUS
<1>. HIDE DEF d, K, g, a, ret, u, ans, ask, end, home
<1>. DEFINE L == {}
            ans2 == {}
<1>3. \/ home # d /\ ans2 \subseteq {w}
           /\ L \subseteq (K \ {InMail("AddJoiner")}) \cup {InMail("RespondAndUnblock"), InList(w)}
      \/ ans2 \subseteq {0}
           /\ L \subseteq (K \ {InMail("AddJoiner")}) \cup {InMail("RespondAndUnblock")}
  OBVIOUS
<1>. HIDE DEF L, ans2
<1>4. Ledger(g, a, ret, u, L, ans2, ask, end, d, home) /\ w = u
  BY <1>1, <1>2, <1>3, LedgerAsked
<1>. QED BY <1>4 DEF u

\* The worker answers the joiner x, and has put it in the list of w.
LEMMA AccountAsked ==
    ASSUME IInv, WInv, NEW me, NEW r, Paces(me, r), th[me].pc # "dead",
           NEW x \in Tid, th'[x] = th[x], task'[x].blocked = task[x].blocked, task'[x].ret = task[x].ret,
           InMail("AddJoiner") \in Wakers(x), NEW w \in Said(boxes, "AddJoiner", x), NEW ans2, NEW L,
           \/ tid_cpu[w] # tid_cpu[x] /\ ans2 \subseteq {w} /\ L \subseteq {InMail(Answer), InList(w)}
           \/ ans2 \subseteq {0} /\ L \subseteq {InMail(Answer)},
           Wakers(x)' \subseteq L, Said(boxes, Answer, x)' \subseteq ans2,
           Said(boxes, "AddJoiner", x)' \subseteq Said(boxes, "AddJoiner", x)
    PROVE  Account(x)'
<1>1. x \notin Workers /\ Account(x) /\ tid_cpu[x] \in CPU /\ w = th[x].obj
  BY HasWaker, AsksForIt
<1>2. UNCHANGED tid_cpu /\ Steady
  BY PacesSteady DEF Paces
<1>. DEFINE g == Goal(th[x])
            a == Due(x)
            ret == task[x].ret
            u == th[x].obj
            K == Wakers(x)
            ans == Said(boxes, Answer, x)
            ask == Said(boxes, "AddJoiner", x)
            end == th[u].pc
            home == tid_cpu[u]
            d == tid_cpu[x]
<1>3. Ledger(g, a, ret, u, K, ans, ask, end, d, home) /\ d \in CPU
  BY <1>1 DEF Account, Due, Answer
<1>4. /\ InMail("AddJoiner") \in K /\ w \in ask
      /\ \/ home # d /\ ans2 \subseteq {w}
              /\ L \subseteq (K \ {InMail("AddJoiner")}) \cup {InMail("RespondAndUnblock"), InList(w)}
         \/ ans2 \subseteq {0}
              /\ L \subseteq (K \ {InMail("AddJoiner")}) \cup {InMail("RespondAndUnblock")}
  BY <1>1 DEF Answer
<1>5. /\ Due(x)' = a /\ task'[x].ret = ret /\ Goal(th'[x]) = g /\ th'[x].obj = u
      /\ Said(boxes, "AddJoiner", x)' \subseteq ask
  BY DEF Due
<1>. HIDE DEF g, a, ret, u, K, ans, ask, end, home, d
<1>6. Ledger(g, a, ret, u, L, ans2, ask, end, d, home)
  BY <1>3, <1>4, LedgerAsked
<1>7. Ledger(Goal(th[x]), a, ret, th[x].obj, L, ans2, ask, th[th[x].obj].pc, tid_cpu[x], tid_cpu[th[x].obj])
  BY <1>6 DEF g, u, end, home, d
<1>8. x \in Tid \ Workers /\ Goal(th'[x]) = Goal(th[x]) /\ th'[x].obj = th[x].obj
  BY <1>1, <1>5 DEF g, u
<1>. QED BY <1>2, <1>5, <1>7, <1>8, AccountSettled

LEMMA DoAddJoinerWakes ==
    ASSUME IInv, WInv, NEW c \in CPU, DoAddJoiner(c)
    PROVE  WInv'
<1>. SUFFICES ASSUME NEW me, me = T(c), NEW m, m = Head(wk[c].inbox), NEW x, x = m.val,
                     NEW w, w = m.tid
              PROVE  WInv'
  OBVIOUS
<1>0. PICK v, n, r : /\ v = IF w \in pool[c] THEN w ELSE 0
                     /\ n = Ipm(m.from, Answer, x, c, v) /\ r = th[me]
  OBVIOUS
<1>1. /\ UNCHANGED <<th, pool, rq, curr, tid_cpu, next_tid, known, waiters, ioq>>
      /\ th[me].pc = "ipm" /\ mq' = Append(mq, n) /\ Pop(c)
      /\ wk[c].inbox # <<>> /\ m.kind = "AddJoiner"
      /\ task' = IF w \in pool[c] THEN [task EXCEPT ![w].joiners = Append(@, x)] ELSE task
  BY <1>0 DEF DoAddJoiner, Next_ipm, Send, shared, ids, calls, At, Answer
<1>2. /\ me \in Tid /\ me \in Workers /\ me = Worker[c] /\ th \in [Tid -> ThreadType]
      /\ th[me].pc \in WorkPcs /\ task \in [Tid -> TaskType]
  BY <1>1, Here DEF WorkPcs, IInv, Threads, Tasks
<1>3. th' = [th EXCEPT ![me] = r] /\ th' = th /\ r.pc = "ipm"
  BY <1>0, <1>1, <1>2
<1>4. Paces(me, r) /\ th[me].pc # "dead"
  BY <1>1, <1>3 DEF Paces
<1>5. /\ wk'[c].inbox = Tail(wk[c].inbox)
      /\ \A d \in CPU : wk'[d].victim = wk[d].victim /\ wk'[d].todo = wk[d].todo
      /\ \A d \in CPU \ {c} : wk'[d].inbox = wk[d].inbox
  BY <1>1, Pops
<1>6. /\ x \in Tid /\ w \in Tid /\ Wakee(m) = x /\ m.from = tid_cpu[x] /\ m.from \in CPU
      /\ w \in Said(boxes, "AddJoiner", x) /\ (w \in pool[c] => tid_cpu[x] # c)
      /\ w \in known
      /\ InMail("AddJoiner") \in Wakers(x)
  <2>1. m \in Message /\ Fit(m) /\ m.dest = c /\ What(m) \in Said(boxes, m.kind, Wakee(m))
    BY <1>1, FirstMessage
  <2>2. Wakee(m) = x /\ What(m) = w
    BY <1>1 DEF Wakee, What
  <2>3. x \in Tid /\ w \in Tid /\ m.from \in CPU
    BY <1>1, <2>1 DEF Message
  <2>4. w \in Said(boxes, "AddJoiner", x) /\ "AddJoiner" \in Kinds
    BY <1>1, <2>1, <2>2 DEF Kinds
  <2>5. m.from = tid_cpu[x] /\ (w \in pool[c] => tid_cpu[x] # c) /\ w \in known
    BY <1>1, <2>1, <2>2 DEF Fit
  <2>. QED BY <2>2, <2>3, <2>4, <2>5, Spotted
<1>7. /\ Wakers(x) = {InMail("AddJoiner")} /\ Said(boxes, Answer, x) = {}
      /\ Said(boxes, "Unblock", x) = {}
  BY <1>6, SoleRequest
<1>8. x # me /\ Wakers(x) # {}
  BY <1>2, <1>6, HasWaker
<1>9. n \in Message /\ n.kind = Answer /\ Wakee(n) = x /\ What(n) = v /\ Fit(n)'
  <2>1. n.kind = Answer /\ n.dest = m.from /\ n.tid = x /\ n.val = v
    BY <1>0 DEF Ipm
  <2>2. n \in Message
    BY <1>0, <1>6, SchedAssumption DEF Ipm, Message, Place, Tid, Answer
  <2>3. Fit(n)'
    BY <1>0, <1>1, <1>6, <2>1, KnownAreBelow DEF Fit, Kinds, Answer, Wakee
  <2>. QED BY <2>1, <2>2, <2>3 DEF Wakee, What, Answer
<1>10. /\ Mails' /\ \A k, t : Said(boxes, k, t)' \subseteq Said(boxes, k, t) \cup {What(n)}
       /\ \A k, t : k # n.kind \/ t # Wakee(n) => Said(boxes, k, t)' \subseteq Said(boxes, k, t)
       /\ m.kind # n.kind => Said(boxes, m.kind, Wakee(m))' = {}
  <2>1. /\ Said(boxes, n.kind, Wakee(n)) = {}
        /\ n.kind = Answer => Said(boxes, "Unblock", Wakee(n)) = {}
    BY <1>7, <1>9
  <2>2. wk[c].inbox # <<>> /\ mq' = Append(mq, n) /\ n \in Message /\ Fit(n)'
    BY <1>1, <1>9
  <2>. QED BY <1>4, <1>5, <2>1, <2>2, MailsPassed
<1>11. /\ \A k, t : k # Answer \/ t # x => Said(boxes, k, t)' \subseteq Said(boxes, k, t)
       /\ Said(boxes, Answer, x)' \subseteq {v} /\ Said(boxes, "AddJoiner", x)' = {}
  <2>1. Said(boxes, Answer, x)' \subseteq Said(boxes, Answer, x) \cup {v}
    BY <1>9, <1>10
  <2>2. Answer # "AddJoiner"
    BY DEF Answer
  <2>. QED BY <1>1, <1>6, <1>7, <1>9, <1>10, <2>1, <2>2
<1>12. /\ task[w].joiners \in Seq(Tid) /\ x \notin Range(task[w].joiners)
       /\ Append(task[w].joiners, x) \in Seq(Tid) /\ IsInjective(Append(task[w].joiners, x))
       /\ \A t : t \in Range(Append(task[w].joiners, x)) => t \in Range(task[w].joiners) \/ t = x
  <2>1. InList(w) # InMail("AddJoiner")
    BY SpotsDiffer
  <2>2. x \notin Range(task[w].joiners)
    BY <1>6, <1>7, <2>1, Spotted
  <2>3. task[w].joiners \in Seq(Tid) /\ IsInjective(task[w].joiners)
    BY <1>2, <1>6 DEF TaskType, WInv, Rows
  <2>4. PICK s : s = task[w].joiners
    OBVIOUS
  <2>5. s \in Seq(Tid) /\ IsInjective(s) /\ x \notin Range(s)
    BY <2>2, <2>3, <2>4
  <2>6. /\ Append(s, x) \in Seq(Tid) /\ \A t : t \in Range(Append(s, x)) => t \in Range(s) \/ t = x
        /\ IsInjective(Append(s, x))
    BY <1>6, <2>5, ListGrows
  <2>. QED BY <2>2, <2>3, <2>4, <2>6
<1>13. /\ \A t \in Tid : /\ task'[t].blocked = task[t].blocked /\ task'[t].state = task[t].state
                         /\ task'[t].ret = task[t].ret
                         /\ t # w \/ w \notin pool[c] => task'[t].joiners = task[t].joiners
       /\ w \in pool[c] => task'[w].joiners = Append(task[w].joiners, x)
  <2>1. CASE w \in pool[c]
    <3>1. task' = [task EXCEPT ![w].joiners = Append(@, x)]
      BY <1>1, <2>1
    <3>. QED BY <1>2, <1>6, <2>1, <3>1 DEF TaskType
  <2>2. CASE w \notin pool[c]
    BY <1>1, <2>2
  <2>. QED BY <2>1, <2>2
<1>14. Rows'
  <2>1. \A t \in Tid : IsInjective(task'[t].joiners)
    BY <1>12, <1>13 DEF WInv, Rows
  <2>. QED BY <1>1, <1>5, <2>1 DEF WInv, Rows
<1>15. \A t, u : u \in Tid /\ t \in Range(task'[u].joiners) =>
            t \in Range(task[u].joiners) \/ (t = x /\ u = w /\ w \in pool[c])
  BY <1>12, <1>13
<1>16. \A t \in Tid \ {x} : Wakers(t)' \subseteq Wakers(t)
  <2>. SUFFICES ASSUME NEW t \in Tid \ {x} PROVE Wakers(t)' \subseteq Wakers(t) \cup {}
    OBVIOUS
  <2>1. \A u \in Tid : t \in Range(task'[u].joiners) => t \in Range(task[u].joiners)
    BY <1>15
  <2>2. \A k \in Kinds : Said(boxes, k, t)' # {} => Said(boxes, k, t) # {}
    BY <1>11
  <2>. QED BY <1>1, <1>5, <2>1, <2>2, WakersMove
<1>. DEFINE L == {InMail(Answer)} \cup {p \in {InList(w)} : w \in pool[c]}
<1>17. Wakers(x)' \subseteq L
  <2>1. /\ \A u \in Tid : x \in Range(task'[u].joiners) => x \in Range(task[u].joiners) \/ InList(u) \in L
        /\ \A k \in Kinds : Said(boxes, k, x)' # {} => Said(boxes, k, x) # {} \/ InMail(k) \in L
    BY <1>11, <1>15
  <2>. HIDE DEF L
  <2>2. Wakers(x)' \subseteq Wakers(x) \cup L
    BY <1>1, <1>5, <2>1, WakersMove
  <2>3. InMail("AddJoiner") \notin Wakers(x)'
    BY <1>11, SpottedNext
  <2>. QED BY <1>7, <2>2, <2>3
<1>18. Account(x)'
  <2>1. PICK ans2 : ans2 = {v}
    OBVIOUS
  <2>2. \/ tid_cpu[w] # tid_cpu[x] /\ ans2 \subseteq {w} /\ L \subseteq {InMail(Answer), InList(w)}
        \/ ans2 \subseteq {0} /\ L \subseteq {InMail(Answer)}
    <3>1. CASE w \in pool[c]
      <4>1. tid_cpu[w] = c /\ v = w
        BY <1>0, <1>6, <3>1, AtHome
      <4>. QED BY <1>6, <2>1, <3>1, <4>1
    <3>2. CASE w \notin pool[c]
      BY <1>0, <2>1, <3>2
    <3>. QED BY <3>1, <3>2
  <2>. HIDE DEF L
  <2>3. /\ th'[x] = th[x] /\ task'[x].blocked = task[x].blocked /\ task'[x].ret = task[x].ret
        /\ Said(boxes, Answer, x)' \subseteq ans2
        /\ Said(boxes, "AddJoiner", x)' \subseteq Said(boxes, "AddJoiner", x)
    BY <1>3, <1>6, <1>11, <1>13, <2>1
  <2>. QED BY <1>4, <1>6, <1>17, <2>2, <2>3, AccountAsked
<1>19. \A t \in Tid \ {x} : /\ Wakers(t)' \subseteq Wakers(t) /\ task'[t].ret = task[t].ret
                            /\ \A k : Said(boxes, k, t)' \subseteq Said(boxes, k, t)
  BY <1>11, <1>13, <1>16
<1>20. \A t \in Tid : task'[t].blocked = task[t].blocked /\ task'[t].state = task[t].state
  BY <1>13
<1>21. UNCHANGED <<pool, rq, curr, tid_cpu, next_tid, known>>
  BY <1>1
<1>22. \/ r.pc = "ipm" \/ (r.pc = "ub_map" /\ r.back = "ipm")
       \/ th[me].pc = "drop" /\ r.pc = "ub_map" /\ r.back = "drop"
  BY <1>3
<1>23. /\ th[me].pc \in WorkPcs /\ th' = [th EXCEPT ![me] = r] /\ Mails'
       /\ \A d \in CPU : wk'[d].victim = wk[d].victim
       /\ \A d \in CPU \ {c} : wk'[d].inbox = wk[d].inbox
       /\ x \in Tid /\ Wakers(x) # {} /\ task'[x].ret = task[x].ret
  BY <1>2, <1>3, <1>5, <1>6, <1>8, <1>10, <1>13
<1>. HIDE DEF L
<1>. QED BY <1>14, <1>18, <1>19, <1>20, <1>21, <1>22, <1>23, WorkerMoves

\* The messages after the worker c took its own.
Taking(b, c) == [b EXCEPT ![c] = Kept(b[None], Addressed(c)),
                          ![None] = Kept(b[None], DOMAIN b[None] \ Addressed(c))]

LEMMA BoxesTaken ==
    ASSUME IInv, WInv, NEW c \in CPU, NEW f, f = Taking(boxes, c)
    PROVE  /\ f \in Queuing /\ Flown(boxes, f)
           /\ f[c] = Kept(mq, Addressed(c)) /\ f[None] = Kept(mq, DOMAIN mq \ Addressed(c))
           /\ \A d \in CPU \ {c} : f[d] = wk[d].inbox
<1>. DEFINE b == boxes
            A == Addressed(c)
            N == DOMAIN mq \ A
            s == Kept(mq, A)
            u == Kept(mq, N)
<1>1. /\ b \in Queuing /\ None \in Place /\ b[None] = mq /\ c # None /\ c \in Place
      /\ \A d \in CPU : d \in Place /\ d # None /\ b[d] = wk[d].inbox
  BY BoxesAre, SchedAssumption DEF SchedAssumption
<1>2. Ordered(b) /\ Straight(b)
  BY GoStraight
<1>3. /\ A \in SUBSET DOMAIN mq /\ N \in SUBSET DOMAIN mq
      /\ (\A i \in A : mq[i].dest = c) /\ \A i \in N : mq[i].dest # c
  BY DEF Addressed
<1>4. mq \in Seq(Message)
  BY <1>1 DEF Queuing
<1>5. s \in Seq(Message) /\ u \in Seq(Message)
  <2>. HIDE DEF A, N
  <2>. QED BY <1>3, <1>4, KeptKeeps
<1>6. f = [b EXCEPT ![c] = s, ![None] = u]
  BY <1>1 DEF Taking
<1>. HIDE DEF b, s, u
<1>7. /\ f \in Queuing /\ f[c] = s /\ f[None] = u /\ \A x \in Place \ {c, None} : f[x] = b[x]
  BY <1>1, <1>5, <1>6 DEF Queuing
<1>8. Flown(b, f)
  <2>1. /\ A \in SUBSET DOMAIN b[None] /\ N \in SUBSET DOMAIN b[None]
        /\ (\A i \in A : b[None][i].dest = c) /\ \A i \in N : b[None][i].dest # c
        /\ f[c] = Kept(b[None], A) /\ f[None] = Kept(b[None], N)
    BY <1>1, <1>3, <1>7 DEF s, u
  <2>2. b \in Queuing /\ f \in Queuing /\ \A x \in Place \ {c, None} : f[x] = b[x]
    BY <1>1, <1>7
  <2>3. PICK h : h = f
    OBVIOUS
  <2>. HIDE DEF A, N
  <2>4. Flown(b, h)
    BY <1>2, <2>1, <2>2, <2>3, MessagesFetched
  <2>. QED BY <2>3, <2>4
<1>. QED BY <1>1, <1>7, <1>8 DEF b, s, u, A, N

LEMMA MailsTaken ==
    ASSUME IInv, WInv, NEW me, NEW r, Paces(me, r), NEW c \in CPU,
           mq' = Kept(mq, DOMAIN mq \ Addressed(c)), wk'[c].inbox = Kept(mq, Addressed(c)),
           \A d \in CPU \ {c} : wk'[d].inbox = wk[d].inbox
    PROVE  Mails' /\ \A k, t : Said(boxes, k, t)' \subseteq Said(boxes, k, t)
<1>0. PICK f : f = Taking(boxes, c)
  OBVIOUS
<1>1. /\ f \in Queuing /\ Flown(boxes, f)
      /\ f[c] = Kept(mq, Addressed(c)) /\ f[None] = Kept(mq, DOMAIN mq \ Addressed(c))
      /\ \A d \in CPU \ {c} : f[d] = wk[d].inbox
  BY <1>0, BoxesTaken
<1>2. f[None] = mq' /\ \A d \in CPU : f[d] = wk'[d].inbox
  BY <1>1
<1>3. boxes' = f
  BY <1>1, <1>2, BoxesNext
<1>4. \A k, t : Said(boxes, k, t)' = Said(f, k, t)
  BY <1>3, SaidNext
<1>5. Mails'
  <2>1. Ordered(f)
    BY <1>1 DEF Flown
  <2>2. \A x \in Place : \A i \in DOMAIN f[x] :
          \E y \in Place : \E j \in DOMAIN boxes[y] : f[x][i] = boxes[y][j]
    BY <1>1 DEF Flown
  <2>. QED BY <1>1, <1>3, <2>1, <2>2, MailsNext
<1>. QED BY <1>1, <1>4, <1>5 DEF Flown

LEMMA FetchWakes ==
    ASSUME IInv, WInv, NEW c \in CPU, Fetch(c)
    PROVE  WInv'
<1>. SUFFICES ASSUME NEW me, me = T(c) PROVE WInv'
  OBVIOUS
<1>1. /\ UNCHANGED <<task, pool, rq, curr, tid_cpu, next_tid, known, waiters, ioq>>
      /\ th[me].pc = "fetch" /\ wk' = [wk EXCEPT ![c].inbox = Kept(mq, Addressed(c))]
      /\ mq' = Kept(mq, DOMAIN mq \ Addressed(c)) /\ Goto(c, "ipm")
  BY DEF Fetch, shared, ids, calls, At
<1>2. /\ me \in Tid /\ me \in Workers /\ me = Worker[c] /\ th \in [Tid -> ThreadType]
      /\ th[me].pc \in WorkPcs /\ wk \in [CPU -> WorkType]
  BY <1>1, Here DEF WorkPcs, IInv, Threads, Moves
<1>3. PICK r : Sets(me, r, "ipm", th[me].back, th[me].obj, th[me].arg)
  BY <1>1, GoesTo
<1>4. Paces(me, r) /\ Thins /\ Spares(me)
  BY <1>1, <1>3 DEF Paces, Sets, Thins, Spares
<1>5. /\ wk'[c].inbox = Kept(mq, Addressed(c))
      /\ \A d \in CPU : wk'[d].victim = wk[d].victim /\ wk'[d].todo = wk[d].todo
      /\ \A d \in CPU \ {c} : wk'[d].inbox = wk[d].inbox
  BY <1>1, <1>2 DEF WorkType
<1>6. Mails' /\ \A k, t : Said(boxes, k, t)' \subseteq Said(boxes, k, t)
  BY <1>1, <1>4, <1>5, MailsTaken
<1>7. Rows'
  BY <1>1, <1>5 DEF WInv, Rows
<1>8. \A w \in Tid : \A t : Unblocks(th'[w], t) => Unblocks(th[w], t)
  BY <1>2, <1>3, HandsFree DEF Sets
<1>9. \A t \in Tid : /\ Wakers(t)' \subseteq Wakers(t)
                     /\ \A k : Said(boxes, k, t)' \subseteq Said(boxes, k, t)
  <2>. SUFFICES ASSUME NEW t \in Tid PROVE Wakers(t)' \subseteq Wakers(t) \cup {}
    BY <1>6
  <2>1. \A k \in Kinds : Said(boxes, k, t)' # {} => Said(boxes, k, t) # {}
    BY <1>6
  <2>. QED BY <1>1, <1>5, <1>8, <2>1, WakersMove
<1>10. \A d \in CPU : Desk(d)'
  <2>1. ~Serves(r) /\ ~Holds(r) /\ (Buries(r) => Buries(th[me])) /\ r.pc \notin MovePcs
    BY <1>3 DEF Sets, Serves, Holds, Buries, MakePcs, WakePcs, MovePcs
  <2>. QED BY <1>2, <1>3, <1>5, <2>1, DesksMoved DEF Sets
<1>11. Owner(me, r)
  <2>1. Hand(me)' /\ th[me].pc \notin Blk \cup {"spawn_ret", "join_ans", "slp_int"}
    BY <1>1, <1>3 DEF Hand, Sets, Blk, Makes
  <2>2. r.pc \notin Blk \cup {"dead", "ub_ready", "ub_add", "cr_add"}
    BY <1>3 DEF Sets, Blk
  <2>. QED BY <1>1, <1>2, <1>4, <2>1, <2>2, OwnerOn
<1>12. Body'
  BY <1>2, <1>4, <1>10, <1>11, PacesTreads, BodyKept
<1>13. Accounts'
  <2>1. th[me].pc # "dead" /\ UNCHANGED task
    BY <1>1
  <2>. QED BY <1>2, <1>4, <1>9, <2>1, PacesTreads, AccountsKept
<1>. QED BY <1>6, <1>7, <1>12, <1>13 DEF WInv

\* A thread takes the unblock p of x off the count of x on the CPU c of both.
LEMMA PayerMoves ==
    ASSUME IInv, WInv, NEW c \in CPU, NEW me, me = T(c), NEW r, Paces(me, r), UNCHANGED curr,
           th[me].pc \in WakePcs \cup MakePcs \cup {"sig"}, th[me].pc # "cr_new",
           r.pc \notin Blk \cup {"joined", "spawn_ret", "join_ans", "dead"},
           NEW x \in Tid, x # me, tid_cpu[x] = c, NEW p \in Wakers(x),
           p = InQueue \/ \E v \in Tid : p = InHand(v) /\ (v \in Workers => v = Worker[c]),
           task'[x].blocked = task[x].blocked - 1, task'[x].ret = task[x].ret,
           task'[x].state \in {task[x].state, "Ready"},
           \A t \in Tid \ {x} : task'[t] = task[t],
           \A v \in Tid, t \in Tid : Brings(v, t)' =>
                Brings(v, t) \/ (t = x /\ v = me /\ task[x].blocked = 1),
           \A v \in Tid, t \in Tid : Brings(v, t)' /\ th'[v].pc = "cr_add" => Brings(v, t) /\ th[v].pc = "cr_add",
           \A t \in Tid \ {x} : Readying(t)' => Readying(t),
           \A d \in CPU : \A t \in Range(rq'[d]) : t \in Range(rq[d])
                \/ (t = x /\ d = c /\ task[x].blocked = 1 /\ \A v \in Tid : Brings(v, x)' => Brings(v, x)),
           Hand(me)', me \notin Workers => Track(me)', \A d \in CPU : Desk(d)',
           Mails', Rows', Wakers(x)' \subseteq Wakers(x) \ {p},
           \A k, t : Said(boxes, k, t)' \subseteq Said(boxes, k, t),
           \A t \in Tid \ {x} : Wakers(t)' \subseteq Wakers(t)
    PROVE  WInv'
<1>1. /\ me \in Tid /\ th'[me] = r /\ me \in known /\ tid_cpu[me] = c /\ th[me].pc # "dead"
      /\ \A t \in Tid \ {me} : th'[t] = th[t]
  <2>1. me \in Tid /\ me \in pool[c] /\ me \in known
    BY Here
  <2>. QED BY <2>1, AtHome DEF Paces, IInv, Threads, WakePcs, MakePcs
<1>2. \A t \in Tid : Coming(t)' => Coming(t)
  <2>. SUFFICES ASSUME NEW t \in Tid, NEW v \in Tid, th'[v].pc = "cr_add", th'[v].obj = t
                PROVE  Coming(t)
    BY DEF Coming
  <2>1. Brings(v, t)'
    BY DEF Brings
  <2>. QED BY <2>1 DEF Brings, Coming
<1>3. \A t \in Tid \ {x} : Unbrought(t)
  BY <1>2 DEF Unbrought
<1>4. x \notin Workers /\ Alone(x)' /\ Account(x)'
  <2>1. th'[x] = th[x]
    BY <1>1
  <2>2. \A v \in Tid : Brings(v, x)' => Brings(v, x) \/ (v = me /\ task[x].blocked = 1)
    OBVIOUS
  <2>3. \A d \in CPU : x \in Range(rq'[d]) =>
            x \in Range(rq[d]) \/ (task[x].blocked = 1 /\ \A v \in Tid : Brings(v, x)' => Brings(v, x))
    OBVIOUS
  <2>4. Coming(x)' => Coming(x)
    BY <1>2
  <2>5. \A k : Said(boxes, k, x)' \subseteq Said(boxes, k, x)
    OBVIOUS
  <2>. QED BY <1>1, <2>1, <2>2, <2>3, <2>4, <2>5, PaidKept
<1>5. Alone(me)'
  <2>1. task'[me] = task[me] /\ Unbrought(me) /\ r.pc \notin Blk \cup {"dead"}
    BY <1>1, <1>3
  <2>. QED BY <2>1, OwnerKept
<1>6. ASSUME NEW t \in Tid \ {me, x} PROVE Alone(t)'
  <2>1. /\ t \in Tid \ {me} /\ task'[t] = task[t] /\ Unbrought(t)
        /\ \A d \in CPU : t \in Range(rq'[d]) => t \in Range(rq[d])
    BY <1>3
  <2>. QED BY <1>1, <2>1, OtherKept
<1>7. \A d \in CPU : Row(d)'
  <2>1. x \in known /\ UNCHANGED <<tid_cpu, next_tid, known>>
    BY HasWaker DEF Paces
  <2>. QED BY <2>1, RowsGrow
<1>8. Body'
  <2>1. \A t \in Tid : Alone(t)'
    BY <1>4, <1>5, <1>6
  <2>. QED BY <1>7, <2>1, BodyAlone
<1>9. me \notin Workers => Account(me)'
  <2>. SUFFICES ASSUME me \notin Workers PROVE Account(me)'
    OBVIOUS
  <2>1. Wakers(me) = {} /\ task[me].blocked = 0 /\ task[me].ret = 0
    BY Resting DEF WakePcs, MakePcs, Blk
  <2>2. Wakers(me)' = {} /\ task'[me].blocked = 0 /\ task'[me].ret = 0
    BY <1>1, <2>1
  <2>3. th'[me].pc \notin Blk \cup {"joined", "spawn_ret", "join_ans"}
    BY <1>1
  <2>. QED BY <1>1, <2>2, <2>3, AccountIdle
<1>10. Accounts'
  <2>. DEFINE X == {x}
  <2>1. \A t \in X : t \notin Workers /\ Account(t)'
    BY <1>4
  <2>2. \A t \in Tid \ X : /\ Wakers(t)' \subseteq Wakers(t)
                           /\ \A k : Said(boxes, k, t)' \subseteq Said(boxes, k, t)
    OBVIOUS
  <2>3. \A t \in Tid \ (X \cup {me}) : /\ task'[t].blocked = task[t].blocked
                                       /\ task'[t].ret = task[t].ret
    OBVIOUS
  <2>4. me \notin Workers \cup X => Account(me)'
    BY <1>9
  <2>. HIDE DEF X
  <2>. QED BY <1>1, <2>1, <2>2, <2>3, <2>4, AccountsMoved
<1>. QED BY <1>8, <1>10 DEF WInv

LEMMA UnblockCountWakes ==
    ASSUME IInv, WInv, NEW c \in CPU, UnblockCount(c), fault' = "none"
    PROVE  WInv'
<1>. SUFFICES ASSUME NEW me, me = T(c), NEW x, x = th[me].obj PROVE WInv'
  OBVIOUS
<1>1. th[me].pc = "ub_cpu" /\ th[me].arg = c
  BY DEF UnblockCount, At
<1>2. me \in Tid /\ x \in Tid /\ th[me].pc \in WakePcs /\ (me \in Workers => me = Worker[c])
  <2>1. th[me].pc \in WakePcs
    BY <1>1 DEF WakePcs
  <2>. QED BY <2>1, WakesBack
<1>3. tid_cpu[x] = c
  BY <1>1, <1>2 DEF WInv, Body, Hand
<1>4. InHand(me) \in Wakers(x)
  <2>1. Unblocks(th[me], x)
    BY <1>1 DEF Unblocks
  <2>. QED BY <1>2, <2>1, Spotted
<1>5. x \notin Workers /\ x \in pool[c] /\ task[x].state # "Sleeping" /\ x # me
  <2>1. me \notin Workers => Wakers(me) = {}
    BY <1>1, Resting DEF Blk
  <2>2. x \notin Workers /\ x \in pool[c] /\ task[x].state # "Sleeping"
    BY <1>2, <1>3, <1>4, HasWaker
  <2>. QED BY <1>4, <2>1, <2>2
<1>. DEFINE l == IF task[x].blocked = 1 THEN "ub_ready" ELSE th[me].back
            tk == task[x]
<1>6. /\ UNCHANGED <<pool, rq, curr, tid_cpu, next_tid, known, mq, wk, waiters, ioq>> /\ Goto(c, l)
      /\ task' = [task EXCEPT ![x] = [tk EXCEPT !.blocked = @ - 1]]
  BY <1>5 DEF UnblockCount, shared, ids, calls
<1>7. task \in [Tid -> TaskType] /\ tk \in TaskType
  BY <1>2 DEF IInv, Tasks
<1>8. /\ task'[x].blocked = task[x].blocked - 1 /\ task'[x].ret = task[x].ret
      /\ task'[x].state = task[x].state /\ task'[x].joiners = task[x].joiners
      /\ \A t \in Tid \ {x} : task'[t] = task[t]
  BY <1>2, <1>6, <1>7 DEF TaskType
<1>. HIDE DEF l
<1>9. PICK r : Sets(me, r, l, th[me].back, x, th[me].arg)
  BY <1>6, GoesTo
<1>10. Paces(me, r)
  BY <1>6, <1>9 DEF Paces, Sets
<1>11. /\ Hand(me)' /\ (me \notin Workers => Track(me)') /\ \A d \in CPU : Desk(d)'
       /\ r.pc \notin Blk \cup {"joined", "spawn_ret", "join_ans", "dead", "ub_map", "ub_cpu", "cr_add"}
       /\ r.pc \in {"ub_ready", "ub_add"} => task[x].blocked = 1
  <2>1. CASE task[x].blocked = 1
    <3>1. Sets(me, r, "ub_ready", th[me].back, x, th[me].arg)
      BY <1>9, <2>1 DEF l
    <3>2. me \notin Workers => Track(me)
      BY <1>2 DEF WInv, Body
    <3>3. me \notin Workers => th[me].back = "ret"
      BY <1>2, WakesBack
    <3>4. Hand(me)' /\ (me \notin Workers => Track(me)')
      BY <3>1, <3>3 DEF Sets, Hand, Track, Awaits, Goal, Blk, WakePcs, Makes
    <3>5. \A d \in CPU : Desk(d)'
      <4>1. /\ ~Serves(r) /\ ~Made(r) /\ r.pc \notin MovePcs /\ ~Holds(r) /\ (Buries(r) => Buries(th[me]))
            /\ th[me].pc \notin Blk \cup {"dead"}
        BY <1>1, <3>1 DEF Sets, Serves, MakePcs, Holds, Buries, WakePcs, Made, Makes, MovePcs, Blk
      <4>2. th' = [th EXCEPT ![me] = r]
        BY <3>1 DEF Sets
      <4>. QED BY <1>1, <1>6, <4>1, <4>2, DesksKept
    <3>. QED BY <2>1, <3>1, <3>4, <3>5 DEF Sets, Blk
  <2>2. CASE task[x].blocked # 1
    <3>1. Sets(me, r, th[me].back, th[me].back, th[me].obj, th[me].arg)
      BY <1>9, <2>2 DEF l
    <3>2. UNCHANGED <<tid_cpu, next_tid, known, wk>>
      BY <1>6
    <3>. QED BY <1>2, <3>1, <3>2, GoesBack
  <2>. QED BY <2>1, <2>2
<1>12. Mails' /\ \A k, t : Said(boxes, k, t)' = Said(boxes, k, t)
  BY <1>6, <1>10, MailsStay
<1>13. Rows'
  <2>1. \A t \in Tid : task'[t].joiners = task[t].joiners
    BY <1>8
  <2>. QED BY <1>6, <2>1 DEF WInv, Rows
<1>14. \A v \in Tid : \A t : Unblocks(th'[v], t) => Unblocks(th[v], t) /\ v # me
  BY <1>2, <1>9, <1>11, HandsFree DEF Sets
<1>15. \A t : Wakers(t)' \subseteq Wakers(t)
  <2>. SUFFICES ASSUME NEW t PROVE Wakers(t)' \subseteq Wakers(t) \cup {}
    OBVIOUS
  <2>1. \A u \in Tid : task'[u].joiners = task[u].joiners
    BY <1>8
  <2>. QED BY <1>6, <1>12, <1>14, <2>1, WakersMove
<1>16. InHand(me) \notin Wakers(x)'
  BY <1>2, <1>14, SpottedNext
<1>17. /\ \A v \in Tid, t \in Tid : Brings(v, t)' =>
             Brings(v, t) \/ (t = x /\ v = me /\ task[x].blocked = 1)
       /\ \A v \in Tid, t \in Tid : Brings(v, t)' /\ th'[v].pc = "cr_add" =>
             Brings(v, t) /\ th[v].pc = "cr_add"
       /\ \A t \in Tid \ {x} : Readying(t)' => Readying(t)
  <2>1. /\ th'[me].obj = x /\ th'[me].pc # "cr_add" /\ \A v \in Tid \ {me} : th'[v] = th[v]
        /\ th'[me].pc \in {"ub_ready", "ub_add"} => task[x].blocked = 1
    BY <1>2, <1>9, <1>11 DEF Sets, IInv, Threads
  <2>. QED BY <2>1 DEF Brings, Readying
<1>18. \E v \in Tid : InHand(me) = InHand(v) /\ (v \in Workers => v = Worker[c])
  BY <1>2
<1>19. th[me].pc \in WakePcs \cup MakePcs \cup {"sig"} /\ th[me].pc # "cr_new"
  BY <1>1, <1>2
<1>20. r.pc \notin Blk \cup {"joined", "spawn_ret", "join_ans", "dead"}
  BY <1>11
<1>21. \A d \in CPU : \A t \in Range(rq'[d]) : t \in Range(rq[d])
          \/ (t = x /\ d = c /\ task[x].blocked = 1 /\ \A v \in Tid : Brings(v, x)' => Brings(v, x))
  BY <1>6
<1>. DEFINE p == InHand(me)
<1>22. /\ p \in Wakers(x) /\ Wakers(x)' \subseteq Wakers(x) \ {p}
       /\ p = InQueue \/ \E v \in Tid : p = InHand(v) /\ (v \in Workers => v = Worker[c])
  BY <1>4, <1>15, <1>16, <1>18
<1>23. /\ UNCHANGED curr /\ task'[x].state \in {task[x].state, "Ready"}
       /\ \A k, t : Said(boxes, k, t)' \subseteq Said(boxes, k, t)
       /\ \A t \in Tid \ {x} : Wakers(t)' \subseteq Wakers(t)
  BY <1>6, <1>8, <1>12, <1>15
<1>24. /\ Hand(me)' /\ (me \notin Workers => Track(me)') /\ \A d \in CPU : Desk(d)'
       /\ Mails' /\ x \in Tid /\ x # me
  BY <1>2, <1>5, <1>11, <1>12
<1>25. /\ task'[x].blocked = task[x].blocked - 1 /\ task'[x].ret = task[x].ret
       /\ \A t \in Tid \ {x} : task'[t] = task[t]
  BY <1>8
<1>. HIDE DEF p
<1>. QED BY <1>3, <1>10, <1>13, <1>17, <1>19, <1>20, <1>21, <1>22, <1>23, <1>24, <1>25, PayerMoves

\* unblock_task with the interrupts off, of a task that is owed an unblock:
\* the unblock is sent on, or taken off the count.
SentOn(c, x) == /\ tid_cpu[x] # c /\ mq' = Append(mq, Ipm(tid_cpu[x], "Unblock", x, c, 0))
                /\ UNCHANGED <<task, rq>>
TakenOff(c, x) ==
    /\ tid_cpu[x] = c /\ UNCHANGED mq
    /\ task'[x].blocked = task[x].blocked - 1 /\ task'[x].ret = task[x].ret
    /\ task'[x].state \in {task[x].state, "Ready"} /\ task'[x].joiners = task[x].joiners
    /\ \A t \in Tid \ {x} : task'[t] = task[t]
    /\ \A d \in CPU : \A t \in Range(rq'[d]) : t \in Range(rq[d])
          \/ (t = x /\ d = c /\ task[x].blocked = 1)

LEMMA AtOnce ==
    ASSUME IInv, WInv, NEW c \in CPU, NEW x \in Tid, NEW p \in Wakers(x), UnblockAtOnce(c, x)
    PROVE  SentOn(c, x) \/ TakenOff(c, x)
<1>1. /\ tid_cpu[x] \in CPU /\ x \in pool[tid_cpu[x]] /\ task[x].state # "Sleeping"
      /\ tid_cpu[x] # None
  BY HasWaker, SchedAssumption DEF SchedAssumption
<1>2. task \in [Tid -> TaskType] /\ rq \in [CPU -> Seq(Nat)] /\ x \in Nat
  BY SchedAssumption DEF IInv, Tasks, Queues, Tid, SchedAssumption
<1>3. CASE tid_cpu[x] # c
  BY <1>1, <1>3 DEF UnblockAtOnce, UnblockIpm, Elsewhere, Send, SentOn
<1>4. CASE tid_cpu[x] = c
  <2>. DEFINE tk == task[x]
              n == tk.blocked - 1
              s == IF tk.blocked = 1 THEN "Ready" ELSE tk.state
  <2>1. /\ task' = [task EXCEPT ![x].blocked = n, ![x].state = s]
        /\ rq' = IF tk.blocked = 1 THEN [rq EXCEPT ![c] = Append(@, x)] ELSE rq
        /\ UNCHANGED mq
    BY <1>1, <1>2, <1>4 DEF UnblockAtOnce, Elsewhere, TaskType
  <2>2. \A d \in CPU : \A t \in Range(rq'[d]) : t \in Range(rq[d])
           \/ (t = x /\ d = c /\ tk.blocked = 1)
    <3>1. CASE tk.blocked = 1
      <4>1. PICK q : q = rq[c]
        OBVIOUS
      <4>2. \A t : t \in Range(Append(q, x)) => t \in Range(q) \/ t = x
        BY <1>2, <4>1, ListGrows
      <4>3. rq'[c] = Append(q, x) /\ \A d \in CPU \ {c} : rq'[d] = rq[d]
        BY <1>2, <2>1, <3>1, <4>1
      <4>. QED BY <3>1, <4>1, <4>2, <4>3
    <3>2. CASE tk.blocked # 1
      BY <2>1, <3>2
    <3>. QED BY <3>1, <3>2
  <2>. HIDE DEF n, s
  <2>3. /\ task'[x].blocked = n /\ task'[x].ret = task[x].ret /\ task'[x].state = s
        /\ task'[x].joiners = task[x].joiners /\ \A t \in Tid \ {x} : task'[t] = task[t]
    BY <1>2, <2>1 DEF TaskType
  <2>. QED BY <1>4, <2>1, <2>2, <2>3 DEF n, s, TakenOff
<1>. QED BY <1>3, <1>4

\* The waiter that is let go.
LEMMA FirstWaiter ==
    ASSUME IInv, WInv, waiters # <<>>, NEW x, x = Head(waiters), waiters' = Tail(waiters)
    PROVE  /\ x \in Tid /\ InQueue \in Wakers(x)
           /\ \A t \in Range(waiters') : t \in Range(waiters)
           /\ IsInjective(waiters') /\ x \notin Range(waiters')
<1>1. waiters \in Seq(Tid) /\ IsInjective(waiters)
  BY DEF IInv, Lists, WInv, Rows
<1>. QED BY <1>1, ListShrinks, Spotted

LEMMA SignalPopWakes ==
    ASSUME IInv, WInv, NEW c \in CPU, SignalPop(c)
    PROVE  WInv'
<1>. SUFFICES ASSUME NEW me, me = T(c), NEW x, x = Head(waiters) PROVE WInv'
  OBVIOUS
<1>1. /\ UNCHANGED <<pool, curr, tid_cpu, next_tid, known, wk, ioq>>
      /\ th[me].pc = "sig" /\ waiters # <<>> /\ waiters' = Tail(waiters) /\ UnblockAtOnce(c, x)
      /\ th' = [th EXCEPT ![me].obj = @ - 1]
  BY DEF SignalPop, PopWaiter, shared, ids, At
<1>2. me \notin Workers /\ me \in Tid /\ th \in [Tid -> ThreadType]
  BY <1>1, InCall, Here DEF CallPcs, IInv, Threads
<1>3. /\ x \in Tid /\ InQueue \in Wakers(x)
      /\ \A t \in Range(waiters') : t \in Range(waiters)
      /\ IsInjective(waiters') /\ x \notin Range(waiters')
  BY <1>1, FirstWaiter
<1>4. x # me
  <2>1. Wakers(me) = {}
    BY <1>1, <1>2, Resting DEF Blk
  <2>. QED BY <1>3, <2>1
<1>. DEFINE n == th[me].obj - 1
            s == [th[me] EXCEPT !.obj = n]
<1>5. /\ s.pc = "sig" /\ s.back = th[me].back /\ s.arg = th[me].arg
      /\ th' = [th EXCEPT ![me] = s]
  BY <1>1, <1>2 DEF ThreadType
<1>6. PICK r : r = s
  OBVIOUS
<1>. HIDE DEF s
<1>7. th' = [th EXCEPT ![me] = r] /\ th'[me] = r /\ r.pc = "sig" /\ r.back = th[me].back
  BY <1>2, <1>5, <1>6
<1>8. Paces(me, r)
  BY <1>1, <1>7 DEF Paces
<1>9. Hand(me)' /\ (me \notin Workers => Track(me)') /\ \A d \in CPU : Desk(d)'
  <2>1. Track(me)
    BY <1>2 DEF WInv, Body
  <2>2. Hand(me)' /\ Track(me)'
    BY <1>1, <1>7, <2>1 DEF Hand, Track, Awaits, Goal, Blk, WakePcs, Makes
  <2>3. \A d \in CPU : wk'[d].victim = wk[d].victim /\ wk'[d].inbox = wk[d].inbox
    BY <1>1
  <2>4. \A d \in CPU : Desk(d)'
    <3>1. th[me].pc \notin Blk \cup {"dead"}
      BY <1>1 DEF Blk
    <3>. QED BY <1>2, <1>7, <2>3, <3>1, DesksKept
  <2>. QED BY <2>2, <2>4
<1>10. \A v \in Tid : \A t : Unblocks(th'[v], t) => Unblocks(th[v], t) /\ v # me
  BY <1>2, <1>7, HandsFree
<1>11. InQueue \notin Wakers(x)'
  BY <1>3, SpottedNext
<1>12. CASE SentOn(c, x)
  <2>0. /\ tid_cpu[x] # c /\ mq' = Append(mq, Ipm(tid_cpu[x], "Unblock", x, c, 0))
        /\ UNCHANGED <<task, rq>>
    BY <1>12 DEF SentOn
  <2>1. /\ Mails' /\ Account(x)'
        /\ \A t \in Tid \ {x} : /\ Wakers(t)' \subseteq Wakers(t)
                                /\ \A k : Said(boxes, k, t)' \subseteq Said(boxes, k, t)
    <3>. DEFINE p == InQueue
    <3>1. PICK m : m = Ipm(tid_cpu[x], "Unblock", x, c, 0)
      OBVIOUS
    <3>2. mq' = Append(mq, m) /\ th[me].pc # "dead"
      BY <1>1, <2>0, <3>1
    <3>3. p = InQueue \/ \E v \in Tid : v # Worker[tid_cpu[x]] /\ p = InHand(v)
      OBVIOUS
    <3>4. p \in Wakers(x) /\ p \notin Wakers(x)'
      BY <1>3, <1>11
    <3>5. /\ UNCHANGED wk /\ ioq' = ioq /\ \A t \in Range(waiters') : t \in Range(waiters)
          /\ \A u \in Tid : task'[u].joiners = task[u].joiners
          /\ task'[x].blocked = task[x].blocked /\ task'[x].ret = task[x].ret
          /\ \A v \in Tid : \A t : Unblocks(th'[v], t) => Unblocks(th[v], t)
      BY <1>1, <1>3, <1>10, <2>0
    <3>. HIDE DEF p
    <3>. QED BY <1>2, <1>3, <1>4, <1>8, <3>1, <3>2, <3>3, <3>4, <3>5, UnblockSent
  <2>2. Rows'
    BY <1>1, <1>3, <2>0 DEF WInv, Rows
  <2>3. /\ \A t \in Tid : /\ task'[t].blocked = task[t].blocked /\ task'[t].state = task[t].state
                          /\ task'[t].ret = task[t].ret
        /\ Wakers(x) # {} /\ Thins
    BY <1>1, <1>3, <2>0 DEF Thins
  <2>4. /\ th[me].pc \notin Blk \cup {"spawn_ret", "join_ans", "slp_int"}
        /\ r.pc \notin Blk \cup {"joined", "spawn_ret", "join_ans", "dead", "ub_ready", "ub_add", "cr_add"}
    BY <1>1, <1>7 DEF Blk
  <2>. QED BY <1>3, <1>8, <1>9, <2>1, <2>2, <2>3, <2>4, HelperMoves
<1>13. CASE TakenOff(c, x)
  <2>0. /\ tid_cpu[x] = c /\ UNCHANGED mq
        /\ task'[x].blocked = task[x].blocked - 1 /\ task'[x].ret = task[x].ret
        /\ task'[x].state \in {task[x].state, "Ready"} /\ task'[x].joiners = task[x].joiners
        /\ \A t \in Tid \ {x} : task'[t] = task[t]
        /\ \A d \in CPU : \A t \in Range(rq'[d]) : t \in Range(rq[d])
              \/ (t = x /\ d = c /\ task[x].blocked = 1)
    BY <1>13 DEF TakenOff
  <2>1. Mails' /\ \A k, t : Said(boxes, k, t)' = Said(boxes, k, t)
    BY <1>1, <1>8, <2>0, MailsStay
  <2>2. \A u \in Tid : task'[u].joiners = task[u].joiners
    BY <2>0
  <2>3. Rows'
    BY <1>1, <1>3, <2>2 DEF WInv, Rows
  <2>4. \A t : Wakers(t)' \subseteq Wakers(t)
    <3>. SUFFICES ASSUME NEW t PROVE Wakers(t)' \subseteq Wakers(t) \cup {}
      OBVIOUS
    <3>. QED BY <1>1, <1>3, <1>10, <2>1, <2>2, WakersMove
  <2>5. /\ \A v \in Tid, t \in Tid : Brings(v, t)' =>
              Brings(v, t) \/ (t = x /\ v = me /\ task[x].blocked = 1)
        /\ \A v \in Tid, t \in Tid : Brings(v, t)' /\ th'[v].pc = "cr_add" =>
              Brings(v, t) /\ th[v].pc = "cr_add"
        /\ \A t \in Tid \ {x} : Readying(t)' => Readying(t)
        /\ \A v \in Tid : Brings(v, x)' => Brings(v, x)
    <3>1. \A v \in Tid \ {me} : th'[v] = th[v]
      BY <1>2, <1>7
    <3>. QED BY <1>7, <3>1 DEF Brings, Readying
  <2>6. \A d \in CPU : \A t \in Range(rq'[d]) : t \in Range(rq[d])
          \/ (t = x /\ d = c /\ task[x].blocked = 1 /\ \A v \in Tid : Brings(v, x)' => Brings(v, x))
    BY <2>0, <2>5
  <2>. DEFINE p == InQueue
  <2>7. /\ p \in Wakers(x) /\ Wakers(x)' \subseteq Wakers(x) \ {p}
        /\ p = InQueue \/ \E v \in Tid : p = InHand(v) /\ (v \in Workers => v = Worker[c])
    BY <1>3, <1>11, <2>4
  <2>8. /\ th[me].pc \in WakePcs \cup MakePcs \cup {"sig"} /\ th[me].pc # "cr_new"
        /\ r.pc \notin Blk \cup {"joined", "spawn_ret", "join_ans", "dead"}
    BY <1>1, <1>7 DEF Blk
  <2>9. /\ UNCHANGED curr /\ task'[x].state \in {task[x].state, "Ready"}
        /\ \A k, t : Said(boxes, k, t)' \subseteq Said(boxes, k, t)
        /\ \A t \in Tid \ {x} : Wakers(t)' \subseteq Wakers(t)
    BY <1>1, <2>0, <2>1, <2>4
  <2>10. /\ task'[x].blocked = task[x].blocked - 1 /\ task'[x].ret = task[x].ret
         /\ (\A t \in Tid \ {x} : task'[t] = task[t])
         /\ tid_cpu[x] = c /\ Mails' /\ x \in Tid /\ x # me
    BY <1>3, <1>4, <2>0, <2>1
  <2>. HIDE DEF p
  <2>. QED BY <1>8, <1>9, <2>3, <2>5, <2>6, <2>7, <2>8, <2>9, <2>10, PayerMoves
<1>14. x \in Tid /\ InQueue \in Wakers(x) /\ UnblockAtOnce(c, x)
  BY <1>1, <1>3
<1>15. SentOn(c, x) \/ TakenOff(c, x)
  BY <1>14, AtOnce
<1>. QED BY <1>12, <1>13, <1>15

\* The handler of an interrupt lets a waiter go; no thread takes a step.
LEMMA IrqSignalPopWakes ==
    ASSUME IInv, WInv, NEW c \in CPU, IrqSignalPop(c)
    PROVE  WInv'
<1>. SUFFICES ASSUME NEW w, w = Worker[c], NEW x, x = Head(waiters) PROVE WInv'
  OBVIOUS
<1>1. /\ UNCHANGED <<th, pool, curr, tid_cpu, next_tid, known, wk, ioq>>
      /\ waiters # <<>> /\ waiters' = Tail(waiters) /\ UnblockAtOnce(c, x)
  BY DEF IrqSignalPop, PopWaiter, shared, ids
<1>2. /\ x \in Tid /\ InQueue \in Wakers(x)
      /\ \A t \in Range(waiters') : t \in Range(waiters)
      /\ IsInjective(waiters') /\ x \notin Range(waiters')
  BY <1>1, FirstWaiter
<1>3. x \notin Workers /\ th[x].pc # "dead" /\ x \in known
  BY <1>2, HasWaker
<1>4. w \in Tid /\ w \in Workers /\ w # x /\ th[w].pc # "dead" /\ w \in known
  <2>1. w \in Tid /\ w \in Workers
    BY SchedAssumption DEF SchedAssumption, Workers
  <2>2. w \in known
    BY <2>1, SchedAssumption DEF WInv, Body, Fate, New, SchedAssumption
  <2>3. Sound(w, th[w])
    BY <2>1 DEF IInv, Threads
  <2>. QED BY <1>3, <2>1, <2>2, <2>3 DEF Sound, WorkPcs, MakePcs, WakePcs
<1>5. PICK r, s : r = th[x] /\ s = th[w]
  OBVIOUS
<1>6. Paces(x, r) /\ Paces(w, s)
  BY <1>1, <1>2, <1>4, <1>5 DEF Paces, IInv, Threads
<1>7. SentOn(c, x) \/ TakenOff(c, x)
  BY <1>1, <1>2, AtOnce
<1>8. InQueue \notin Wakers(x)'
  BY <1>2, SpottedNext
<1>9. \A t \in Tid : Unbrought(t)
  BY <1>1 DEF Unbrought, Readying, Coming, Brings
<1>10. \A d \in CPU : Desk(d)'
  <2>1. \A d \in CPU : Desk(d)
    BY DEF WInv, Body
  <2>. QED BY <1>1, <2>1 DEF Desk, Serves, Made, Holds, Buries
<1>11. CASE SentOn(c, x)
  <2>0. /\ tid_cpu[x] # c /\ mq' = Append(mq, Ipm(tid_cpu[x], "Unblock", x, c, 0))
        /\ UNCHANGED <<task, rq>>
    BY <1>11 DEF SentOn
  <2>1. /\ Mails' /\ Account(x)'
        /\ \A t \in Tid \ {x} : /\ Wakers(t)' \subseteq Wakers(t)
                                /\ \A k : Said(boxes, k, t)' \subseteq Said(boxes, k, t)
    <3>. DEFINE p == InQueue
    <3>1. PICK m : m = Ipm(tid_cpu[x], "Unblock", x, c, 0)
      OBVIOUS
    <3>2. mq' = Append(mq, m)
      BY <2>0, <3>1
    <3>3. p = InQueue \/ \E v \in Tid : v # Worker[tid_cpu[x]] /\ p = InHand(v)
      OBVIOUS
    <3>4. p \in Wakers(x) /\ p \notin Wakers(x)'
      BY <1>2, <1>8
    <3>5. /\ UNCHANGED wk /\ ioq' = ioq /\ \A t \in Range(waiters') : t \in Range(waiters)
          /\ \A u \in Tid : task'[u].joiners = task[u].joiners
          /\ task'[x].blocked = task[x].blocked /\ task'[x].ret = task[x].ret
          /\ \A v \in Tid : \A t : Unblocks(th'[v], t) => Unblocks(th[v], t)
      BY <1>1, <1>2, <2>0
    <3>. HIDE DEF p
    <3>. QED BY <1>2, <1>4, <1>6, <3>1, <3>2, <3>3, <3>4, <3>5, UnblockSent
  <2>2. Rows'
    BY <1>1, <1>2, <2>0 DEF WInv, Rows
  <2>3. \A t \in Tid : Alone(t)'
    <3>1. ASSUME NEW me \in Tid, NEW q, Paces(me, q), me \in known, th[me].pc # "dead",
                 NEW t \in Tid \ {me}
          PROVE  Alone(t)'
      <4>1. UNCHANGED <<task, rq, curr>> /\ Unbrought(t)
        BY <1>1, <1>9, <2>0
      <4>. QED BY <3>1, <4>1, OtherKept
    <3>2. ASSUME NEW t \in Tid, t # x PROVE Alone(t)'
      BY <1>2, <1>3, <1>6, <3>1, <3>2
    <3>3. Alone(x)'
      BY <1>2, <1>4, <1>6, <3>1
    <3>. QED BY <3>2, <3>3
  <2>4. \A d \in CPU : Row(d)'
    BY <1>1, <2>0, RowsGrow
  <2>5. Body'
    BY <1>10, <2>3, <2>4, BodyAlone
  <2>6. Accounts'
    <3>. DEFINE X == {x}
    <3>1. \A t \in X : t \notin Workers /\ Account(t)'
      BY <1>3, <2>1
    <3>2. \A t \in Tid \ X : /\ Wakers(t)' \subseteq Wakers(t)
                             /\ \A k : Said(boxes, k, t)' \subseteq Said(boxes, k, t)
      BY <2>1
    <3>3. \A t \in Tid \ (X \cup {w}) : /\ task'[t].blocked = task[t].blocked
                                        /\ task'[t].ret = task[t].ret
      BY <2>0
    <3>4. w \notin Workers \cup X => Account(w)'
      BY <1>4
    <3>. HIDE DEF X
    <3>. QED BY <1>4, <1>6, <3>1, <3>2, <3>3, <3>4, AccountsMoved
  <2>. QED BY <2>1, <2>2, <2>5, <2>6 DEF WInv
<1>12. CASE TakenOff(c, x)
  <2>0. /\ tid_cpu[x] = c /\ UNCHANGED mq
        /\ task'[x].blocked = task[x].blocked - 1 /\ task'[x].ret = task[x].ret
        /\ task'[x].state \in {task[x].state, "Ready"} /\ task'[x].joiners = task[x].joiners
        /\ \A t \in Tid \ {x} : task'[t] = task[t]
        /\ \A d \in CPU : \A t \in Range(rq'[d]) : t \in Range(rq[d])
              \/ (t = x /\ d = c /\ task[x].blocked = 1)
    BY <1>12 DEF TakenOff
  <2>1. Mails' /\ \A k, t : Said(boxes, k, t)' = Said(boxes, k, t)
    BY <1>1, <1>6, <2>0, MailsStay
  <2>2. \A u \in Tid : task'[u].joiners = task[u].joiners
    BY <2>0
  <2>3. Rows'
    BY <1>1, <1>2, <2>2 DEF WInv, Rows
  <2>4. \A t : Wakers(t)' \subseteq Wakers(t)
    <3>. SUFFICES ASSUME NEW t PROVE Wakers(t)' \subseteq Wakers(t) \cup {}
      OBVIOUS
    <3>. QED BY <1>1, <1>2, <2>1, <2>2, WakersMove
  <2>5. /\ \A v \in Tid : Brings(v, x)' => Brings(v, x)
        /\ Coming(x)' => Coming(x)
    BY <1>2, <1>9 DEF Unbrought
  <2>6. x \notin Workers /\ Alone(x)' /\ Account(x)'
    <3>. DEFINE p == InQueue
    <3>1. p \in Wakers(x) /\ Wakers(x)' \subseteq Wakers(x) \ {p}
      BY <1>2, <1>8, <2>4
    <3>2. p = InQueue \/ \E v \in Tid : p = InHand(v) /\ (v \in Workers => v = Worker[c])
      OBVIOUS
    <3>3. \A v \in Tid : Brings(v, x)' => Brings(v, x) \/ (v = x /\ task[x].blocked = 1)
      BY <2>5
    <3>4. \A d \in CPU : x \in Range(rq'[d]) =>
             x \in Range(rq[d]) \/ (task[x].blocked = 1 /\ \A v \in Tid : Brings(v, x)' => Brings(v, x))
      BY <2>0, <2>5
    <3>5. \A k : Said(boxes, k, x)' \subseteq Said(boxes, k, x)
      BY <2>1
    <3>6. th'[x] = th[x] /\ UNCHANGED curr
      BY <1>1
    <3>. HIDE DEF p
    <3>. QED BY <1>2, <1>3, <1>6, <2>0, <2>5, <3>1, <3>2, <3>3, <3>4, <3>5, <3>6, PaidKept
  <2>7. ASSUME NEW t \in Tid \ {x} PROVE Alone(t)'
    <3>1. /\ task'[t] = task[t] /\ Unbrought(t) /\ UNCHANGED curr
          /\ \A d \in CPU : t \in Range(rq'[d]) => t \in Range(rq[d])
      BY <1>1, <1>9, <2>0
    <3>. QED BY <1>2, <1>3, <1>6, <3>1, OtherKept
  <2>8. \A d \in CPU : Row(d)'
    <3>1. \A d \in CPU : \A t \in Range(rq'[d]) :
             t \in Range(rq[d]) \/ (t = x /\ x \in Tid /\ x \in known /\ tid_cpu[x] = d)
      BY <1>2, <1>3, <2>0
    <3>. QED BY <1>1, <3>1, RowsGrow
  <2>9. Body'
    <3>1. \A t \in Tid : Alone(t)'
      BY <2>6, <2>7
    <3>. QED BY <1>10, <2>8, <3>1, BodyAlone
  <2>10. Accounts'
    <3>. DEFINE X == {x}
    <3>1. \A t \in X : t \notin Workers /\ Account(t)'
      BY <2>6
    <3>2. \A t \in Tid \ X : /\ Wakers(t)' \subseteq Wakers(t)
                             /\ \A k : Said(boxes, k, t)' \subseteq Said(boxes, k, t)
      BY <2>1, <2>4
    <3>3. \A t \in Tid \ (X \cup {x}) : /\ task'[t].blocked = task[t].blocked
                                        /\ task'[t].ret = task[t].ret
      BY <2>0
    <3>4. x \notin Workers \cup X => Account(x)'
      OBVIOUS
    <3>. HIDE DEF X
    <3>. QED BY <1>2, <1>3, <1>6, <3>1, <3>2, <3>3, <3>4, AccountsMoved
  <2>. QED BY <2>1, <2>3, <2>9, <2>10 DEF WInv
<1>. QED BY <1>7, <1>11, <1>12

Enqueues(c, x) == rq' = [rq EXCEPT ![c] = Append(@, x)]
Enqueued(c, x) ==
    \A d \in CPU : \A t \in Range(rq'[d]) : t \in Range(rq[d]) \/ (t = x /\ d = c)

LEMMA RowGrows ==
    ASSUME IInv, NEW c \in CPU, NEW x \in Nat, Enqueues(c, x)
    PROVE  Enqueued(c, x)
<1>1. rq \in [CPU -> Seq(Nat)]
  BY DEF IInv, Queues
<1>2. PICK q : q = rq[c]
  OBVIOUS
<1>3. \A t : t \in Range(Append(q, x)) => t \in Range(q) \/ t = x
  BY <1>1, <1>2, ListGrows
<1>4. rq'[c] = Append(q, x) /\ \A d \in CPU \ {c} : rq'[d] = rq[d]
  BY <1>1, <1>2 DEF Enqueues
<1>. QED BY <1>2, <1>3, <1>4 DEF Enqueued

\* A thread puts the task in its hands into the run queue.
LEMMA AdderMoves ==
    ASSUME IInv, WInv, NEW c \in CPU, NEW me, me = T(c), th[me].pc \in {"ub_add", "cr_add"},
           NEW x, x = th[me].obj, Enqueued(c, x),
           UNCHANGED <<task, pool, curr, tid_cpu, next_tid, known, mq, wk, waiters, ioq>>,
           NEW r, Paces(me, r),
           r.pc \notin Blk \cup {"joined", "spawn_ret", "join_ans", "dead", "ub_map", "ub_cpu",
                                 "ub_ready", "ub_add", "cr_add"},
           Hand(me)', me \notin Workers => Track(me)', \A d \in CPU : Desk(d)'
    PROVE  WInv'
<1>1. /\ me \in Tid /\ th'[me] = r /\ me \in known /\ tid_cpu[me] = c /\ th[me].pc # "dead"
      /\ \A t \in Tid \ {me} : th'[t] = th[t]
  <2>1. me \in Tid /\ me \in pool[c] /\ me \in known
    BY Here
  <2>. QED BY <2>1, AtHome DEF IInv, Threads, Paces
<1>2. UNCHANGED <<tid_cpu, next_tid, known>>
  OBVIOUS
<1>3. /\ x \in Tid \ Workers /\ x # me /\ x \in known /\ tid_cpu[x] = c
      /\ Alone(x)' /\ \A t \in Tid : Unbrought(t)
  BY <1>1, AddedKept
<1>5. Alone(me)'
  <2>1. task'[me] = task[me] /\ Unbrought(me) /\ r.pc \notin Blk \cup {"dead"}
        /\ th[me].pc \in WakePcs \cup MakePcs \cup {"sig"}
    BY <1>1, <1>3 DEF WakePcs, MakePcs
  <2>. QED BY <1>2, <2>1, OwnerKept
<1>6. ASSUME NEW t \in Tid \ {me, x} PROVE Alone(t)'
  <2>1. /\ t \in Tid \ {me} /\ task'[t] = task[t] /\ Unbrought(t)
        /\ \A d \in CPU : t \in Range(rq'[d]) => t \in Range(rq[d])
    BY <1>3 DEF Enqueued
  <2>. QED BY <1>1, <1>2, <2>1, OtherKept
<1>7. \A d \in CPU : Row(d)'
  <2>1. \A d \in CPU : \A t \in Range(rq'[d]) :
             t \in Range(rq[d]) \/ (t = x /\ x \in Tid /\ x \in known /\ tid_cpu[x] = d)
    BY <1>3 DEF Enqueued
  <2>. QED BY <1>2, <2>1, RowsGrow
<1>8. Body'
  <2>1. \A t \in Tid : Alone(t)'
    BY <1>3, <1>5, <1>6
  <2>. QED BY <1>7, <2>1, BodyAlone
<1>9. \A t : /\ Wakers(t)' \subseteq Wakers(t)
             /\ \A k : Said(boxes, k, t)' = Said(boxes, k, t)
  <2>1. Stays /\ Unhands(me, r)
    BY DEF Stays, Unhands
  <2>. QED BY <1>1, <2>1, StaysQuiet DEF Paces
<1>10. me \notin Workers => Account(me)'
  <2>. SUFFICES ASSUME me \notin Workers PROVE Account(me)'
    OBVIOUS
  <2>1. Wakers(me) = {} /\ task[me].blocked = 0 /\ task[me].ret = 0
    BY Resting DEF Blk
  <2>2. Wakers(me)' = {} /\ task'[me].blocked = 0 /\ task'[me].ret = 0
    BY <1>9, <2>1
  <2>3. th'[me].pc \notin Blk \cup {"joined", "spawn_ret", "join_ans"}
    BY <1>1
  <2>. QED BY <1>1, <2>2, <2>3, AccountIdle
<1>11. Accounts'
  <2>. DEFINE X == {}
  <2>1. \A t \in X : t \notin Workers /\ Account(t)'
    OBVIOUS
  <2>2. \A t \in Tid \ X : /\ Wakers(t)' \subseteq Wakers(t)
                           /\ \A k : Said(boxes, k, t)' \subseteq Said(boxes, k, t)
    BY <1>9
  <2>3. \A t \in Tid \ (X \cup {me}) : /\ task'[t].blocked = task[t].blocked
                                       /\ task'[t].ret = task[t].ret
    OBVIOUS
  <2>4. me \notin Workers \cup X => Account(me)'
    BY <1>10
  <2>. HIDE DEF X
  <2>. QED BY <1>1, <1>2, <2>1, <2>2, <2>3, <2>4, AccountsMoved
<1>12. Mails'
  BY <1>2, MailsStay
<1>13. Rows'
  BY DEF WInv, Rows
<1>. QED BY <1>8, <1>11, <1>12, <1>13 DEF WInv

LEMMA UnblockAddWakes ==
    ASSUME IInv, WInv, NEW c \in CPU, UnblockAdd(c)
    PROVE  WInv'
<1>. SUFFICES ASSUME NEW me, me = T(c), NEW x, x = th[me].obj PROVE WInv'
  OBVIOUS
<1>1. /\ UNCHANGED <<task, pool, curr, tid_cpu, next_tid, known, mq, wk, waiters, ioq>>
      /\ th[me].pc = "ub_add" /\ Enqueues(c, x)
      /\ Goto(c, th[me].back)
  BY DEF UnblockAdd, shared, ids, calls, At, Enqueues
<1>2. PICK r : Sets(me, r, th[me].back, th[me].back, th[me].obj, th[me].arg)
  BY <1>1, GoesTo
<1>3. UNCHANGED <<tid_cpu, next_tid, known, wk>> /\ th[me].pc \in WakePcs
  BY <1>1 DEF WakePcs
<1>4. /\ Hand(me)' /\ (me \notin Workers => Track(me)') /\ \A d \in CPU : Desk(d)'
      /\ r.pc \notin Blk \cup {"joined", "spawn_ret", "join_ans", "dead", "ub_map", "ub_cpu",
                               "ub_ready", "ub_add", "cr_add"}
  BY <1>2, <1>3, GoesBack
<1>5. Paces(me, r) /\ th[me].pc \in {"ub_add", "cr_add"}
  BY <1>1, <1>2 DEF Sets, Paces
<1>6. Enqueued(c, x)
  <2>1. x \in Nat
    BY Here DEF IInv, Threads, ThreadType
  <2>. QED BY <1>1, <2>1, RowGrows
<1>7. UNCHANGED <<task, pool, curr, tid_cpu, next_tid, known, mq, wk, waiters, ioq>>
  BY <1>1
<1>. QED BY <1>4, <1>5, <1>6, <1>7, AdderMoves

LEMMA CreateAddWakes ==
    ASSUME IInv, WInv, NEW c \in CPU, CreateAdd(c)
    PROVE  WInv'
<1>. SUFFICES ASSUME NEW me, me = T(c), NEW x, x = th[me].obj PROVE WInv'
  OBVIOUS
<1>1. /\ UNCHANGED <<task, pool, curr, tid_cpu, next_tid, known, mq, wk, waiters, ioq>>
      /\ th[me].pc = "cr_add" /\ Enqueues(c, x)
      /\ Goto(c, "cr_ready")
  <2>1. th[me].pc = "cr_add" /\ me \in Tid /\ me \in pool[c] /\ me \in known
    BY Here DEF CreateAdd, At
  <2>2. th[me].arg = tid_cpu[me] /\ tid_cpu[me] = c
    BY <2>1, AtHome DEF WInv, Body, Hand, Makes
  <2>. QED BY <2>1, <2>2 DEF CreateAdd, shared, ids, calls, Enqueues
<1>2. PICK r : Sets(me, r, "cr_ready", th[me].back, x, th[me].arg)
  BY <1>1, GoesTo
<1>3. me \in Tid
  BY Here
<1>4. Hand(me)' /\ (me \notin Workers => Track(me)')
  <2>1. Hand(me) /\ (me \notin Workers => Track(me))
    BY <1>3 DEF WInv, Body
  <2>. QED BY <1>1, <1>2, <2>1 DEF Sets, Hand, Track, Awaits, Goal, Blk, WakePcs, Makes, MakePcs
<1>5. \A d \in CPU : Desk(d)'
  <2>1. /\ Serves(r) => Serves(th[me])
        /\ Made(th[me]) /\ r.obj = th[me].obj /\ th[me].pc \notin Blk \cup {"dead"}
        /\ r.pc \notin MovePcs /\ (Holds(r) \/ Buries(r) => Holds(th[me]) \/ Buries(th[me]))
    BY <1>1, <1>2 DEF Sets, Serves, Made, Makes, MovePcs, MakePcs, Holds, Buries, WakePcs, Blk
  <2>2. th' = [th EXCEPT ![me] = r]
    BY <1>2 DEF Sets
  <2>. QED BY <1>1, <2>1, <2>2, DesksKept
<1>6. r.pc \notin Blk \cup {"joined", "spawn_ret", "join_ans", "dead", "ub_map", "ub_cpu",
                            "ub_ready", "ub_add", "cr_add"}
  BY <1>2 DEF Sets, Blk
<1>7. Paces(me, r) /\ th[me].pc \in {"ub_add", "cr_add"}
  BY <1>1, <1>2 DEF Sets, Paces
<1>8. Enqueued(c, x)
  <2>1. x \in Nat
    BY Here DEF IInv, Threads, ThreadType
  <2>. QED BY <1>1, <2>1, RowGrows
<1>9. UNCHANGED <<task, pool, curr, tid_cpu, next_tid, known, mq, wk, waiters, ioq>>
  BY <1>1
<1>. QED BY <1>4, <1>5, <1>6, <1>7, <1>8, <1>9, AdderMoves

\* The joiners of the dead task v are the worker's to wake.
LEMMA AccountBuried ==
    ASSUME IInv, WInv, NEW c \in CPU, NEW me \in Tid, me \in Workers, NEW r, Paces(me, r),
           th[me].pc # "dead", NEW v \in Tid, th[v].pc = "dead", tid_cpu[v] = c,
           NEW x \in Tid, InList(v) \in Wakers(x),
           task'[x].blocked = task[x].blocked, task'[x].ret = task[x].ret,
           Wakers(x)' \subseteq Wakers(x) \cup {InTodo(c)}, InList(v) \notin Wakers(x)',
           \A k : Said(boxes, k, x)' \subseteq Said(boxes, k, x)
    PROVE  x \notin Workers /\ Account(x)'
<1>1. x \notin Workers /\ Account(x) /\ tid_cpu[x] \in CPU
  BY HasWaker
<1>2. th'[x] = th[x] /\ UNCHANGED tid_cpu /\ Steady
  <2>1. Steady
    BY PacesSteady
  <2>. QED BY <1>1, <2>1 DEF Paces, IInv, Threads
<1>. DEFINE g == Goal(th[x])
            a == Due(x)
            ret == task[x].ret
            u == th[x].obj
            K == Wakers(x)
            L == (K \ {InList(v)}) \cup {InTodo(c)}
            ans == Said(boxes, Answer, x)
            ask == Said(boxes, "AddJoiner", x)
            end == th[u].pc
            home == tid_cpu[u]
            d == tid_cpu[x]
<1>3. Ledger(g, a, ret, u, K, ans, ask, end, d, home) /\ d \in CPU
  BY <1>1 DEF Account, Due, Answer
<1>4. /\ L \in SUBSET ((K \ {InList(v)}) \cup {InTodo(c)})
      /\ Wakers(x)' \subseteq L /\ InList(v) \in K
      /\ (g \in {"joined", "join_ans"} /\ u = v => end = "dead" /\ home = c)
  OBVIOUS
<1>5. /\ Due(x)' = a /\ task'[x].ret = ret /\ Goal(th'[x]) = g /\ th'[x].obj = u
      /\ Said(boxes, Answer, x)' \subseteq ans /\ Said(boxes, "AddJoiner", x)' \subseteq ask
  BY <1>2 DEF Due
<1>. HIDE DEF g, a, ret, u, K, L, ans, ask, end, home, d
<1>6. Ledger(g, a, ret, u, L, ans, ask, end, d, home)
  BY <1>3, <1>4, LedgerBuried
<1>7. Ledger(Goal(th[x]), a, ret, th[x].obj, L, ans, ask, th[th[x].obj].pc, tid_cpu[x], tid_cpu[th[x].obj])
  BY <1>6 DEF g, u, end, home, d
<1>8. x \in Tid \ Workers /\ Goal(th'[x]) = Goal(th[x]) /\ th'[x].obj = th[x].obj
  BY <1>1, <1>5 DEF g, u
<1>9. Account(x)'
  BY <1>2, <1>4, <1>5, <1>7, <1>8, AccountSettled
<1>. QED BY <1>1, <1>9

LEMMA RemoveDeadWakes ==
    ASSUME IInv, WInv, NEW c \in CPU, RemoveDead(c)
    PROVE  WInv'
<1>. SUFFICES ASSUME NEW me, me = T(c), NEW v, v = wk[c].victim PROVE WInv'
  OBVIOUS
<1>. DEFINE l == IF task[v].state = "Terminating" THEN task[v].joiners ELSE <<>>
<1>1. /\ UNCHANGED <<rq, curr, tid_cpu, next_tid, known, mq, waiters, ioq>>
      /\ th[me].pc = "remove" /\ Goto(c, "drop")
      /\ pool' = [pool EXCEPT ![c] = @ \ {v}]
      /\ wk' = [wk EXCEPT ![c].todo = l]
      /\ task' = [task EXCEPT ![v].joiners = <<>>]
  BY DEF RemoveDead, LeavePool, shared, ids, calls, At
<1>2. /\ me \in Tid /\ me \in Workers /\ me = Worker[c] /\ th[me].pc # "dead"
      /\ task \in [Tid -> TaskType] /\ wk \in [CPU -> WorkType] /\ pool \in [CPU -> SUBSET Tid]
  BY <1>1, Here DEF WorkPcs, IInv, Moves, Tasks, Pools
<1>3. v \in Tid /\ v \in pool[c] /\ th[v].pc = "dead" /\ tid_cpu[v] = c
  <2>1. Holds(th[me])
    BY <1>1 DEF Holds
  <2>2. v \in pool[c] /\ th[v].pc = "dead"
    BY <1>2, <2>1 DEF IInv, Victims, WInv, Body, Desk
  <2>3. v \in Tid /\ v \in known
    BY <1>2, <2>2 DEF WInv, Body, Fate
  <2>. QED BY <2>2, <2>3, AtHome
<1>4. PICK r : Sets(me, r, "drop", th[me].back, th[me].obj, th[me].arg)
  BY <1>1, GoesTo
<1>5. /\ \A t \in Tid : /\ task'[t].blocked = task[t].blocked /\ task'[t].state = task[t].state
                        /\ task'[t].ret = task[t].ret
                        /\ t # v => task'[t].joiners = task[t].joiners
      /\ task'[v].joiners = <<>>
  BY <1>1, <1>2, <1>3 DEF TaskType
<1>6. /\ l \in Seq(Tid) /\ IsInjective(l) /\ Range(l) \subseteq Range(task[v].joiners)
      /\ IsInjective(<<>>) /\ Range(<<>>) = {}
  <2>1. task[v].joiners \in Seq(Tid) /\ IsInjective(task[v].joiners)
    BY <1>2, <1>3 DEF TaskType, WInv, Rows
  <2>2. <<>> \in Seq(Tid) /\ IsInjective(<<>>) /\ Range(<<>>) = {}
    BY DEF IsInjective, Range
  <2>. QED BY <2>1, <2>2
<1>. HIDE DEF l
<1>7. /\ wk'[c].todo = l
      /\ \A d \in CPU : /\ wk'[d].inbox = wk[d].inbox /\ wk'[d].victim = wk[d].victim
                        /\ d # c => wk'[d].todo = wk[d].todo
  BY <1>1, <1>2 DEF WorkType
<1>8. Paces(me, r)
  BY <1>1, <1>2, <1>3, <1>4 DEF Paces, Sets
<1>9. Spares(me) /\ Thins
  BY <1>1, <1>5 DEF Spares, Thins
<1>10. Mails' /\ \A k, t : Said(boxes, k, t)' = Said(boxes, k, t)
  BY <1>1, <1>7, <1>8, MailsStay
<1>11. Rows'
  <2>1. \A t \in Tid : IsInjective(task'[t].joiners)
    BY <1>5, <1>6 DEF WInv, Rows
  <2>2. \A d \in CPU : IsInjective(wk'[d].todo)
    BY <1>6, <1>7 DEF WInv, Rows
  <2>. QED BY <1>1, <2>1, <2>2 DEF WInv, Rows
<1>12. \A w \in Tid : \A t : Unblocks(th'[w], t) => Unblocks(th[w], t)
  BY <1>2, <1>4, HandsFree DEF Sets
<1>13. \A u \in Tid : \A t : t \in Range(task'[u].joiners) => t \in Range(task[u].joiners)
  <2>1. \A t : t \notin Range(task'[v].joiners)
    BY <1>5, <1>6
  <2>. QED BY <1>5, <2>1
<1>14. ASSUME NEW t, NEW G, t \in Range(l) => InTodo(c) \in G
       PROVE  Wakers(t)' \subseteq Wakers(t) \cup G
  <2>1. \A d \in CPU : t \in Range(wk'[d].todo) => t \in Range(wk[d].todo) \/ InTodo(d) \in G
    BY <1>7, <1>14
  <2>. QED BY <1>1, <1>10, <1>12, <1>13, <2>1, WakersMove
<1>. DEFINE X == {t \in Tid : InList(v) \in Wakers(t)}
<1>15. \A t \in X : t \notin Workers /\ Account(t)'
  <2>. SUFFICES ASSUME NEW t \in X PROVE t \notin Workers /\ Account(t)'
    OBVIOUS
  <2>1. Wakers(t)' \subseteq Wakers(t) \cup {InTodo(c)}
    BY <1>14
  <2>2. InList(v) \notin Wakers(t)'
    BY <1>5, <1>6, SpottedNext
  <2>3. /\ task'[t].blocked = task[t].blocked /\ task'[t].ret = task[t].ret
        /\ \A k : Said(boxes, k, t)' \subseteq Said(boxes, k, t)
    BY <1>5, <1>10
  <2>. QED BY <1>2, <1>3, <1>8, <2>1, <2>2, <2>3, AccountBuried
<1>16. \A t \in Tid \ X : /\ Wakers(t)' \subseteq Wakers(t)
                          /\ \A k : Said(boxes, k, t)' \subseteq Said(boxes, k, t)
  <2>. SUFFICES ASSUME NEW t \in Tid \ X PROVE Wakers(t)' \subseteq Wakers(t) \cup {}
    BY <1>10
  <2>1. t \notin Range(l)
    BY <1>3, <1>6, Spotted
  <2>. QED BY <1>14, <2>1
<1>17. Body'
  <2>1. \A d \in CPU : Desk(d)'
    <3>1. ~Serves(r) /\ ~Made(r) /\ r.pc \notin MovePcs /\ Holds(th[me]) /\ th[me].pc \notin Blk
      BY <1>1, <1>4 DEF Sets, Serves, Made, Makes, MovePcs, MakePcs, Holds, Blk
    <3>2. th' = [th EXCEPT ![me] = r]
      BY <1>4 DEF Sets
    <3>. QED BY <1>2, <1>7, <3>1, <3>2, DesksKept
  <2>2. Owner(me, r)
    <3>1. Hand(me)' /\ th[me].pc \notin Blk \cup {"spawn_ret", "join_ans", "slp_int"}
      BY <1>1, <1>4 DEF Hand, Sets, Blk, Makes
    <3>2. r.pc \notin Blk \cup {"dead", "ub_ready", "ub_add", "cr_add"}
      BY <1>4 DEF Sets, Blk
    <3>. QED BY <1>2, <1>5, <1>8, <3>1, <3>2, OwnerOn
  <2>. QED BY <1>8, <1>9, <2>1, <2>2, PacesTreads, BodyKept
<1>18. Accounts'
  <2>1. \A t \in Tid \ (X \cup {me}) : /\ task'[t].blocked = task[t].blocked
                                       /\ task'[t].ret = task[t].ret
    BY <1>5
  <2>2. me \notin Workers \cup X => Account(me)'
    BY <1>2
  <2>. HIDE DEF X
  <2>. QED BY <1>2, <1>8, <1>15, <1>16, <2>1, <2>2, AccountsMoved
<1>. QED BY <1>10, <1>11, <1>17, <1>18 DEF WInv

\* TID_CPU_MAP forgets a dead task: nobody is to wake it, nothing names it.
LEMMA DropEndWakes ==
    ASSUME IInv, WInv, NEW c \in CPU, DropEnd(c)
    PROVE  WInv'
<1>. SUFFICES ASSUME NEW me, me = T(c), NEW v, v = wk[c].victim PROVE WInv'
  OBVIOUS
<1>. DEFINE s == IF task[v].state = "Terminating" THEN "Dropped" ELSE task[v].state
            r == [Thread0 EXCEPT !.pc = "fetch"]
<1>1. /\ UNCHANGED <<pool, rq, curr, next_tid, known, mq, waiters, ioq>>
      /\ th[me].pc = "drop" /\ th' = [th EXCEPT ![me] = r]
      /\ tid_cpu' = [tid_cpu EXCEPT ![v] = None]
      /\ task' = [task EXCEPT ![v].state = IF @ = "Terminating" THEN "Dropped" ELSE @]
      /\ wk' = [wk EXCEPT ![c].victim = 0]
  BY DEF DropEnd, calls, ids, At
<1>2. /\ me \in Tid /\ me \in Workers /\ me = Worker[c] /\ th[me].pc # "dead"
      /\ task \in [Tid -> TaskType] /\ wk \in [CPU -> WorkType] /\ th \in [Tid -> ThreadType]
      /\ tid_cpu \in [Tid -> Place]
  BY <1>1, Here DEF WorkPcs, IInv, Moves, Tasks, Pools, Threads
<1>3. r.pc = "fetch" /\ r.back = "run"
  BY DEF Thread0
<1>. HIDE DEF r
<1>4. /\ v \in Tid /\ v \in known /\ th[v].pc = "dead" /\ v # me /\ v \notin Workers
      /\ \A d \in CPU : v \notin pool[d]
  <2>1. Buries(th[me])
    BY <1>1 DEF Buries
  <2>2. v \in Tid /\ v \in known /\ th[v].pc = "dead" /\ \A d \in CPU : v \notin pool[d]
    BY <1>2, <2>1 DEF IInv, Victims, WInv, Body, Desk
  <2>3. v \notin Workers
    BY <2>2 DEF IInv, Current, Workers
  <2>. QED BY <1>2, <2>2, <2>3
<1>5. /\ \A t \in Tid : /\ task'[t].blocked = task[t].blocked /\ task'[t].joiners = task[t].joiners
                        /\ task'[t].ret = task[t].ret
                        /\ t # v => task'[t].state = task[t].state /\ tid_cpu'[t] = tid_cpu[t]
                        /\ t # me => th'[t] = th[t]
      /\ task'[v].state = s /\ tid_cpu'[v] = None /\ th'[me] = r
  BY <1>1, <1>2, <1>4 DEF TaskType
<1>6. \A d \in CPU : /\ wk'[d].inbox = wk[d].inbox /\ wk'[d].todo = wk[d].todo
                     /\ d # c => wk'[d].victim = wk[d].victim
  BY <1>1, <1>2 DEF WorkType
<1>7. Wakers(v) = {}
  <2>. SUFFICES ASSUME NEW p \in Wakers(v) PROVE FALSE
    OBVIOUS
  <2>. QED BY <1>4, HasWaker
<1>8. \A t : /\ Wakers(t)' \subseteq Wakers(t)
             /\ \A k : Said(boxes, k, t)' = Said(boxes, k, t)
  <2>1. Stays /\ Unhands(me, r)
    BY <1>1, <1>3, <1>5, <1>6 DEF Stays, Unhands
  <2>. QED BY <1>1, <1>2, <2>1, StaysQuiet
<1>9. \A w \in Tid : \A t : Brings(w, t)' <=> Brings(w, t)
  BY <1>1, <1>3, <1>5 DEF Brings
<1>10. \A t : (Readying(t)' <=> Readying(t)) /\ (Coming(t)' <=> Coming(t))
  BY <1>1, <1>3, <1>5 DEF Readying, Coming
<1>11. Steady
  BY <1>2, <1>4, <1>5 DEF Steady
<1>12. Accounts'
  <2>1. ASSUME NEW t \in Tid \ Workers PROVE Account(t)'
    <3>1. CASE t = v
      <4>1. Goal(th[v]) = "dead"
        BY <1>4 DEF Goal, Blk
      <4>2. Account(v)
        BY <2>1, <3>1 DEF WInv, Accounts
      <4>3. Owed(th[v], task[v].blocked) = 0 /\ task[v].ret = 0
        BY <4>1, <4>2 DEF Account, Ledger, Rets
      <4>4. task[v].blocked = 0
        <5>1. task[v].blocked \in Int
          BY <1>2, <1>4 DEF TaskType
        <5>. QED BY <1>4, <4>3, <5>1 DEF Owed
      <4>5. Wakers(v)' = {} /\ th'[v].pc = "dead"
        BY <1>4, <1>5, <1>7, <1>8
      <4>6. Account(v)'
        BY <1>4, <1>5, <4>3, <4>4, <4>5, AccountIdle DEF Blk
      <4>. QED BY <3>1, <4>6
    <3>2. CASE t # v
      <4>1. th'[t] = th[t] /\ tid_cpu'[t] = tid_cpu[t]
        BY <1>2, <1>5, <2>1, <3>2
      <4>2. Due(t)' = Due(t) /\ task'[t].ret = task[t].ret
        BY <1>5, <4>1 DEF Due
      <4>3. Goal(th'[t]) = Goal(th[t]) /\ th'[t].obj = th[t].obj
        BY <4>1
      <4>4. Wakers(t)' \subseteq Wakers(t) /\ \A k : Said(boxes, k, t)' \subseteq Said(boxes, k, t)
        BY <1>8
      <4>. QED BY <1>11, <4>1, <4>2, <4>3, <4>4, AccountKept
    <3>. QED BY <3>1, <3>2
  <2>2. ASSUME NEW t \in Workers, t \in Tid PROVE Wakers(t)' = {}
    BY <1>8, <2>2 DEF WInv, Accounts
  <2>. QED BY <2>1, <2>2 DEF Accounts
<1>13. Mails'
  <2>0. PICK f : f = boxes
    OBVIOUS
  <2>1. boxes' = f
    BY <1>1, <1>6, <2>0, BoxesStay
  <2>2. Ordered(boxes)'
    BY <2>0, <2>1 DEF WInv, Mails, Ordered, Wakee, Later
  <2>3. ASSUME NEW x \in Place, NEW i \in DOMAIN f[x] PROVE Fit(f[x][i])'
    <3>1. PICK m : m = f[x][i]
      OBVIOUS
    <3>2. f[x] = Box(x) /\ f[x] \in Seq(Message)
      BY <2>0, BoxesAre DEF Queuing
    <3>3. Fit(m) /\ m \in Message
      BY <2>3, <3>1, <3>2 DEF WInv, Mails
    <3>4. Wakee(m) # v
      <4>. SUFFICES ASSUME Wakee(m) = v PROVE FALSE
        OBVIOUS
      <4>1. What(m) \in Said(boxes, m.kind, v)
        BY <2>0, <2>3, <3>1, SaidIs
      <4>2. InMail(m.kind) \in Wakers(v)
        BY <3>3, <4>1, Spotted DEF Fit
      <4>. QED BY <1>7, <4>2
    <3>5. Wakee(m) \in Tid
      BY <3>3 DEF Wakee, Message
    <3>6. tid_cpu'[Wakee(m)] = tid_cpu[Wakee(m)]
      BY <1>5, <3>4, <3>5
    <3>7. m.kind = "AddJoiner" => Wakee(m) = m.val
      BY DEF Wakee
    <3>8. Fit(m)'
      BY <1>1, <3>3, <3>6, <3>7 DEF Fit, Wakee
    <3>. QED BY <3>1, <3>8
  <2>4. \A x \in Place : Box(x)' = f[x]
    BY <2>1 DEF boxes
  <2>. QED BY <2>2, <2>3, <2>4 DEF Mails
<1>14. Rows'
  BY <1>1, <1>5, <1>6 DEF WInv, Rows
<1>15. ASSUME NEW t \in Tid \ Workers PROVE Track(t)' /\ Parked(t)'
  <2>1. Track(t) /\ Parked(t) /\ t # me
    BY <1>2 DEF WInv, Body
  <2>2. th'[t] = th[t] /\ Due(t)' = Due(t)
    BY <1>5, <2>1 DEF Due
  <2>3. Track(t)'
    <3>1. CASE t = v
      <4>1. Goal(th[t]) = "dead" /\ ~Awaits(th[t])
        BY <1>4, <3>1 DEF Goal, Blk, Awaits
      <4>2. th[t].pc \notin Blk \cup WakePcs \cup MakePcs \cup {"slp_int", "join_pool", "join_ask"}
        BY <1>4, <3>1 DEF Blk, WakePcs, MakePcs
      <4>3. th[t].back # "wait_ret"
        BY <2>1, <4>1 DEF Track
      <4>. QED BY <2>2, <4>1, <4>2, <4>3 DEF Track, Awaits, Goal
    <3>2. CASE t # v
      BY <1>1, <1>5, <2>1, <2>2, <3>2 DEF Track, Awaits, Goal
    <3>. QED BY <3>1, <3>2
  <2>4. Off(t)' => Off(t)
    BY <1>10, <2>2 DEF Off
  <2>5. Parked(t)'
    BY <1>1, <2>1, <2>2, <2>4 DEF Parked
  <2>. QED BY <2>3, <2>5
<1>16. ASSUME NEW t \in Tid PROVE Hand(t)' /\ Brought(t)' /\ Nap(t)' /\ Fate(t)'
  <2>0. Hand(t) /\ Nap(t) /\ Fate(t) /\ Brought(t)
    BY DEF WInv, Body
  <2>1. Hand(t)'
    <3>1. CASE t = me
      BY <1>3, <1>5, <3>1 DEF Hand, Makes
    <3>2. CASE t # me
      <4>1. th'[t] = th[t] /\ (th[t].pc \in Makes => tid_cpu'[t] = tid_cpu[t])
        BY <1>4, <1>5, <3>2 DEF Makes
      <4>2. th[t].pc = "ub_cpu" => tid_cpu'[th[t].obj] = tid_cpu[th[t].obj]
        <5>. SUFFICES ASSUME th[t].pc = "ub_cpu" PROVE th[t].obj \in Tid \ {v}
          BY <1>5
        <5>1. th[t].obj \in Tid
          BY DEF IInv, Threads, Sound, WakePcs
        <5>2. InHand(t) \in Wakers(th[t].obj)
          BY Spotted DEF Unblocks
        <5>. QED BY <1>7, <5>1, <5>2
      <4>. QED BY <1>1, <2>0, <4>1, <4>2 DEF Hand
    <3>. QED BY <3>1, <3>2
  <2>2. Brought(t)'
    <3>1. \A w \in Tid : Brings(w, t) => w # v /\ t # v
      <4>. SUFFICES ASSUME NEW w \in Tid, Brings(w, t) PROVE w # v /\ t # v
        OBVIOUS
      <4>1. w # v
        BY <1>4 DEF Brings
      <4>2. Readying(t) \/ Coming(t)
        BY DEF Brings, Readying, Coming
      <4>3. th[t].pc # "dead"
        BY <2>0, <4>2 DEF Brought, Blk, Rets
      <4>. QED BY <1>4, <4>1, <4>3
    <3>2. \A w \in Tid : Brings(w, t)' => t \notin Workers /\ tid_cpu'[w] = tid_cpu'[t]
      BY <1>5, <1>9, <2>0, <3>1 DEF Brought
    <3>3. \A w, x \in Tid : Brings(w, t)' /\ Brings(x, t)' => w = x
      <4>1. \A w, x \in Tid : Brings(w, t) /\ Brings(x, t) => w = x
        BY <2>0 DEF Brought
      <4>. QED BY <1>9, <4>1
    <3>4. t # me => th'[t] = th[t] /\ Due(t)' = Due(t)
      BY <1>5 DEF Due
    <3>5. t = me => ~Readying(t) /\ ~Coming(t)
      BY <1>2, <2>0 DEF Brought, Readying, Coming, Brings
    <3>6. Readying(t)' => (th[t].pc \in (Blk \ {"blk_add"}) \cup Rets)' /\ (Due(t) # 1)'
      BY <1>10, <2>0, <3>4, <3>5 DEF Brought
    <3>7. Coming(t)' => th'[t].pc = "run"
      BY <1>10, <2>0, <3>4, <3>5 DEF Brought
    <3>. QED BY <3>2, <3>3, <3>6, <3>7 DEF Brought
  <2>3. task[t].state = "Sleeping" => t # v /\ t # me
    BY <1>2, <1>4, <2>0 DEF Nap
  <2>4. Nap(t)'
    <3>1. task'[t].state = "Sleeping" => task[t].state = "Sleeping"
      BY <1>5
    <3>. QED BY <1>1, <1>5, <2>0, <2>3, <3>1 DEF Nap
  <2>5. Fate(t)'
    <3>1. task'[t].state # "Migrating" /\ (task'[t].state = "Terminating" => t # v /\ task[t].state = "Terminating")
      BY <1>5, <2>0 DEF Fate
    <3>2. t # me => th'[t] = th[t]
      BY <1>5
    <3>3. t = me => th[t].pc # "dead" /\ th[t].pc # "run"
      BY <1>1
    <3>. QED BY <1>1, <2>0, <3>1, <3>2, <3>3 DEF Fate
  <2>. QED BY <2>1, <2>2, <2>4, <2>5
<1>17. ASSUME NEW d \in CPU PROVE Desk(d)' /\ Row(d)'
  <2>1. Desk(d) /\ Row(d) /\ Worker[d] \in Tid
    BY Here DEF WInv, Body
  <2>2. ASSUME d = c PROVE Desk(d)'
    <3>1. th'[Worker[d]] = r
      BY <1>2, <1>5, <2>2
    <3>2. Desk(d)'
      BY <1>3, <3>1 DEF Desk, Serves, Made, Makes, MovePcs, Holds, Buries, MakePcs, WakePcs
    <3>. QED BY <3>2
  <2>3. ASSUME d # c PROVE Desk(d)'
    <3>1. Worker[d] # me /\ wk'[d].victim = wk[d].victim /\ wk'[d].inbox = wk[d].inbox
      BY <1>2, <1>6, <2>3, SchedAssumption DEF SchedAssumption
    <3>. QED BY <1>1, <1>2, <3>1, DeskOfOther
  <2>4. Row(d)'
    <3>1. v \notin Range(rq[d])
      BY <1>4 DEF WInv, Body, Parked, Off
    <3>. QED BY <1>1, <1>5, <2>1, <3>1 DEF Row
  <2>5. Desk(d)'
    BY <2>2, <2>3
  <2>. QED BY <2>4, <2>5
<1>18. Body'
  BY <1>15, <1>16, <1>17 DEF Body
<1>. QED BY <1>12, <1>13, <1>14, <1>18 DEF WInv

\* A task is created: nobody knows it yet but the thread that made it.
LEMMA CreateMapWakes ==
    ASSUME IInv, WInv, NEW c \in CPU, CreateMap(c)
    PROVE  WInv'
<1>. SUFFICES ASSUME NEW me, me = T(c), NEW n, n = th[me].obj PROVE WInv'
  OBVIOUS
<1>. DEFINE r  == [th[me] EXCEPT !.pc = "cr_add"]
            cl == Client(n)
<1>1. /\ UNCHANGED <<task, pool, rq, curr, next_tid, mq, wk, waiters, ioq>>
      /\ th[me].pc = "cr_map" /\ known' = known \cup {n}
      /\ th' = [th EXCEPT ![n] = cl, ![me].pc = "cr_add"]
      /\ tid_cpu' = [tid_cpu EXCEPT ![n] = th[me].arg]
  BY DEF CreateMap, MapTo, calls, At
<1>2. /\ me \in Tid /\ me \in pool[c] /\ me \in known /\ tid_cpu[me] = c /\ th[me].arg = c
      /\ n \in pool[c] /\ task \in [Tid -> TaskType] /\ th \in [Tid -> ThreadType]
      /\ tid_cpu \in [Tid -> Place] /\ th[me] \in ThreadType
  <2>1. me \in Tid /\ me \in pool[c] /\ me \in known
    BY Here
  <2>2. tid_cpu[me] = c /\ Hand(me)
    BY <2>1, AtHome DEF WInv, Body
  <2>3. th[me].arg = c /\ n \in pool[c]
    BY <1>1, <2>2 DEF Hand, Makes
  <2>. QED BY <2>1, <2>2, <2>3 DEF IInv, Tasks, Pools, Threads
<1>3. /\ n \in Tid /\ n \notin known /\ n # me /\ n \notin Workers /\ n \in New /\ th[n].pc = "run"
      /\ \A d \in CPU : n \notin Range(rq[d]) /\ curr[d] # n
  <2>1. n \in Tid /\ n \notin known /\ n # me /\ n \notin Workers /\ th[n].pc = "run"
    BY <1>1, Newborn
  <2>2. n \in New
    BY <2>1 DEF WInv, Body, Fate
  <2>3. \A d \in CPU : n \notin Range(rq[d]) /\ curr[d] # n
    BY <2>1 DEF WInv, Body, Row, IInv, Current
  <2>. QED BY <2>1, <2>2, <2>3
<1>4. /\ r.pc = "cr_add" /\ r.obj = n /\ r.back = th[me].back /\ r.arg = c
      /\ cl.pc = "run" /\ cl.back = "run"
  BY <1>2 DEF ThreadType, Client, Thread0
<1>5. /\ th'[n] = cl /\ th'[me] = r
      /\ \A t \in Tid : t # me /\ t # n => th'[t] = th[t]
  BY <1>1, <1>2, <1>3
<1>. HIDE DEF r, cl
<1>6. /\ tid_cpu'[n] = c /\ UNCHANGED <<task, pool>>
      /\ \A t \in Tid : t # n => tid_cpu'[t] = tid_cpu[t]
  BY <1>1, <1>2, <1>3
<1>7. Wakers(n) = {} /\ task[n].blocked = 0 /\ task[n].ret = 0
  <2>1. task[n].blocked = 0 /\ task[n].ret = 0
    BY <1>3, NobodyJoinsTheUnknown
  <2>2. ASSUME NEW p \in Wakers(n) PROVE FALSE
    BY <1>3, <2>2, HasWaker
  <2>. QED BY <2>1, <2>2
<1>8. \A t : Wakers(t)' \subseteq Wakers(t) /\ \A k : Said(boxes, k, t)' = Said(boxes, k, t)
  <2>1. boxes' = boxes
    BY <1>1, BoxesStay
  <2>2. \A k, t : Said(boxes, k, t)' = Said(boxes, k, t)
    BY <2>1 DEF Said, Mail, Wakee, What
  <2>3. \A v \in Tid : \A t : Unblocks(th'[v], t) => Unblocks(th[v], t)
    BY <1>4, <1>5 DEF Unblocks
  <2>4. \A u \in Tid : \A t : t \in Range(task'[u].joiners) => t \in Range(task[u].joiners)
    BY <1>6
  <2>5. ASSUME NEW t PROVE Wakers(t)' \subseteq Wakers(t)
    <3>1. Wakers(t)' \subseteq Wakers(t) \cup {}
      BY <1>1, <2>2, <2>3, <2>4, WakersMove
    <3>. QED BY <3>1
  <2>. QED BY <2>2, <2>5
<1>9. /\ \A w \in Tid : Brings(w, n)' <=> w = me
      /\ \A w \in Tid : \A t : t # n => (Brings(w, t)' <=> Brings(w, t))
      /\ \A t : Brings(me, t) => FALSE
      /\ \A t : Brings(n, t) => FALSE
      /\ ~Coming(n) /\ ~Readying(n)
  <2>1. ASSUME NEW w \in Tid, Brings(w, n) PROVE FALSE
    <3>1. CASE th[w].pc = "cr_add"
      <4>. QED BY <1>3, <2>1, <3>1 DEF WInv, Body, Hand, Brings
    <3>2. CASE th[w].pc # "cr_add"
      <4>1. Readying(n)
        BY <2>1, <3>2 DEF Brings, Readying
      <4>. QED BY <1>3, <4>1 DEF WInv, Body, Brought, Blk, Rets
    <3>. QED BY <3>1, <3>2
  <2>2. ~Coming(n) /\ ~Readying(n)
    BY <2>1 DEF Brings, Coming, Readying
  <2>3. \A t : ~Brings(me, t) /\ ~Brings(n, t)
    BY <1>1, <1>3 DEF Brings
  <2>4. ASSUME NEW w \in Tid, NEW t, w # me PROVE Brings(w, t)' <=> Brings(w, t)
    <3>1. CASE w = n
      BY <1>4, <1>5, <2>3, <3>1 DEF Brings
    <3>2. CASE w # n
      BY <1>5, <2>4, <3>2 DEF Brings
    <3>. QED BY <3>1, <3>2
  <2>5. \A t : Brings(me, t)' <=> t = n
    BY <1>4, <1>5 DEF Brings
  <2>. QED BY <1>2, <2>1, <2>2, <2>3, <2>4, <2>5
<1>10. \A t : t # n => (Readying(t)' <=> Readying(t)) /\ (Coming(t)' <=> Coming(t))
  <2>1. ASSUME NEW w \in Tid, NEW t, t # n
        PROVE  /\ th'[w].pc \in {"ub_ready", "ub_add"} /\ th'[w].obj = t
                    <=> th[w].pc \in {"ub_ready", "ub_add"} /\ th[w].obj = t
               /\ th'[w].pc = "cr_add" /\ th'[w].obj = t <=> th[w].pc = "cr_add" /\ th[w].obj = t
    <3>1. CASE w = me
      BY <1>1, <1>4, <1>5, <2>1, <3>1
    <3>2. CASE w = n
      BY <1>3, <1>4, <1>5, <3>2
    <3>3. CASE w # me /\ w # n
      BY <1>5, <3>3
    <3>. QED BY <3>1, <3>2, <3>3
  <2>. QED BY <2>1 DEF Readying, Coming
<1>11. Steady
  <2>. SUFFICES ASSUME NEW u \in Tid, u \in known
                PROVE  (th[u].pc = "dead" => th'[u].pc = "dead") /\ tid_cpu'[u] = tid_cpu[u]
    BY DEF Steady
  <2>1. u # n
    BY <1>3
  <2>. QED BY <1>1, <1>5, <1>6, <2>1
<1>12. ASSUME me \notin Workers
       PROVE  /\ task[me].blocked = 0 /\ task[me].ret = 0 /\ Wakers(me) = {}
              /\ ~Readying(me) /\ ~Coming(me) /\ r.back = "ret"
  <2>1. th[me].pc \notin Blk \cup {"spawn_ret", "join_ans"} /\ th[me].pc \in MakePcs
    BY <1>1 DEF Blk, MakePcs
  <2>2. Track(me)
    BY <1>2, <1>12 DEF WInv, Body
  <2>. QED BY <1>4, <1>12, <2>1, <2>2, Resting DEF Track
<1>13. Accounts'
  <2>1. ASSUME NEW t \in Tid \ Workers PROVE Account(t)'
    <3>1. CASE t = n
      <4>1. /\ Wakers(n)' = {} /\ task'[n].blocked = 0 /\ task'[n].ret = 0
            /\ th'[n].pc \notin Blk \cup {"joined", "spawn_ret", "join_ans"}
        BY <1>4, <1>5, <1>6, <1>7, <1>8 DEF Blk
      <4>. QED BY <1>3, <3>1, <4>1, AccountIdle
    <3>2. CASE t = me
      <4>1. /\ Wakers(t)' = {} /\ task'[t].blocked = 0 /\ task'[t].ret = 0
            /\ th'[t].pc \notin Blk \cup {"joined", "spawn_ret", "join_ans"}
        BY <1>3, <1>4, <1>5, <1>6, <1>8, <1>12, <2>1, <3>2 DEF Blk
      <4>. QED BY <4>1, AccountIdle
    <3>3. CASE t # n /\ t # me
      <4>1. th'[t] = th[t] /\ tid_cpu'[t] = tid_cpu[t] /\ task'[t] = task[t]
        BY <1>5, <1>6, <3>3
      <4>2. /\ Due(t)' = Due(t) /\ task'[t].ret = task[t].ret
            /\ Goal(th'[t]) = Goal(th[t]) /\ th'[t].obj = th[t].obj
        BY <4>1 DEF Due
      <4>3. Wakers(t)' \subseteq Wakers(t) /\ \A k : Said(boxes, k, t)' \subseteq Said(boxes, k, t)
        BY <1>8
      <4>. QED BY <1>11, <4>1, <4>2, <4>3, AccountKept
    <3>. QED BY <3>1, <3>2, <3>3
  <2>2. ASSUME NEW t \in Workers, t \in Tid PROVE Wakers(t)' = {}
    BY <1>8, <2>2 DEF WInv, Accounts
  <2>. QED BY <2>1, <2>2 DEF Accounts
<1>14. Mails'
  <2>0. PICK f : f = boxes
    OBVIOUS
  <2>1. boxes' = f
    BY <1>1, <2>0, BoxesStay
  <2>2. Ordered(boxes)'
    BY <2>0, <2>1 DEF WInv, Mails, Ordered, Wakee, Later
  <2>3. ASSUME NEW x \in Place, NEW i \in DOMAIN f[x] PROVE Fit(f[x][i])'
    <3>1. PICK m : m = f[x][i]
      OBVIOUS
    <3>2. f[x] = Box(x) /\ f[x] \in Seq(Message)
      BY <2>0, BoxesAre DEF Queuing
    <3>3. Fit(m) /\ m \in Message
      BY <2>3, <3>1, <3>2 DEF WInv, Mails
    <3>4. Wakee(m) # n
      <4>. SUFFICES ASSUME Wakee(m) = n PROVE FALSE
        OBVIOUS
      <4>1. What(m) \in Said(boxes, m.kind, n)
        BY <2>0, <2>3, <3>1, SaidIs
      <4>2. InMail(m.kind) \in Wakers(n)
        BY <3>3, <4>1, Spotted DEF Fit
      <4>. QED BY <1>7, <4>2
    <3>5. Wakee(m) \in Tid /\ m.tid \in Tid
      BY <3>3 DEF Wakee, Message
    <3>6. tid_cpu'[Wakee(m)] = tid_cpu[Wakee(m)]
      BY <1>6, <3>4, <3>5
    <3>7. m.kind = "AddJoiner" => Wakee(m) = m.val
      BY DEF Wakee
    <3>8. m.tid \in known => m.tid \in known'
      BY <1>1
    <3>9. Fit(m)'
      BY <1>1, <1>6, <3>3, <3>6, <3>7, <3>8 DEF Fit, Wakee
    <3>. QED BY <3>1, <3>9
  <2>4. \A x \in Place : Box(x)' = f[x]
    BY <2>1 DEF boxes
  <2>. QED BY <2>2, <2>3, <2>4 DEF Mails
<1>15. Rows'
  BY <1>1 DEF WInv, Rows
<1>17. ASSUME NEW t \in Tid \ Workers PROVE Track(t)' /\ Parked(t)'
  <2>0. Track(t) /\ Parked(t)
    BY DEF WInv, Body
  <2>1. CASE t = n
    <3>1. th'[t].pc = "run" /\ th'[t].back = "run"
      BY <1>4, <1>5, <2>1
    <3>2. Track(t)'
      BY <3>1 DEF Track, Awaits, Goal, Blk, WakePcs, MakePcs
    <3>3. Parked(t)'
      BY <1>1, <1>3, <2>1 DEF Parked
    <3>. QED BY <3>2, <3>3
  <2>2. CASE t = me
    <3>1. th'[t].pc = "cr_add" /\ th'[t].back = "ret"
      BY <1>4, <1>5, <1>12, <2>2
    <3>2. Track(t)'
      BY <3>1 DEF Track, Awaits, Goal, Blk, WakePcs, MakePcs
    <3>3. ~Off(t)'
      BY <1>3, <1>10, <1>12, <2>2, <3>1 DEF Off, Rets
    <3>. QED BY <3>2, <3>3 DEF Parked
  <2>3. CASE t # n /\ t # me
    <3>1. th'[t] = th[t] /\ tid_cpu'[t] = tid_cpu[t] /\ task'[t] = task[t]
      BY <1>5, <1>6, <2>3
    <3>2. Awaits(th[t]) => th[t].obj \in known /\ th[t].obj \in known'
      BY <1>1, <2>0 DEF Track
    <3>3. th[t].pc = "join_ask" => Awaits(th[t])
      BY DEF Awaits, Goal, Blk
    <3>4. Track(t)'
      BY <1>1, <2>0, <3>1, <3>2, <3>3 DEF Track, Awaits, Goal
    <3>5. Due(t)' = Due(t)
      BY <3>1 DEF Due
    <3>6. Off(t)' => Off(t)
      BY <1>10, <2>3, <3>1, <3>5 DEF Off
    <3>7. Parked(t)'
      BY <1>1, <2>0, <3>1, <3>6 DEF Parked
    <3>. QED BY <3>4, <3>7
  <2>. QED BY <2>1, <2>2, <2>3
<1>18. ASSUME NEW t \in Tid PROVE Hand(t)' /\ Nap(t)'
  <2>0. Hand(t) /\ Nap(t)
    BY DEF WInv, Body
  <2>1. CASE t = n
    <3>1. task'[n].state # "Sleeping"
      BY <1>3, <1>6 DEF WInv, Body, Nap
    <3>. QED BY <1>4, <1>5, <2>1, <3>1 DEF Hand, Nap, Makes
  <2>2. CASE t = me
    <3>1. Hand(t)'
      BY <1>1, <1>2, <1>3, <1>4, <1>5, <1>6, <2>2 DEF Hand
    <3>2. task'[t] = task[t]
      BY <1>3, <1>6, <2>2
    <3>3. task[t].state # "Sleeping"
      BY <1>1, <2>0, <2>2 DEF Nap
    <3>. QED BY <3>1, <3>2, <3>3 DEF Nap
  <2>3. CASE t # n /\ t # me
    <3>1. th'[t] = th[t] /\ task'[t] = task[t]
      BY <1>5, <1>6, <2>3
    <3>2. th[t].pc = "ub_cpu" => tid_cpu'[th[t].obj] = tid_cpu[th[t].obj]
      <4>. SUFFICES ASSUME th[t].pc = "ub_cpu" PROVE th[t].obj \in Tid \ {n}
        BY <1>6
      <4>1. th[t].obj \in Tid
        BY DEF IInv, Threads, Sound, WakePcs
      <4>2. InHand(t) \in Wakers(th[t].obj)
        BY Spotted DEF Unblocks
      <4>. QED BY <1>7, <4>1, <4>2
    <3>3. known \subseteq known' /\ tid_cpu'[t] = tid_cpu[t] /\ UNCHANGED pool
      BY <1>1, <1>6, <2>3
    <3>4. Hand(t)'
      BY <2>0, <3>1, <3>2, <3>3 DEF Hand
    <3>5. Nap(t)'
      BY <1>1, <2>0, <3>1 DEF Nap
    <3>. QED BY <3>4, <3>5
  <2>. QED BY <2>1, <2>2, <2>3
<1>19. ASSUME NEW t \in Tid PROVE Brought(t)'
  <2>0. Brought(t)
    BY DEF WInv, Body
  <2>1. CASE t = n
    <3>1. \A w \in Tid : Brings(w, n)' => n \notin Workers /\ tid_cpu'[w] = tid_cpu'[n]
      BY <1>2, <1>3, <1>6, <1>9
    <3>2. \A w, x \in Tid : Brings(w, n)' /\ Brings(x, n)' => w = x
      BY <1>9
    <3>3. ~Readying(n)'
      <4>1. \A w \in Tid : Brings(w, n)' => th'[w].pc = "cr_add"
        BY <1>4, <1>5, <1>9
      <4>. QED BY <4>1 DEF Readying, Brings
    <3>4. th'[n].pc = "run"
      BY <1>4, <1>5
    <3>. QED BY <2>1, <3>1, <3>2, <3>3, <3>4 DEF Brought
  <2>2. CASE t # n
    <3>1. \A w \in Tid : Brings(w, t)' => t \notin Workers /\ tid_cpu'[w] = tid_cpu'[t]
      <4>. SUFFICES ASSUME NEW w \in Tid, Brings(w, t)' PROVE t \notin Workers /\ tid_cpu'[w] = tid_cpu'[t]
        OBVIOUS
      <4>1. Brings(w, t) /\ w # n
        BY <1>9, <2>2
      <4>2. t \notin Workers /\ tid_cpu[w] = tid_cpu[t]
        BY <2>0, <4>1 DEF Brought
      <4>. QED BY <1>6, <2>2, <4>1, <4>2
    <3>2. \A w, x \in Tid : Brings(w, t)' /\ Brings(x, t)' => w = x
      <4>1. \A w, x \in Tid : Brings(w, t) /\ Brings(x, t) => w = x
        BY <2>0 DEF Brought
      <4>. QED BY <1>9, <2>2, <4>1
    <3>3. t = me => ~Readying(t) /\ ~Coming(t)
      <4>1. t \in Workers => ~Readying(t) /\ ~Coming(t)
        BY <2>0 DEF Brought, Readying, Coming, Brings
      <4>. QED BY <1>12, <4>1
    <3>4. t # me => th'[t] = th[t] /\ Due(t)' = Due(t)
      BY <1>5, <1>6, <2>2 DEF Due
    <3>5. Readying(t)' => (th[t].pc \in (Blk \ {"blk_add"}) \cup Rets)' /\ (Due(t) # 1)'
      BY <1>10, <2>0, <2>2, <3>3, <3>4 DEF Brought
    <3>6. Coming(t)' => th'[t].pc = "run"
      BY <1>10, <2>0, <2>2, <3>3, <3>4 DEF Brought
    <3>. QED BY <3>1, <3>2, <3>5, <3>6 DEF Brought
  <2>. QED BY <2>1, <2>2
<1>20. ASSUME NEW t \in Tid PROVE Fate(t)'
  <2>0. Fate(t)
    BY DEF WInv, Body
  <2>1. CASE t = n
    <3>1. task[n].state \notin {"Terminating", "Migrating"} /\ task[n].ret < next_tid
      BY <1>3, <2>0, <2>1 DEF Fate
    <3>. QED BY <1>1, <1>2, <2>1, <3>1 DEF Fate
  <2>2. CASE t # n
    <3>1. task'[t] = task[t]
      BY <1>6, <2>2
    <3>2. t \in known' <=> t \in known
      BY <1>1, <2>2
    <3>3. t # me => th'[t] = th[t]
      BY <1>5, <2>2
    <3>4. th'[me].pc = "cr_add" /\ th[me].pc = "cr_map" /\ me \in known
      BY <1>1, <1>2, <1>4, <1>5
    <3>. QED BY <1>1, <2>0, <3>1, <3>2, <3>3, <3>4 DEF Fate
  <2>. QED BY <2>1, <2>2
<1>21. ASSUME NEW d \in CPU PROVE Desk(d)' /\ Row(d)'
  <2>1. Desk(d) /\ Row(d) /\ Worker[d] \in Tid /\ Worker[d] # n
    BY <1>3, Here DEF WInv, Body, Workers
  <2>. PICK x : x = Head(wk[d].inbox).tid
    OBVIOUS
  <2>5. Serves(th[Worker[d]]) => th'[x] = th[x]
    <3>. SUFFICES ASSUME Serves(th[Worker[d]]) PROVE x \in Tid \ {me, n}
      BY <1>5
    <3>1. x \in Tid /\ InMail("CreateTask") \in Wakers(x) /\ (x = me => th[me].pc \in Blk)
      BY AskerWaits
    <3>. QED BY <1>1, <1>7, <3>1 DEF Blk
  <2>2. ASSUME Worker[d] = me PROVE Desk(d)'
    <3>1. th'[Worker[d]] = r /\ wk' = wk
      BY <1>1, <1>5, <2>2
    <3>2. /\ ~Holds(r) /\ ~Buries(r) /\ r.pc \notin MovePcs
          /\ Serves(th[Worker[d]]) /\ Made(th[Worker[d]])
      BY <1>1, <1>4, <2>2 DEF Holds, Buries, Serves, Made, Makes, WakePcs, MakePcs, MovePcs
    <3>3. Head(wk[d].inbox).kind = "CreateTask" /\ th'[x].obj <= n
      BY <2>1, <2>2, <2>5, <3>2 DEF Desk
    <3>. QED BY <1>4, <3>1, <3>2, <3>3 DEF Desk
  <2>3. ASSUME Worker[d] # me PROVE Desk(d)'
    <3>1. th'[Worker[d]] = th[Worker[d]] /\ wk' = wk
      BY <1>1, <1>5, <2>1, <2>3
    <3>2. Holds(th[Worker[d]]) \/ Buries(th[Worker[d]]) =>
            wk[d].victim \in Tid /\ th[wk[d].victim].pc = "dead"
      BY <2>1 DEF Desk, IInv, Victims, Pools
    <3>3. Holds(th[Worker[d]]) \/ Buries(th[Worker[d]]) => th'[wk[d].victim].pc = "dead"
      BY <1>1, <1>3, <1>5, <3>2
    <3>4. Made(th[Worker[d]]) => th'[x].obj <= th[Worker[d]].obj
      <4>1. Made(th[Worker[d]]) => Serves(th[Worker[d]])
        BY DEF Made, Makes, Serves, MakePcs
      <4>. QED BY <2>1, <2>5, <4>1 DEF Desk
    <3>. QED BY <2>1, <3>1, <3>3, <3>4 DEF Desk, Serves, Made, Holds, Buries
  <2>4. Row(d)'
    <3>. SUFFICES ASSUME NEW t \in Range(rq[d]) PROVE t \in Tid /\ t \in known' /\ tid_cpu'[t] = d
      BY <1>1 DEF Row
    <3>1. t \in Tid /\ t \in known /\ tid_cpu[t] = d /\ t # n
      BY <1>3, <2>1, NumbersSettled DEF Row
    <3>. QED BY <1>1, <1>6, <3>1
  <2>. QED BY <2>2, <2>3, <2>4
<1>22. Body'
  BY <1>17, <1>18, <1>19, <1>20, <1>21 DEF Body
<1>. QED BY <1>13, <1>14, <1>15, <1>22 DEF WInv

-----------------------------------------------------------------------------
(* The invariant holds                                                     *)

\* A queue of a set holds no other tasks.
LEMMA SortedHoldsOnly ==
    ASSUME NEW S \in SUBSET Tid
    PROVE  \A t \in Range(Sorted(S)) : t \in S
<1>1. S \in SUBSET Nat /\ IsFiniteSet(S)
  <2>1. MaxTid \in Nat
    BY SchedAssumption DEF SchedAssumption
  <2>2. S \in SUBSET (1 .. MaxTid) /\ IsFiniteSet(1 .. MaxTid)
    BY <2>1, FS_Interval DEF Tid
  <2>3. S \in SUBSET Nat
    BY <2>2
  <2>. QED BY <2>2, <2>3, FS_Subset
<1>2. \A k \in 1 .. Cardinality(S) : Nth(S, k) \in S
  BY <1>1, NthCounts
<1>. DEFINE n == Cardinality(S)
<1>. HIDE DEF n
<1>3. \A k \in DOMAIN Sorted(S) : Sorted(S)[k] \in S
  <2>1. Sorted(S) = [k \in 1 .. n |-> Nth(S, k)]
    BY DEF Sorted, n
  <2>. QED BY <1>2, <2>1 DEF n
<1>. QED BY <1>3 DEF Range

LEMMA InitWakes ==
    ASSUME Init
    PROVE  WInv
<1>1. IInv
  BY Starts
<1>2. /\ \A c \in CPU : Worker[c] \in Tid /\ Worker[c] \in DOMAIN Home /\ Worker[c] \in Workers
      /\ DOMAIN Home \subseteq Tid /\ None \notin CPU /\ MaxTid \in Nat
      /\ \A t, u \in Tid : u \in DOMAIN Home /\ t <= u => t \in DOMAIN Home
      /\ \A t \in Tid : t \in Int
      /\ \A t \in DOMAIN Home : Home[t] \in CPU
  BY SchedAssumption DEF SchedAssumption, Workers, Tid
<1>3. /\ mq = <<>> /\ waiters = <<>> /\ ioq = <<>>
      /\ \A c \in CPU : wk[c].inbox = <<>> /\ wk[c].todo = <<>>
      /\ \A c \in CPU : pool[c] = {t \in DOMAIN Home : Home[t] = c} /\ rq[c] = Sorted(pool[c])
      /\ \A t \in Tid : tid_cpu[t] = IF t \in DOMAIN Home THEN Home[t] ELSE None
      /\ known = DOMAIN Home /\ curr = Worker
  BY DEF Init
<1>4. \A t \in Tid : /\ task[t].blocked = 0 /\ task[t].joiners = <<>> /\ task[t].ret = 0
                     /\ task[t].state \in {"New", "Running", "Ready"}
  BY DEF Init, NewTask
<1>5. \A t \in Tid : /\ t \in Workers => th[t].pc = "scan" /\ th[t].back = "run"
                     /\ t \notin Workers => th[t].pc = "run" /\ th[t].back = "run"
  BY DEF Init, Client, Thread0
<1>6. Range(<<>>) = {} /\ IsInjective(<<>>)
  BY DEF Range, IsInjective
<1>7. \A x \in Place : Box(x) = <<>>
  BY <1>3 DEF Box, Place
<1>8. \A k, t : Said(boxes, k, t) = {}
  <2>1. \A x \in Place : boxes[x] = <<>>
    BY <1>7 DEF boxes
  <2>. QED BY <2>1, SaidNothing
<1>9. ASSUME NEW t PROVE Wakers(t) = {}
  <2>. SUFFICES ASSUME NEW p \in Wakers(t) PROVE FALSE
    OBVIOUS
  <2>1. \A v \in Tid : ~Unblocks(th[v], t)
    BY <1>5 DEF Unblocks
  <2>. QED BY <1>3, <1>4, <1>6, <1>8, <2>1, WakersAre
<1>10. Accounts
  <2>1. ASSUME NEW t \in Tid \ Workers PROVE Account(t)
    <3>1. Goal(th[t]) = "run" /\ Owed(th[t], task[t].blocked) = 0 /\ task[t].ret = 0
      BY <1>4, <1>5 DEF Goal, Owed, Blk
    <3>. DEFINE u == th[t].obj
                ans == Said(boxes, "RespondAndUnblock", t)
                ask == Said(boxes, "AddJoiner", t)
                end == th[u].pc
                d == tid_cpu[t]
                home == tid_cpu[u]
    <3>2. Ledger("run", 0, 0, u, {}, ans, ask, end, d, home)
      <4>. HIDE DEF u, ans, ask, end, d, home
      <4>. QED BY LedgerIdle
    <3>. QED BY <1>9, <3>1, <3>2 DEF Account
  <2>. QED BY <1>9, <2>1 DEF Accounts
<1>11. Mails
  <2>1. \A x \in Place : boxes[x] = <<>>
    BY <1>7 DEF boxes
  <2>. QED BY <1>7, <2>1 DEF Mails, Ordered
<1>12. Rows
  BY <1>3, <1>4, <1>6 DEF Rows
<1>13. \A t : ~Readying(t) /\ ~Coming(t) /\ \A v \in Tid : ~Brings(v, t)
  BY <1>5 DEF Readying, Coming, Brings
<1>14. ASSUME NEW t \in Tid \ Workers PROVE Track(t) /\ Parked(t)
  <2>1. th[t].pc = "run" /\ th[t].back = "run"
    BY <1>5
  <2>2. Track(t)
    BY <2>1 DEF Track, Awaits, Goal, Blk, WakePcs, MakePcs
  <2>3. ~Off(t)
    BY <1>13, <2>1 DEF Off, Rets
  <2>. QED BY <2>2, <2>3 DEF Parked
<1>15. ASSUME NEW t \in Tid PROVE Hand(t) /\ Brought(t) /\ Nap(t) /\ Fate(t)
  <2>1. th[t].pc \in {"run", "scan"}
    BY <1>5
  <2>2. t \in known => \E c \in CPU : t \in pool[c]
    BY <1>2, <1>3
  <2>3. t \notin known => t \notin DOMAIN Home /\ th[t].pc = "run"
    <3>3. t \in Workers => t \in DOMAIN Home
      BY SchedAssumption DEF Workers, SchedAssumption
    <3>. QED BY <1>3, <1>5, <3>3
  <2>4. Hand(t) /\ Nap(t) /\ Brought(t)
    BY <1>4, <1>13, <2>1 DEF Hand, Nap, Brought, Makes
  <2>5. Fate(t)
    BY <1>1, <1>4, <2>2, <2>3, KnownAreBelow DEF Fate, New
  <2>. QED BY <2>4, <2>5
<1>16. ASSUME NEW c \in CPU PROVE Desk(c) /\ Row(c)
  <2>1. th[Worker[c]].pc = "scan"
    BY <1>2, <1>5
  <2>2. Desk(c)
    BY <2>1 DEF Desk, Serves, Made, Makes, MovePcs, Holds, Buries, MakePcs, WakePcs
  <2>3. pool[c] \in SUBSET Tid /\ \A t \in pool[c] : t \in known /\ tid_cpu[t] = c
    BY <1>2, <1>3
  <2>4. \A t \in Range(rq[c]) : t \in pool[c]
    BY <1>3, <2>3, SortedHoldsOnly
  <2>. QED BY <2>2, <2>3, <2>4 DEF Row
<1>17. Body
  BY <1>14, <1>15, <1>16 DEF Body
<1>. QED BY <1>10, <1>11, <1>12, <1>17 DEF WInv

\* Without migration nobody moves out, and no message moves a task.
LEMMA NobodyMoves ==
    ASSUME IInv, WInv, NEW c \in CPU
    PROVE  ~(MoveOut(c) \/ MoveUncount(c) \/ MoveSend(c) \/ DoMoveTask(c) \/ MoveMap(c))
<1>1. ASSUME MoveOut(c) \/ MoveUncount(c) \/ MoveSend(c) \/ MoveMap(c) PROVE FALSE
  <2>1. th[T(c)].pc \in MovePcs
    BY <1>1 DEF MoveOut, MoveUncount, MoveSend, MoveMap, At, MovePcs
  <2>2. T(c) = Worker[c]
    BY <2>1, Here DEF WorkPcs, MovePcs
  <2>. QED BY <2>1, <2>2 DEF WInv, Body, Desk
<1>2. ASSUME DoMoveTask(c) PROVE FALSE
  <2>1. wk[c].inbox # <<>> /\ Head(wk[c].inbox).kind = "MoveTask"
    BY <1>2 DEF DoMoveTask, Next_ipm
  <2>2. Fit(Head(wk[c].inbox))
    BY <2>1, FirstMessage
  <2>. QED BY <2>1, <2>2 DEF Fit, Kinds
<1>. QED BY <1>1, <1>2

LEMMA CallWakes ==
    ASSUME NoMigration, IInv, WInv, NEW c \in CPU, Call(c), fault' = "none"
    PROVE  WInv'
<1>1. CASE Wait(c) \/ Io(c) \/ Serve(c)
  BY <1>1, WaitWakes, ServeWakes
<1>2. CASE Signal(c, 1) \/ Signal(c, MaxTid)
  BY <1>2, SignalWakes
<1>3. CASE Sleep(c) \/ Exit(c)
  BY <1>3, SleepWakes, ExitWakes
<1>4. CASE \E t \in Tid : Join(c, t)
  BY <1>4, JoinWakes
<1>5. ASSUME NEW d \in CPU, Spawn(c, d) PROVE WInv'
  <2>1. CASE d = c
    BY <1>5, <2>1, SpawnHereWakes
  <2>2. CASE d # c
    BY <1>5, <2>2, SpawnThereWakes
  <2>. QED BY <2>1, <2>2
<1>6. ASSUME NEW d \in CPU, Migrate(c, d) PROVE FALSE
  BY <1>6 DEF Migrate, Calling, NoMigration
<1>. QED BY <1>1, <1>2, <1>3, <1>4, <1>5, <1>6 DEF Call

LEMMA KernelWakes ==
    ASSUME IInv, WInv, NEW c \in CPU, Kernel(c), fault' = "none"
    PROVE  WInv'
<1>1. CASE BlockAdd(c) \/ BlockState(c) \/ BlockRem(c) \/ BlockInt(c)
  BY <1>1, BlockAddWakes, BlockStateWakes, BlockRemWakes, BlockIntWakes
<1>2. CASE \/ UnblockMap(c) \/ UnblockRemote(c) \/ UnblockCount(c)
           \/ UnblockReady(c) \/ UnblockAdd(c)
  BY <1>2, UnblockMapWakes, UnblockRemoteWakes, UnblockCountWakes,
     UnblockReadyWakes, UnblockAddWakes
<1>3. CASE SignalPop(c) \/ SignalEnd(c) \/ CallReturns(c)
  BY <1>3, SignalPopWakes, SignalWakes
<1>4. CASE JoinLocal(c) \/ JoinAsk(c) \/ JoinAnswer(c) \/ JoinPoll(c) \/ SpawnAnswer(c)
  BY <1>4, JoinLocalWakes, JoinAskWakes, AnswerWakes, JoinPollWakes
<1>5. CASE \/ CreateTid(c) \/ CreateInsert(c) \/ CreateMap(c)
           \/ CreateAdd(c) \/ CreateReady(c) \/ CreateCount(c)
  BY <1>5, CreateTidWakes, CreateInsertWakes, CreateMapWakes, CreateAddWakes, CreateReadyWakes
<1>6. CASE \/ Scan(c) \/ RemoveDead(c) \/ DropJoiner(c) \/ DropEnd(c)
           \/ MoveOut(c) \/ MoveUncount(c) \/ MoveSend(c)
  BY <1>6, ScanWakes, RemoveDeadWakes, DropJoinerWakes, DropEndWakes, NobodyMoves
<1>7. CASE \/ Fetch(c) \/ DoMoveTask(c) \/ MoveMap(c) \/ DoUnblock(c) \/ DoCreateTask(c)
           \/ AnswerCreate(c) \/ DoRespond(c) \/ DoAddJoiner(c) \/ Halt(c)
  BY <1>7, FetchWakes, NobodyMoves, DoUnblockWakes, DoCreateTaskWakes,
     AnswerCreateWakes, DoAddJoinerWakes
<1>. QED BY <1>1, <1>2, <1>3, <1>4, <1>5, <1>6, <1>7 DEF Kernel

\* A kernel that has stopped takes no step.
LEMMA Stopped ==
    ASSUME Next
    PROVE  fault = "none"
<1>1. \A c \in CPU : Call(c) => fault = "none"
  BY DEF Call, Wait, Signal, Sleep, Exit, Io, Serve, Join, Spawn, Migrate, Calling, At
<1>2. ASSUME NEW c \in CPU, Kernel(c) PROVE fault = "none"
  <2>1. CASE \/ BlockAdd(c) \/ BlockState(c) \/ BlockRem(c) \/ BlockInt(c)
             \/ UnblockMap(c) \/ UnblockRemote(c) \/ UnblockCount(c)
             \/ UnblockReady(c) \/ UnblockAdd(c)
             \/ SignalPop(c) \/ SignalEnd(c) \/ CallReturns(c)
    BY <2>1 DEF BlockAdd, BlockState, BlockRem, BlockInt, UnblockMap, UnblockRemote,
       UnblockCount, UnblockReady, UnblockAdd, SignalPop, SignalEnd, CallReturns, At
  <2>2. CASE \/ JoinLocal(c) \/ JoinAsk(c) \/ JoinAnswer(c) \/ JoinPoll(c)
             \/ CreateTid(c) \/ CreateInsert(c) \/ CreateMap(c)
             \/ CreateAdd(c) \/ CreateReady(c) \/ CreateCount(c) \/ SpawnAnswer(c)
    BY <2>2 DEF JoinLocal, JoinAsk, JoinAnswer, JoinPoll, CreateTid, CreateInsert,
       CreateMap, CreateAdd, CreateReady, CreateCount, SpawnAnswer, At
  <2>3. CASE \/ Scan(c) \/ RemoveDead(c) \/ DropJoiner(c) \/ DropEnd(c)
             \/ MoveOut(c) \/ MoveUncount(c) \/ MoveSend(c)
             \/ Fetch(c) \/ DoMoveTask(c) \/ MoveMap(c) \/ DoUnblock(c) \/ DoCreateTask(c)
             \/ AnswerCreate(c) \/ DoRespond(c) \/ DoAddJoiner(c) \/ Halt(c)
    BY <2>3 DEF Scan, RemoveDead, DropJoiner, DropEnd, MoveOut, MoveUncount,
       MoveSend, MoveMap, Fetch, DoMoveTask,
       DoUnblock, DoCreateTask, AnswerCreate, DoRespond, DoAddJoiner, Halt, Next_ipm, At
  <2>. QED BY <1>2, <2>1, <2>2, <2>3 DEF Kernel
<1>3. \A c \in CPU : Handler(c) \/ IrqEnter(c) \/ Timer(c) => fault = "none"
  BY DEF Handler, IrqSignalPop, IrqExit, IrqEnter, Timer
<1>4. \A t \in Tid : TimePasses(t) => fault = "none"
  BY DEF TimePasses
<1>. QED BY <1>1, <1>2, <1>3, <1>4 DEF Next

LEMMA NextWakes ==
    ASSUME NoMigration, IInv, fault = "none" => WInv, [Next]_vars, fault' = "none"
    PROVE  WInv'
<1>1. CASE UNCHANGED vars
  <2>1. /\ UNCHANGED <<task, th, pool, rq, curr, tid_cpu, next_tid, known, mq, wk, waiters, ioq>>
        /\ fault = "none"
    BY <1>1 DEF vars, shared, ids, calls
  <2>. QED BY <2>1, WakesUnmoved
<1>2. CASE Next
  <2>1. WInv
    BY <1>2, Stopped
  <2>2. CASE \E c \in CPU : Call(c) \/ Kernel(c)
    BY <2>1, <2>2, CallWakes, KernelWakes
  <2>3. ASSUME NEW c \in CPU, Handler(c) PROVE WInv'
    <3>1. CASE IrqSignalPop(c)
      BY <2>1, <3>1, IrqSignalPopWakes
    <3>2. CASE IrqExit(c)
      <4>1. UNCHANGED <<task, th, pool, rq, curr, tid_cpu, next_tid, known, mq, wk, waiters, ioq>>
        BY <3>2 DEF IrqExit, shared, ids
      <4>. QED BY <2>1, <4>1, WakesUnmoved
    <3>. QED BY <2>3, <3>1, <3>2 DEF Handler
  <2>4. CASE \E c \in CPU : IrqEnter(c) \/ Timer(c)
    BY <2>1, <2>4, IrqEnterWakes, TimerWakes
  <2>5. ASSUME NEW t \in Tid, TimePasses(t) PROVE WInv'
    <3>1. UNCHANGED <<task, th, pool, rq, curr, tid_cpu, next_tid, known, mq, wk, waiters, ioq>>
      BY <2>5 DEF TimePasses, shared, ids, calls
    <3>. QED BY <2>1, <3>1, WakesUnmoved
  <2>. QED BY <1>2, <2>2, <2>3, <2>4, <2>5 DEF Next
<1>. QED BY <1>1, <1>2

\* Without migration every block of a task is matched by one unblock to come,
\* while the kernel has not stopped.
THEOREM WakesAreAccounted ==
    ASSUME NoMigration
    PROVE  Spec => [](fault = "none" => WInv)
<1>1. Init => IInv /\ (fault = "none" => WInv)
  BY Starts, InitWakes
<1>2. IInv /\ (fault = "none" => WInv) /\ [Next]_vars => IInv' /\ (fault = "none" => WInv)'
  BY NextKeeps, NextWakes
<1>. QED BY <1>1, <1>2, PTL DEF Spec

-----------------------------------------------------------------------------
(* What follows                                                            *)

\* join comes back only when its target has exited, on any number of CPUs,
\* whether it waited in the target's list, by IPM or polling, and however
\* blocks and unblocks race: Task::join.
THEOREM JoinWaitsForTheEnd ==
    ASSUME NoMigration
    PROVE  Spec => []JoinedIsDead
<1>1. IInv /\ (fault = "none" => WInv) => JoinedIsDead
  <2>. SUFFICES ASSUME IInv, fault = "none" => WInv, NEW c \in CPU, At(c, "joined")
                PROVE  th[th[T(c)].obj].pc = "dead"
    BY DEF JoinedIsDead
  <2>. DEFINE t == T(c)
  <2>1. WInv /\ th[t].pc = "joined"
    BY DEF At
  <2>2. t \notin Workers /\ t \in Tid
    BY <2>1, InCall, Here DEF CallPcs, Backs
  <2>3. task[t].blocked = 0
    BY <2>1, <2>2, Resting DEF Blk
  <2>4. Goal(th[t]) = "joined" /\ Owed(th[t], task[t].blocked) = 0
    BY <2>1, <2>3 DEF Goal, Owed, Blk
  <2>5. Account(t)
    BY <2>1, <2>2 DEF WInv, Accounts
  <2>. QED BY <2>4, <2>5 DEF Account, Ledger
<1>. QED BY <1>1, Invariance, WakesAreAccounted, PTL

\* No message of a kind: nothing asked or answered in any queue.
LEMMA AskedIs ==
    ASSUME IInv, NEW t,
           \A k \in {"CreateTask", "AddJoiner", Answer} : Said(boxes, k, t) = {}
    PROVE  Asked(t) = {}
<1>. SUFFICES ASSUME NEW m \in Asked(t) PROVE FALSE
  OBVIOUS
<1>1. /\ m \in Range(mq) \cup UNION {Range(wk[c].inbox) : c \in CPU}
      /\ m.kind \in {"CreateTask", "AddJoiner", Answer} /\ Wakee(m) = t
  BY DEF Asked, Wakee, Answer
<1>2. PICK x \in Place : m \in Range(boxes[x])
  <2>1. /\ None \in Place /\ boxes[None] = mq
        /\ \A c \in CPU : c \in Place /\ boxes[c] = wk[c].inbox
    BY BoxesAre
  <2>2. CASE m \in Range(mq)
    BY <2>1, <2>2
  <2>3. ASSUME NEW c \in CPU, m \in Range(wk[c].inbox) PROVE \E x \in Place : m \in Range(boxes[x])
    BY <2>1, <2>3
  <2>. QED BY <1>1, <2>2, <2>3
<1>3. PICK i \in DOMAIN boxes[x] : boxes[x][i] = m
  BY <1>2 DEF Range
<1>4. What(m) \in Said(boxes, m.kind, t)
  BY <1>1, <1>3, SaidIs
<1>. QED BY <1>1, <1>4

\* A caller that goes on after its IPM was answered has the answer to its own
\* question: no request and no answer of it is left in any queue, what spawn
\* has is a tid handed out since it asked, and what join has its target's or
\* "not here": set_msg_ret, get_msg_ret and the workers' replies.
THEOREM AnswersAreToTheirQuestions ==
    ASSUME NoMigration
    PROVE  Spec => []AnswersMatch
<1>1. IInv /\ (fault = "none" => WInv) => AnswersMatch
  <2>. SUFFICES ASSUME IInv, fault = "none" => WInv, NEW c \in CPU, NEW t, t = T(c),
                       At(c, "spawn_ret") \/ At(c, "join_ans")
                PROVE  /\ Asked(t) = {}
                       /\ At(c, "spawn_ret") => task[t].ret \in th[t].obj .. (next_tid - 1)
                       /\ At(c, "join_ans") => task[t].ret \in {0, th[t].obj}
    BY DEF AnswersMatch
  <2>1. WInv /\ th[t].pc \in {"spawn_ret", "join_ans"}
    BY DEF At
  <2>2. t \notin Workers /\ t \in Tid /\ th[t].obj \in Nat
    BY <2>1, InCall, Here DEF CallPcs, Backs, ThreadType
  <2>. DEFINE a == task[t].blocked
              ret == task[t].ret
              u == th[t].obj
              K == Wakers(t)
              ans == Said(boxes, "RespondAndUnblock", t)
              ask == Said(boxes, "AddJoiner", t)
  <2>3. a # 1
    BY <2>1, <2>2, Resting DEF Blk
  <2>4. Goal(th[t]) = th[t].pc /\ Owed(th[t], a) = a
    <3>1. task[t].blocked \in Int
      BY <2>2 DEF IInv, Tasks, TaskType
    <3>. QED BY <2>1, <3>1 DEF Goal, Owed, Blk
  <2>5. Ledger(th[t].pc, a, ret, u, K, ans, ask, th[u].pc, tid_cpu[t], tid_cpu[u])
    BY <2>1, <2>2, <2>4 DEF WInv, Accounts, Account
  <2>. HIDE DEF a, K, ans, ask
  <2>6. th[t].pc = "spawn_ret" => ret \in Since(u) /\ K = {}
    BY <2>3, <2>5 DEF Ledger, Spawns, Rets
  <2>7. th[t].pc = "join_ans" =>
          ret \in {0, u} /\ (K = {} \/ \E j \in JoinSpots(u, th[u].pc) : K \subseteq {j})
    BY <2>3, <2>5 DEF Ledger, Joins, Rets
  <2>8. \A k \in {"CreateTask", "AddJoiner", Answer} : InMail(k) \notin K
    BY <2>1, <2>6, <2>7, MailsDiffer DEF Answer
  <2>9. Asked(t) = {}
    <3>1. \A k \in {"CreateTask", "AddJoiner", Answer} : Said(boxes, k, t) = {}
      BY <2>8, Spotted DEF K, Kinds, Answer
    <3>. QED BY <3>1, AskedIs
  <2>10. th[t].pc = "spawn_ret" => ret \in u .. (next_tid - 1)
    <3>1. ret < next_tid /\ next_tid \in Nat
      BY <2>1, <2>2, NumbersSettled DEF WInv, Body, Fate
    <3>. QED BY <2>2, <2>6, <3>1 DEF Since, New, Tid
  <2>. QED BY <2>7, <2>9, <2>10 DEF At
<1>. QED BY <1>1, Invariance, WakesAreAccounted, PTL

-----------------------------------------------------------------------------
(* What stops the kernel                                                   *)

\* Who is in a run queue and alive is in the CPU's pool.
LEMMA QueuedAtHome ==
    ASSUME IInv, WInv, NEW c \in CPU, NEW t \in Range(rq[c])
    PROVE  t \in pool[c] /\ th[t].pc # "dead"
<1>1. t \in Tid /\ t \in known /\ tid_cpu[t] = c
  BY NumbersSettled DEF WInv, Body, Row
<1>2. th[t].pc # "dead"
  <2>1. CASE t \in Workers
    BY <1>1, <2>1 DEF IInv, Threads, Sound, WorkPcs, MakePcs, WakePcs
  <2>2. CASE t \notin Workers
    <3>1. Parked(t)
      BY <1>1, <2>2 DEF WInv, Body
    <3>. QED BY <3>1 DEF Parked, Off
  <2>. QED BY <2>1, <2>2
<1>3. Fate(t)
  BY <1>1 DEF WInv, Body
<1>4. PICK d \in CPU : t \in pool[d]
  BY <1>1, <1>2, <1>3 DEF Fate
<1>5. d = c
  BY <1>1, <1>4, AtHome
<1>. QED BY <1>2, <1>4, <1>5

\* preempt_irq finds the tasks it needs.
LEMMA FindsTask ==
    ASSUME IInv, WInv, NEW c \in CPU, NEW tk, NEW q \in Seq(Nat), q # <<>>,
           \A t \in Range(q) : t \in Range(rq[c]), PreemptIrq(c, tk, q), fault = "none"
    PROVE  fault' = "none"
<1>. DEFINE stop == {i \in 1 .. Len(q) : q[i] \notin pool[c] \/ Eligible(tk, q[i])}
            i    == Min(stop)
<1>1. stop # {}
  BY DEF PreemptIrq
<1>2. i \in DOMAIN q
  <2>1. stop \in SUBSET Nat /\ stop \in SUBSET DOMAIN q
    OBVIOUS
  <2>. HIDE DEF stop
  <2>. QED BY <1>1, <2>1, LeastOf
<1>3. q[i] \in pool[c] /\ curr[c] \in pool[c]
  <2>. HIDE DEF i
  <2>1. q[i] \in Range(q)
    BY <1>2 DEF Range
  <2>. QED BY <2>1, QueuedAtHome DEF IInv, Current
<1>. QED BY <1>1, <1>3 DEF PreemptIrq

LEMMA SwitchesSafely ==
    ASSUME IInv, WInv, NEW c \in CPU, BlockInt(c) \/ Exit(c) \/ Timer(c)
    PROVE  fault' = "none"
<1>. DEFINE q == rq[c]
<1>1. q \in Seq(Nat) /\ q # <<>> /\ Worker[c] \in Range(q)
  BY DEF IInv, Queues, Range
<1>2. CASE BlockInt(c) \/ Timer(c)
  <2>1. PreemptIrq(c, task, q) /\ fault = "none"
    BY <1>2 DEF BlockInt, Timer, At
  <2>. QED BY <1>1, <2>1, FindsTask
<1>3. CASE Exit(c)
  <2>. DEFINE w == RemTask(q, T(c))
              tk == [task EXCEPT ![T(c)].state = "Terminating"]
  <2>1. PreemptIrq(c, tk, w) /\ fault = "none" /\ th[T(c)].pc = "run"
    BY <1>3 DEF Exit, At
  <2>2. T(c) # Worker[c]
    BY <2>1, InCall DEF CallPcs, Backs
  <2>3. w \in Seq(Nat) /\ Worker[c] \in Range(w) /\ \A t \in Range(w) : t \in Range(rq[c])
    BY <1>1, <2>2, RemTaskLeaves, RemTaskRemoves
  <2>. HIDE DEF w, tk
  <2>4. w # <<>>
    BY <2>3 DEF Range
  <2>. QED BY <2>1, <2>3, <2>4, FindsTask
<1>. QED BY <1>2, <1>3

\* A task that is to be woken, or answered, is in the pool it is looked for.
LEMMA FindsWakee ==
    ASSUME IInv, WInv, NEW c \in CPU,
           UnblockCount(c) \/ DoRespond(c) \/ SignalPop(c) \/ IrqSignalPop(c)
    PROVE  fault' = "none"
<1>1. CASE UnblockCount(c)
  <2>. SUFFICES ASSUME NEW me, me = T(c), NEW x, x = th[me].obj PROVE fault' = "none"
    OBVIOUS
  <2>1. th[me].pc = "ub_cpu" /\ th[me].arg = c /\ fault = "none"
    BY <1>1 DEF UnblockCount, At
  <2>2. me \in Tid /\ x \in Tid
    BY <2>1, WakesBack DEF WakePcs
  <2>3. tid_cpu[x] = c
    BY <2>1, <2>2 DEF WInv, Body, Hand
  <2>4. InHand(me) \in Wakers(x)
    <3>1. Unblocks(th[me], x)
      BY <2>1 DEF Unblocks
    <3>. QED BY <2>2, <3>1, Spotted
  <2>5. x \in pool[c]
    BY <2>2, <2>3, <2>4, HasWaker
  <2>. QED BY <1>1, <2>1, <2>5 DEF UnblockCount
<1>2. CASE DoRespond(c)
  <2>. SUFFICES ASSUME NEW m, m = Head(wk[c].inbox) PROVE fault' = "none"
    OBVIOUS
  <2>1. wk[c].inbox # <<>> /\ m.kind = Answer /\ fault = "none"
    BY <1>2 DEF DoRespond, Next_ipm, At, Answer
  <2>2. Fit(m) /\ m.dest = c /\ What(m) \in Said(boxes, m.kind, Wakee(m)) /\ m \in Message
    BY <2>1, FirstMessage
  <2>3. Wakee(m) = m.tid /\ m.tid \in Tid /\ tid_cpu[m.tid] = c
    BY <2>1, <2>2 DEF Wakee, Message, Fit, Answer
  <2>4. InMail(Answer) \in Wakers(m.tid)
    BY <2>1, <2>2, <2>3, Spotted DEF Kinds, Answer
  <2>5. m.tid \in pool[c]
    BY <2>3, <2>4, HasWaker
  <2>. QED BY <1>2, <2>1, <2>5 DEF DoRespond, rest
<1>3. CASE SignalPop(c) \/ IrqSignalPop(c)
  <2>1. waiters # <<>> /\ fault = "none"
    BY <1>3 DEF SignalPop, IrqSignalPop, At
  <2>2. PICK x : x = Head(waiters) /\ waiters' = Tail(waiters) /\ UnblockAtOnce(c, x)
    BY <1>3 DEF SignalPop, IrqSignalPop, PopWaiter
  <2>3. x \in Tid /\ InQueue \in Wakers(x)
    BY <2>1, <2>2, FirstWaiter
  <2>4. tid_cpu[x] \in CPU /\ x \in pool[tid_cpu[x]]
    BY <2>3, HasWaker
  <2>. QED BY <2>1, <2>2, <2>4 DEF UnblockAtOnce, Elsewhere
<1>. QED BY <1>1, <1>2, <1>3

Dangling == "store through a dangling pointer"

\* Only the store of create_task can stop the kernel.
LEMMA StopsOnlyThere ==
    ASSUME IInv, WInv, Next, fault' # "none"
    PROVE  fault' = Dangling /\ \E c \in CPU : CreateReady(c) /\ th[T(c)].obj \notin pool[th[T(c)].arg]
<1>. USE DEF rest
<1>1. fault = "none"
  BY Stopped
<1>2. ASSUME NEW c \in CPU, Call(c) PROVE FALSE
  <2>1. CASE Exit(c)
    BY <2>1, SwitchesSafely
  <2>2. CASE ~Exit(c)
    BY <1>1, <1>2, <2>2 DEF Call, Wait, Signal, Sleep, Io, Serve, Join, Spawn, Migrate
  <2>. QED BY <2>1, <2>2
<1>3. ASSUME NEW c \in CPU, Kernel(c)
      PROVE  fault' = Dangling /\ CreateReady(c) /\ th[T(c)].obj \notin pool[th[T(c)].arg]
  <2>1. CASE BlockAdd(c) \/ BlockState(c) \/ BlockRem(c) \/ BlockInt(c)
    BY <1>1, <2>1, SwitchesSafely DEF BlockAdd, BlockState, BlockRem
  <2>2. CASE \/ UnblockMap(c) \/ UnblockRemote(c) \/ UnblockCount(c)
             \/ UnblockReady(c) \/ UnblockAdd(c)
    BY <1>1, <2>2, FindsWakee DEF UnblockMap, UnblockRemote, UnblockReady, UnblockAdd
  <2>3. CASE SignalPop(c) \/ SignalEnd(c) \/ CallReturns(c)
    BY <1>1, <2>3, FindsWakee DEF SignalEnd, CallReturns
  <2>4. CASE JoinLocal(c) \/ JoinAsk(c) \/ JoinAnswer(c) \/ JoinPoll(c) \/ SpawnAnswer(c)
    BY <1>1, <2>4 DEF JoinLocal, JoinAsk, JoinAnswer, JoinPoll, SpawnAnswer
  <2>5. CASE CreateTid(c) \/ CreateInsert(c) \/ CreateMap(c) \/ CreateAdd(c) \/ CreateCount(c)
    BY <1>1, <2>5 DEF CreateTid, CreateInsert, CreateMap, CreateAdd, CreateCount
  <2>6. CASE CreateReady(c)
    BY <1>1, <2>6 DEF CreateReady, Fault, Dangling
  <2>7. CASE \/ Scan(c) \/ RemoveDead(c) \/ DropJoiner(c) \/ DropEnd(c)
             \/ MoveOut(c) \/ MoveUncount(c) \/ MoveSend(c) \/ MoveMap(c)
    BY <1>1, <2>7 DEF Scan, RemoveDead, DropJoiner, DropEnd, MoveOut, MoveUncount, MoveSend,
       MoveMap
  <2>8. CASE \/ Fetch(c) \/ DoMoveTask(c) \/ DoUnblock(c) \/ DoCreateTask(c)
             \/ AnswerCreate(c) \/ DoRespond(c) \/ DoAddJoiner(c) \/ Halt(c)
    BY <1>1, <2>8, FindsWakee DEF Fetch, DoMoveTask, DoUnblock, DoCreateTask, AnswerCreate,
       DoAddJoiner, Halt
  <2>. QED BY <1>3, <2>1, <2>2, <2>3, <2>4, <2>5, <2>6, <2>7, <2>8 DEF Kernel
<1>4. ASSUME NEW c \in CPU, Handler(c) \/ IrqEnter(c) \/ Timer(c) PROVE FALSE
  BY <1>1, <1>4, FindsWakee, SwitchesSafely DEF Handler, IrqExit, IrqEnter
<1>5. ASSUME NEW t \in Tid, TimePasses(t) PROVE FALSE
  BY <1>1, <1>5 DEF TimePasses
<1>. QED BY <1>2, <1>3, <1>4, <1>5 DEF Next

-----------------------------------------------------------------------------
(* Tasks are created with the interrupts off, or by the worker             *)

SpawnersMasked ==
    \/ {"spawn", "spawn_on_cpu"} \cap Calls = {}
    \/ Tid \ Workers \subseteq UserTask

\* Who creates a task has the new task in its pool, for nobody who removes it
\* can get in: a client cannot be preempted, and the worker is who removes.
Adding == {"cr_map", "cr_add", "cr_ready"}
Shields ==
    \A c \in CPU : \A v \in pool[c] :
        /\ th[v].pc \in MakePcs /\ v \notin Workers => ~th[v].ie /\ curr[c] = v
        /\ th[v].pc \in Adding => th[v].obj \in pool[c]

\* A step of CPU c that removes nobody from a pool.
LEMMA ShieldsKept ==
    ASSUME IInv, Shields, NEW c \in CPU, NEW me, me = T(c), NEW r,
           \A t \in Tid \ {me} : th'[t] = th[t] \/ th'[t].pc = "run",
           th'[me] = r,
           \A d \in CPU \ {c} : pool'[d] = pool[d] /\ curr'[d] = curr[d],
           pool[c] \subseteq pool'[c],
           \A t \in pool'[c] \ pool[c] : th'[t].pc = "run",
           r.pc \in MakePcs /\ me \notin Workers => ~r.ie /\ UNCHANGED curr,
           r.pc \in Adding => r.obj \in pool'[c]
    PROVE  Shields'
<1>1. me \in pool[c] /\ me \in Tid /\ curr[c] = me
  BY Here DEF T
<1>2. \A d \in CPU : \A v \in pool[d] : v \in Tid /\ (v = me => d = c)
  BY <1>1 DEF IInv, Pools
<1>3. "run" \notin MakePcs /\ "run" \notin Adding
  BY DEF MakePcs, Adding
<1>. SUFFICES ASSUME NEW d \in CPU, NEW v \in pool'[d]
              PROVE  /\ th'[v].pc \in MakePcs /\ v \notin Workers => ~th'[v].ie /\ curr'[d] = v
                     /\ th'[v].pc \in Adding => th'[v].obj \in pool'[d]
  BY DEF Shields
<1>4. pool[d] \subseteq pool'[d]
  OBVIOUS
<1>5. CASE v \notin pool[d]
  BY <1>3, <1>5
<1>6. CASE v = me
  BY <1>1, <1>2, <1>6, <1>5
<1>7. CASE v # me /\ v \in pool[d]
  <2>1. v \in Tid /\ (th'[v] = th[v] \/ th'[v].pc = "run")
    BY <1>2, <1>7
  <2>2. th[v].pc \in MakePcs /\ v \notin Workers => curr[d] = v /\ d # c
    BY <1>1, <1>7 DEF Shields
  <2>. QED BY <1>3, <1>4, <1>7, <2>1, <2>2 DEF Shields
<1>. QED BY <1>5, <1>6, <1>7

\* Where a thread goes on is not in a creation.
LEMMA BackFromThere ==
    ASSUME IInv, NEW c \in CPU, th[T(c)].pc \in WakePcs \cup MakePcs \cup CallPcs
    PROVE  th[T(c)].back \notin MakePcs
  BY Here DEF Sound, WorkPcs, MakePcs, WakePcs, CallPcs, Backs

Departs(c) == /\ \A t \in Tid \ {T(c)} : th'[t] = th[t]
              /\ th'[T(c)].pc \notin MakePcs

LEMMA DepartsKeep ==
    ASSUME IInv, Shields, NEW c \in CPU, Departs(c), UNCHANGED pool,
           \A d \in CPU \ {c} : curr'[d] = curr[d]
    PROVE  Shields'
<1>1. Adding \subseteq MakePcs
  BY DEF Adding, MakePcs
<1>. QED BY <1>1, ShieldsKept DEF Departs

LEMMA CallDeparts ==
    ASSUME IInv, NEW c \in CPU,
           \/ Wait(c) \/ Signal(c, 1) \/ Signal(c, MaxTid) \/ Sleep(c) \/ Io(c) \/ Serve(c)
           \/ Exit(c) \/ \E t \in Tid : Join(c, t)
    PROVE  Departs(c)
<1>1. T(c) \in Tid /\ th \in [Tid -> ThreadType] /\ th[T(c)] \in ThreadType
  BY Here DEF IInv, Threads
<1>. USE DEF MakePcs
<1>2. CASE Wait(c) \/ Signal(c, 1) \/ Signal(c, MaxTid) \/ Sleep(c) \/ Io(c) \/ Serve(c)
  <2>1. PICK l, ie, back, obj : Enter(c, l, ie, back, obj) /\ l \notin MakePcs
    <3>1. ASSUME NEW n, Signal(c, n) PROVE Enter(c, "sig", FALSE, "run", n)
      BY <3>1 DEF Signal
    <3>2. Wait(c) => Enter(c, "blk_add", Guarded(c), "wait_ret", 0)
      BY DEF Wait
    <3>3. Sleep(c) => Enter(c, "slp_int", Gate(c), "ret", 0)
      BY DEF Sleep
    <3>4. Io(c) => Enter(c, "blk_add", TRUE, "ret", 0)
      BY DEF Io
    <3>5. Serve(c) => Enter(c, "ub_map", Gate(c), "ret", Head(ioq))
      BY DEF Serve
    <3>6. {"sig", "blk_add", "slp_int", "ub_map"} \cap MakePcs = {}
      OBVIOUS
    <3>. HIDE DEF MakePcs
    <3>. QED BY <1>2, <3>1, <3>2, <3>3, <3>4, <3>5, <3>6
  <2>2. PICK r : Sets(T(c), r, l, back, obj, th[T(c)].arg)
    BY <2>1, EntersAt
  <2>. QED BY <1>1, <2>1, <2>2 DEF Sets, Departs
<1>3. CASE Exit(c)
  <2>1. th' = [th EXCEPT ![T(c)] = [Thread0 EXCEPT !.pc = "dead"]]
    BY <1>3 DEF Exit
  <2>. DEFINE r == [Thread0 EXCEPT !.pc = "dead"]
  <2>2. r.pc = "dead" /\ th' = [th EXCEPT ![T(c)] = r]
    BY <2>1 DEF Thread0
  <2>. HIDE DEF r
  <2>. QED BY <1>1, <2>2 DEF Departs
<1>4. ASSUME NEW t \in Tid, Join(c, t) PROVE Departs(c)
  BY <1>1, <1>4 DEF Join, Departs, ThreadType
<1>. QED BY <1>2, <1>3, <1>4

LEMMA KernelDeparts ==
    ASSUME IInv, NEW c \in CPU, Kernel(c),
           ~CreateTid(c), ~CreateInsert(c), ~CreateMap(c), ~CreateAdd(c), ~CreateReady(c),
           ~DoCreateTask(c), ~DoMoveTask(c)
    PROVE  Departs(c)
<1>1. T(c) \in Tid /\ th \in [Tid -> ThreadType] /\ th[T(c)] \in ThreadType
  BY Here DEF IInv, Threads
<1>. USE DEF MakePcs, Departs, Goto, At
<1>2. CASE \/ BlockAdd(c) \/ BlockState(c) \/ BlockRem(c) \/ BlockInt(c)
           \/ UnblockMap(c) \/ UnblockRemote(c) \/ UnblockCount(c)
           \/ UnblockReady(c) \/ UnblockAdd(c) \/ CreateCount(c)
  <2>1. th[T(c)].pc \in WakePcs \cup MakePcs \cup CallPcs
    BY <1>2 DEF BlockAdd, BlockState, BlockRem, BlockInt, UnblockMap, UnblockRemote, UnblockCount,
       UnblockReady, UnblockAdd, CreateCount, WakePcs, CallPcs
  <2>2. th[T(c)].back \notin MakePcs
    BY <2>1, BackFromThere
  <2>3. CASE BlockAdd(c) \/ BlockState(c) \/ BlockRem(c) \/ BlockInt(c)
    BY <1>1, <2>2, <2>3 DEF BlockAdd, BlockState, BlockRem, BlockInt, ThreadType
  <2>4. CASE UnblockMap(c) \/ UnblockRemote(c) \/ UnblockReady(c) \/ UnblockAdd(c) \/ CreateCount(c)
    BY <1>1, <2>2, <2>4 DEF UnblockMap, UnblockRemote, UnblockReady, UnblockAdd, CreateCount,
       ThreadType
  <2>5. CASE UnblockCount(c)
    BY <1>1, <2>2, <2>5 DEF UnblockCount, Fault, ThreadType
  <2>. QED BY <1>2, <2>3, <2>4, <2>5
<1>3. CASE SignalPop(c)
  BY <1>1, <1>3 DEF SignalPop, ThreadType
<1>4. CASE SignalEnd(c) \/ CallReturns(c)
  BY <1>1, <1>4, ReturnsAt DEF SignalEnd, CallReturns, Sets
<1>5. CASE JoinLocal(c) \/ JoinPoll(c) \/ SpawnAnswer(c)
  BY <1>1, <1>5 DEF JoinLocal, JoinPoll, SpawnAnswer, ThreadType
<1>8. CASE JoinAsk(c) \/ JoinAnswer(c)
  BY <1>1, <1>8 DEF JoinAsk, JoinAnswer, Block, OtherAnswer, ThreadType
<1>6. CASE Scan(c) \/ RemoveDead(c) \/ MoveOut(c) \/ MoveUncount(c) \/ MoveSend(c) \/ Fetch(c)
  <2>1. PICK l \in {"remove", "move_out", "mv_lb", "mv_send", "fetch", "drop", "ipm"} : Goto(c, l)
    BY <1>6 DEF Scan, RemoveDead, MoveOut, MoveUncount, MoveSend, Fetch
  <2>. QED BY <1>1, <2>1
<1>10. CASE DoAddJoiner(c)
  BY <1>1, <1>10 DEF DoAddJoiner, Next_ipm
<1>7. CASE DropJoiner(c) \/ MoveMap(c) \/ DoUnblock(c) \/ DoRespond(c)
  <2>1. CASE \E x, back : Unblock(c, x, back)
    BY <1>1, <2>1 DEF Unblock, ThreadType
  <2>2. CASE DoRespond(c) /\ UNCHANGED th
    BY <1>1, <2>2 DEF DoRespond, Next_ipm
  <2>. QED BY <1>7, <2>1, <2>2 DEF DropJoiner, MoveMap, DoUnblock, DoRespond, Fault
<1>9. CASE DropEnd(c) \/ AnswerCreate(c) \/ Halt(c)
  <2>1. PICK l : l \in {"fetch", "ipm", "halt"} /\ th' = [th EXCEPT ![T(c)] = [Thread0 EXCEPT !.pc = l]]
    BY <1>9 DEF DropEnd, AnswerCreate, Halt
  <2>. DEFINE r == [Thread0 EXCEPT !.pc = l]
  <2>2. r.pc = l /\ th' = [th EXCEPT ![T(c)] = r]
    BY <2>1 DEF Thread0
  <2>. HIDE DEF r
  <2>. QED BY <1>1, <2>1, <2>2
<1>. QED BY <1>2, <1>3, <1>4, <1>5, <1>6, <1>7, <1>8, <1>9, <1>10 DEF Kernel

LEMMA CreatesShielded ==
    ASSUME IInv, WInv, Shields, NEW c \in CPU,
           \/ CreateTid(c) \/ CreateInsert(c) \/ CreateMap(c)
           \/ CreateAdd(c) \/ CreateReady(c) \/ DoCreateTask(c)
    PROVE  Shields'
<1>. SUFFICES ASSUME NEW me, me = T(c) PROVE Shields'
  OBVIOUS
<1>1. /\ me \in Tid /\ th \in [Tid -> ThreadType] /\ th[me] \in ThreadType /\ me \in pool[c]
      /\ pool \in [CPU -> SUBSET Tid]
  BY Here DEF IInv, Threads, Pools
<1>2. th[me].pc \in MakePcs /\ me \notin Workers => ~th[me].ie
  BY <1>1 DEF Shields
<1>3. CASE CreateInsert(c)
  <2>. DEFINE t == th[me].obj
              r == [th[me] EXCEPT !.pc = "cr_map"]
  <2>1. /\ th[me].pc = "cr_pool" /\ UNCHANGED curr /\ th[me].arg = c
        /\ pool' = [pool EXCEPT ![c] = @ \cup {t}]
        /\ th' = [th EXCEPT ![me] = r]
    <3>1. th[me].pc = "cr_pool"
      BY <1>3 DEF CreateInsert, At
    <3>2. Hand(me) /\ tid_cpu[me] = c
      BY <1>1, Here, AtHome DEF WInv, Body
    <3>3. th[me].arg = c
      BY <3>1, <3>2 DEF Hand, Makes
    <3>. QED BY <1>3, <3>1, <3>3 DEF CreateInsert, Goto
  <2>2. t \in Tid /\ t \notin known /\ th[t].pc = "run"
    BY <1>1, <2>1, Newborn
  <2>3. r.pc = "cr_map" /\ r.obj = t /\ r.ie = th[me].ie
    BY <1>1 DEF ThreadType
  <2>. HIDE DEF r, t
  <2>5. th'[me] = r /\ me # t /\ \A u \in Tid \ {me} : th'[u] = th[u]
    BY <1>1, <2>1, <2>2
  <2>6. /\ pool'[c] = pool[c] \cup {t} /\ th'[t].pc = "run"
        /\ \A d \in CPU \ {c} : pool'[d] = pool[d] /\ curr'[d] = curr[d]
    BY <1>1, <2>1, <2>2, <2>5
  <2>7. /\ r.pc \in MakePcs /\ me \notin Workers => ~r.ie /\ UNCHANGED curr
        /\ r.pc \in Adding => r.obj \in pool'[c]
    BY <1>2, <2>1, <2>3, <2>6 DEF MakePcs
  <2>8. pool[c] \subseteq pool'[c] /\ \A u \in pool'[c] \ pool[c] : th'[u].pc = "run"
    BY <2>6
  <2>. QED BY <2>5, <2>6, <2>7, <2>8, ShieldsKept
<1>5. CASE CreateMap(c)
  <2>. DEFINE t == th[me].obj
              r == [th[me] EXCEPT !.pc = "cr_add"]
  <2>1. /\ th[me].pc = "cr_map" /\ UNCHANGED <<pool, curr>>
        /\ th' = [th EXCEPT ![t] = Client(t), ![me].pc = "cr_add"]
    BY <1>5 DEF CreateMap, At
  <2>2. t \in Tid /\ th[t].pc = "run"
    BY <1>1, <2>1, Newborn
  <2>3. r.pc = "cr_add" /\ r.obj = t /\ r.ie = th[me].ie
    BY <1>1 DEF ThreadType
  <2>4. Client(t).pc = "run"
    BY DEF Client, Thread0
  <2>. HIDE DEF t
  <2>5. th'[me] = r /\ \A u \in Tid \ {me} : th'[u] = th[u] \/ th'[u].pc = "run"
    BY <1>1, <2>1, <2>2, <2>4
  <2>. HIDE DEF r
  <2>6. t \in pool[c]
    BY <1>1, <2>1 DEF Shields, Adding, t
  <2>7. /\ r.pc \in MakePcs /\ me \notin Workers => ~r.ie /\ UNCHANGED curr
        /\ r.pc \in Adding => r.obj \in pool'[c]
    BY <1>2, <2>1, <2>3, <2>6 DEF MakePcs
  <2>. QED BY <2>1, <2>5, <2>7, ShieldsKept
<1>4. CASE CreateTid(c) \/ CreateAdd(c) \/ CreateReady(c) \/ DoCreateTask(c)
  <2>. SUFFICES ASSUME NEW r, r = th'[me] PROVE Shields'
    OBVIOUS
  <2>1. /\ \A t \in Tid \ {me} : th'[t] = th[t]
        /\ r.ie = th[me].ie /\ UNCHANGED <<pool, curr>>
        /\ \/ r.pc \in {"cr_ready", "cr_lb"} /\ th[me].pc \in Adding /\ r.obj = th[me].obj
           \/ r.pc = "cr_pool" /\ th[me].pc \in MakePcs
           \/ r.pc = "cr_new" /\ th[me].pc = "ipm"
    <3>1. CASE CreateAdd(c)
      BY <1>1, <3>1 DEF CreateAdd, At, Goto, ThreadType, Adding
    <3>2. CASE CreateReady(c)
      <4>1. th[me].pc = "cr_ready" /\ UNCHANGED <<pool, curr>>
            /\ (UNCHANGED th \/ Goto(c, "cr_lb"))
        BY <3>2 DEF CreateReady, At, Fault
      <4>. QED BY <1>1, <4>1 DEF Goto, ThreadType, Adding
    <3>3. CASE DoCreateTask(c)
      BY <1>1, <3>3 DEF DoCreateTask, Next_ipm, At, ThreadType
    <3>4. CASE CreateTid(c)
      BY <1>1, <3>4 DEF CreateTid, At, ThreadType, MakePcs
    <3>. QED BY <1>4, <3>1, <3>2, <3>3, <3>4
  <2>2. th[me].pc = "ipm" => me \in Workers
    BY Here DEF WorkPcs
  <2>3. th[me].pc \in Adding => th[me].pc \in MakePcs /\ th[me].obj \in pool[c]
    BY <1>1 DEF Shields, Adding, MakePcs
  <2>4. "cr_new" \notin Adding /\ "cr_pool" \notin Adding
    BY DEF Adding
  <2>. QED BY <1>2, <2>1, <2>2, <2>3, <2>4, ShieldsKept
<1>. QED BY <1>3, <1>4, <1>5

LEMMA NextShields ==
    ASSUME NoMigration, SpawnersMasked, IInv, WInv, Shields, [Next]_vars
    PROVE  Shields'
<1>1. ASSUME UNCHANGED <<th, pool, curr>> PROVE Shields'
  BY <1>1 DEF Shields
<1>2. ASSUME NEW c \in CPU, Call(c) PROVE Shields'
  <2>1. CASE \E d \in CPU : Migrate(c, d)
    BY <2>1 DEF Migrate, Calling, NoMigration
  <2>2. ASSUME NEW d \in CPU, Spawn(c, d) PROVE Shields'
    <3>. SUFFICES ASSUME NEW me, me = T(c) PROVE Shields'
      OBVIOUS
    <3>1. /\ th[me].pc = "run" /\ {"spawn", "spawn_on_cpu"} \cap Calls # {}
          /\ UNCHANGED <<pool, curr>>
      BY <2>2 DEF Spawn, Calling, At
    <3>2. me \in Tid /\ th \in [Tid -> ThreadType] /\ th[me] \in ThreadType /\ me \notin Workers
      BY <3>1, Here, InCall DEF IInv, Threads, CallPcs, Backs
    <3>3. Gate(c) = FALSE
      BY <3>1, <3>2 DEF SpawnersMasked, Gate
    <3>4. PICK l, ie, back, o : Enter(c, l, ie, back, o) /\ l \in {"cr_new", "blk_add"}
                                /\ (l = "cr_new" => ~ie)
      <4>1. d = c => Enter(c, "cr_new", Gate(c), "ret", 0)
        BY <2>2 DEF Spawn
      <4>2. d # c => Enter(c, "blk_add", TRUE, "spawn_ret", next_tid)
        BY <2>2 DEF Spawn
      <4>3. ASSUME d = c PROVE \E ie : Enter(c, "cr_new", ie, "ret", 0) /\ ~ie
        <5>1. PICK ie : ie = FALSE
          OBVIOUS
        <5>. QED BY <3>3, <4>1, <4>3, <5>1
      <4>4. ASSUME d # c PROVE \E ie : Enter(c, "blk_add", ie, "spawn_ret", next_tid)
        <5>1. PICK ie : ie = TRUE
          OBVIOUS
        <5>. QED BY <4>2, <4>4, <5>1
      <4>. QED BY <4>3, <4>4
    <3>. DEFINE n == th[me].left - 1
                r == [th[me] EXCEPT !.pc = l, !.ie = ie, !.back = back, !.obj = o, !.left = n]
    <3>6. th' = [th EXCEPT ![me] = r]
      BY <3>4 DEF Enter
    <3>. HIDE DEF n
    <3>5. r.pc = l /\ r.ie = ie
      BY <3>2 DEF ThreadType
    <3>. HIDE DEF r
    <3>7. th'[me] = r /\ \A t \in Tid \ {me} : th'[t] = th[t]
      BY <3>2, <3>6
    <3>. QED BY <3>1, <3>4, <3>5, <3>6, <3>7, ShieldsKept DEF MakePcs, Adding
  <2>3. CASE \/ Wait(c) \/ Signal(c, 1) \/ Signal(c, MaxTid) \/ Sleep(c) \/ Io(c) \/ Serve(c)
             \/ Exit(c) \/ \E t \in Tid : Join(c, t)
    <3>1. UNCHANGED pool /\ \A d \in CPU \ {c} : curr'[d] = curr[d]
      <4>1. CASE Exit(c)
        BY <4>1 DEF Exit, PreemptIrq, IInv, Current
      <4>2. CASE ~Exit(c)
        BY <2>3, <4>2 DEF Wait, Signal, Sleep, Io, Serve, Join
      <4>. QED BY <4>1, <4>2
    <3>. QED BY <2>3, <3>1, CallDeparts, DepartsKeep
  <2>. QED BY <1>2, <2>1, <2>2, <2>3 DEF Call
<1>3. ASSUME NEW c \in CPU, Kernel(c) PROVE Shields'
  <2>1. CASE \/ CreateTid(c) \/ CreateInsert(c) \/ CreateMap(c)
             \/ CreateAdd(c) \/ CreateReady(c) \/ DoCreateTask(c)
    BY <2>1, CreatesShielded
  <2>2. CASE RemoveDead(c)
    <3>. SUFFICES ASSUME NEW me, me = T(c) PROVE Shields'
      OBVIOUS
    <3>1. me = Worker[c] /\ me \in Tid /\ me \in pool[c] /\ th \in [Tid -> ThreadType]
      BY <2>2, Here DEF RemoveDead, At, WorkPcs, IInv, Threads
    <3>2. /\ \A t \in Tid \ {me} : th'[t] = th[t]
          /\ th'[me].pc = "drop" /\ UNCHANGED curr
          /\ \A d \in CPU \ {c} : pool'[d] = pool[d]
          /\ pool'[c] \subseteq pool[c]
      <4>1. th[me] \in ThreadType /\ pool \in [CPU -> SUBSET Tid]
        BY <3>1 DEF IInv, Threads, Pools
      <4>. QED BY <2>2, <3>1, <4>1 DEF RemoveDead, Goto, LeavePool, ThreadType
    <3>. SUFFICES ASSUME NEW d \in CPU, NEW v \in pool'[d]
                  PROVE  /\ th'[v].pc \in MakePcs /\ v \notin Workers => ~th'[v].ie /\ curr'[d] = v
                         /\ th'[v].pc \in Adding => th'[v].obj \in pool'[d]
      BY DEF Shields
    <3>3. CASE v = me
      BY <3>2, <3>3 DEF MakePcs, Adding
    <3>4. CASE v # me
      <4>1. v \in pool[d] /\ v \in Tid /\ th'[v] = th[v]
        BY <3>2, <3>4 DEF IInv, Pools
      <4>2. th[v].pc \in Adding => d # c
        <5>1. SUFFICES ASSUME th[v].pc \in Adding, d = c PROVE FALSE
          OBVIOUS
        <5>2. v \notin Workers
          <6>1. \A e \in CPU : v = Worker[e] => e = c
            BY <4>1, <5>1 DEF IInv, Current, Pools
          <6>. QED BY <3>1, <3>4, <6>1 DEF Workers
        <5>3. curr[c] = v
          BY <4>1, <5>1, <5>2 DEF Shields, Adding, MakePcs
        <5>. QED BY <3>4, <5>3 DEF T
      <4>. QED BY <3>2, <4>1, <4>2 DEF Shields
    <3>. QED BY <3>3, <3>4
  <2>3. CASE ~(\/ CreateTid(c) \/ CreateInsert(c) \/ CreateMap(c) \/ CreateAdd(c) \/ CreateReady(c)
               \/ DoCreateTask(c) \/ RemoveDead(c))
    <3>1. Departs(c)
      BY <1>3, <2>3, KernelDeparts, NobodyMoves
    <3>2. UNCHANGED pool /\ \A d \in CPU \ {c} : curr'[d] = curr[d]
      <4>1. CASE BlockInt(c)
        BY <4>1 DEF BlockInt, PreemptIrq, IInv, Current
      <4>2. CASE \/ BlockAdd(c) \/ BlockState(c) \/ BlockRem(c) \/ UnblockMap(c) \/ UnblockRemote(c)
                 \/ UnblockCount(c) \/ UnblockReady(c) \/ UnblockAdd(c)
                 \/ SignalPop(c) \/ SignalEnd(c) \/ CallReturns(c) \/ CreateCount(c)
        BY <4>2 DEF BlockAdd, BlockState, BlockRem, UnblockMap, UnblockRemote, UnblockCount, Fault,
           UnblockReady, UnblockAdd, SignalPop, SignalEnd, CallReturns, CreateCount
      <4>3. CASE \/ JoinLocal(c) \/ JoinAsk(c) \/ JoinAnswer(c) \/ JoinPoll(c) \/ SpawnAnswer(c)
                 \/ Scan(c) \/ DropJoiner(c) \/ DropEnd(c)
        BY <4>3 DEF JoinLocal, JoinAsk, JoinAnswer, JoinPoll, SpawnAnswer, Scan, DropJoiner, DropEnd
      <4>4. CASE \/ Fetch(c) \/ DoUnblock(c) \/ AnswerCreate(c) \/ DoRespond(c)
                 \/ DoAddJoiner(c) \/ Halt(c)
        BY <4>4 DEF Fetch, DoUnblock, AnswerCreate, DoRespond, Fault, DoAddJoiner, Halt
      <4>. QED BY <1>3, <2>3, <4>1, <4>2, <4>3, <4>4, NobodyMoves DEF Kernel
    <3>. QED BY <3>1, <3>2, DepartsKeep
  <2>. QED BY <2>1, <2>2, <2>3
<1>4. ASSUME NEW c \in CPU, IrqEnter(c) \/ Timer(c) PROVE Shields'
  <2>. SUFFICES ASSUME NEW me, me = T(c), NEW l, l = th[me].pc PROVE Shields'
    OBVIOUS
  <2>. DEFINE r == [th[me] EXCEPT !.pc = AfterInterrupt(@)]
  <2>1. /\ me \in Tid /\ th \in [Tid -> ThreadType] /\ th[me] \in ThreadType /\ me \in pool[c]
        /\ curr[c] = me
    BY Here DEF IInv, Threads, T
  <2>2. /\ UNCHANGED pool /\ th[me].ie /\ th' = [th EXCEPT ![me] = r]
        /\ \A d \in CPU \ {c} : curr'[d] = curr[d]
    BY <1>4 DEF IrqEnter, Timer, PreemptIrq, IInv, Current
  <2>3. r.obj = th[me].obj /\ (r.pc = l \/ r.pc = "scan")
    BY <2>1 DEF AfterInterrupt, ThreadType
  <2>. HIDE DEF r
  <2>4. th'[me] = r /\ \A t \in Tid \ {me} : th'[t] = th[t]
    BY <2>1, <2>2
  <2>5. "scan" \notin MakePcs /\ "scan" \notin Adding /\ Adding \subseteq MakePcs
    BY DEF MakePcs, Adding
  <2>6. /\ l \in MakePcs => me \in Workers
        /\ l \in Adding => th[me].obj \in pool[c]
    BY <2>1, <2>2 DEF Shields
  <2>. QED BY <2>2, <2>3, <2>4, <2>5, <2>6, ShieldsKept
<1>5. ASSUME NEW c \in CPU, Handler(c) PROVE Shields'
  BY <1>1, <1>5 DEF Handler, IrqSignalPop, IrqExit
<1>6. ASSUME NEW t \in Tid, TimePasses(t) PROVE Shields'
  BY <1>1, <1>6 DEF TimePasses
<1>7. CASE UNCHANGED vars
  BY <1>1, <1>7 DEF vars
<1>. QED BY <1>2, <1>3, <1>4, <1>5, <1>6, <1>7 DEF Next

\* Nothing stops the kernel while tasks stay where they are and are created
\* with the interrupts off or by the worker: every expect of sched.rs finds
\* its task, the run queues are never empty, and create_task stores into a
\* task that is still there.
THEOREM NothingStopsTheKernel ==
    ASSUME NoMigration, SpawnersMasked
    PROVE  Spec => []NoPanic
<1>. DEFINE J == (fault = "none" => WInv) /\ (fault = "none" => Shields) /\ NoPanic
<1>1. Init => IInv /\ J
  <2>. SUFFICES ASSUME Init PROVE IInv /\ J
    OBVIOUS
  <2>1. IInv /\ WInv /\ fault = "none"
    BY Starts, InitWakes DEF Init
  <2>2. Shields
    <3>1. \A t \in Tid : th[t].pc \in {"scan", "run"}
      BY DEF Init, Thread0, Client
    <3>2. \A c \in CPU : pool[c] \subseteq Tid
      BY <2>1 DEF IInv, Pools
    <3>. QED BY <3>1, <3>2 DEF Shields, MakePcs, Adding
  <2>. QED BY <2>1, <2>2 DEF NoPanic
<1>2. IInv /\ J /\ [Next]_vars => IInv' /\ J'
  <2>. SUFFICES ASSUME IInv, J, [Next]_vars PROVE IInv' /\ J'
    OBVIOUS
  <2>1. IInv' /\ Shields' /\ WInv /\ Shields
    BY NextKeeps, NextShields DEF NoPanic
  <2>2. fault' = "none"
    <3>1. CASE UNCHANGED vars
      BY <3>1 DEF vars, rest, NoPanic
    <3>2. ASSUME Next, fault' # "none" PROVE FALSE
      <4>1. PICK c \in CPU : CreateReady(c) /\ th[T(c)].obj \notin pool[th[T(c)].arg]
        BY <2>1, <3>2, StopsOnlyThere
      <4>2. th[T(c)].pc = "cr_ready" /\ T(c) \in pool[c] /\ T(c) \in Tid /\ T(c) \in known
        BY <4>1, Here DEF CreateReady, At
      <4>3. tid_cpu[T(c)] = c /\ Hand(T(c))
        BY <2>1, <4>2, AtHome DEF WInv, Body
      <4>4. th[T(c)].arg = c
        BY <4>2, <4>3 DEF Hand, Makes
      <4>5. th[T(c)].obj \in pool[c]
        BY <2>1, <4>2 DEF Shields, Adding
      <4>. QED BY <4>1, <4>4, <4>5
    <3>. QED BY <3>1, <3>2
  <2>3. WInv'
    BY <2>2, NextWakes
  <2>. QED BY <2>1, <2>2, <2>3 DEF NoPanic
<1>. QED BY <1>1, <1>2, PTL DEF Spec

\* Whatever is called, the only thing that can stop the kernel is that store,
\* of a task that creates another with the interrupts on.
THEOREM OnlyOneWayToStop ==
    ASSUME NoMigration
    PROVE  Spec => [](fault \in {"none", Dangling})
<1>. DEFINE J == (fault = "none" => WInv) /\ fault \in {"none", Dangling}
<1>1. Init => IInv /\ J
  BY Starts, InitWakes DEF Init
<1>2. IInv /\ J /\ [Next]_vars => IInv' /\ J'
  <2>. SUFFICES ASSUME IInv, J, [Next]_vars PROVE IInv' /\ J'
    OBVIOUS
  <2>1. IInv' /\ (fault' = "none" => WInv')
    BY NextKeeps, NextWakes
  <2>2. fault' \in {"none", Dangling}
    <3>1. CASE UNCHANGED vars
      BY <3>1 DEF vars, rest
    <3>2. CASE Next
      BY <3>2, Stopped, StopsOnlyThere
    <3>. QED BY <3>1, <3>2
  <2>. QED BY <2>1, <2>2
<1>. QED BY <1>1, <1>2, PTL DEF Spec

-----------------------------------------------------------------------------
(* Wait channels                                                           *)

\* No worker waits, and who waits goes on waiting.
NoWorkerWaits == \A w \in Workers : th[w].back # "wait_ret"
Waits(t) == th[t].back = "wait_ret"
WaitsOn  == \A t \in Tid : th'[t].back = "wait_ret" <=> Waits(t)

LEMMA WaitsNot ==
    ASSUME IInv, WInv, NoWorkerWaits, NEW c \in CPU, th[T(c)].pc \notin Blk \cup {"wait_ret"}
    PROVE  ~Waits(T(c))
<1>1. T(c) \in Tid
  BY Here
<1>2. CASE T(c) \in Workers
  BY <1>2 DEF NoWorkerWaits, Waits
<1>3. CASE T(c) \notin Workers
  BY <1>1, <1>3 DEF WInv, Body, Track, Goal, Waits
<1>. QED BY <1>2, <1>3

LEMMA SteadyBy ==
    ASSUME IInv, NEW c \in CPU, \A t \in Tid \ {T(c)} : th'[t] = th[t],
           \/ th'[T(c)].back = th[T(c)].back
           \/ th'[T(c)].back # "wait_ret" /\ ~Waits(T(c))
    PROVE  WaitsOn
  BY DEF WaitsOn, Waits

\* The calls.
LEMMA CallSteady ==
    ASSUME IInv, WInv, NoWorkerWaits, NEW c \in CPU,
           \/ Signal(c, 1) \/ Signal(c, MaxTid) \/ Sleep(c) \/ Exit(c) \/ Io(c) \/ Serve(c)
           \/ \E t \in Tid : Join(c, t)
           \/ \E d \in CPU : Spawn(c, d) \/ Migrate(c, d)
    PROVE  WaitsOn
<1>1. /\ T(c) \in Tid /\ th \in [Tid -> ThreadType] /\ th[T(c)] \in ThreadType
  BY Here DEF IInv, Threads
<1>2. ~Waits(T(c))
  <2>1. th[T(c)].pc = "run"
    BY DEF Signal, Sleep, Exit, Io, Serve, Join, Spawn, Migrate, Calling, At
  <2>. QED BY <2>1, WaitsNot DEF Blk
<1>3. CASE Exit(c)
  <2>. DEFINE r == [Thread0 EXCEPT !.pc = "dead"]
  <2>1. r.back = "run" /\ th' = [th EXCEPT ![T(c)] = r]
    BY <1>3 DEF Thread0, Exit
  <2>. HIDE DEF r
  <2>. QED BY <1>1, <1>2, <2>1, SteadyBy
<1>4. ASSUME NEW t \in Tid, Join(c, t) PROVE WaitsOn
  <2>1. th'[T(c)].back = "joined" /\ \A u \in Tid \ {T(c)} : th'[u] = th[u]
    BY <1>1, <1>4 DEF Join, ThreadType
  <2>. QED BY <1>2, <2>1, SteadyBy
<1>5. ASSUME NEW l, NEW ie, NEW back, NEW obj, Enter(c, l, ie, back, obj), back # "wait_ret"
      PROVE  WaitsOn
  <2>1. PICK r : Sets(T(c), r, l, back, obj, th[T(c)].arg)
    BY <1>5, EntersAt
  <2>. QED BY <1>1, <1>2, <1>5, <2>1, SteadyBy DEF Sets
<1>6. CASE Signal(c, 1) \/ Signal(c, MaxTid)
  BY <1>5, <1>6 DEF Signal
<1>7. CASE Sleep(c)
  BY <1>5, <1>7 DEF Sleep
<1>8. CASE Io(c)
  BY <1>5, <1>8 DEF Io
<1>9. CASE Serve(c)
  BY <1>5, <1>9 DEF Serve
<1>10. ASSUME NEW d \in CPU, Migrate(c, d) PROVE WaitsOn
  BY <1>5, <1>10 DEF Migrate
<1>11. ASSUME NEW d \in CPU, Spawn(c, d) PROVE WaitsOn
  <2>1. CASE d = c
    BY <1>5, <1>11, <2>1 DEF Spawn
  <2>2. CASE d # c
    BY <1>5, <1>11, <2>2 DEF Spawn
  <2>. QED BY <2>1, <2>2
<1>. QED BY <1>3, <1>4, <1>6, <1>7, <1>8, <1>9, <1>10, <1>11

\* The kernel's own steps.
LEMMA KernelSteady ==
    ASSUME IInv, WInv, NoWorkerWaits, NEW c \in CPU, Kernel(c),
           ~(CallReturns(c) /\ At(c, "wait_ret"))
    PROVE  WaitsOn
<1>1. T(c) \in Tid /\ th \in [Tid -> ThreadType] /\ th[T(c)] \in ThreadType
  BY Here DEF IInv, Threads
<1>. DEFINE me == T(c)
            Others == \A t \in Tid \ {me} : th'[t] = th[t]
            Same == th'[me].back = th[me].back
<1>2. ASSUME Others, th'[me].back # "wait_ret", th[me].pc \notin Blk \cup {"wait_ret"}
      PROVE  WaitsOn
  BY <1>2, WaitsNot, SteadyBy
<1>3. ASSUME Others, Same PROVE WaitsOn
  BY <1>3, SteadyBy
<1>4. CASE BlockAdd(c) \/ BlockState(c) \/ BlockRem(c) \/ BlockInt(c)
  BY <1>1, <1>3, <1>4 DEF BlockAdd, BlockState, BlockRem, BlockInt, Goto, ThreadType
<1>5. CASE UnblockMap(c) \/ UnblockRemote(c) \/ UnblockReady(c) \/ UnblockAdd(c)
  BY <1>1, <1>3, <1>5 DEF UnblockMap, UnblockRemote, UnblockReady, UnblockAdd, Goto, ThreadType
<1>6. CASE UnblockCount(c)
  BY <1>1, <1>3, <1>6 DEF UnblockCount, Fault, Goto, ThreadType
<1>7. CASE SignalPop(c)
  BY <1>1, <1>3, <1>7 DEF SignalPop, ThreadType
<1>8. CASE SignalEnd(c) \/ CallReturns(c)
  <2>1. th[me].pc \in {"sig", "ret", "joined"} /\ Return(c)
    BY <1>8 DEF SignalEnd, CallReturns, At
  <2>2. PICK r : Sets(me, r, "run", "run", 0, None)
    BY <2>1, ReturnsAt
  <2>. QED BY <1>1, <1>2, <2>1, <2>2 DEF Sets, Blk
<1>9. CASE \/ JoinLocal(c) \/ SpawnAnswer(c)
           \/ CreateTid(c) \/ CreateInsert(c) \/ CreateAdd(c) \/ CreateCount(c)
  BY <1>1, <1>3, <1>9 DEF JoinLocal, SpawnAnswer, CreateTid, CreateInsert, CreateAdd,
     CreateCount, Goto, ThreadType
<1>10. CASE JoinAsk(c) \/ JoinAnswer(c) \/ JoinPoll(c)
  <2>1. th[me].pc \in {"join_ask", "join_ans", "join_poll"}
    BY <1>10 DEF JoinAsk, JoinAnswer, JoinPoll, At
  <2>2. CASE \E l, ie, back : /\ th' = [th EXCEPT ![me].pc = l, ![me].ie = ie, ![me].back = back]
                              /\ back # "wait_ret"
    BY <1>1, <1>2, <2>1, <2>2 DEF Blk, ThreadType
  <2>3. CASE \E l : Goto(c, l)
    BY <1>1, <1>3, <2>3 DEF Goto, ThreadType
  <2>4. CASE th' = [th EXCEPT ![me].pc = "slp_int", ![me].back = "join_poll"]
    BY <1>1, <1>2, <2>1, <2>4 DEF Blk, ThreadType
  <2>5. \/ \E l : Goto(c, l)
        \/ th' = [th EXCEPT ![me].pc = "slp_int", ![me].back = "join_poll"]
        \/ \E back : Block(c, back) /\ back # "wait_ret"
    BY <1>10 DEF JoinAsk, JoinAnswer, JoinPoll
  <2>. QED BY <2>2, <2>3, <2>4, <2>5 DEF Block
<1>11. CASE CreateMap(c)
  <2>. DEFINE t == th[me].obj
  <2>1. t \in Tid /\ t \notin Workers /\ th[t].pc = "run" /\ me # t
    BY <1>11, Newborn DEF CreateMap, At
  <2>2. ~Waits(t)
    BY <2>1 DEF WInv, Body, Track, Goal, Waits, Blk
  <2>3. Client(t).back = "run"
    BY DEF Client, Thread0
  <2>4. th'[me].back = th[me].back /\ th'[t] = Client(t) /\ \A u \in Tid \ {me, t} : th'[u] = th[u]
    BY <1>1, <1>11, <2>1 DEF CreateMap, ThreadType
  <2>. QED BY <2>1, <2>2, <2>3, <2>4 DEF WaitsOn, Waits
<1>12. CASE CreateReady(c)
  BY <1>1, <1>3, <1>12 DEF CreateReady, Fault, Goto, ThreadType
<1>13. CASE \/ Scan(c) \/ RemoveDead(c) \/ Fetch(c)
            \/ MoveOut(c) \/ MoveUncount(c) \/ MoveSend(c)
  <2>1. PICK l : Goto(c, l)
    BY <1>13 DEF Scan, RemoveDead, Fetch, MoveOut, MoveUncount, MoveSend
  <2>. QED BY <1>1, <1>3, <2>1 DEF Goto, ThreadType
<1>14. CASE DropJoiner(c) \/ MoveMap(c) \/ DoUnblock(c) \/ DoRespond(c)
  <2>1. th[me].pc \in {"drop", "ipm", "mv_map"}
    BY <1>14 DEF DropJoiner, MoveMap, DoUnblock, DoRespond, Next_ipm, At
  <2>2. CASE \E x, back : Unblock(c, x, back) /\ back # "wait_ret"
    BY <1>1, <1>2, <2>1, <2>2 DEF Unblock, Blk, ThreadType
  <2>3. CASE UNCHANGED th
    BY <1>3, <2>3
  <2>4. DoRespond(c) => UNCHANGED th \/ Unblock(c, Head(wk[c].inbox).tid, "ipm")
    BY DEF DoRespond, Fault
  <2>. QED BY <1>14, <2>2, <2>3, <2>4 DEF DropJoiner, MoveMap, DoUnblock
<1>15. CASE DropEnd(c) \/ AnswerCreate(c) \/ Halt(c)
  <2>1. th[me].pc \in {"drop", "answer", "ipm"}
    BY <1>15 DEF DropEnd, AnswerCreate, Halt, At
  <2>2. PICK l : th' = [th EXCEPT ![me] = [Thread0 EXCEPT !.pc = l]]
    BY <1>15 DEF DropEnd, AnswerCreate, Halt
  <2>. DEFINE r == [Thread0 EXCEPT !.pc = l]
  <2>3. r.back = "run" /\ th' = [th EXCEPT ![me] = r]
    BY <2>2 DEF Thread0
  <2>. HIDE DEF r
  <2>. QED BY <1>1, <1>2, <2>1, <2>3 DEF Blk
<1>16. CASE DoCreateTask(c)
  <2>1. th[me].pc = "ipm" /\ th' = [th EXCEPT ![me].pc = "cr_new", ![me].back = "answer"]
    BY <1>16 DEF DoCreateTask, Next_ipm, At
  <2>. QED BY <1>1, <1>2, <2>1 DEF Blk, ThreadType
<1>18. CASE DoMoveTask(c)
  BY <1>1, <1>3, <1>18 DEF DoMoveTask, ThreadType
<1>17. CASE DoAddJoiner(c)
  BY <1>3, <1>17 DEF DoAddJoiner
<1>. HIDE DEF Others, Same, me
<1>. QED BY <1>4, <1>5, <1>6, <1>7, <1>8, <1>9, <1>10, <1>11, <1>12, <1>13, <1>14, <1>15, <1>16,
   <1>17, <1>18 DEF Kernel

\* A step that does not let a waiter go leaves the channel's list alone.
LEMMA KernelQueue ==
    ASSUME NEW c \in CPU, Kernel(c), ~SignalPop(c)
    PROVE  UNCHANGED waiters
<1>. USE DEF calls
<1>1. CASE \/ BlockAdd(c) \/ BlockState(c) \/ BlockRem(c) \/ BlockInt(c)
           \/ UnblockMap(c) \/ UnblockRemote(c) \/ UnblockCount(c)
           \/ UnblockReady(c) \/ UnblockAdd(c) \/ SignalEnd(c) \/ CallReturns(c)
  BY <1>1 DEF BlockAdd, BlockState, BlockRem, BlockInt, UnblockMap, UnblockRemote, UnblockCount,
     Fault, UnblockReady, UnblockAdd, SignalEnd, CallReturns
<1>2. CASE \/ JoinLocal(c) \/ JoinAsk(c) \/ JoinAnswer(c) \/ JoinPoll(c) \/ SpawnAnswer(c)
           \/ CreateTid(c) \/ CreateInsert(c) \/ CreateMap(c)
           \/ CreateAdd(c) \/ CreateReady(c) \/ CreateCount(c)
  BY <1>2 DEF JoinLocal, JoinAsk, JoinAnswer, JoinPoll, SpawnAnswer, CreateTid, CreateInsert,
     CreateMap, CreateAdd,
     CreateReady, Fault, CreateCount
<1>3. CASE \/ Scan(c) \/ RemoveDead(c) \/ DropJoiner(c) \/ DropEnd(c)
           \/ MoveOut(c) \/ MoveUncount(c) \/ MoveSend(c) \/ MoveMap(c)
  BY <1>3 DEF Scan, RemoveDead, DropJoiner, DropEnd, MoveOut, MoveUncount, MoveSend, MoveMap
<1>4. CASE \/ Fetch(c) \/ DoMoveTask(c) \/ DoUnblock(c) \/ DoCreateTask(c)
           \/ AnswerCreate(c) \/ DoRespond(c) \/ DoAddJoiner(c) \/ Halt(c)
  BY <1>4 DEF Fetch, DoMoveTask, DoUnblock, DoCreateTask, AnswerCreate, DoRespond, Fault,
     DoAddJoiner, Halt
<1>. QED BY <1>1, <1>2, <1>3, <1>4 DEF Kernel

\* What a steady step looks like from outside.
LEMMA InsideSteady ==
    ASSUME WaitsOn
    PROVE  inside' = inside
  BY DEF WaitsOn, inside, Waits

\* A task calls wait, and comes back from it.
LEMMA WaitEnters ==
    ASSUME IInv, WInv, NoWorkerWaits, NEW c \in CPU, Wait(c)
    PROVE  WQ!Enter(T(c)) /\ T(c) \in Tid /\ NoWorkerWaits'
<1>1. /\ T(c) \in Tid /\ th \in [Tid -> ThreadType] /\ th[T(c)].pc = "run"
      /\ waiters' = Append(waiters, T(c))
  BY Here DEF IInv, Threads, Wait, Calling, At
<1>2. ~Waits(T(c)) /\ T(c) \notin Workers
  BY <1>1, WaitsNot, InCall DEF Blk, CallPcs, Backs
<1>3. PICK r : Sets(T(c), r, "blk_add", "wait_ret", 0, th[T(c)].arg)
  BY EntersAt DEF Wait
<1>4. \A t \in Tid : th'[t].back = "wait_ret" <=> Waits(t) \/ t = T(c)
  BY <1>1, <1>3 DEF Sets, Waits
<1>5. inside' = inside \cup {T(c)} /\ T(c) \notin inside
  BY <1>1, <1>2, <1>4 DEF inside, Waits
<1>6. NoWorkerWaits'
  <2>1. Workers \subseteq Tid
    BY SchedAssumption DEF SchedAssumption, Workers
  <2>. QED BY <1>2, <1>4, <2>1 DEF NoWorkerWaits, Waits
<1>. QED BY <1>1, <1>5, <1>6 DEF WQ!Enter

LEMMA WaitLeaves ==
    ASSUME IInv, WInv, NoWorkerWaits, NEW c \in CPU, CallReturns(c), At(c, "wait_ret")
    PROVE  WQ!Leave(T(c)) /\ T(c) \in Tid /\ NoWorkerWaits'
<1>1. /\ T(c) \in Tid /\ th \in [Tid -> ThreadType] /\ th[T(c)].pc = "wait_ret"
      /\ UNCHANGED waiters /\ Return(c) /\ waiters \in Seq(Tid)
  BY Here DEF IInv, Threads, CallReturns, calls, At, Lists
<1>2. T(c) \notin Workers
  BY <1>1, InCall DEF CallPcs, Backs
<1>3. Waits(T(c))
  BY <1>1, <1>2 DEF WInv, Body, Track, Goal, Blk, Waits
<1>4. PICK r : Sets(T(c), r, "run", "run", 0, None)
  BY <1>1, ReturnsAt
<1>5. \A t \in Tid : th'[t].back = "wait_ret" <=> Waits(t) /\ t # T(c)
  BY <1>1, <1>4 DEF Sets, Waits
<1>6. inside' = inside \ {T(c)} /\ T(c) \in inside
  BY <1>1, <1>3, <1>5 DEF inside, Waits
<1>7. ~WQ!Queued(T(c))
  <2>1. Wakers(T(c)) = {}
    BY <1>1, <1>2, Resting DEF Blk
  <2>2. T(c) \notin Range(waiters)
    BY <2>1, Spotted
  <2>. QED BY <1>1, <2>2 DEF WQ!Queued, Range
<1>8. NoWorkerWaits'
  <2>1. Workers \subseteq Tid
    BY SchedAssumption DEF SchedAssumption, Workers
  <2>. QED BY <1>5, <2>1 DEF NoWorkerWaits, Waits
<1>. QED BY <1>1, <1>6, <1>7, <1>8 DEF WQ!Leave

LEMMA SteadyQueue ==
    ASSUME WaitsOn, NoWorkerWaits
    PROVE  NoWorkerWaits' /\ inside' = inside
<1>1. Workers \subseteq Tid
  BY SchedAssumption DEF SchedAssumption, Workers
<1>. QED BY <1>1, InsideSteady DEF WaitsOn, Waits, NoWorkerWaits

\* Each step is one of the queue of waiters, or none.
LEMMA NextQueue ==
    ASSUME NoMigration, IInv, fault = "none" => WInv, NoWorkerWaits, [Next]_vars
    PROVE  [WQ!Next]_(WQ!wqvars) /\ NoWorkerWaits'
<1>1. ASSUME WaitsOn, UNCHANGED waiters
      PROVE  [WQ!Next]_(WQ!wqvars) /\ NoWorkerWaits'
  BY <1>1, SteadyQueue DEF WQ!wqvars
<1>2. ASSUME UNCHANGED <<th, waiters>>
      PROVE  [WQ!Next]_(WQ!wqvars) /\ NoWorkerWaits'
  BY <1>1, <1>2 DEF WaitsOn, Waits
<1>3. ASSUME WaitsOn, waiters # <<>>, waiters' = Tail(waiters)
      PROVE  [WQ!Next]_(WQ!wqvars) /\ NoWorkerWaits'
  BY <1>3, SteadyQueue DEF WQ!Next, WQ!SignalFirst
<1>4. CASE UNCHANGED vars
  BY <1>2, <1>4 DEF vars, calls
<1>5. CASE Next
  <2>1. WInv
    BY <1>5, Stopped
  <2>2. ASSUME NEW c \in CPU, Call(c) PROVE [WQ!Next]_(WQ!wqvars) /\ NoWorkerWaits'
    <3>1. CASE Wait(c)
      BY <2>1, <3>1, WaitEnters DEF WQ!Next
    <3>2. CASE ~Wait(c)
      <4>1. WaitsOn
        BY <2>1, <2>2, <3>2, CallSteady DEF Call
      <4>2. UNCHANGED waiters
        BY <2>2, <3>2 DEF Call, Signal, Sleep, Exit, Io, Serve, Join, Spawn, Migrate, calls
      <4>. QED BY <1>1, <4>1, <4>2
    <3>. QED BY <3>1, <3>2
  <2>3. ASSUME NEW c \in CPU, Kernel(c) PROVE [WQ!Next]_(WQ!wqvars) /\ NoWorkerWaits'
    <3>1. CASE CallReturns(c) /\ At(c, "wait_ret")
      BY <2>1, <3>1, WaitLeaves DEF WQ!Next
    <3>2. CASE ~(CallReturns(c) /\ At(c, "wait_ret"))
      <4>1. WaitsOn
        BY <2>1, <2>3, <3>2, KernelSteady
      <4>2. CASE SignalPop(c)
        BY <1>3, <4>1, <4>2 DEF SignalPop, PopWaiter
      <4>3. CASE ~SignalPop(c)
        BY <1>1, <2>3, <4>1, <4>3, KernelQueue
      <4>. QED BY <4>2, <4>3
    <3>. QED BY <3>1, <3>2
  <2>4. ASSUME NEW c \in CPU, Handler(c) PROVE [WQ!Next]_(WQ!wqvars) /\ NoWorkerWaits'
    <3>1. CASE IrqSignalPop(c)
      <4>1. WaitsOn
        BY <3>1 DEF IrqSignalPop, WaitsOn, Waits
      <4>. QED BY <1>3, <3>1, <4>1 DEF IrqSignalPop, PopWaiter
    <3>2. CASE IrqExit(c)
      BY <1>2, <3>2 DEF IrqExit
    <3>. QED BY <2>4, <3>1, <3>2 DEF Handler
  <2>5. ASSUME NEW c \in CPU, IrqEnter(c) \/ Timer(c)
        PROVE  [WQ!Next]_(WQ!wqvars) /\ NoWorkerWaits'
    <3>1. T(c) \in Tid /\ th \in [Tid -> ThreadType] /\ th[T(c)] \in ThreadType
      BY Here DEF IInv, Threads
    <3>2. PICK l : Goto(c, l)
      BY <2>5 DEF IrqEnter, Timer, Goto
    <3>3. WaitsOn
      BY <3>1, <3>2, SteadyBy DEF Goto, ThreadType
    <3>. QED BY <1>1, <2>5, <3>3 DEF IrqEnter, Timer, calls
  <2>6. ASSUME NEW t \in Tid, TimePasses(t)
        PROVE  [WQ!Next]_(WQ!wqvars) /\ NoWorkerWaits'
    BY <1>2, <2>6 DEF TimePasses, calls
  <2>. QED BY <1>5, <2>2, <2>3, <2>4, <2>5, <2>6 DEF Next
<1>. QED BY <1>4, <1>5

\* A wait channel is a queue of waiters that signals let go one by one, first
\* come first served, and nobody comes back from wait unless let go, whatever
\* else the tasks call and whoever else blocks and unblocks them.
THEOREM WaitChannelIsAQueue ==
    ASSUME NoMigration
    PROVE  Spec => WQ!Spec
<1>1. Init => WQ!Init /\ NoWorkerWaits
  <2>. SUFFICES ASSUME Init PROVE WQ!Init /\ NoWorkerWaits
    OBVIOUS
  <2>1. \A t \in Tid : th[t].back = "run"
    BY DEF Init, Thread0, Client
  <2>2. Workers \subseteq Tid
    BY SchedAssumption DEF SchedAssumption, Workers
  <2>. QED BY <2>1, <2>2 DEF Init, WQ!Init, inside, NoWorkerWaits
<1>2. IInv /\ (fault = "none" => WInv) /\ NoWorkerWaits /\ [Next]_vars
        => [WQ!Next]_(WQ!wqvars) /\ NoWorkerWaits'
  BY NextQueue
<1>. QED BY <1>1, <1>2, Invariance, WakesAreAccounted, PTL DEF Spec, WQ!Spec

-----------------------------------------------------------------------------
(* Tasks that block on wait channels only                                  *)

OnlyChannelsBlock == Calls \subseteq {"wait", "signal", "sleep", "exit"}

\* Where such tasks may be.
ModestPcs == Blk \cup {"run", "sig", "slp_int", "ret", "wait_ret", "dead"}
ModestAt(r) == r.pc \in ModestPcs /\ r.back \in {"run", "ret", "wait_ret"}
Modest == \A t \in Tid \ Workers : ModestAt(th[t])

\* Who is to be woken waits for one unblock.
LEMMA OwedOne ==
    ASSUME IInv, WInv, Modest, NEW x \in Tid, NEW p \in Wakers(x)
    PROVE  /\ x \notin Workers /\ Due(x) = 1 /\ Goal(th[x]) \in {"ret", "wait_ret"}
           /\ p \in {InQueue, InIo} \cup OnWay
<1>1. x \notin Workers /\ Account(x) /\ Goal(th[x]) \in Rets
  BY HasWaker
<1>2. Goal(th[x]) \in {"ret", "wait_ret"}
  BY <1>1 DEF Modest, ModestAt, Goal, ModestPcs, Rets, Blk
<1>. QED BY <1>1, <1>2 DEF Account, Ledger, Once, Due

\* Its workers get unblocks only, and create no task.
LEMMA OnlyUnblocks ==
    ASSUME IInv, WInv, Modest, NEW c \in CPU, wk[c].inbox # <<>>
    PROVE  Head(wk[c].inbox).kind = "Unblock"
<1>. SUFFICES ASSUME NEW m, m = Head(wk[c].inbox), m.kind # "Unblock" PROVE FALSE
  OBVIOUS
<1>1. m \in Message /\ Fit(m) /\ What(m) \in Said(boxes, m.kind, Wakee(m))
  BY FirstMessage
<1>2. Wakee(m) \in Tid /\ m.kind \in Kinds
  BY <1>1 DEF Wakee, Message, Fit
<1>3. InMail(m.kind) \in Wakers(Wakee(m))
  BY <1>1, <1>2, Spotted
<1>4. InMail(m.kind) \in {InQueue, InIo} \cup OnWay
  BY <1>2, <1>3, OwedOne
<1>. QED BY <1>4, MailsDiffer

LEMMA NobodyCreates ==
    ASSUME IInv, WInv, Modest, NEW t \in Tid
    PROVE  th[t].pc \notin MakePcs \cup {"answer"}
<1>1. CASE t \notin Workers
  BY <1>1 DEF Modest, ModestAt, ModestPcs, Blk, MakePcs
<1>2. CASE t \in Workers
  <2>1. PICK c \in CPU : t = Worker[c]
    BY <1>2 DEF Workers
  <2>2. Desk(c) /\ (Serves(th[Worker[c]]) => wk[c].inbox # <<>>)
    BY DEF WInv, Body, IInv, Served
  <2>3. ~Serves(th[t])
    BY <2>1, <2>2, OnlyUnblocks DEF Desk
  <2>. QED BY <2>3 DEF Serves
<1>. QED BY <1>1, <1>2

\* So every task of a pool is one that was created, and the map has it.
LEMMA PoolHome ==
    ASSUME IInv, WInv, Modest, NEW c \in CPU, NEW t \in pool[c]
    PROVE  t \in Tid /\ t \in known /\ tid_cpu[t] = c
<1>1. t \in Tid /\ (t \notin known => Tells("cr_map", c, t))
  BY DEF IInv, Pools
<1>2. t \in known
  BY <1>1, NobodyCreates DEF Tells, MakePcs
<1>. QED BY <1>1, <1>2, AtHome

\* The calls and the kernel's steps that are left.
Worked(c) ==
    \/ UnblockMap(c) \/ UnblockRemote(c) \/ UnblockCount(c) \/ UnblockReady(c) \/ UnblockAdd(c)
    \/ Scan(c) \/ RemoveDead(c) \/ DropJoiner(c) \/ DropEnd(c) \/ Fetch(c) \/ DoUnblock(c)
    \/ Halt(c)

LEMMA CallsLeft ==
    ASSUME OnlyChannelsBlock, NEW c \in CPU, Call(c)
    PROVE  Wait(c) \/ Signal(c, 1) \/ Signal(c, MaxTid) \/ Sleep(c) \/ Exit(c)
  BY DEF Call, OnlyChannelsBlock, Io, Serve, Join, Spawn, Migrate, Calling

LEMMA KernelLeft ==
    ASSUME IInv, WInv, Modest, NEW c \in CPU, Kernel(c)
    PROVE  \/ BlockAdd(c) \/ BlockState(c) \/ BlockRem(c) \/ BlockInt(c)
           \/ SignalPop(c) \/ SignalEnd(c) \/ CallReturns(c)
           \/ Worked(c) /\ T(c) \in Workers
<1>1. T(c) \in Tid
  BY Here
<1>2. /\ ~CreateTid(c) /\ ~CreateInsert(c) /\ ~CreateMap(c)
      /\ ~CreateAdd(c) /\ ~CreateReady(c) /\ ~CreateCount(c) /\ ~AnswerCreate(c)
  BY <1>1, NobodyCreates
     DEF CreateTid, CreateInsert, CreateMap, CreateAdd, CreateReady, CreateCount, AnswerCreate, At, MakePcs
<1>3. ~DoCreateTask(c) /\ ~DoRespond(c) /\ ~DoAddJoiner(c)
  BY OnlyUnblocks DEF DoCreateTask, DoRespond, DoAddJoiner, Next_ipm
<1>4. ~JoinLocal(c) /\ ~JoinAsk(c) /\ ~JoinAnswer(c) /\ ~JoinPoll(c) /\ ~SpawnAnswer(c)
  <2>1. SUFFICES ASSUME th[T(c)].pc \in {"join_pool", "join_ask", "join_ans", "join_poll", "spawn_ret"}
                 PROVE  FALSE
    BY DEF JoinLocal, JoinAsk, JoinAnswer, JoinPoll, SpawnAnswer, At
  <2>2. T(c) \notin Workers
    BY <2>1, InCall DEF CallPcs, Backs
  <2>. QED BY <1>1, <2>1, <2>2 DEF Modest, ModestAt, ModestPcs, Blk
<1>5. ~MoveOut(c) /\ ~MoveUncount(c) /\ ~MoveSend(c) /\ ~DoMoveTask(c) /\ ~MoveMap(c)
  BY NobodyMoves
<1>6. Worked(c) => T(c) \in Workers
  <2>1. SUFFICES ASSUME Worked(c), T(c) \notin Workers PROVE FALSE
    OBVIOUS
  <2>2. th[T(c)].pc \in {"ub_map", "ub_cpu", "ub_ready", "ub_add", "scan", "remove", "drop", "fetch", "ipm"}
    BY <2>1 DEF Worked, UnblockMap, UnblockRemote, UnblockCount, UnblockReady, UnblockAdd,
       Scan, RemoveDead, DropJoiner, DropEnd, Fetch, DoUnblock, Halt, Next_ipm, At
  <2>. QED BY <1>1, <2>1, <2>2 DEF Modest, ModestAt, ModestPcs, Blk
<1>. QED BY <1>2, <1>3, <1>4, <1>5, <1>6 DEF Kernel, Worked

\* Only the thread of the CPU goes on.
OnlyHere(c) == \A t \in Tid \ {T(c)} : th'[t] = th[t]

LEMMA KernelAlone ==
    ASSUME IInv, WInv, Modest, NEW c \in CPU, Kernel(c)
    PROVE  OnlyHere(c)
<1>1. T(c) \in Tid /\ th \in [Tid -> ThreadType]
  BY Here DEF IInv, Threads
<1>. USE DEF Goto, OnlyHere
<1>2. CASE BlockAdd(c) \/ BlockState(c) \/ BlockRem(c) \/ BlockInt(c)
  BY <1>1, <1>2 DEF BlockAdd, BlockState, BlockRem, BlockInt
<1>3. CASE SignalPop(c) \/ SignalEnd(c) \/ CallReturns(c)
  BY <1>1, <1>3 DEF SignalPop, SignalEnd, CallReturns, Return
<1>4. CASE UnblockMap(c) \/ UnblockRemote(c) \/ UnblockReady(c) \/ UnblockAdd(c)
  BY <1>1, <1>4 DEF UnblockMap, UnblockRemote, UnblockReady, UnblockAdd
<1>5. CASE UnblockCount(c)
  BY <1>1, <1>5 DEF UnblockCount, Fault
<1>6. CASE Scan(c) \/ RemoveDead(c) \/ Fetch(c)
  <2>1. PICK l : Goto(c, l)
    BY <1>6 DEF Scan, RemoveDead, Fetch
  <2>. QED BY <1>1, <2>1
<1>7. CASE DropJoiner(c) \/ DoUnblock(c)
  BY <1>1, <1>7 DEF DropJoiner, DoUnblock, Unblock
<1>8. CASE DropEnd(c) \/ Halt(c)
  BY <1>1, <1>8 DEF DropEnd, Halt
<1>. HIDE DEF Goto, OnlyHere
<1>. QED BY <1>2, <1>3, <1>4, <1>5, <1>6, <1>7, <1>8, KernelLeft DEF Worked

\* Where the clients' steps lead: a channel's wait blocks with the interrupts
\* off.
Leads(c, l, ie, back) ==
    /\ OnlyHere(c)
    /\ th'[T(c)].pc = l /\ th'[T(c)].ie = ie /\ th'[T(c)].back = back

LEMMA EntersWith ==
    ASSUME IInv, NEW c \in CPU, NEW l, NEW ie, NEW back, NEW obj, Enter(c, l, ie, back, obj)
    PROVE  Leads(c, l, ie, back)
<1>. DEFINE me == T(c)
            s == th[me]
            n == s.left - 1
            r == [s EXCEPT !.pc = l, !.ie = ie, !.back = back, !.obj = obj, !.left = n]
<1>1. me \in Tid /\ th \in [Tid -> ThreadType] /\ s \in ThreadType
  BY Here DEF IInv, Threads
<1>2. th' = [th EXCEPT ![me] = r]
  BY DEF Enter
<1>. HIDE DEF s, n
<1>3. r.pc = l /\ r.back = back /\ r.ie = ie
  BY <1>1 DEF ThreadType
<1>. HIDE DEF r
<1>. QED BY <1>1, <1>2, <1>3 DEF Leads, OnlyHere

LEMMA BlockLeads ==
    ASSUME IInv, NEW c \in CPU,
           BlockAdd(c) \/ BlockState(c) \/ BlockRem(c) \/ BlockInt(c)
    PROVE  \E l \in Blk \cup {th[T(c)].back} : Leads(c, l, th[T(c)].ie, th[T(c)].back)
<1>1. T(c) \in Tid /\ th \in [Tid -> ThreadType] /\ th[T(c)] \in ThreadType
  BY Here DEF IInv, Threads
<1>2. PICK l \in Blk \cup {th[T(c)].back} : Goto(c, l)
  BY DEF BlockAdd, BlockState, BlockRem, BlockInt, Goto, Blk
<1>. QED BY <1>1, <1>2 DEF Goto, Leads, OnlyHere, ThreadType

LEMMA SignalLeads ==
    ASSUME IInv, NEW c \in CPU
    PROVE  /\ SignalPop(c) => \E ie, back : Leads(c, "sig", ie, back) /\ back = th[T(c)].back
           /\ SignalEnd(c) \/ CallReturns(c) => \E ie : Leads(c, "run", ie, "run")
           /\ Exit(c) => \E ie : Leads(c, "dead", ie, "run")
<1>1. T(c) \in Tid /\ th \in [Tid -> ThreadType] /\ th[T(c)] \in ThreadType
  BY Here DEF IInv, Threads
<1>2. SignalPop(c) => \E ie, back : Leads(c, "sig", ie, back) /\ back = th[T(c)].back
  BY <1>1 DEF SignalPop, At, Leads, OnlyHere, ThreadType
<1>3. ASSUME SignalEnd(c) \/ CallReturns(c) PROVE \E ie : Leads(c, "run", ie, "run")
  <2>1. PICK r : Sets(T(c), r, "run", "run", 0, None)
    BY <1>3, ReturnsAt DEF SignalEnd, CallReturns
  <2>. QED BY <1>1, <2>1 DEF Sets, Leads, OnlyHere
<1>4. ASSUME Exit(c) PROVE \E ie : Leads(c, "dead", ie, "run")
  <2>. DEFINE r == [Thread0 EXCEPT !.pc = "dead"]
  <2>1. r.pc = "dead" /\ r.back = "run" /\ th' = [th EXCEPT ![T(c)] = r]
    BY <1>4 DEF Exit, Thread0
  <2>. HIDE DEF r
  <2>. QED BY <1>1, <2>1 DEF Leads, OnlyHere
<1>. QED BY <1>2, <1>3, <1>4

LEMMA InterruptLeads ==
    ASSUME IInv, NEW c \in CPU, IrqEnter(c) \/ Timer(c)
    PROVE  \E l : /\ Leads(c, l, th[T(c)].ie, th[T(c)].back)
                  /\ l = th[T(c)].pc \/ (l = "scan" /\ th[T(c)].pc = "halt")
<1>1. T(c) \in Tid /\ th \in [Tid -> ThreadType] /\ th[T(c)] \in ThreadType
  BY Here DEF IInv, Threads
<1>2. PICK l : Goto(c, l) /\ (l = th[T(c)].pc \/ (l = "scan" /\ th[T(c)].pc = "halt"))
  BY <1>1 DEF IrqEnter, Timer, Goto, AfterInterrupt, ThreadType
<1>3. Leads(c, l, th[T(c)].ie, th[T(c)].back)
  BY <1>1, <1>2 DEF Goto, Leads, OnlyHere, ThreadType
<1>. QED BY <1>2, <1>3


-----------------------------------------------------------------------------
(* The run queues hold nobody twice                                        *)

LEMMA RotatesOnce ==
    ASSUME NEW q \in Seq(Nat), NEW i \in DOMAIN q, IsInjective(q)
    PROVE  IsInjective(SubSeq(q, i + 1, Len(q)) \o SubSeq(q, 1, i))
<1>. DEFINE n == Len(q)
            m == i + 1
            a == SubSeq(q, m, n)
            b == SubSeq(q, 1, i)
            w == a \o b
<1>0. n \in Nat /\ i \in 1 .. n /\ DOMAIN q = 1 .. n
  OBVIOUS
<1>1. \A j \in 1 .. n : q[j] \in Nat
  OBVIOUS
<1>2. m = i + 1 /\ m \in Int /\ n \in Int /\ i \in Int /\ m >= 1 /\ i >= 1 /\ i <= n
  BY <1>0
<1>. HIDE DEF n, m
<1>3. /\ a \in Seq(Nat) /\ Len(a) = n - i
      /\ \A j \in 1 .. (n - i) : a[j] = q[i + j]
  <2>1. \A j \in m .. n : q[j] \in Nat
    BY <1>1, <1>2
  <2>2. /\ a \in Seq(Nat) /\ Len(a) = IF m <= n THEN n - m + 1 ELSE 0
        /\ \A j \in 1 .. n - m + 1 : a[j] = q[m + j - 1]
    BY <1>2, <2>1, SubSeqProperties
  <2>. HIDE DEF a
  <2>3. Len(a) = n - i
    <3>1. CASE m <= n
      BY <1>2, <2>2, <3>1
    <3>2. CASE ~(m <= n)
      BY <1>2, <2>2, <3>2
    <3>. QED BY <3>1, <3>2
  <2>4. ASSUME NEW j \in 1 .. (n - i) PROVE a[j] = q[i + j]
    <3>0. n - m + 1 = n - i /\ j \in Int
      BY <1>2
    <3>1. j \in 1 .. n - m + 1
      BY <3>0
    <3>2. m + j - 1 = i + j
      BY <1>2, <3>0
    <3>. QED BY <2>2, <3>1, <3>2
  <2>. QED BY <2>2, <2>3, <2>4
<1>4. /\ b \in Seq(Nat) /\ Len(b) = i
      /\ \A j \in 1 .. i : b[j] = q[j]
  <2>1. \A j \in 1 .. i : q[j] \in Nat
    BY <1>1, <1>2
  <2>2. /\ b \in Seq(Nat) /\ Len(b) = IF 1 <= i THEN i - 1 + 1 ELSE 0
        /\ \A j \in 1 .. i - 1 + 1 : b[j] = q[1 + j - 1]
    BY <1>2, <2>1, SubSeqProperties
  <2>. HIDE DEF b
  <2>3. Len(b) = i /\ i - 1 + 1 = i
    BY <1>2, <2>2
  <2>4. ASSUME NEW j \in 1 .. i PROVE b[j] = q[j]
    <3>1. 1 + j - 1 = j
      OBVIOUS
    <3>. QED BY <2>2, <2>3, <3>1
  <2>. QED BY <2>2, <2>3, <2>4
<1>. HIDE DEF a, b
<1>5. DOMAIN w = 1 .. n /\ \A j \in 1 .. n : w[j] = IF j <= n - i THEN q[i + j] ELSE q[j - (n - i)]
  <2>0. /\ w \in Seq(Nat) /\ Len(w) = Len(a) + Len(b)
        /\ \A j \in 1 .. Len(a) + Len(b) : w[j] = IF j <= Len(a) THEN a[j] ELSE b[j - Len(a)]
    BY <1>3, <1>4, ConcatProperties
  <2>. HIDE DEF w
  <2>1. /\ w \in Seq(Nat) /\ Len(w) = n
        /\ \A j \in 1 .. n : w[j] = IF j <= n - i THEN a[j] ELSE b[j - (n - i)]
    <3>1. Len(a) = n - i /\ Len(a) + Len(b) = n
      BY <1>2, <1>3, <1>4
    <3>. QED BY <2>0, <3>1
  <2>2. DOMAIN w = 1 .. n
    BY <2>1
  <2>3. ASSUME NEW j \in 1 .. n PROVE w[j] = IF j <= n - i THEN q[i + j] ELSE q[j - (n - i)]
    <3>1. CASE j <= n - i
      <4>1. j \in 1 .. (n - i)
        BY <1>2, <3>1
      <4>. QED BY <1>3, <2>1, <3>1, <4>1
    <3>2. CASE ~(j <= n - i)
      <4>1. j - (n - i) \in 1 .. i
        BY <1>2, <3>2
      <4>. QED BY <1>4, <2>1, <3>2, <4>1
    <3>. QED BY <3>1, <3>2
  <2>. QED BY <2>2, <2>3
<1>. HIDE DEF w
<1>. DEFINE e(j) == IF j <= n - i THEN i + j ELSE j - (n - i)
<1>6. ASSUME NEW j \in 1 .. n PROVE e(j) \in 1 .. n /\ w[j] = q[e(j)]
  <2>1. CASE j <= n - i
    <3>1. e(j) = i + j /\ e(j) \in 1 .. n
      BY <1>2, <2>1
    <3>. QED BY <1>5, <2>1, <3>1
  <2>2. CASE ~(j <= n - i)
    <3>1. e(j) = j - (n - i) /\ e(j) \in 1 .. n
      BY <1>2, <2>2
    <3>. QED BY <1>5, <2>2, <3>1
  <2>. QED BY <2>1, <2>2
<1>7. ASSUME NEW j \in 1 .. n, NEW k \in 1 .. n, e(j) = e(k) PROVE j = k
  <2>1. \A l \in 1 .. n : \/ l <= n - i /\ e(l) = i + l
                          \/ ~(l <= n - i) /\ e(l) = l - (n - i)
    BY <1>2
  <2>. HIDE DEF e
  <2>2. CASE j <= n - i /\ k <= n - i
    BY <1>2, <1>7, <2>1, <2>2
  <2>3. CASE j <= n - i /\ ~(k <= n - i)
    BY <1>2, <1>7, <2>1, <2>3
  <2>4. CASE ~(j <= n - i) /\ k <= n - i
    BY <1>2, <1>7, <2>1, <2>4
  <2>5. CASE ~(j <= n - i) /\ ~(k <= n - i)
    BY <1>2, <1>7, <2>1, <2>5
  <2>. QED BY <2>2, <2>3, <2>4, <2>5
<1>. HIDE DEF e
<1>8. IsInjective(w)
  BY <1>0, <1>5, <1>6, <1>7 DEF IsInjective
<1>. QED BY <1>8 DEF w, a, b, m, n

LEMMA RemTaskOnce ==
    ASSUME NEW q \in Seq(Nat), NEW t, IsInjective(q)
    PROVE  IsInjective(RemTask(q, t))
<1>. DEFINE I == {i \in DOMAIN q : q[i] # t}
            w == Kept(q, I)
<1>0. I \in SUBSET DOMAIN q
  OBVIOUS
<1>1. w = RemTask(q, t)
  BY DEF RemTask
<1>. HIDE DEF I
<1>2. PICK e : Keeps(w, q, I, e)
  BY <1>0, KeptKeeps
<1>. HIDE DEF w
<1>3. IsInjective(w)
  BY <1>0, <1>2 DEF Keeps, IsInjective
<1>. QED BY <1>1, <1>3

LEMMA SortedOnce ==
    ASSUME NEW S \in SUBSET Tid
    PROVE  IsInjective(Sorted(S))
<1>1. Tid \in SUBSET Nat /\ IsFiniteSet(Tid)
  BY SchedAssumption, FS_Interval DEF SchedAssumption, Tid
<1>2. S \in SUBSET Nat /\ IsFiniteSet(S)
  BY <1>1, FS_Subset
<1>3. \A k, l \in 1 .. Cardinality(S) : Nth(S, k) = Nth(S, l) => k = l
  BY <1>2, NthCounts
<1>. QED BY <1>3 DEF Sorted, IsInjective

\* What a switch does to the queue, and to who has exited.
LEMMA SwitchesOver ==
    ASSUME IInv, NEW c \in CPU, NEW tk \in [Tid -> TaskType], NEW q \in Seq(Nat),
           PreemptIrq(c, tk, q), fault' = "none", fault = "none"
    PROVE  /\ \A d \in CPU \ {c} : rq'[d] = rq[d]
           /\ \A t \in Range(q) : t \in Range(rq'[c])
           /\ IsInjective(q) => IsInjective(rq'[c])
           /\ \A t \in Tid \ Range(q) : tk[t].state \in {"Terminating", "Dropped"} =>
                    task'[t].state = tk[t].state
<1>. DEFINE stop == {i \in 1 .. Len(q) : q[i] \notin pool[c] \/ Eligible(tk, q[i])}
            i    == Min(stop)
            next == q[i]
            old  == curr[c]
            woken == [tk EXCEPT ![next].state = IF @ = "Sleeping" THEN "Ready" ELSE @]
            w     == SubSeq(q, i + 1, Len(q)) \o SubSeq(q, 1, i)
<1>1. q # <<>> /\ next \in pool[c] /\ old \in pool[c]
  <2>1. CASE q = <<>>
    BY <2>1 DEF PreemptIrq
  <2>2. CASE q # <<>> /\ (next \notin pool[c] \/ old \notin pool[c])
    BY <2>2 DEF PreemptIrq
  <2>. QED BY <2>1, <2>2
<1>2. /\ stop # {}
      /\ rq' = [rq EXCEPT ![c] = w]
      /\ task' = IF next = old THEN woken
                 ELSE [woken EXCEPT ![old].state = Outgoing(@),
                                    ![next].state = "Running"]
  BY <1>1 DEF PreemptIrq
<1>3. i \in DOMAIN q
  <2>1. stop \in SUBSET Nat /\ stop \in SUBSET DOMAIN q
    OBVIOUS
  <2>. HIDE DEF stop
  <2>. QED BY <1>2, <2>1, LeastOf
<1>. HIDE DEF stop, i
<1>4. next \in Tid /\ old \in Tid /\ next \in Range(q)
  BY <1>1, <1>3 DEF IInv, Pools, Range
<1>5. /\ \A t \in Range(q) : t \in Range(w)
      /\ IsInjective(q) => IsInjective(w)
  BY <1>3, Rotates, RotatesOnce
<1>. HIDE DEF next, old, w
<1>6. (\A d \in CPU \ {c} : rq'[d] = rq[d]) /\ rq'[c] = w
  BY <1>2 DEF IInv, Queues
<1>7. ASSUME NEW t \in Tid \ Range(q), tk[t].state \in {"Terminating", "Dropped"}
      PROVE  task'[t].state = tk[t].state
  <2>1. t # next /\ woken[t] = tk[t] /\ woken[t].state # "Running"
    BY <1>4, <1>7
  <2>2. DOMAIN woken = Tid /\ tk[t] \in TaskType
    BY <1>7
  <2>. HIDE DEF woken
  <2>3. CASE t # old \/ next = old
    BY <1>2, <1>4, <1>7, <2>1, <2>2, <2>3
  <2>4. CASE t = old /\ next # old
    <3>1. task'[t] = [woken[t] EXCEPT !.state = Outgoing(@)]
      BY <1>2, <1>4, <2>1, <2>2, <2>4
    <3>. QED BY <2>1, <2>2, <3>1 DEF Outgoing, TaskType
  <2>. QED BY <2>3, <2>4
<1>. QED BY <1>5, <1>6, <1>7

-----------------------------------------------------------------------------
(* No task of a pool is lost                                               *)

Gone     == {"Terminating", "Dropped"}
Distinct == \A c \in CPU : IsInjective(rq[c])
Over(t)  == task[t].state \in Gone => th[t].pc = "dead"
Held(t)  == \A c \in CPU : t \in pool[c] \ Range(rq[c]) =>
                task[t].state \in Gone \/ Readying(t) \/ task[t].blocked > 0
Orderly  == Distinct /\ \A t \in Tid : Over(t) /\ Held(t)

\* A task that blocks runs with the interrupts off, and so does nobody else of
\* its CPU; the handler of a CPU came while they were on.
Masked ==
    \A c \in CPU :
        /\ \A t \in pool[c] \ Workers :
                th[t].pc \in Blk => ~th[t].ie /\ curr[c] = t /\ Due(t) = 1
        /\ holder = c => th[curr[c]].ie

\* A step leaves t in its place.
Stands(t) ==
    /\ \A d \in CPU : t \in Range(rq[d]) => t \in Range(rq'[d])
    /\ task'[t].state \in Gone <=> task[t].state \in Gone
    /\ task[t].blocked > 0 => task'[t].blocked > 0
    /\ Readying(t) => Readying(t)'
    /\ th[t].pc = "dead" => th'[t].pc = "dead"

Shrinks == \A d \in CPU : pool'[d] \subseteq pool[d]

LEMMA StandsHeld ==
    ASSUME NEW t \in Tid, Over(t), Held(t), Shrinks, Stands(t)
    PROVE  Over(t)' /\ Held(t)'
<1>1. Over(t)'
  BY DEF Over, Stands
<1>2. ASSUME NEW c \in CPU, t \in pool'[c] \ Range(rq'[c])
      PROVE  task'[t].state \in Gone \/ Readying(t)' \/ task'[t].blocked > 0
  BY <1>2 DEF Held, Stands, Shrinks
<1>. QED BY <1>1, <1>2 DEF Held

LEMMA NotDead ==
    ASSUME IInv, WInv, NEW c \in CPU
    PROVE  th[T(c)].pc # "dead" /\ T(c) \in Tid /\ (Orderly => task[T(c)].state \notin Gone)
<1>1. T(c) \in Tid /\ Sound(T(c), th[T(c)])
  BY Here
<1>2. th[T(c)].pc # "dead"
  <2>1. CASE T(c) \in Workers
    BY <1>1, <2>1 DEF Sound, WorkPcs, MakePcs, WakePcs
  <2>2. CASE T(c) \notin Workers
    BY <2>2, Resting
  <2>. QED BY <2>1, <2>2
<1>. QED BY <1>1, <1>2 DEF Orderly, Over

\* Who was to be put in the queue still is, but for the task that the thread
\* of the CPU was putting there.
LEMMA ReadyingKept ==
    ASSUME IInv, NEW c \in CPU, OnlyHere(c), NEW t,
           th[T(c)].pc \in {"ub_ready", "ub_add"} /\ th[T(c)].obj = t =>
                th'[T(c)].pc \in {"ub_ready", "ub_add"} /\ th'[T(c)].obj = t
    PROVE  Readying(t) => Readying(t)'
<1>1. T(c) \in Tid
  BY Here
<1>. QED BY <1>1 DEF Readying, OnlyHere

\* A step that leaves the queues alone.
LEMMA QuietKept ==
    ASSUME IInv, WInv, Orderly, NEW c \in CPU, OnlyHere(c), Shrinks, rq' = rq,
           th[T(c)].pc \in {"ub_ready", "ub_add"} =>
                th'[T(c)].pc \in {"ub_ready", "ub_add"} /\ th'[T(c)].obj = th[T(c)].obj,
           \A t \in Tid : /\ task'[t].state \in Gone <=> task[t].state \in Gone
                          /\ task[t].blocked > 0 => task'[t].blocked > 0
    PROVE  Orderly'
<1>1. \A t \in Tid : Readying(t) => Readying(t)'
  BY ReadyingKept
<1>2. \A t \in Tid : th[t].pc = "dead" => th'[t].pc = "dead"
  BY NotDead DEF OnlyHere
<1>3. \A t \in Tid : Over(t)' /\ Held(t)'
  BY <1>1, <1>2, StandsHeld DEF Orderly, Stands
<1>4. Distinct'
  BY DEF Orderly, Distinct
<1>. QED BY <1>3, <1>4 DEF Orderly

\* A switch turns the queue: nobody leaves it.
LEMMA SwitchKept ==
    ASSUME IInv, WInv, Orderly, NEW c \in CPU, Timer(c) \/ BlockInt(c), fault' = "none"
    PROVE  Orderly'
<1>1. /\ T(c) \in Tid /\ th \in [Tid -> ThreadType] /\ th[T(c)] \in ThreadType
      /\ task \in [Tid -> TaskType] /\ rq[c] \in Seq(Nat)
  BY Here DEF IInv, Threads, Tasks, Queues
<1>2. PreemptIrq(c, task, rq[c]) /\ fault = "none" /\ UNCHANGED pool
  BY DEF Timer, BlockInt, At
<1>3. PICK l : Goto(c, l) /\ (l = th[T(c)].pc \/ th[T(c)].pc \in {"halt", "blk_int", "slp_int"})
  BY <1>1 DEF Timer, BlockInt, At, Goto, AfterInterrupt
<1>4. OnlyHere(c) /\ th'[T(c)].pc = l /\ th'[T(c)].obj = th[T(c)].obj
  BY <1>1, <1>3 DEF Goto, OnlyHere, ThreadType
<1>5. \A t \in Tid : Readying(t) => Readying(t)'
  BY <1>3, <1>4, ReadyingKept
<1>6. /\ \A d \in CPU \ {c} : rq'[d] = rq[d]
      /\ \A t \in Range(rq[c]) : t \in Range(rq'[c])
      /\ IsInjective(rq[c]) => IsInjective(rq'[c])
      /\ \A t \in Tid \ Range(rq[c]) : task[t].state \in Gone => task'[t].state = task[t].state
  BY <1>1, <1>2, SwitchesOver DEF Gone
<1>7. \A t \in Tid : /\ task'[t].blocked = task[t].blocked
                     /\ task'[t].state \in {task[t].state, "Ready", "Running"}
  BY <1>1, <1>2, Switches
<1>8. ASSUME NEW t \in Tid PROVE Over(t)' /\ Held(t)'
  <2>1. task'[t].state \in Gone <=> task[t].state \in Gone
    <3>1. task[t].state \in Gone => t \notin Range(rq[c])
      BY QueuedAtHome DEF Orderly, Over
    <3>. QED BY <1>6, <1>7, <3>1 DEF Gone
  <2>2. th[t].pc = "dead" => th'[t].pc = "dead"
    BY <1>4, NotDead DEF OnlyHere
  <2>3. \A d \in CPU : t \in Range(rq[d]) => t \in Range(rq'[d])
    BY <1>6
  <2>4. Stands(t)
    BY <1>5, <1>7, <2>1, <2>2, <2>3 DEF Stands
  <2>. QED BY <1>2, <2>4, StandsHeld DEF Orderly, Shrinks
<1>9. Distinct'
  BY <1>6 DEF Orderly, Distinct
<1>. QED BY <1>8, <1>9 DEF Orderly

\* Who exits leaves the queue for good.
LEMMA ExitKept ==
    ASSUME IInv, WInv, Orderly, NEW c \in CPU, Exit(c), fault' = "none"
    PROVE  Orderly'
<1>. SUFFICES ASSUME NEW me, me = T(c) PROVE Orderly'
  OBVIOUS
<1>. DEFINE tk == [task EXCEPT ![me].state = "Terminating"]
            q  == RemTask(rq[c], me)
<1>1. /\ me \in Tid /\ th \in [Tid -> ThreadType] /\ task[me] \in TaskType
      /\ task \in [Tid -> TaskType] /\ rq[c] \in Seq(Nat)
  BY Here DEF IInv, Threads, Tasks, Queues
<1>2. PreemptIrq(c, tk, q) /\ fault = "none" /\ UNCHANGED pool /\ th[me].pc = "run"
  BY DEF Exit, At
<1>3. th' = [th EXCEPT ![me] = [Thread0 EXCEPT !.pc = "dead"]]
  BY DEF Exit
<1>4. OnlyHere(c) /\ th'[me].pc = "dead"
  BY <1>1, <1>3 DEF OnlyHere, Thread0
<1>5. \A t \in Tid : Readying(t) => Readying(t)'
  BY <1>2, <1>4, ReadyingKept
<1>6. /\ tk \in [Tid -> TaskType] /\ tk[me].state = "Terminating" /\ tk[me].blocked = task[me].blocked
      /\ \A t \in Tid \ {me} : tk[t] = task[t]
  <2>. DEFINE x == [task[me] EXCEPT !.state = "Terminating"]
  <2>1. x \in TaskType /\ x.state = "Terminating" /\ x.blocked = task[me].blocked
    BY <1>1 DEF TaskType, States
  <2>2. tk = [task EXCEPT ![me] = x]
    OBVIOUS
  <2>. HIDE DEF x, tk
  <2>. QED BY <1>1, <2>1, <2>2
<1>7. /\ q \in Seq(Nat) /\ (IsInjective(rq[c]) => IsInjective(q))
      /\ \A t \in Range(rq[c]) : t # me => t \in Range(q)
      /\ \A t \in Range(q) : t \in Range(rq[c]) /\ t # me
  BY <1>1, RemTaskLeaves, RemTaskRemoves, RemTaskOnce
<1>. HIDE DEF tk, q
<1>8. /\ \A d \in CPU \ {c} : rq'[d] = rq[d]
      /\ \A t \in Range(q) : t \in Range(rq'[c])
      /\ IsInjective(q) => IsInjective(rq'[c])
      /\ \A t \in Tid \ Range(q) : tk[t].state \in Gone => task'[t].state = tk[t].state
  BY <1>2, <1>6, <1>7, SwitchesOver DEF Gone
<1>9. \A t \in Tid : /\ task'[t].blocked = tk[t].blocked
                     /\ task'[t].state \in {tk[t].state, "Ready", "Running"}
  BY <1>2, <1>6, <1>7, Switches
<1>10. Over(me)' /\ Held(me)'
  <2>1. task'[me].state = "Terminating"
    BY <1>1, <1>6, <1>7, <1>8 DEF Gone
  <2>. QED BY <1>4, <2>1 DEF Over, Held, Gone
<1>11. ASSUME NEW t \in Tid \ {me} PROVE Over(t)' /\ Held(t)'
  <2>1. task'[t].state \in Gone <=> task[t].state \in Gone
    <3>1. task[t].state \in Gone => t \notin Range(rq[c])
      BY QueuedAtHome DEF Orderly, Over
    <3>. QED BY <1>6, <1>7, <1>8, <1>9, <3>1 DEF Gone
  <2>2. th[t].pc = "dead" => th'[t].pc = "dead"
    BY <1>4 DEF OnlyHere
  <2>3. \A d \in CPU : t \in Range(rq[d]) => t \in Range(rq'[d])
    BY <1>7, <1>8
  <2>4. task[t].blocked > 0 => task'[t].blocked > 0
    BY <1>6, <1>9
  <2>5. Stands(t)
    BY <1>5, <2>1, <2>2, <2>3, <2>4 DEF Stands
  <2>. QED BY <1>2, <2>5, StandsHeld DEF Orderly, Shrinks
<1>12. Distinct'
  BY <1>7, <1>8 DEF Orderly, Distinct
<1>. QED BY <1>10, <1>11, <1>12 DEF Orderly

\* Who takes itself off the queue owes itself an unblock.
LEMMA BlockRemKept ==
    ASSUME IInv, WInv, Orderly, Masked, NEW c \in CPU, BlockRem(c)
    PROVE  Orderly'
<1>. SUFFICES ASSUME NEW me, me = T(c) PROVE Orderly'
  OBVIOUS
<1>. DEFINE q  == RemTask(rq[c], me)
<1>1. /\ me \in Tid /\ th \in [Tid -> ThreadType] /\ th[me] \in ThreadType /\ me \in pool[c]
      /\ task[me] \in TaskType /\ rq[c] \in Seq(Nat)
  BY Here DEF IInv, Threads, Queues
<1>2. /\ th[me].pc = "blk_rem" /\ Goto(c, "blk_int") /\ UNCHANGED <<task, pool>>
      /\ rq' = [rq EXCEPT ![c] = q]
  BY DEF BlockRem, At
<1>3. OnlyHere(c) /\ th'[me].pc = "blk_int"
  BY <1>1, <1>2 DEF Goto, OnlyHere, ThreadType
<1>4. \A t \in Tid : Readying(t) => Readying(t)'
  BY <1>2, <1>3, ReadyingKept
<1>5. task[me].blocked > 0
  <2>1. me \notin Workers /\ th[me].pc \in Blk
    BY <1>2, Blocking DEF Blk
  <2>2. Due(me) = 1
    BY <1>1, <2>1 DEF Masked
  <2>. QED BY <1>1, <1>2, <2>2 DEF Due, Owed, TaskType
<1>6. /\ (IsInjective(rq[c]) => IsInjective(q))
      /\ \A t \in Range(rq[c]) : t # me => t \in Range(q)
  BY <1>1, RemTaskLeaves, RemTaskOnce
<1>. HIDE DEF q
<1>7. rq'[c] = q /\ \A d \in CPU \ {c} : rq'[d] = rq[d]
  BY <1>2 DEF IInv, Queues
<1>8. Over(me)' /\ Held(me)'
  <2>1. task'[me].state \notin Gone /\ task'[me].blocked > 0
    BY <1>2, <1>5, NotDead
  <2>. QED BY <2>1 DEF Over, Held
<1>9. ASSUME NEW t \in Tid \ {me} PROVE Over(t)' /\ Held(t)'
  <2>1. Stands(t)
    BY <1>2, <1>3, <1>4, <1>6, <1>7 DEF Stands, OnlyHere
  <2>. QED BY <1>2, <2>1, StandsHeld DEF Orderly, Shrinks
<1>10. Distinct'
  BY <1>6, <1>7 DEF Orderly, Distinct
<1>. QED BY <1>8, <1>9, <1>10 DEF Orderly

LEMMA AppendAdds ==
    ASSUME NEW S, NEW s \in Seq(S), NEW v \in S
    PROVE  \A t : t \in Range(s) \/ t = v => t \in Range(Append(s, v))
<1>. DEFINE w == Append(s, v)
            n == Len(s)
<1>1. /\ w \in Seq(S) /\ Len(w) = n + 1 /\ w[n + 1] = v /\ n \in Nat
      /\ \A i \in 1 .. n : w[i] = s[i]
  BY AppendProperties
<1>2. DOMAIN s = 1 .. n
  OBVIOUS
<1>. HIDE DEF w, n
<1>3. DOMAIN w = 1 .. (n + 1) /\ n + 1 \in DOMAIN w
  BY <1>1
<1>4. \A i \in DOMAIN s : i \in DOMAIN w /\ w[i] = s[i]
  BY <1>1, <1>2, <1>3
<1>5. \A t : t \in Range(s) \/ t = v => t \in Range(w)
  BY <1>1, <1>3, <1>4 DEF Range
<1>. QED BY <1>5 DEF w

LEMMA RowGrowsOnce ==
    ASSUME IInv, NEW c \in CPU, NEW x \in Tid, Enqueues(c, x), Distinct, x \notin Range(rq[c])
    PROVE  /\ \A d \in CPU : \A t \in Range(rq[d]) : t \in Range(rq'[d])
           /\ x \in Range(rq'[c]) /\ Distinct'
<1>1. rq[c] \in Seq(Nat) /\ x \in Nat
  BY DEF IInv, Queues, Tid
<1>2. (\A d \in CPU \ {c} : rq'[d] = rq[d]) /\ rq'[c] = Append(rq[c], x)
  BY DEF IInv, Queues, Enqueues
<1>3. /\ \A t : t \in Range(rq[c]) \/ t = x => t \in Range(rq'[c])
      /\ IsInjective(rq[c]) => IsInjective(rq'[c])
  BY <1>1, <1>2, ListGrows, AppendAdds
<1>. QED BY <1>2, <1>3 DEF Distinct

\* Whom somebody of the same CPU wakes has come to rest.
LEMMA NotMidway ==
    ASSUME IInv, WInv, Modest, Masked, NEW c \in CPU, NEW x \in pool[c], x \in Tid \ Workers,
           th[T(c)].pc \notin Blk \/ th[T(c)].ie
    PROVE  /\ th[x].pc \notin Blk
           /\ Wakers(x) # {} =>
                task[x].blocked = 1 /\ \A d \in CPU : x \notin Range(rq[d])
<1>1. th[x].pc \notin Blk
  BY DEF Masked, T
<1>2. ASSUME Wakers(x) # {}
      PROVE  task[x].blocked = 1 /\ \A d \in CPU : x \notin Range(rq[d])
  <2>1. PICK p : p \in Wakers(x)
    BY <1>2
  <2>2. Due(x) = 1 /\ Goal(th[x]) \in Rets /\ task[x] \in TaskType
    BY <2>1, OwedOne, HasWaker DEF IInv, Tasks
  <2>3. th[x].pc \in Rets /\ task[x].blocked = 1
    BY <1>1, <2>2 DEF Goal, Due, Owed, TaskType, Blk
  <2>4. Parked(x) /\ Off(x)
    BY <2>2, <2>3 DEF WInv, Body, Off
  <2>. QED BY <2>3, <2>4 DEF Parked
<1>. QED BY <1>1, <1>2

\* A signal puts the task it wakes in the queue of this CPU, or asks another.
LEMMA SignalKept ==
    ASSUME IInv, WInv, Modest, Masked, Orderly, NEW c \in CPU, SignalPop(c) \/ IrqSignalPop(c)
    PROVE  Orderly'
<1>1. /\ T(c) \in Tid /\ th \in [Tid -> ThreadType] /\ th[T(c)] \in ThreadType
      /\ rq \in [CPU -> Seq(Nat)]
  BY Here DEF IInv, Threads, Queues
<1>2. /\ waiters # <<>> /\ UNCHANGED pool
      /\ \E x \in Range(waiters) : PopWaiter(x) /\ UnblockAtOnce(c, x)
  BY DEF SignalPop, IrqSignalPop
<1>3. PICK x : x = Head(waiters) /\ waiters' = Tail(waiters) /\ UnblockAtOnce(c, x)
  BY <1>2 DEF PopWaiter
<1>4. x \in Tid /\ InQueue \in Wakers(x)
  BY <1>2, <1>3, FirstWaiter
<1>5. /\ x \notin Workers /\ tid_cpu[x] \in CPU /\ x \in pool[tid_cpu[x]] /\ th[x].pc # "dead"
      /\ task[x].state # "Sleeping"
  BY <1>4, HasWaker
<1>6. /\ th[T(c)].pc \notin Blk \/ th[T(c)].ie
      /\ OnlyHere(c) /\ (th[T(c)].pc = "sig" \/ th' = th)
  <2>1. CASE SignalPop(c)
    BY <1>1, <2>1 DEF SignalPop, At, Blk, OnlyHere
  <2>2. CASE IrqSignalPop(c)
    BY <2>2 DEF IrqSignalPop, OnlyHere, Masked, T
  <2>. QED BY <2>1, <2>2
<1>7. \A t \in Tid : Readying(t) => Readying(t)'
  BY <1>6, ReadyingKept
<1>8. CASE UNCHANGED <<task, rq>>
  BY <1>2, <1>6, <1>8, QuietKept DEF Shrinks
<1>9. CASE TakenOff(c, x)
  <2>1. x \in pool[c] /\ task[x].blocked = 1 /\ \A d \in CPU : x \notin Range(rq[d])
    BY <1>4, <1>5, <1>6, <1>9, NotMidway DEF TakenOff
  <2>2. rq' = [rq EXCEPT ![c] = Append(@, x)]
    BY <1>3, <1>5, <1>9, <2>1, SchedAssumption DEF UnblockAtOnce, Elsewhere, TakenOff, SchedAssumption
  <2>4. /\ \A d \in CPU : \A t \in Range(rq[d]) : t \in Range(rq'[d])
        /\ x \in Range(rq'[c]) /\ Distinct'
    BY <1>4, <2>1, <2>2, RowGrowsOnce DEF Enqueues, Orderly
  <2>5. Over(x)' /\ Held(x)'
    <3>1. task'[x].state \notin Gone
      BY <1>4, <1>5, <1>9 DEF TakenOff, Orderly, Over, Gone
    <3>2. \A d \in CPU : x \in pool'[d] => d = c
      BY <1>2, <2>1 DEF IInv, Pools
    <3>. QED BY <2>4, <3>1, <3>2 DEF Over, Held
  <2>6. ASSUME NEW t \in Tid \ {x} PROVE Over(t)' /\ Held(t)'
    <3>1. th[t].pc = "dead" => th'[t].pc = "dead"
      BY <1>6, NotDead DEF OnlyHere
    <3>2. Stands(t)
      BY <1>7, <1>9, <2>4, <3>1 DEF Stands, TakenOff
    <3>. QED BY <1>2, <3>2, StandsHeld DEF Orderly, Shrinks
  <2>. QED BY <2>4, <2>5, <2>6 DEF Orderly
<1>10. SentOn(c, x) \/ TakenOff(c, x)
  BY <1>3, <1>4, AtOnce
<1>. QED BY <1>8, <1>9, <1>10 DEF SentOn

LEMMA FoundInPool ==
    ASSUME IInv, WInv, NEW t \in Tid, th[t].pc \notin {"dead", "run"}
    PROVE  \E d \in CPU : t \in pool[d]
<1>1. t \in known
  BY DEF WInv, Body, Fate, IInv, Pools, Tid
<1>. QED BY <1>1 DEF WInv, Body, Fate

\* The unblock of a task of this CPU leads to its return into the queue.
LEMMA UnblockCountKept ==
    ASSUME IInv, WInv, Modest, Masked, Orderly, NEW c \in CPU, UnblockCount(c), fault' = "none"
    PROVE  Orderly'
<1>. SUFFICES ASSUME NEW me, me = T(c), NEW x, x = th[me].obj PROVE Orderly'
  OBVIOUS
<1>1. th[me].pc = "ub_cpu" /\ th[me].arg = c /\ me \in Tid /\ x \in Tid
      /\ th[me] \in ThreadType /\ th \in [Tid -> ThreadType]
  <2>1. th[me].pc = "ub_cpu" /\ th[me].arg = c
    BY DEF UnblockCount, At
  <2>. QED BY <2>1, WakesBack DEF IInv, Threads, WakePcs
<1>2. InHand(me) \in Wakers(x)
  <2>1. Unblocks(th[me], x)
    BY <1>1 DEF Unblocks
  <2>. QED BY <1>1, <2>1, Spotted
<1>3. tid_cpu[x] = c
  BY <1>1 DEF WInv, Body, Hand
<1>4. /\ x \notin Workers /\ x \in pool[c] /\ task[x].state # "Sleeping" /\ th[x].pc # "dead"
      /\ task[x].state \notin Gone
  BY <1>1, <1>2, <1>3, HasWaker DEF Orderly, Over
<1>5. task[x].blocked = 1
  BY <1>1, <1>2, <1>4, NotMidway DEF Blk
<1>6. /\ UNCHANGED <<pool, rq>> /\ Goto(c, "ub_ready")
      /\ task' = [task EXCEPT ![x] = [task[x] EXCEPT !.blocked = @ - 1]]
  BY <1>4, <1>5 DEF UnblockCount
<1>7. /\ task'[x].state = task[x].state /\ \A t \in Tid \ {x} : task'[t] = task[t]
  BY <1>1, <1>6 DEF IInv, Tasks, TaskType
<1>8. OnlyHere(c) /\ th'[me].pc = "ub_ready" /\ th'[me].obj = x
  BY <1>1, <1>6 DEF Goto, OnlyHere, ThreadType
<1>9. Over(x)' /\ Held(x)'
  <2>1. Readying(x)'
    BY <1>1, <1>8 DEF Readying
  <2>. QED BY <1>4, <1>7, <2>1 DEF Over, Held
<1>10. ASSUME NEW t \in Tid \ {x} PROVE Over(t)' /\ Held(t)'
  <2>1. th[t].pc = "dead" => th'[t].pc = "dead"
    BY <1>8, NotDead DEF OnlyHere
  <2>2. Readying(t) => Readying(t)'
    BY <1>1, <1>8, ReadyingKept
  <2>3. Stands(t)
    BY <1>6, <1>7, <2>1, <2>2 DEF Stands
  <2>. QED BY <1>6, <2>3, StandsHeld DEF Orderly, Shrinks
<1>11. Distinct'
  BY <1>6 DEF Orderly, Distinct
<1>. QED BY <1>9, <1>10, <1>11 DEF Orderly

LEMMA UnblockReadyKept ==
    ASSUME IInv, WInv, Orderly, NEW c \in CPU, UnblockReady(c)
    PROVE  Orderly'
<1>. SUFFICES ASSUME NEW me, me = T(c), NEW x, x = th[me].obj PROVE Orderly'
  OBVIOUS
<1>1. th[me].pc = "ub_ready" /\ me \in Tid /\ x \in Tid
      /\ th[me] \in ThreadType /\ th \in [Tid -> ThreadType]
  <2>1. th[me].pc = "ub_ready"
    BY DEF UnblockReady, At
  <2>. QED BY <2>1, WakesBack DEF IInv, Threads, WakePcs
<1>2. UNCHANGED <<pool, rq>> /\ Goto(c, "ub_add") /\ task' = [task EXCEPT ![x].state = "Ready"]
  BY DEF UnblockReady
<1>3. OnlyHere(c) /\ th'[me].pc = "ub_add" /\ th'[me].obj = x
  BY <1>1, <1>2 DEF Goto, OnlyHere, ThreadType
<1>4. task[x].state \notin Gone
  <2>1. Readying(x)
    BY <1>1 DEF Readying
  <2>2. th[x].pc # "dead"
    BY <1>1, <2>1 DEF WInv, Body, Brought, Blk, Rets
  <2>. QED BY <1>1, <2>2 DEF Orderly, Over
<1>5. /\ task'[x].state = "Ready" /\ task'[x].blocked = task[x].blocked
      /\ \A t \in Tid \ {x} : task'[t] = task[t]
  BY <1>1, <1>2 DEF IInv, Tasks, TaskType
<1>. QED BY <1>1, <1>2, <1>3, <1>4, <1>5, QuietKept DEF Gone, Shrinks

LEMMA UnblockAddKept ==
    ASSUME IInv, WInv, Modest, Masked, Orderly, NEW c \in CPU, UnblockAdd(c)
    PROVE  Orderly'
<1>. SUFFICES ASSUME NEW me, me = T(c), NEW x, x = th[me].obj PROVE Orderly'
  OBVIOUS
<1>1. th[me].pc = "ub_add" /\ me \in Tid /\ x \in Tid
      /\ th[me] \in ThreadType /\ th \in [Tid -> ThreadType]
  <2>1. th[me].pc = "ub_add"
    BY DEF UnblockAdd, At
  <2>. QED BY <2>1, WakesBack DEF IInv, Threads, WakePcs
<1>2. UNCHANGED <<task, pool>> /\ Goto(c, th[me].back) /\ Enqueues(c, x)
  BY DEF UnblockAdd, Enqueues
<1>3. OnlyHere(c)
  BY <1>1, <1>2 DEF Goto, OnlyHere
<1>4. /\ x \notin Workers /\ tid_cpu[x] = tid_cpu[me] /\ th[x].pc # "dead"
      /\ x \in Tid /\ \A d \in CPU : x \notin Range(rq[d])
  <2>1. Brings(me, x) /\ Readying(x)
    BY <1>1 DEF Brings, Readying
  <2>2. /\ x \notin Workers /\ tid_cpu[x] = tid_cpu[me]
        /\ th[x].pc \in (Blk \ {"blk_add"}) \cup Rets /\ Due(x) # 1
    BY <1>1, <2>1 DEF WInv, Body, Brought
  <2>3. th[x].pc \notin Blk
    <3>1. PICK d \in CPU : x \in pool[d]
      BY <1>1, <2>2, FoundInPool DEF Blk, Rets
    <3>. QED BY <1>1, <2>2, <3>1 DEF Masked
  <2>4. Off(x) /\ Parked(x) /\ th[x].pc # "dead"
    BY <1>1, <2>1, <2>2, <2>3 DEF WInv, Body, Off, Blk, Rets
  <2>. QED BY <1>1, <2>2, <2>4 DEF Parked
<1>5. tid_cpu[me] = c
  BY Here, PoolHome
<1>6. /\ \A d \in CPU : \A t \in Range(rq[d]) : t \in Range(rq'[d])
      /\ x \in Range(rq'[c]) /\ Distinct'
  BY <1>2, <1>4, RowGrowsOnce DEF Orderly
<1>7. Over(x)' /\ Held(x)'
  <2>1. task'[x].state \notin Gone
    BY <1>2, <1>4 DEF Orderly, Over
  <2>2. \A d \in CPU : x \in pool'[d] => d = c
    BY <1>2, <1>4, <1>5, PoolHome
  <2>. QED BY <1>6, <2>1, <2>2 DEF Over, Held
<1>8. ASSUME NEW t \in Tid \ {x} PROVE Over(t)' /\ Held(t)'
  <2>1. th[t].pc = "dead" => th'[t].pc = "dead"
    BY <1>3, NotDead DEF OnlyHere
  <2>2. Readying(t) => Readying(t)'
    BY <1>3, ReadyingKept
  <2>3. Stands(t)
    BY <1>2, <1>6, <2>1, <2>2 DEF Stands
  <2>. QED BY <1>2, <2>3, StandsHeld DEF Orderly, Shrinks
<1>. QED BY <1>6, <1>7, <1>8 DEF Orderly

\* The task itself blocks or falls asleep; nobody else is touched.
LEMMA OwnStateKept ==
    ASSUME IInv, WInv, Orderly, NEW c \in CPU, Sleep(c) \/ BlockAdd(c) \/ BlockState(c)
    PROVE  Orderly'
<1>. SUFFICES ASSUME NEW me, me = T(c) PROVE Orderly'
  OBVIOUS
<1>1. /\ me \in Tid /\ task[me] \in TaskType /\ task \in [Tid -> TaskType]
      /\ task[me].state \notin Gone
  BY Here, NotDead DEF IInv, Tasks
<1>2. OnlyHere(c)
  BY EntersWith, BlockLeads DEF Sleep, Leads
<1>3. UNCHANGED <<pool, rq>> /\ th[me].pc \in {"run", "blk_add", "blk_state"}
  BY DEF Sleep, BlockAdd, BlockState, Calling, At
<1>4. /\ \A t \in Tid \ {me} : task'[t] = task[t]
      /\ task'[me].state \notin Gone
      /\ task[me].blocked > 0 => task'[me].blocked > 0
  <2>1. CASE Sleep(c) \/ BlockState(c)
    BY <1>1, <2>1 DEF Sleep, FallAsleep, BlockState, TaskType, Gone
  <2>2. CASE BlockAdd(c)
    BY <1>1, <2>2 DEF BlockAdd, TaskType
  <2>. QED BY <2>1, <2>2
<1>. QED BY <1>1, <1>2, <1>3, <1>4, QuietKept DEF Shrinks

\* Neither do the steps that leave the queues and the pools alone lose anybody,
\* nor does the burial of the dead.
LEMMA RestKept ==
    ASSUME IInv, WInv, Modest, Orderly, NEW c \in CPU,
           \/ Wait(c) \/ Signal(c, 1) \/ Signal(c, MaxTid) \/ SignalEnd(c) \/ CallReturns(c)
           \/ UnblockMap(c) \/ UnblockRemote(c) \/ Scan(c) \/ RemoveDead(c) \/ DropJoiner(c)
           \/ DropEnd(c) \/ Fetch(c) \/ DoUnblock(c) \/ Halt(c) \/ IrqEnter(c) \/ IrqExit(c)
    PROVE  Orderly'
<1>1. /\ T(c) \in Tid /\ task \in [Tid -> TaskType]
      /\ th \in [Tid -> ThreadType] /\ th[T(c)] \in ThreadType
  BY Here DEF IInv, Tasks, Threads
<1>2. OnlyHere(c)
  <2>1. CASE Wait(c) \/ Signal(c, 1) \/ Signal(c, MaxTid)
    BY <2>1, EntersWith DEF Wait, Signal, Leads
  <2>2. CASE IrqEnter(c) \/ IrqExit(c)
    BY <2>2, InterruptLeads DEF IrqExit, OnlyHere, Leads
  <2>3. CASE ~(Wait(c) \/ Signal(c, 1) \/ Signal(c, MaxTid) \/ IrqEnter(c) \/ IrqExit(c))
    BY <2>3, KernelAlone DEF Kernel
  <2>. QED BY <2>1, <2>2, <2>3
<1>3. rq' = rq /\ Shrinks
  <2>1. CASE RemoveDead(c)
    BY <2>1 DEF RemoveDead, LeavePool, Shrinks, IInv, Pools
  <2>2. CASE ~RemoveDead(c)
    BY <2>2 DEF Shrinks, Wait, Signal, SignalEnd, CallReturns, UnblockMap, UnblockRemote, Scan,
       DropJoiner, DropEnd, Fetch, DoUnblock, Halt, IrqEnter, IrqExit
  <2>. QED BY <2>1, <2>2
<1>4. th[T(c)].pc \in {"ub_ready", "ub_add"} =>
           th'[T(c)].pc \in {"ub_ready", "ub_add"} /\ th'[T(c)].obj = th[T(c)].obj
  <2>1. CASE IrqEnter(c) \/ IrqExit(c)
    BY <1>1, <2>1 DEF IrqEnter, IrqExit, AfterInterrupt, ThreadType
  <2>2. CASE ~(IrqEnter(c) \/ IrqExit(c))
    BY <2>2 DEF Wait, Signal, SignalEnd, CallReturns, UnblockMap, UnblockRemote, Scan, RemoveDead,
       DropJoiner, DropEnd, Fetch, DoUnblock, Halt, Next_ipm, Calling, At
  <2>. QED BY <2>1, <2>2
<1>5. ASSUME NEW t \in Tid
      PROVE  /\ task'[t].state \in Gone <=> task[t].state \in Gone
             /\ task[t].blocked > 0 => task'[t].blocked > 0
  <2>1. CASE RemoveDead(c) \/ DropEnd(c)
    <3>1. task[t] \in TaskType
      BY <1>1
    <3>2. CASE RemoveDead(c)
      <4>1. task'[t] \in {task[t], [task[t] EXCEPT !.joiners = <<>>]}
        BY <1>1, <3>2 DEF RemoveDead
      <4>. QED BY <3>1, <4>1 DEF TaskType
    <3>3. CASE DropEnd(c)
      <4>1. task'[t] \in {task[t], [task[t] EXCEPT !.state = IF @ = "Terminating" THEN "Dropped"
                                                                                ELSE @]}
        BY <1>1, <3>3 DEF DropEnd
      <4>. QED BY <3>1, <4>1 DEF TaskType, Gone
    <3>. QED BY <2>1, <3>2, <3>3
  <2>2. CASE ~(RemoveDead(c) \/ DropEnd(c))
    <3>1. UNCHANGED task
      BY <2>2 DEF Wait, Signal, SignalEnd, CallReturns, UnblockMap, UnblockRemote, Scan,
         DropJoiner, Fetch, DoUnblock, Halt, IrqEnter, IrqExit
    <3>. QED BY <3>1
  <2>. QED BY <2>1, <2>2
<1>. QED BY <1>2, <1>3, <1>4, <1>5, QuietKept

LEMMA OrderlyKept ==
    ASSUME OnlyChannelsBlock, IInv, WInv, Modest, Masked, Orderly, fault' = "none", NEW c \in CPU,
           Call(c) \/ Kernel(c) \/ Handler(c) \/ IrqEnter(c) \/ Timer(c)
    PROVE  Orderly'
<1>1. CASE Call(c)
  BY <1>1, CallsLeft, OwnStateKept, ExitKept, RestKept
<1>2. CASE Kernel(c)
  BY <1>2, KernelLeft, OwnStateKept, SwitchKept, BlockRemKept, SignalKept, RestKept,
     UnblockCountKept, UnblockReadyKept, UnblockAddKept DEF Worked
<1>3. CASE Handler(c)
  BY <1>3, SignalKept, RestKept DEF Handler
<1>4. CASE IrqEnter(c) \/ Timer(c)
  BY <1>4, SwitchKept, RestKept
<1>. QED BY <1>1, <1>2, <1>3, <1>4

-----------------------------------------------------------------------------
(* Who blocks is masked                                                    *)

Step(c) == Call(c) \/ Kernel(c) \/ Handler(c) \/ IrqEnter(c) \/ Timer(c)

LEMMA StepAlone ==
    ASSUME OnlyChannelsBlock, IInv, WInv, Modest, NEW c \in CPU, Step(c)
    PROVE  OnlyHere(c)
<1>1. CASE Call(c)
  BY <1>1, CallsLeft, EntersWith, SignalLeads DEF Wait, Signal, Sleep, Leads
<1>2. CASE Kernel(c)
  BY <1>2, KernelAlone
<1>3. CASE Handler(c)
  BY <1>3 DEF Handler, IrqSignalPop, IrqExit, OnlyHere
<1>4. CASE IrqEnter(c) \/ Timer(c)
  BY <1>4, InterruptLeads DEF Leads
<1>. QED BY <1>1, <1>2, <1>3, <1>4 DEF Step

\* Where the steps of a client lead.
LEMMA ClientLeads ==
    ASSUME OnlyChannelsBlock, IInv, WInv, Modest, NEW c \in CPU, Step(c), T(c) \notin Workers
    PROVE  /\ ModestAt(th'[T(c)])
           /\ th'[T(c)].pc \in Blk =>
                \/ Wait(c) /\ ~th'[T(c)].ie /\ th'[T(c)].pc = "blk_add"
                \/ th[T(c)].pc \in Blk /\ th'[T(c)].ie = th[T(c)].ie
<1>1. /\ T(c) \in Tid /\ ModestAt(th[T(c)]) /\ Track(T(c))
  BY Here DEF Modest, WInv, Body
<1>2. CASE Call(c)
  <2>1. CASE Wait(c)
    BY <2>1, EntersWith DEF Wait, Guarded, Leads, ModestAt, ModestPcs, Blk
  <2>2. CASE Signal(c, 1) \/ Signal(c, MaxTid) \/ Sleep(c)
    BY <2>2, EntersWith DEF Signal, Sleep, Leads, ModestAt, ModestPcs, Blk
  <2>3. CASE Exit(c)
    BY <2>3, SignalLeads DEF Leads, ModestAt, ModestPcs, Blk
  <2>. QED BY <1>2, <2>1, <2>2, <2>3, CallsLeft
<1>3. CASE Kernel(c)
  <2>1. CASE BlockAdd(c) \/ BlockState(c) \/ BlockRem(c) \/ BlockInt(c)
    <3>1. th[T(c)].pc \in Blk \cup {"slp_int"}
      BY <2>1 DEF BlockAdd, BlockState, BlockRem, BlockInt, At, Blk
    <3>2. th[T(c)].back \in {"ret", "wait_ret"}
      BY <1>1, <3>1 DEF Track, ModestAt, Rets
    <3>3. PICK l \in Blk \cup {th[T(c)].back} : Leads(c, l, th[T(c)].ie, th[T(c)].back)
      BY <2>1, BlockLeads
    <3>4. th[T(c)].pc = "slp_int" => l \notin Blk
      <4>1. ASSUME th[T(c)].pc = "slp_int" PROVE th'[T(c)].pc = th[T(c)].back
        <5>1. BlockInt(c) /\ th \in [Tid -> ThreadType]
          BY <2>1, <4>1 DEF BlockAdd, BlockState, BlockRem, At, IInv, Threads
        <5>. QED BY <1>1, <5>1 DEF BlockInt
      <4>. QED BY <3>2, <3>3, <4>1 DEF Leads, Blk
    <3>. QED BY <3>1, <3>2, <3>3, <3>4 DEF Leads, ModestAt, ModestPcs, Blk
  <2>2. CASE SignalPop(c) \/ SignalEnd(c) \/ CallReturns(c)
    BY <1>1, <2>2, SignalLeads DEF Leads, ModestAt, ModestPcs, Blk
  <2>. QED BY <1>3, <2>1, <2>2, KernelLeft
<1>4. CASE Handler(c)
  BY <1>1, <1>4 DEF Handler, IrqSignalPop, IrqExit
<1>5. CASE IrqEnter(c) \/ Timer(c)
  <2>1. PICK l : /\ Leads(c, l, th[T(c)].ie, th[T(c)].back)
                 /\ l = th[T(c)].pc \/ (l = "scan" /\ th[T(c)].pc = "halt")
    BY <1>5, InterruptLeads
  <2>2. l = th[T(c)].pc
    BY <1>1, <2>1 DEF ModestAt, ModestPcs, Blk
  <2>. QED BY <1>1, <2>1, <2>2 DEF Leads, ModestAt
<1>. QED BY <1>2, <1>3, <1>4, <1>5 DEF Step

LEMMA ModestKept ==
    ASSUME OnlyChannelsBlock, IInv, WInv, Modest, NEW c \in CPU, Step(c)
    PROVE  Modest'
<1>1. ASSUME NEW t \in Tid \ Workers PROVE ModestAt(th'[t])
  <2>1. CASE t = T(c)
    BY <1>1, <2>1, ClientLeads
  <2>2. CASE t # T(c)
    BY <1>1, <2>2, StepAlone DEF OnlyHere, Modest
  <2>. QED BY <2>1, <2>2
<1>. QED BY <1>1 DEF Modest, ModestAt

\* The other CPUs' tasks are left alone.
LEMMA StepThere ==
    ASSUME OnlyChannelsBlock, IInv, WInv, Modest, NEW c \in CPU, Step(c), fault' = "none",
           NEW d \in CPU \ {c}
    PROVE  /\ curr'[d] = curr[d]
           /\ \A t \in pool[d] : task'[t].blocked = task[t].blocked
<1>. DEFINE Goal0 == /\ curr'[d] = curr[d]
                     /\ \A t \in pool[d] : task'[t].blocked = task[t].blocked
<1>1. /\ T(c) \in Tid /\ T(c) \in pool[c] /\ task \in [Tid -> TaskType] /\ rq[c] \in Seq(Nat)
      /\ curr \in [CPU -> Tid] /\ task[T(c)] \in TaskType
  BY Here DEF IInv, Tasks, Queues, Current
<1>2. \A t \in pool[d] : t \in Tid /\ tid_cpu[t] = d /\ t \notin pool[c] /\ t # T(c)
  BY <1>1, PoolHome DEF IInv, Pools
<1>3. ASSUME UNCHANGED <<curr, task>> PROVE Goal0
  BY <1>3
<1>4. ASSUME NEW tk \in [Tid -> TaskType], NEW q \in Seq(Nat), PreemptIrq(c, tk, q),
             \A t \in Tid : tk[t].blocked = task[t].blocked, fault = "none"
      PROVE  Goal0
  BY <1>2, <1>4, Switches
<1>5. ASSUME NEW x, task' = [task EXCEPT ![T(c)] = x], UNCHANGED curr PROVE Goal0
  BY <1>1, <1>2, <1>5
<1>6. CASE Call(c)
  <2>1. CASE Exit(c)
    <3>. DEFINE tk == [task EXCEPT ![T(c)].state = "Terminating"]
                x  == [task[T(c)] EXCEPT !.state = "Terminating"]
    <3>1. x \in TaskType /\ x.blocked = task[T(c)].blocked
      BY <1>1 DEF TaskType, States
    <3>2. tk = [task EXCEPT ![T(c)] = x]
      OBVIOUS
    <3>. HIDE DEF x, tk
    <3>3. tk \in [Tid -> TaskType] /\ \A t \in Tid : tk[t].blocked = task[t].blocked
      BY <1>1, <3>1, <3>2
    <3>4. RemTask(rq[c], T(c)) \in Seq(Nat)
      BY <1>1, RemTaskLeaves
    <3>5. PreemptIrq(c, tk, RemTask(rq[c], T(c))) /\ fault = "none"
      BY <2>1 DEF Exit, At, tk
    <3>. QED BY <1>4, <3>3, <3>4, <3>5
  <2>2. CASE Sleep(c)
    BY <1>5, <2>2 DEF Sleep, FallAsleep
  <2>3. CASE Wait(c) \/ Signal(c, 1) \/ Signal(c, MaxTid)
    BY <1>3, <2>3 DEF Wait, Signal
  <2>. QED BY <1>6, <2>1, <2>2, <2>3, CallsLeft
<1>7. CASE BlockInt(c) \/ Timer(c)
  <2>1. PreemptIrq(c, task, rq[c]) /\ fault = "none"
    BY <1>7 DEF BlockInt, Timer, At
  <2>. QED BY <1>1, <1>4, <2>1
<1>8. CASE BlockAdd(c) \/ BlockState(c)
  BY <1>5, <1>8 DEF BlockAdd, BlockState
<1>9. CASE BlockRem(c) \/ SignalEnd(c) \/ CallReturns(c) \/ IrqExit(c) \/ IrqEnter(c)
  BY <1>3, <1>9 DEF BlockRem, SignalEnd, CallReturns, IrqExit, IrqEnter
<1>10. CASE SignalPop(c) \/ IrqSignalPop(c)
  <2>1. waiters # <<>> /\ UNCHANGED curr /\ \E x \in Range(waiters) : PopWaiter(x) /\ UnblockAtOnce(c, x)
    BY <1>10 DEF SignalPop, IrqSignalPop
  <2>2. PICK x : x = Head(waiters) /\ waiters' = Tail(waiters) /\ UnblockAtOnce(c, x)
    BY <2>1 DEF PopWaiter
  <2>3. x \in Tid /\ InQueue \in Wakers(x)
    BY <2>1, <2>2, FirstWaiter
  <2>4. SentOn(c, x) \/ TakenOff(c, x)
    BY <2>2, <2>3, AtOnce
  <2>. QED BY <1>2, <2>1, <2>4 DEF SentOn, TakenOff
<1>11. CASE Worked(c)
  <2>1. CASE UnblockCount(c)
    <3>1. UNCHANGED curr /\ th[T(c)].obj \in pool[c] /\ th[T(c)].obj \in Tid
      BY <2>1, WakesBack DEF UnblockCount, Fault, WakePcs, At
    <3>2. PICK x : task' = [task EXCEPT ![th[T(c)].obj] = x]
      BY <2>1, <3>1 DEF UnblockCount
    <3>. QED BY <1>1, <1>2, <3>1, <3>2
  <2>2. CASE UnblockReady(c)
    <3>1. UNCHANGED curr /\ task' = [task EXCEPT ![th[T(c)].obj].state = "Ready"]
      BY <2>2 DEF UnblockReady
    <3>. QED BY <1>1, <1>2, <3>1 DEF TaskType
  <2>3. CASE RemoveDead(c)
    <3>1. UNCHANGED curr /\ task' = [task EXCEPT ![wk[c].victim].joiners = <<>>]
      BY <2>3 DEF RemoveDead
    <3>. QED BY <1>1, <1>2, <3>1 DEF TaskType
  <2>4. CASE DropEnd(c)
    <3>1. PICK s : UNCHANGED curr /\ task' = [task EXCEPT ![wk[c].victim].state = s]
      BY <2>4 DEF DropEnd
    <3>. QED BY <1>1, <1>2, <3>1 DEF TaskType
  <2>5. CASE ~(UnblockCount(c) \/ UnblockReady(c) \/ RemoveDead(c) \/ DropEnd(c))
    BY <1>3, <1>11, <2>5 DEF Worked, UnblockMap, UnblockRemote, UnblockAdd, Scan, DropJoiner,
       Fetch, DoUnblock, Halt
  <2>. QED BY <2>1, <2>2, <2>3, <2>4, <2>5
<1>12. CASE Kernel(c)
  BY <1>7, <1>8, <1>9, <1>10, <1>11, <1>12, KernelLeft
<1>13. CASE Handler(c)
  BY <1>9, <1>10, <1>13 DEF Handler
<1>. QED BY <1>6, <1>7, <1>9, <1>12, <1>13 DEF Step

LEMMA StepShrinks ==
    ASSUME OnlyChannelsBlock, IInv, WInv, Modest, NEW c \in CPU, Step(c)
    PROVE  Shrinks
<1>1. ASSUME UNCHANGED pool PROVE Shrinks
  BY <1>1 DEF Shrinks
<1>2. CASE Call(c)
  BY <1>1, <1>2, CallsLeft DEF Wait, Signal, Sleep, Exit
<1>3. CASE Kernel(c)
  <2>1. CASE RemoveDead(c)
    BY <2>1 DEF RemoveDead, LeavePool, Shrinks, IInv, Pools
  <2>2. CASE ~RemoveDead(c)
    BY <1>1, <1>3, <2>2, KernelLeft DEF Worked, BlockAdd, BlockState, BlockRem, BlockInt, SignalPop,
       SignalEnd, CallReturns, UnblockMap, UnblockRemote, UnblockCount, Fault, UnblockReady,
       UnblockAdd, Scan, DropJoiner, DropEnd, Fetch, DoUnblock, Halt
  <2>. QED BY <2>1, <2>2
<1>4. CASE Handler(c) \/ IrqEnter(c) \/ Timer(c)
  BY <1>1, <1>4 DEF Handler, IrqSignalPop, IrqExit, IrqEnter, Timer
<1>. QED BY <1>2, <1>3, <1>4 DEF Step

LEMMA StepIsOf ==
    ASSUME OnlyChannelsBlock, IInv, WInv, Modest, NEW c \in CPU, Step(c)
    PROVE  /\ holder = c => IrqSignalPop(c) \/ IrqExit(c)
           /\ holder' \in {holder, None, T(c)} \/ IrqEnter(c)
<1>1. CASE Call(c)
  <2>1. Wait(c) \/ Signal(c, 1) \/ Signal(c, MaxTid) \/ Sleep(c) \/ Exit(c)
    BY <1>1, CallsLeft
  <2>2. holder # c
    BY <2>1 DEF Wait, Signal, Sleep, Exit, Calling, At
  <2>3. holder' \in {holder, None, T(c)}
    BY <2>1 DEF Wait, Signal, Sleep, Exit, calls
  <2>. QED BY <2>2, <2>3
<1>2. CASE Kernel(c)
  <2>1. CASE BlockAdd(c) \/ BlockState(c) \/ BlockRem(c) \/ BlockInt(c) \/ SignalPop(c) \/ SignalEnd(c)
             \/ CallReturns(c)
    BY <2>1 DEF BlockAdd, BlockState, BlockRem, BlockInt, SignalPop, SignalEnd, CallReturns, At, calls
  <2>2. CASE Worked(c)
    BY <2>2 DEF Worked, UnblockMap, UnblockRemote, UnblockCount, Fault, UnblockReady, UnblockAdd, Scan,
       RemoveDead, DropJoiner, DropEnd, Fetch, DoUnblock, Halt, Next_ipm, At, calls
  <2>. QED BY <1>2, <2>1, <2>2, KernelLeft
<1>3. CASE Handler(c)
  BY <1>3 DEF Handler, IrqSignalPop, IrqExit
<1>4. CASE IrqEnter(c)
  BY <1>4, SchedAssumption DEF IrqEnter, SchedAssumption
<1>5. CASE Timer(c)
  BY <1>5 DEF Timer, calls
<1>. QED BY <1>1, <1>2, <1>3, <1>4, <1>5 DEF Step

\* The handler came, and stays, while the interrupts are on.
LEMMA HandlerKept ==
    ASSUME OnlyChannelsBlock, IInv, WInv, Modest, Masked, NEW c \in CPU, Step(c), fault' = "none",
           NEW d \in CPU, holder' = d
    PROVE  th'[curr'[d]].ie
<1>1. None \notin CPU /\ CPU \cap Tid = {} /\ T(c) \in Tid /\ th \in [Tid -> ThreadType]
  BY Here, SchedAssumption DEF SchedAssumption, IInv, Threads
<1>2. CASE d # c
  <2>1. holder = d
    BY <1>1, <1>2, StepIsOf DEF IrqEnter
  <2>2. th[curr[d]].ie /\ curr'[d] = curr[d] /\ curr[d] \in pool[d]
    BY <1>2, <2>1, StepThere DEF Masked, IInv, Current
  <2>3. curr[d] \in Tid /\ curr[d] # T(c)
    BY <1>2, <2>2, Here DEF IInv, Pools
  <2>. QED BY <2>2, <2>3, StepAlone DEF OnlyHere
<1>3. CASE d = c
  <2>1. CASE IrqEnter(c)
    <3>1. th[T(c)].ie /\ curr' = curr
      BY <2>1 DEF IrqEnter
    <3>2. \E l : Leads(c, l, th[T(c)].ie, th[T(c)].back)
      BY <2>1, InterruptLeads
    <3>. QED BY <1>3, <3>1, <3>2 DEF Leads, T
  <2>2. CASE ~IrqEnter(c)
    <3>1. holder = c
      BY <1>1, <1>3, <2>2, StepIsOf
    <3>2. IrqSignalPop(c) \/ IrqExit(c)
      BY <3>1, StepIsOf
    <3>3. UNCHANGED <<th, curr>>
      BY <3>2 DEF IrqSignalPop, IrqExit
    <3>. QED BY <1>3, <3>1, <3>3 DEF Masked
  <2>. QED BY <2>1, <2>2
<1>. QED BY <1>2, <1>3

LEMMA BlocksOn ==
    ASSUME OnlyChannelsBlock, IInv, WInv, Modest, Masked, NEW c \in CPU, Step(c),
           NEW me, me = T(c), me \notin Workers, th[me].pc \in Blk
    PROVE  BlockAdd(c) \/ BlockState(c) \/ BlockRem(c) \/ BlockInt(c)
<1>1. ~th[T(c)].ie /\ holder # c
  BY Here DEF Masked, T
<1>2. ~Call(c)
  <2>1. SUFFICES ASSUME Call(c) PROVE FALSE
    OBVIOUS
  <2>2. Wait(c) \/ Signal(c, 1) \/ Signal(c, MaxTid) \/ Sleep(c) \/ Exit(c)
    BY <2>1, CallsLeft
  <2>. QED BY <2>2 DEF Wait, Signal, Sleep, Exit, Calling, At, Blk
<1>3. ~Handler(c) /\ ~IrqEnter(c) /\ ~Timer(c)
  BY <1>1 DEF Handler, IrqSignalPop, IrqExit, IrqEnter, Timer
<1>4. ~SignalPop(c) /\ ~SignalEnd(c) /\ ~CallReturns(c)
  BY DEF SignalPop, SignalEnd, CallReturns, At, Blk
<1>. QED BY <1>2, <1>3, <1>4, KernelLeft DEF Step

\* A client that blocks.
LEMMA OwnMasked ==
    ASSUME OnlyChannelsBlock, IInv, WInv, Modest, Masked, NEW c \in CPU, Step(c),
           NEW me, me = T(c), me \notin Workers, th'[me].pc \in Blk
    PROVE  ~th'[me].ie /\ curr'[c] = me /\ Due(me)' = 1
<1>1. /\ me \in Tid /\ me \in pool[c] /\ curr[c] = me /\ task \in [Tid -> TaskType]
      /\ th \in [Tid -> ThreadType] /\ task[me] \in TaskType /\ task[me].blocked \in Int
  BY Here DEF T, IInv, Tasks, Threads, TaskType
<1>2. CASE Wait(c)
  <2>1. th[me].pc = "run" /\ UNCHANGED <<task, curr>>
    BY <1>2 DEF Wait, Calling, At
  <2>2. task[me].blocked = 0
    BY <2>1, Resting DEF Blk
  <2>3. th'[me].pc = "blk_add" /\ ~th'[me].ie
    BY <1>2, EntersWith DEF Wait, Guarded, Leads
  <2>. QED BY <1>1, <2>1, <2>2, <2>3 DEF Due, Owed
<1>3. CASE ~Wait(c)
  <2>1. th[me].pc \in Blk /\ th'[me].ie = th[me].ie
    BY <1>3, ClientLeads
  <2>2. ~th[me].ie /\ Due(me) = 1
    BY <1>1, <2>1 DEF Masked
  <2>3. CASE BlockAdd(c)
    <3>1. /\ th[me].pc = "blk_add" /\ UNCHANGED curr
          /\ task' = [task EXCEPT ![me].blocked = @ + 1]
          /\ th' = [th EXCEPT ![me].pc = IF EarlyUnblock(task[me].blocked) THEN th[me].back
                                                                          ELSE "blk_state"]
      BY <2>3 DEF BlockAdd, At
    <3>2. task[me].blocked + 1 = 1
      BY <2>2, <3>1 DEF Due, Owed
    <3>3. task[me].blocked = 0
      BY <1>1, <3>2
    <3>4. th'[me].pc = "blk_state"
      BY <1>1, <3>1, <3>3 DEF EarlyUnblock, ThreadType
    <3>5. task'[me].blocked = 1
      BY <1>1, <3>1, <3>3 DEF TaskType
    <3>. QED BY <1>1, <2>1, <2>2, <3>1, <3>4, <3>5 DEF Due, Owed
  <2>4. CASE BlockState(c)
    <3>1. /\ th[me].pc = "blk_state" /\ UNCHANGED curr /\ th'[me].pc = "blk_rem"
          /\ task'[me].blocked = task[me].blocked
      BY <1>1, <2>4 DEF BlockState, At, Goto, TaskType, ThreadType
    <3>. QED BY <1>1, <2>1, <2>2, <3>1 DEF Due, Owed
  <2>5. CASE BlockRem(c)
    <3>1. /\ th[me].pc = "blk_rem" /\ UNCHANGED <<curr, task>> /\ th'[me].pc = "blk_int"
      BY <1>1, <2>5 DEF BlockRem, At, Goto, ThreadType
    <3>. QED BY <1>1, <2>1, <2>2, <3>1 DEF Due, Owed
  <2>6. CASE BlockInt(c)
    <3>1. th'[me].pc = th[me].back
      BY <1>1, <2>6 DEF BlockInt, ThreadType
    <3>2. th[me].back \in Rets
      BY <1>1, <2>1 DEF WInv, Body, Track
    <3>. QED BY <3>1, <3>2 DEF Rets, Blk
  <2>. QED BY <2>1, <2>3, <2>4, <2>5, <2>6, BlocksOn
<1>. QED BY <1>2, <1>3

LEMMA MaskedKept ==
    ASSUME OnlyChannelsBlock, IInv, WInv, Modest, Masked, NEW c \in CPU, Step(c), fault' = "none"
    PROVE  Masked'
<1>. SUFFICES ASSUME NEW me, me = T(c) PROVE Masked'
  OBVIOUS
<1>1. me \in pool[c] /\ me \in Tid
  BY Here
<1>2. ASSUME NEW d \in CPU, NEW t \in pool'[d] \ Workers, th'[t].pc \in Blk
      PROVE  ~th'[t].ie /\ curr'[d] = t /\ Due(t)' = 1
  <2>1. t \in pool[d] /\ t \in Tid /\ tid_cpu[t] = d
    <3>1. t \in pool[d]
      BY <1>2, StepShrinks DEF Shrinks
    <3>. QED BY <3>1, PoolHome
  <2>2. CASE t = me
    <3>1. d = c
      BY <1>1, <2>1, <2>2 DEF IInv, Pools
    <3>. QED BY <1>2, <2>2, <3>1, OwnMasked
  <2>3. CASE t # me
    <3>1. th'[t] = th[t]
      BY <2>1, <2>3, StepAlone DEF OnlyHere
    <3>2. ~th[t].ie /\ curr[d] = t /\ Due(t) = 1
      BY <1>2, <2>1, <3>1 DEF Masked
    <3>3. d # c
      BY <2>3, <3>2 DEF T
    <3>4. curr'[d] = curr[d] /\ task'[t].blocked = task[t].blocked
      BY <2>1, <3>3, StepThere
    <3>. QED BY <3>1, <3>2, <3>4 DEF Due
  <2>. QED BY <2>2, <2>3
<1>3. ASSUME NEW d \in CPU, holder' = d PROVE th'[curr'[d]].ie
  BY <1>3, HandlerKept
<1>. QED BY <1>2, <1>3 DEF Masked

-----------------------------------------------------------------------------
(* The invariant of these tasks                                            *)

Settled == Modest /\ Masked /\ Orderly

\* What neither calls nor switches leaves the scheduler as it is.
LEMMA SettledStays ==
    ASSUME Settled, UNCHANGED <<task, th, pool, rq, curr, holder>>
    PROVE  Settled'
<1>1. Modest' /\ Masked'
  BY DEF Settled, Modest, Masked, Due
<1>2. \A t \in Tid : Over(t)' /\ Held(t)'
  BY DEF Settled, Orderly, Over, Held, Readying
<1>3. Distinct'
  BY DEF Settled, Orderly, Distinct
<1>. QED BY <1>1, <1>2, <1>3 DEF Settled, Orderly

LEMMA InitSettled ==
    ASSUME Init
    PROVE  Settled
<1>1. /\ IInv /\ holder = None /\ None \notin CPU
      /\ \A c \in CPU : rq[c] = Sorted(pool[c]) /\ pool[c] \in SUBSET Tid
  BY Starts, SchedAssumption DEF Init, IInv, Pools, SchedAssumption
<1>2. \A t \in Tid : /\ task[t].state \in {"New", "Running", "Ready"}
                     /\ t \notin Workers => th[t].pc = "run" /\ th[t].back = "run"
  BY DEF Init, NewTask, Client, Thread0
<1>3. Modest
  BY <1>2 DEF Modest, ModestAt, ModestPcs
<1>4. Masked
  BY <1>1, <1>2 DEF Masked, Blk
<1>5. Distinct
  BY <1>1, SortedOnce DEF Distinct
<1>6. \A t \in Tid : Over(t) /\ Held(t)
  BY <1>1, <1>2, SortedHolds DEF Over, Held, Gone
<1>. QED BY <1>3, <1>4, <1>5, <1>6 DEF Settled, Orderly

LEMMA NextSettled ==
    ASSUME OnlyChannelsBlock, IInv, WInv, Settled, fault' = "none", [Next]_vars
    PROVE  Settled'
<1>1. CASE UNCHANGED vars
  BY <1>1, SettledStays DEF vars, calls
<1>2. ASSUME NEW t \in Tid, TimePasses(t) PROVE Settled'
  BY <1>2, SettledStays DEF TimePasses, calls
<1>3. ASSUME NEW c \in CPU, Step(c) PROVE Settled'
  BY <1>3, ModestKept, MaskedKept, OrderlyKept DEF Settled, Step
<1>. QED BY <1>1, <1>2, <1>3 DEF Next, Step

\* Such tasks create and move none, so nothing stops the kernel.
LEMMA NothingStopsChannels ==
    ASSUME OnlyChannelsBlock
    PROVE  NoMigration /\ SpawnersMasked
  BY DEF OnlyChannelsBlock, NoMigration, SpawnersMasked

LEMMA ChannelsSettle ==
    ASSUME OnlyChannelsBlock
    PROVE  Spec => [](IInv /\ WInv /\ Settled)
<1>1. NoMigration /\ SpawnersMasked
  BY NothingStopsChannels
<1>2. Spec => [](fault = "none" => WInv)
  BY <1>1, WakesAreAccounted
<1>3. Spec => []NoPanic
  BY <1>1, NothingStopsTheKernel
<1>4. Init => Settled
  BY InitSettled
<1>5. IInv /\ (fault = "none" => WInv) /\ NoPanic /\ NoPanic' /\ Settled /\ [Next]_vars => Settled'
  BY NextSettled DEF NoPanic
<1>6. (fault = "none" => WInv) /\ NoPanic => WInv
  BY DEF NoPanic
<1>. QED BY <1>2, <1>3, <1>4, <1>5, <1>6, Invariance, PTL DEF Spec

\* The run queues of tasks that block on wait channels hold tasks of their own
\* CPU, each once, and its worker: add_task, rem_task and preempt_irq.
THEOREM QueuesAreSound ==
    ASSUME OnlyChannelsBlock
    PROVE  Spec => []QueueSound
<1>1. IInv /\ WInv /\ Settled => QueueSound
  <2>. SUFFICES ASSUME IInv, WInv, Settled, NEW c \in CPU
                PROVE  /\ IsInjective(rq[c])
                       /\ Range(rq[c]) \subseteq pool[c]
                       /\ Worker[c] \in Range(rq[c])
    BY DEF QueueSound
  <2>1. IsInjective(rq[c]) /\ Worker[c] \in Range(rq[c])
    BY DEF Settled, Orderly, Distinct, IInv, Queues
  <2>2. \A t \in Range(rq[c]) : t \in pool[c]
    BY QueuedAtHome
  <2>. QED BY <2>1, <2>2
<1>. QED BY <1>1, ChannelsSettle, PTL

\* However their blocks, wake-ups, sleeps and exits race on any number of
\* CPUs, a task that is off its run queue has exited, is being put there, or
\* is blocked: block_task and unblock_task lose none.
THEOREM NoTaskIsLost ==
    ASSUME OnlyChannelsBlock
    PROVE  Spec => []NoTaskLost
<1>1. IInv /\ WInv /\ Settled => NoTaskLost
  <2>. SUFFICES ASSUME IInv, WInv, Settled, NEW c \in CPU, NEW t \in pool[c] \ Range(rq[c])
                PROVE  \/ task[t].state \in {"Terminating", "Dropped"}
                       \/ Readying(t) \/ Creating(t)
                       \/ task[t].blocked > 0
    BY DEF NoTaskLost
  <2>1. t \in Tid
    BY DEF IInv, Pools
  <2>. QED BY <2>1 DEF Settled, Orderly, Held, Gone
<1>. QED BY <1>1, ChannelsSettle, PTL
=============================================================================
