---------------------------- MODULE SchedProofs ----------------------------
(***************************************************************************)
(* Proofs about the scheduler, for any number of CPUs and tasks, any calls *)
(* and any number of interrupts: however calls, migrations and exits race, *)
(* a task is in one place.  At the end what SchedWakeProofs builds on: the *)
(* accounts of blocks and unblocks, what becomes of messages, and that     *)
(* the steps that move no unblock keep the accounts.                       *)
(***************************************************************************)
EXTENDS Sched, FiniteSetTheorems, SequenceTheorems, WellFoundedInduction, TLAPS

-----------------------------------------------------------------------------
(* Threads                                                                 *)

\* Where the worker's own code, a creation, an unblock and a call may be.
WorkPcs == {"scan", "remove", "drop", "move_out", "mv_lb", "mv_send", "fetch", "ipm",
            "mv_map", "answer", "halt"}
MakePcs == {"cr_new", "cr_pool", "cr_map", "cr_add", "cr_ready", "cr_lb"}
WakePcs == {"ub_map", "ub_cpu", "ub_ready", "ub_add"}
Backs   == {"run", "ret", "wait_ret", "joined", "join_ans", "join_poll", "spawn_ret"}
CallPcs == Backs \cup {"dead", "sig", "blk_add", "blk_state", "blk_rem", "blk_int",
                       "slp_int", "join_pool", "join_ask"}
Pcs     == WorkPcs \cup MakePcs \cup WakePcs \cup CallPcs

\* Where a thread has a task that the map is not told of yet, and one that it
\* makes ready or puts in the run queue.
TellPcs == {"cr_pool", "cr_map", "mv_map"}
AddPcs  == {"cr_add", "cr_ready", "ub_ready", "ub_add"}

Place  == CPU \cup {None}
States == {"New", "Ready", "Running", "Blocked", "Sleeping", "Migrating",
           "Terminating", "Dropped"}

TaskType   == [state : States, cpu : Place, blocked : Int, joiners : Seq(Tid),
               ret : Nat]
ThreadType == [pc : Pcs, ie : BOOLEAN, back : Pcs, obj : Nat, arg : Place,
               left : Int]

\* Workers run the worker's code, the others calls, and an unblock, a join or
\* a creation has a task to be about.
Sound(t, r) ==
    /\ r \in ThreadType
    /\ t \in Workers =>
        /\ r.pc \in WorkPcs \cup MakePcs \cup WakePcs
        /\ r.pc \in MakePcs => r.back = "answer"
        /\ r.pc \in WakePcs => r.back \in {"ipm", "drop"}
    /\ t \notin Workers => r.pc \notin WorkPcs /\ r.back \in Backs
    /\ r.pc \in WakePcs \cup {"join_pool", "join_ask", "mv_map"} => r.obj \in Tid
    /\ r.pc \in MakePcs \ {"cr_new"} => r.obj \in Tid /\ r.arg \in CPU
    /\ r.pc \in AddPcs => r.obj \in known

Threads == th \in [Tid -> ThreadType] /\ \A t \in Tid : Sound(t, th[t])

-----------------------------------------------------------------------------
(* Messages                                                                *)

Message ==
    [dest : Place, kind : {"MoveTask", "Unblock", "CreateTask", "RespondAndUnblock"},
     tid : Tid, from : CPU, val : Nat]
    \cup [dest : Place, kind : {"AddJoiner"}, tid : Tid, from : CPU, val : Tid]
WorkType == [inbox : Seq(Message), todo : Seq(Tid), victim : Nat]

\* The shared queue and the messages that each worker took.
Box(x)     == IF x = None THEN mq ELSE wk[x].inbox
Move(x, i) == i \in DOMAIN Box(x) /\ Box(x)[i].kind = "MoveTask"
Travels(t) == \E x \in Place : \E i \in Nat : Move(x, i) /\ Box(x)[i].tid = t

-----------------------------------------------------------------------------
(* The inductive invariant                                                 *)

\* Nobody has made anything of a task that is not known yet.
Tasks   == /\ task \in [Tid -> TaskType]
           /\ \A c \in CPU : task[Worker[c]].state \notin {"Terminating", "Migrating"}
           /\ \A t \in Tid \ known : task[t].state = "New" /\ task[t].blocked <= 0
Queues  == /\ rq \in [CPU -> Seq(Nat)]
           /\ \A c \in CPU : Worker[c] \in Range(rq[c]) /\ Range(rq[c]) \subseteq known
Current == /\ curr \in [CPU -> Tid]
           /\ \A c \in CPU : curr[c] \in pool[c] /\ curr[c] \in known
                            /\ Worker[c] \in pool[c]
Lists   == waiters \in Seq(Tid) /\ ioq \in Seq(Tid)

\* A known task has a number that was handed out; one that is being created
\* has its own.
Fresh(u) == th[u].pc \in {"cr_pool", "cr_map"}
Numbers == /\ next_tid \in Nat \ {0} /\ known \in SUBSET Tid
           /\ \A t \in known : t < next_tid
           /\ \A u \in Tid : Fresh(u) =>
                /\ th[u].obj \notin known /\ th[u].obj < next_tid
                /\ \A v \in Tid : Fresh(v) /\ th[v].obj = th[u].obj => u = v
           /\ \A u \in Tid \ known : th[u].pc = "run"

\* Who is in a pool is in no other, with no message about it, and the map's
\* word for it or a thread on its way to tell the map.
Tells(l, c, t) == \E u \in Tid : th[u].pc = l /\ th[u].obj = t /\ th[u].arg = c
Pools == /\ pool \in [CPU -> SUBSET Tid] /\ tid_cpu \in [Tid -> Place]
         /\ \A c \in CPU : \A t \in pool[c] :
              /\ ~Travels(t) /\ \A d \in CPU : t \in pool[d] => c = d
              /\ IF t \in known THEN tid_cpu[t] = c \/ Tells("mv_map", c, t)
                                ELSE Tells("cr_map", c, t)

\* The worker that has to tell the map of a task has it in its pool.
Movers ==
    \A c \in CPU : LET r == th[Worker[c]] IN
        r.pc = "mv_map" => r.arg = c /\ r.obj \in pool[c] /\ r.obj \in known

\* A task travels in one message.
Moves == /\ mq \in Seq(Message) /\ wk \in [CPU -> WorkType]
         /\ \A x \in Place : \A i \in Nat : Move(x, i) =>
              /\ Box(x)[i].tid \in known
              /\ \A y \in Place : \A j \in Nat :
                   Move(y, j) /\ Box(y)[j].tid = Box(x)[i].tid => x = y /\ i = j

\* The worker's victim is still in its pool before it is taken out, and
\* nowhere from then on until TID_CPU_MAP forgets it or it is sent.
Holds(r)  == r.pc \in {"remove", "move_out"}
Buries(r) == r.pc \in {"drop", "mv_lb", "mv_send"} \/ (r.pc \in WakePcs /\ r.back = "drop")
Victims ==
    \A c \in CPU :
        LET v == wk[c].victim IN
        /\ Holds(th[Worker[c]]) => v \in pool[c] \ {Worker[c]} /\ v \in known
        /\ Buries(th[Worker[c]]) =>
             /\ v \in Tid /\ v \in known /\ ~Travels(v)
             /\ \A d \in CPU : /\ v \notin pool[d]
                               /\ Buries(th[Worker[d]]) /\ wk[d].victim = v => c = d

\* A worker that creates a task has the message that asked for it.
Serves(r) == r.pc \in MakePcs \cup {"answer"}
Served    == \A c \in CPU : Serves(th[Worker[c]]) => wk[c].inbox # <<>>

IInv == /\ Tasks /\ Threads /\ Queues /\ Current /\ Lists
        /\ Numbers /\ Pools /\ Movers /\ Moves /\ Victims /\ Served

-----------------------------------------------------------------------------
(* Numbers in their order                                                  *)

\* How many numbers of a set are less ranks the numbers.
LEMMA RanksAreAll ==
    ASSUME NEW S \in SUBSET Nat, IsFiniteSet(S), NEW r,
           r = [f \in S |-> Cardinality({g \in S : g < f})]
    PROVE  /\ Cardinality(S) \in Nat
           /\ \A f, g \in S : r[f] = r[g] => f = g
           /\ \A f \in S : r[f] \in 0 .. (Cardinality(S) - 1)
           /\ \A i \in 0 .. (Cardinality(S) - 1) : \E f \in S : r[f] = i
<1>. DEFINE B(f) == {g \in S : g < f}
            n    == Cardinality(S)
            U    == 0 .. (n - 1)
<1>1. \A f : IsFiniteSet(B(f)) /\ Cardinality(B(f)) \in Nat
  BY FS_Subset, FS_CardinalityType
<1>2. ASSUME NEW f \in S, NEW g \in S, f < g
      PROVE  Cardinality(B(f)) < Cardinality(B(g))
  <2>1. f \notin B(f) /\ B(f) \cup {f} \subseteq B(g)
    <3>1. f \in Int /\ g \in Int /\ \A h \in S : h \in Int
      OBVIOUS
    <3>2. \A h \in S : h < f => h < g
      BY <1>2, <3>1
    <3>3. ~(f < f)
      BY <3>1
    <3>. QED BY <1>2, <3>2, <3>3, Zenon
  <2>. HIDE DEF B
  <2>2. Cardinality(B(f) \cup {f}) = Cardinality(B(f)) + 1
    BY <1>1, <2>1, FS_AddElement
  <2>3. Cardinality(B(f) \cup {f}) <= Cardinality(B(g))
    BY <1>1, <2>1, FS_Subset
  <2>. QED BY <1>1, <2>2, <2>3
<1>3. ASSUME NEW f \in S PROVE Cardinality(B(f)) < Cardinality(S)
  <2>1. B(f) \subseteq S \ {f}
    OBVIOUS
  <2>. HIDE DEF B
  <2>2. IsFiniteSet(S \ {f}) /\ Cardinality(S \ {f}) = Cardinality(S) - 1
    BY FS_RemoveElement
  <2>3. Cardinality(B(f)) <= Cardinality(S \ {f})
    BY <2>1, <2>2, FS_Subset
  <2>. QED BY <1>1, <2>2, <2>3, FS_CardinalityType
<1>4. r = [f \in S |-> Cardinality(B(f))]
  OBVIOUS
<1>. HIDE DEF B
<1>5. ASSUME NEW f \in S, NEW g \in S, r[f] = r[g] PROVE f = g
  <2>1. f \in Int /\ g \in Int
    OBVIOUS
  <2>2. CASE f < g
    BY <1>1, <1>2, <1>4, <1>5, <2>2
  <2>3. CASE g < f
    BY <1>1, <1>2, <1>4, <1>5, <2>3
  <2>. QED BY <2>1, <2>2, <2>3
<1>6. n \in Nat
  BY FS_CardinalityType
<1>7. r \in [S -> U]
  <2>1. ASSUME NEW f \in S PROVE Cardinality(B(f)) \in U
    <3>1. Cardinality(B(f)) \in Nat /\ Cardinality(B(f)) < n
      BY <1>1, <1>3
    <3>. HIDE DEF n
    <3>. QED BY <1>6, <3>1
  <2>. QED BY <1>4, <2>1, Zenon
<1>8. IsFiniteSet(U) /\ Cardinality(U) = n
  <2>. HIDE DEF n
  <2>1. 0 \in Int /\ n - 1 \in Int /\ (IF 0 > n - 1 THEN 0 ELSE n - 1 - 0 + 1) = n
    BY <1>6
  <2>2. /\ IsFiniteSet(U)
        /\ Cardinality(U) = IF 0 > n - 1 THEN 0 ELSE n - 1 - 0 + 1
    BY <2>1, FS_Interval, Zenon
  <2>. QED BY <2>1, <2>2
<1>. HIDE DEF n, U
<1>9. r \in Injection(S, U)
  BY <1>5, <1>7 DEF Injection, IsInjective
<1>10. r \in Surjection(S, U)
  BY <1>8, <1>9, FS_Injection DEF n
<1>. QED BY <1>5, <1>6, <1>7, <1>10 DEF Surjection, n, U

\* Nth counts a finite set of numbers without a gap.
LEMMA NthCounts ==
    ASSUME NEW S \in SUBSET Nat, IsFiniteSet(S)
    PROVE  /\ Cardinality(S) \in Nat
           /\ \A k \in 1 .. Cardinality(S) : Nth(S, k) \in S
           /\ \A k, l \in 1 .. Cardinality(S) : Nth(S, k) = Nth(S, l) => k = l
           /\ \A i \in S : \E k \in 1 .. Cardinality(S) : Nth(S, k) = i
<1>. DEFINE r == [f \in S |-> Cardinality({g \in S : g < f})]
            n == Cardinality(S)
<1>0. r = [f \in S |-> Cardinality({g \in S : g < f})]
  OBVIOUS
<1>2. ASSUME NEW k PROVE Nth(S, k) = CHOOSE f \in S : r[f] = k - 1
  <2>1. \A f \in S : r[f] = Cardinality({g \in S : g < f})
    BY <1>0
  <2>. HIDE DEF r
  <2>. QED BY <2>1 DEF Nth
<1>. HIDE DEF r
<1>1. /\ n \in Nat
      /\ \A f, g \in S : r[f] = r[g] => f = g
      /\ \A f \in S : r[f] \in 0 .. (n - 1)
      /\ \A i \in 0 .. (n - 1) : \E f \in S : r[f] = i
  BY <1>0, RanksAreAll
<1>. HIDE DEF n
<1>3. ASSUME NEW k \in 1 .. n PROVE Nth(S, k) \in S /\ r[Nth(S, k)] = k - 1
  <2>1. k - 1 \in 0 .. (n - 1)
    BY <1>1
  <2>2. \E f \in S : r[f] = k - 1
    BY <1>1, <2>1
  <2>. QED BY <1>2, <2>2
<1>4. ASSUME NEW i \in S PROVE \E k \in 1 .. n : Nth(S, k) = i
  <2>1. r[i] + 1 \in 1 .. n /\ (r[i] + 1) - 1 = r[i]
    BY <1>1
  <2>2. Nth(S, r[i] + 1) = i
    BY <1>1, <1>3, <2>1
  <2>. QED BY <2>1, <2>2
<1>5. ASSUME NEW k \in 1 .. n, NEW l \in 1 .. n, Nth(S, k) = Nth(S, l) PROVE k = l
  BY <1>1, <1>3, <1>5
<1>. QED BY <1>1, <1>3, <1>4, <1>5 DEF n

\* What Kept keeps: the elements at the indices, each once.
Keeps(w, s, I, e) ==
    /\ e \in [DOMAIN w -> I]
    /\ \A k \in DOMAIN w : w[k] = s[e[k]]
    /\ \A k, l \in DOMAIN w : e[k] = e[l] => k = l
    /\ \A i \in I : \E k \in DOMAIN w : e[k] = i

LEMMA KeptKeeps ==
    ASSUME NEW D, NEW s \in Seq(D), NEW I \in SUBSET DOMAIN s
    PROVE  /\ Kept(s, I) \in Seq(D)
           /\ \E e : Keeps(Kept(s, I), s, I, e)
<1>1. DOMAIN s = 1 .. Len(s) /\ Len(s) \in Nat
  OBVIOUS
<1>2. I \in SUBSET Nat /\ IsFiniteSet(I)
  <2>1. IsFiniteSet(1 .. Len(s))
    BY <1>1, FS_Interval
  <2>. QED BY <1>1, <2>1, FS_Subset
<1>. DEFINE n == Cardinality(I)
            e == [k \in 1 .. n |-> Nth(I, k)]
            w == Kept(s, I)
<1>3. /\ n \in Nat /\ e \in [1 .. n -> I]
      /\ \A k, l \in 1 .. n : e[k] = e[l] => k = l
      /\ \A i \in I : \E k \in 1 .. n : e[k] = i
  BY <1>2, NthCounts
<1>4. w = [k \in 1 .. n |-> s[e[k]]]
  BY DEF Kept
<1>. HIDE DEF n, e, w
<1>5. \A k \in 1 .. n : s[e[k]] \in D
  BY <1>1, <1>3
<1>6. w \in [1 .. n -> D] /\ DOMAIN w = 1 .. n
  BY <1>4, <1>5
<1>7. w \in Seq(D)
  BY <1>3, <1>6, SeqDef
<1>8. Keeps(w, s, I, e)
  BY <1>3, <1>4, <1>6 DEF Keeps
<1>. QED BY <1>7, <1>8 DEF w

\* rem_task leaves every other task in the queue.
LEMMA RemTaskLeaves ==
    ASSUME NEW q \in Seq(Nat), NEW t
    PROVE  /\ RemTask(q, t) \in Seq(Nat)
           /\ \A u \in Range(q) : u # t => u \in Range(RemTask(q, t))
           /\ Range(RemTask(q, t)) \subseteq Range(q)
<1>. DEFINE I == {i \in DOMAIN q : q[i] # t}
            w == Kept(q, I)
<1>1. w = RemTask(q, t)
  BY DEF RemTask
<1>0. I \in SUBSET DOMAIN q /\ \A i \in DOMAIN q : i \in I <=> q[i] # t
  OBVIOUS
<1>. HIDE DEF I
<1>2. w \in Seq(Nat) /\ \E e : Keeps(w, q, I, e)
  BY <1>0, KeptKeeps
<1>. HIDE DEF w
<1>3. PICK e : /\ e \in [DOMAIN w -> I] /\ \A k \in DOMAIN w : w[k] = q[e[k]]
               /\ \A i \in I : \E k \in DOMAIN w : e[k] = i
  BY <1>2 DEF Keeps
<1>5. Range(w) \subseteq Range(q)
  BY <1>0, <1>3 DEF Range
<1>4. ASSUME NEW u \in Range(q), u # t PROVE u \in Range(w)
  <2>1. PICK i \in DOMAIN q : q[i] = u
    BY DEF Range
  <2>2. PICK k \in DOMAIN w : e[k] = i
    BY <1>0, <1>3, <1>4, <2>1
  <2>. QED BY <1>3, <2>1, <2>2 DEF Range
<1>. QED BY <1>1, <1>2, <1>4, <1>5

\* A least number, and a greatest one of a bounded set.
LEMMA LeastOf ==
    ASSUME NEW S \in SUBSET Nat, S # {}
    PROVE  Min(S) \in S
<1>1. \E x \in S : \A y \in S : ~(<<y, x>> \in OpToRel(<, Nat))
  BY NatLessThanWellFounded, WFMin, Zenon
<1>2. ASSUME NEW x \in S, NEW y \in S, y < x
      PROVE  <<y, x>> \in OpToRel(<, Nat)
  BY <1>2 DEF OpToRel
<1>3. \E x \in S : \A y \in S : ~(y < x)
  BY <1>1, <1>2, Zenon
<1>4. \E x \in S : \A y \in S : x <= y
  BY <1>3
<1>. QED BY <1>4 DEF Min

LEMMA GreatestOf ==
    ASSUME NEW n \in Nat, NEW S \in SUBSET (1 .. n), S # {}
    PROVE  Max(S) \in S
<1>. DEFINE U == {k \in Nat : n - k \in S}
<1>0. \A x \in S : x \in Int /\ n - x \in Nat /\ n - (n - x) = x
  OBVIOUS
<1>1. U \in SUBSET Nat /\ U # {}
  <2>1. PICK x \in S : TRUE
    OBVIOUS
  <2>2. n - x \in U
    BY <1>0
  <2>. QED BY <2>2
<1>2. \A k \in U : n - k \in S
  OBVIOUS
<1>3. \A x \in S : n - x \in U
  BY <1>0
<1>. HIDE DEF U
<1>4. PICK u \in U : \A y \in U : ~(<<y, u>> \in OpToRel(<, Nat))
  BY <1>1, NatLessThanWellFounded, WFMin, Zenon
<1>5. ASSUME NEW y \in U PROVE u <= y
  <2>1. u \in Nat /\ y \in Nat
    BY <1>1
  <2>2. ~(y < u)
    BY <1>4, <2>1 DEF OpToRel
  <2>. QED BY <2>1, <2>2
<1>6. ASSUME NEW y \in S PROVE y <= n - u
  <2>1. n - y \in U /\ u <= n - y /\ u \in Int /\ y \in Int /\ n \in Int
    BY <1>0, <1>1, <1>3, <1>5
  <2>2. \A a, b, d \in Int : a <= d - b => b <= d - a
    OBVIOUS
  <2>. QED BY <2>1, <2>2
<1>7. \E z \in S : \A y \in S : z >= y
  <2>1. \A y \in S : n - u >= y
    BY <1>0, <1>1, <1>6
  <2>. QED BY <1>2, <2>1
<1>. QED BY <1>7 DEF Max

-----------------------------------------------------------------------------
(* What a step leaves alone                                                *)

\* The running task, and when it is the CPU's worker.
LEMMA Here ==
    ASSUME IInv, NEW c \in CPU
    PROVE  /\ T(c) \in Tid /\ T(c) \in pool[c] /\ T(c) \in known /\ c \in Place
           /\ Worker[c] \in Tid /\ Worker[c] \in Workers
           /\ task[T(c)] \in TaskType
           /\ th[T(c)] \in ThreadType /\ Sound(T(c), th[T(c)])
           /\ T(c) \in Workers => T(c) = Worker[c]
           /\ th[T(c)].pc \in WorkPcs => T(c) = Worker[c]
<1>1. T(c) \in Tid /\ T(c) \in pool[c] /\ T(c) \in known /\ Worker[c] \in Tid /\ c \in Place
  BY SchedAssumption DEF IInv, Current, T, SchedAssumption, Place
<1>2. task[T(c)] \in TaskType /\ Sound(T(c), th[T(c)]) /\ th[T(c)] \in ThreadType
  BY <1>1 DEF IInv, Tasks, Threads
<1>3. \A d \in CPU : T(c) = Worker[d] => c = d
  BY <1>1 DEF IInv, Current, Pools
<1>4. Worker[c] \in Workers /\ (T(c) \in Workers => T(c) = Worker[c])
  BY <1>3 DEF Workers
<1>5. th[T(c)].pc \in WorkPcs => T(c) \in Workers
  BY <1>2 DEF Sound
<1>. QED BY <1>1, <1>2, <1>4, <1>5

LEMMA Undisturbed ==
    ASSUME IInv, UNCHANGED ids
    PROVE  /\ UNCHANGED task => Tasks'
           /\ UNCHANGED rq => Queues'
           /\ UNCHANGED <<curr, pool>> => Current'
           /\ UNCHANGED <<waiters, ioq>> => Lists'
           /\ UNCHANGED th => Threads'
  BY DEF IInv, Tasks, Queues, Current, Lists, Threads, Sound, ids

\* No message about a move is made, and none is doubled.
Carried == Moves' /\ \A t \in Tid : Travels(t)' => Travels(t)

LEMMA Shifted ==
    ASSUME IInv, UNCHANGED ids, NEW k \in [Place -> Nat],
           mq' \in Seq(Message), wk' \in [CPU -> WorkType],
           \A x \in Place, i \in Nat :
               Move(x, i)' => /\ Move(x, i + k[x])
                              /\ (Box(x)[i].tid)' = Box(x)[i + k[x]].tid
    PROVE  Carried
<1>1. ASSUME NEW t \in Tid, Travels(t)' PROVE Travels(t)
  <2>1. PICK x \in Place, i \in Nat : Move(x, i)' /\ (Box(x)[i].tid)' = t
    BY <1>1 DEF Travels
  <2>2. i + k[x] \in Nat
    OBVIOUS
  <2>. QED BY <2>1, <2>2 DEF Travels
<1>2. ASSUME NEW x \in Place, NEW i \in Nat, Move(x, i)'
      PROVE  /\ (Box(x)[i].tid)' \in known
             /\ \A y \in Place, j \in Nat :
                  Move(y, j)' /\ (Box(y)[j].tid)' = (Box(x)[i].tid)' => x = y /\ i = j
  <2>1. i + k[x] \in Nat /\ Move(x, i + k[x])
        /\ (Box(x)[i].tid)' = Box(x)[i + k[x]].tid
    BY <1>2
  <2>2. ASSUME NEW y \in Place, NEW j \in Nat,
               Move(y, j)', (Box(y)[j].tid)' = (Box(x)[i].tid)'
        PROVE  x = y /\ i = j
    <3>1. j + k[y] \in Nat /\ Move(y, j + k[y])
          /\ (Box(y)[j].tid)' = Box(y)[j + k[y]].tid
      BY <2>2
    <3>2. y = x /\ j + k[y] = i + k[x]
      BY <2>1, <2>2, <3>1 DEF IInv, Moves
    <3>. QED BY <3>2
  <2>3. (Box(x)[i].tid)' \in known
    BY <2>1 DEF IInv, Moves
  <2>. QED BY <2>2, <2>3
<1>. QED BY <1>1, <1>2 DEF Carried, Moves, ids

\* At most another kind of message is sent, and a worker at most pops one.
Posts == mq' = mq \/ \E m \in Message : m.kind # "MoveTask" /\ mq' = Append(mq, m)

LEMMA Posted ==
    ASSUME IInv, UNCHANGED ids, Posts,
           wk' \in [CPU -> WorkType], \A d \in CPU : wk'[d].inbox = wk[d].inbox
    PROVE  Carried
<1>. DEFINE k == [x \in Place |-> 0]
<1>1. mq' \in Seq(Message)
  BY AppendProperties DEF IInv, Moves, Posts
<1>2. ASSUME NEW x \in Place, NEW i \in Nat, Move(x, i)'
      PROVE  Move(x, i) /\ (Box(x)[i].tid)' = Box(x)[i].tid
  <2>1. CASE x = None
    <3>1. i \in DOMAIN mq' /\ mq'[i].kind = "MoveTask"
      BY <1>2, <2>1 DEF Move, Box
    <3>2. i \in DOMAIN mq /\ mq'[i] = mq[i]
      <4>1. CASE mq' = mq
        BY <3>1, <4>1
      <4>2. CASE \E m \in Message : m.kind # "MoveTask" /\ mq' = Append(mq, m)
        BY <3>1, <4>2, AppendProperties DEF IInv, Moves
      <4>. QED BY <4>1, <4>2 DEF Posts
    <3>. QED BY <2>1, <3>1, <3>2 DEF Move, Box
  <2>2. CASE x \in CPU /\ x # None
    BY <1>2, <2>2 DEF Move, Box
  <2>. QED BY <2>1, <2>2 DEF Place
<1>3. k \in [Place -> Nat] /\ \A x \in Place : k[x] = 0
  OBVIOUS
<1>. HIDE DEF k
<1>4. ASSUME NEW x \in Place, NEW i \in Nat, Move(x, i)'
      PROVE  Move(x, i + k[x]) /\ (Box(x)[i].tid)' = Box(x)[i + k[x]].tid
  <2>1. i + k[x] = i
    BY <1>3
  <2>. QED BY <1>2, <1>4, <2>1
<1>. QED BY <1>1, <1>3, <1>4, Shifted

LEMMA Popped ==
    ASSUME IInv, UNCHANGED ids, Posts, NEW c \in CPU, wk[c].inbox # <<>>, Pop(c)
    PROVE  /\ Carried /\ wk' \in [CPU -> WorkType]
           /\ \A d \in CPU : /\ wk'[d].victim = wk[d].victim
                             /\ d # c => wk'[d].inbox = wk[d].inbox
           /\ \A t \in Tid : Move(c, 1) /\ wk[c].inbox[1].tid = t => ~Travels(t)'
<1>. DEFINE k == [x \in Place |-> IF x = c THEN 1 ELSE 0]
<1>1. mq' \in Seq(Message)
  BY AppendProperties DEF IInv, Moves, Posts
<1>2. /\ wk[c] \in WorkType /\ wk[c].inbox \in Seq(Message) /\ c # None
      /\ Tail(wk[c].inbox) \in Seq(Message)
      /\ Len(Tail(wk[c].inbox)) = Len(wk[c].inbox) - 1
      /\ \A i \in 1 .. Len(Tail(wk[c].inbox)) : Tail(wk[c].inbox)[i] = wk[c].inbox[i + 1]
  <2>1. wk[c] \in WorkType /\ wk[c].inbox \in Seq(Message) /\ c # None
    BY SchedAssumption DEF IInv, Moves, WorkType, SchedAssumption
  <2>. QED BY <2>1, HeadTailProperties
<1>3. /\ wk' \in [CPU -> WorkType] /\ \A d \in CPU : wk'[d].victim = wk[d].victim
      /\ wk'[c].inbox = Tail(wk[c].inbox)
      /\ \A d \in CPU \ {c} : wk'[d].inbox = wk[d].inbox
  BY <1>2 DEF Pop, IInv, Moves, WorkType
<1>4. k \in [Place -> Nat] /\ k[None] = 0
      /\ \A d \in CPU : k[d] = IF d = c THEN 1 ELSE 0
  BY <1>2 DEF Place
<1>. HIDE DEF k
<1>5. ASSUME NEW x \in Place, NEW i \in Nat, Move(x, i)'
      PROVE  Move(x, i + k[x]) /\ (Box(x)[i].tid)' = Box(x)[i + k[x]].tid
  <2>1. CASE x = None
    <3>1. i \in DOMAIN mq' /\ mq'[i].kind = "MoveTask"
      BY <1>5, <2>1 DEF Move, Box
    <3>2. i \in DOMAIN mq /\ mq'[i] = mq[i]
      <4>1. CASE mq' = mq
        BY <3>1, <4>1
      <4>2. CASE \E m \in Message : m.kind # "MoveTask" /\ mq' = Append(mq, m)
        BY <3>1, <4>2, AppendProperties DEF IInv, Moves
      <4>. QED BY <4>1, <4>2 DEF Posts
    <3>3. i + k[x] = i
      BY <1>4, <2>1
    <3>. QED BY <2>1, <3>1, <3>2, <3>3 DEF Move, Box
  <2>2. CASE x = c
    <3>1. i \in DOMAIN wk'[c].inbox /\ wk'[c].inbox[i].kind = "MoveTask"
      BY <1>2, <1>5, <2>2 DEF Move, Box
    <3>2. i \in 1 .. Len(Tail(wk[c].inbox)) /\ k[x] = 1
      BY <1>2, <1>3, <1>4, <2>2, <3>1
    <3>3. i + 1 \in DOMAIN wk[c].inbox /\ wk'[c].inbox[i] = wk[c].inbox[i + 1]
      BY <1>2, <1>3, <3>2
    <3>. QED BY <1>2, <2>2, <3>1, <3>2, <3>3 DEF Move, Box
  <2>3. CASE x \in CPU \ {c} /\ x # None
    <3>1. i + k[x] = i
      BY <1>4, <2>3
    <3>. QED BY <1>3, <1>5, <2>3, <3>1 DEF Move, Box
  <2>. QED BY <2>1, <2>2, <2>3 DEF Place
<1>6. Carried
  BY <1>1, <1>3, <1>4, <1>5, Shifted
<1>7. ASSUME NEW t \in Tid, Move(c, 1), wk[c].inbox[1].tid = t, Travels(t)'
      PROVE  FALSE
  <2>1. PICK x \in Place, i \in Nat : Move(x, i)' /\ (Box(x)[i].tid)' = t
    BY <1>7 DEF Travels
  <2>2. Move(x, i + k[x]) /\ Box(x)[i + k[x]].tid = t /\ i + k[x] \in Nat
    BY <1>4, <1>5, <2>1
  <2>3. c \in Place /\ Box(c)[1].tid = t
    BY <1>2, <1>7 DEF Place, Box
  <2>4. x = c /\ i + k[x] = 1
    BY <1>7, <2>2, <2>3 DEF IInv, Moves
  <2>5. i = 0
    BY <1>4, <2>4
  <2>6. wk'[c].inbox \in Seq(Message)
    BY <1>3 DEF WorkType
  <2>. QED BY <1>2, <2>1, <2>4, <2>5, <2>6 DEF Move, Box
<1>. QED BY <1>3, <1>6, <1>7

\* A step of the running thread.  It does not touch what only the map is to
\* be told, and brings a worker neither to a victim nor to a burial, nor to a
\* creation.
Strides(c) == /\ th' = [th EXCEPT ![T(c)] = th'[T(c)]]
              /\ Sound(T(c), th'[T(c)])
Mute(c) == \/ th'[T(c)] = th[T(c)]
           \/ th[T(c)].pc \notin TellPcs /\ th'[T(c)].pc \notin TellPcs
Steps(c) ==
    /\ Strides(c) /\ Mute(c)
    /\ T(c) = Worker[c] => /\ Holds(th'[T(c)]) => Holds(th[T(c)])
                           /\ Buries(th'[T(c)]) => Buries(th[T(c)])
                           /\ Serves(th'[T(c)]) => Serves(th[T(c)])

\* The threads that have something to tell stay as they are.
LEMMA TellersStay ==
    ASSUME IInv, NEW c \in CPU, Strides(c), Mute(c)
    PROVE  /\ \A u \in Tid : /\ th[u].pc \in TellPcs => th'[u] = th[u]
                             /\ th'[u].pc \in TellPcs => th'[u] = th[u]
           /\ \A l \in TellPcs : \A d, t : Tells(l, d, t) => Tells(l, d, t)'
<1>1. T(c) \in Tid /\ \A u \in Tid : u # T(c) => th'[u] = th[u]
  BY Here DEF Strides, IInv, Threads
<1>2. \A u \in Tid : /\ th[u].pc \in TellPcs => th'[u] = th[u]
                     /\ th'[u].pc \in TellPcs => th'[u] = th[u]
  BY <1>1 DEF Mute
<1>. QED BY <1>2 DEF Tells

LEMMA NumbersKept ==
    ASSUME IInv, NEW c \in CPU, Strides(c), UNCHANGED ids,
           \/ Fresh(T(c)) /\ th'[T(c)] = th[T(c)]
           \/ th'[T(c)].pc \notin {"cr_pool", "cr_map"}
    PROVE  Numbers'
<1>1. \A u \in Tid : u # T(c) => th'[u] = th[u]
  BY DEF Strides, IInv, Threads
<1>2. \A u \in Tid : Fresh(u)' => Fresh(u) /\ th'[u] = th[u]
  BY <1>1 DEF Fresh
<1>3. \A u \in Tid \ known : th'[u] = th[u]
  BY <1>1, Here
<1>. QED BY <1>2, <1>3 DEF IInv, Numbers, ids

LEMMA PoolsKept ==
    ASSUME IInv, NEW c \in CPU, Strides(c), Mute(c),
           UNCHANGED <<pool, tid_cpu, ids>>, Carried
    PROVE  Pools' /\ Numbers' /\ Movers'
<1>1. \A d \in CPU : \A t \in pool[d] : t \in Tid /\ ~Travels(t)'
  BY DEF IInv, Pools, Carried
<1>2. \A u \in Tid : /\ th[u].pc \in TellPcs => th'[u] = th[u]
                     /\ th'[u].pc \in TellPcs => th'[u] = th[u]
  BY TellersStay
<1>3. \A d, t : /\ Tells("mv_map", d, t) => Tells("mv_map", d, t)'
                /\ Tells("cr_map", d, t) => Tells("cr_map", d, t)'
  BY TellersStay DEF TellPcs
<1>4. Pools'
  BY <1>1, <1>3 DEF IInv, Pools, ids
<1>5. Numbers'
  <2>1. \/ Fresh(T(c)) /\ th'[T(c)] = th[T(c)]
        \/ th'[T(c)].pc \notin {"cr_pool", "cr_map"}
    BY DEF Mute, Fresh, TellPcs
  <2>. QED BY <2>1, NumbersKept
<1>6. Movers'
  BY <1>2, Here DEF IInv, Movers, TellPcs, ids
<1>. QED BY <1>4, <1>5, <1>6

\* Pools that only lose tasks.
LEMMA PoolsShrink ==
    ASSUME IInv, NEW c \in CPU, Strides(c), Mute(c), UNCHANGED ids,
           pool' \in [CPU -> SUBSET Tid], tid_cpu' \in [Tid -> Place],
           \A d \in CPU : \A u \in pool'[d] :
               u \in pool[d] /\ tid_cpu'[u] = tid_cpu[u] /\ ~Travels(u)'
    PROVE  Pools'
<1>1. \A d, t : /\ Tells("mv_map", d, t) => Tells("mv_map", d, t)'
                /\ Tells("cr_map", d, t) => Tells("cr_map", d, t)'
  BY TellersStay DEF TellPcs
<1>2. ASSUME NEW d \in CPU, NEW u \in pool'[d]
      PROVE  /\ \A e \in CPU : u \in pool'[e] => d = e
             /\ IF u \in known THEN tid_cpu'[u] = d \/ Tells("mv_map", d, u)'
                               ELSE Tells("cr_map", d, u)'
  <2>1. u \in pool[d] /\ tid_cpu'[u] = tid_cpu[u] /\ \A e \in CPU : u \in pool'[e] => u \in pool[e]
    BY <1>2
  <2>2. /\ \A e \in CPU : u \in pool[e] => d = e
        /\ IF u \in known THEN tid_cpu[u] = d \/ Tells("mv_map", d, u)
                          ELSE Tells("cr_map", d, u)
    BY <2>1 DEF IInv, Pools
  <2>. QED BY <1>1, <2>1, <2>2
<1>. QED BY <1>2 DEF Pools, ids

LEMMA ThreadSteps ==
    ASSUME IInv, NEW c \in CPU, Strides(c), UNCHANGED ids
    PROVE  Threads'
  BY Here DEF IInv, Threads, Strides, Sound, ids

\* Nobody comes to a victim or to a burial, and pools grow by new tasks only.
LEMMA VictimsStay ==
    ASSUME IInv, known \subseteq known', \A t \in Tid : Travels(t)' => Travels(t),
           \A d \in CPU : pool[d] \subseteq pool'[d] /\ pool'[d] \cap known \subseteq pool[d],
           \A d \in CPU : /\ wk'[d].victim = wk[d].victim
                          /\ Holds(th'[Worker[d]]) => Holds(th[Worker[d]])
                          /\ Buries(th'[Worker[d]]) => Buries(th[Worker[d]])
    PROVE  Victims'
<1>. SUFFICES ASSUME NEW d \in CPU, NEW v, v = wk[d].victim
              PROVE  LET r == th'[Worker[d]] IN
                     /\ Holds(r) => v \in pool'[d] \ {Worker[d]} /\ v \in known'
                     /\ Buries(r) =>
                          /\ v \in Tid /\ v \in known' /\ ~Travels(v)'
                          /\ \A e \in CPU : /\ v \notin pool'[e]
                                            /\ Buries(th'[Worker[e]]) /\ wk[e].victim = v => d = e
  BY DEF Victims, Holds, Buries
<1>. DEFINE r == th'[Worker[d]]
<1>1. Holds(r) => v \in pool'[d] \ {Worker[d]} /\ v \in known'
  BY DEF IInv, Victims
<1>2. ASSUME Buries(r)
      PROVE  /\ v \in Tid /\ v \in known' /\ ~Travels(v)'
             /\ \A e \in CPU : /\ v \notin pool'[e]
                               /\ Buries(th'[Worker[e]]) /\ wk[e].victim = v => d = e
  <2>1. /\ v \in Tid /\ v \in known /\ ~Travels(v)
        /\ \A e \in CPU : /\ v \notin pool[e]
                          /\ Buries(th[Worker[e]]) /\ wk[e].victim = v => d = e
    BY <1>2 DEF IInv, Victims
  <2>. QED BY <2>1
<1>. QED BY <1>1, <1>2

LEMMA VictimsKept ==
    ASSUME IInv, NEW c \in CPU, Steps(c), UNCHANGED <<pool, ids>>, Carried,
           \A d \in CPU : wk'[d].victim = wk[d].victim
    PROVE  Victims'
<1>1. ASSUME NEW e \in CPU
      PROVE  /\ Holds(th'[Worker[e]]) => Holds(th[Worker[e]])
             /\ Buries(th'[Worker[e]]) => Buries(th[Worker[e]])
  <2>1. Worker[e] \in Tid /\ Worker[e] \in Workers /\ T(c) \in Tid
        /\ (T(c) \in Workers => T(c) = Worker[c])
    BY Here
  <2>2. CASE Worker[e] = T(c)
    BY <2>1, <2>2 DEF Steps, Strides
  <2>3. CASE Worker[e] # T(c)
    <3>1. th'[Worker[e]] = th[Worker[e]]
      BY <2>1, <2>3 DEF Steps, Strides, IInv, Threads
    <3>. QED BY <3>1
  <2>. QED BY <2>2, <2>3
<1>. QED BY <1>1, VictimsStay DEF Carried, ids

\* One worker comes to a victim, or is done with it.
LEMMA VictimsAre ==
    ASSUME IInv, NEW c \in CPU, UNCHANGED ids,
           \A d \in CPU : d # c => /\ th'[Worker[d]] = th[Worker[d]]
                                  /\ wk'[d].victim = wk[d].victim
                                  /\ pool'[d] = pool[d],
           NEW w, w = wk'[c].victim,
           /\ Holds(th'[Worker[c]]) => w \in pool'[c] \ {Worker[c]} /\ w \in known
           /\ Buries(th'[Worker[c]]) => /\ w \in Tid /\ w \in known /\ ~Travels(w)'
                                        /\ \A d \in CPU : w \notin pool'[d],
           \A u \in Tid :
               /\ u \in known /\ ~Travels(u) /\ \A d \in CPU : u \notin pool[d]
               /\ Buries(th[Worker[c]]) => u # wk[c].victim
               => /\ ~Travels(u)' /\ u \notin pool'[c]
                  /\ Buries(th'[Worker[c]]) => u # w
    PROVE  Victims'
<1>. SUFFICES ASSUME NEW d \in CPU, NEW v, v = wk'[d].victim
              PROVE  LET r == th'[Worker[d]] IN
                     /\ Holds(r) => v \in pool'[d] \ {Worker[d]} /\ v \in known
                     /\ Buries(r) =>
                          /\ v \in Tid /\ v \in known /\ ~Travels(v)'
                          /\ \A e \in CPU : /\ v \notin pool'[e]
                                            /\ Buries(th'[Worker[e]]) /\ wk'[e].victim = v => d = e
  BY DEF Victims, Holds, Buries, ids
<1>1. ASSUME NEW e \in CPU, e # c, Buries(th'[Worker[e]])
      PROVE  /\ wk[e].victim \in Tid /\ wk[e].victim \in known /\ ~Travels(wk[e].victim)
             /\ \A f \in CPU : /\ wk[e].victim \notin pool[f]
                               /\ Buries(th[Worker[f]]) /\ wk[f].victim = wk[e].victim => e = f
  BY <1>1 DEF IInv, Victims
<1>2. ASSUME NEW e \in CPU, e # c, Buries(th'[Worker[e]]), NEW u, u = wk[e].victim
      PROVE  /\ u \in Tid /\ u \in known /\ ~Travels(u)' /\ u \notin pool'[c]
             /\ Buries(th'[Worker[c]]) => u # wk'[c].victim
  <2>1. /\ u \in Tid /\ u \in known /\ ~Travels(u) /\ \A f \in CPU : u \notin pool[f]
        /\ Buries(th[Worker[c]]) => u # wk[c].victim
    BY <1>1, <1>2
  <2>. QED BY <2>1
<1>3. CASE d = c
  BY <1>2, <1>3
<1>4. CASE d # c
  <2>1. Holds(th'[Worker[d]]) => v \in pool'[d] \ {Worker[d]} /\ v \in known
    BY <1>4 DEF IInv, Victims
  <2>2. ASSUME Buries(th'[Worker[d]])
        PROVE  /\ v \in Tid /\ v \in known /\ ~Travels(v)'
               /\ \A e \in CPU : /\ v \notin pool'[e]
                                 /\ Buries(th'[Worker[e]]) /\ wk'[e].victim = v => d = e
    <3>1. v = wk[d].victim
      BY <1>4
    <3>2. /\ v \in Tid /\ v \in known /\ ~Travels(v)' /\ v \notin pool'[c]
          /\ Buries(th'[Worker[c]]) => v # wk'[c].victim
      BY <1>2, <1>4, <2>2, <3>1
    <3>3. \A f \in CPU : /\ v \notin pool[f]
                         /\ Buries(th[Worker[f]]) /\ wk[f].victim = v => d = f
      BY <1>1, <1>4, <2>2, <3>1
    <3>. QED BY <3>2, <3>3
  <2>. QED BY <2>1, <2>2
<1>. QED BY <1>3, <1>4

LEMMA MoversAre ==
    ASSUME IInv, NEW c \in CPU, UNCHANGED ids, th'[Worker[c]].pc # "mv_map",
           \A d \in CPU : d # c => th'[Worker[d]] = th[Worker[d]] /\ pool'[d] = pool[d]
    PROVE  Movers'
  BY DEF IInv, Movers, ids

LEMMA ServedKept ==
    ASSUME IInv, NEW c \in CPU, Steps(c),
           \A d \in CPU : wk'[d].inbox = wk[d].inbox \/ (d = c /\ ~Serves(th'[Worker[c]]))
    PROVE  Served'
<1>. SUFFICES ASSUME NEW d \in CPU, Serves(th'[Worker[d]])
              PROVE  wk'[d].inbox # <<>>
  BY DEF Served, Serves
<1>1. wk'[d].inbox = wk[d].inbox
  OBVIOUS
<1>2. Serves(th[Worker[d]])
  <2>1. Worker[d] \in Tid /\ Worker[d] \in Workers /\ T(c) \in Tid
        /\ (T(c) \in Workers => T(c) = Worker[c])
    BY Here
  <2>2. CASE Worker[d] = T(c)
    BY <2>1, <2>2 DEF Steps, Strides
  <2>3. CASE Worker[d] # T(c)
    <3>1. th'[Worker[d]] = th[Worker[d]]
      BY <2>1, <2>3 DEF Steps, Strides, IInv, Threads
    <3>. QED BY <3>1
  <2>. QED BY <2>2, <2>3
<1>. QED BY <1>1, <1>2 DEF IInv, Served

-----------------------------------------------------------------------------
(* preempt_irq                                                             *)

\* Rotating a queue keeps what it holds.
LEMMA Rotates ==
    ASSUME NEW q \in Seq(Nat), NEW i \in DOMAIN q
    PROVE  /\ SubSeq(q, i + 1, Len(q)) \o SubSeq(q, 1, i) \in Seq(Nat)
           /\ \A t \in Range(q) : t \in Range(SubSeq(q, i + 1, Len(q)) \o SubSeq(q, 1, i))
           /\ Range(SubSeq(q, i + 1, Len(q)) \o SubSeq(q, 1, i)) \subseteq Range(q)
<1>. DEFINE n == Len(q)
            m == i + 1
            a == SubSeq(q, m, n)
            b == SubSeq(q, 1, i)
            w == a \o b
<1>1. n \in Nat /\ i \in 1 .. n /\ i \in Int /\ DOMAIN q = 1 .. n
      /\ \A j \in 1 .. n : q[j] \in Nat
  OBVIOUS
<1>2. m = i + 1 /\ m \in Int /\ n \in Int
  BY <1>1
<1>. HIDE DEF n, m
<1>3. /\ a \in Seq(Nat) /\ Len(a) = IF m <= n THEN n - m + 1 ELSE 0
      /\ \A j \in 1 .. n - m + 1 : a[j] = q[m + j - 1]
  <2>1. \A j \in m .. n : q[j] \in Nat
    BY <1>1, <1>2
  <2>. QED BY <1>2, <2>1, SubSeqProperties
<1>4. /\ b \in Seq(Nat) /\ Len(b) = IF 1 <= i THEN i - 1 + 1 ELSE 0
      /\ \A j \in 1 .. i - 1 + 1 : b[j] = q[1 + j - 1]
  <2>1. \A j \in 1 .. i : q[j] \in Nat
    BY <1>1
  <2>. QED BY <1>1, <2>1, SubSeqProperties
<1>. HIDE DEF a, b
<1>5. Len(a) = n - i /\ \A j \in 1 .. n - i : a[j] = q[i + j]
  <2>1. Len(a) = n - i /\ n - m + 1 = n - i
    BY <1>1, <1>2, <1>3
  <2>2. ASSUME NEW j \in 1 .. n - i PROVE a[j] = q[i + j]
    <3>1. j \in Int /\ m + j - 1 = i + j
      BY <1>1, <1>2
    <3>2. j \in 1 .. n - m + 1
      BY <2>1
    <3>. QED BY <1>3, <3>1, <3>2
  <2>. QED BY <2>1, <2>2
<1>6. Len(b) = i /\ \A j \in 1 .. i : b[j] = q[j]
  <2>1. Len(b) = i /\ i - 1 + 1 = i
    BY <1>1, <1>4
  <2>2. ASSUME NEW j \in 1 .. i PROVE b[j] = q[j]
    <3>1. j \in 1 .. i - 1 + 1 /\ 1 + j - 1 = j
      BY <1>1
    <3>. QED BY <1>4, <3>1
  <2>. QED BY <2>1, <2>2
<1>7. /\ w \in Seq(Nat) /\ Len(w) = Len(a) + Len(b)
      /\ \A j \in 1 .. Len(a) + Len(b) :
            w[j] = IF j <= Len(a) THEN a[j] ELSE b[j - Len(a)]
  BY <1>3, <1>4, ConcatProperties
<1>. HIDE DEF w
<1>8. Len(a) + Len(b) = n /\ DOMAIN w = 1 .. n
  <2>1. Len(a) + Len(b) = n
    BY <1>1, <1>5, <1>6
  <2>. QED BY <1>7, <2>1
<1>9. ASSUME NEW j \in 1 .. n PROVE \E k \in DOMAIN w : w[k] = q[j]
  <2>1. CASE j <= i
    <3>1. (n - i) + j \in 1 .. n /\ (n - i) + j > n - i /\ (n - i) + j - (n - i) = j
          /\ j \in 1 .. i
      BY <1>1, <2>1
    <3>2. (n - i) + j \in 1 .. Len(a) + Len(b) /\ ~((n - i) + j <= Len(a))
          /\ (n - i) + j - Len(a) = j
      BY <1>1, <1>5, <1>8, <3>1
    <3>3. PICK k \in 1 .. Len(a) + Len(b) : k = (n - i) + j
      BY <3>2
    <3>4. ~(k <= Len(a)) /\ k - Len(a) = j
      <4>1. k = Len(a) + j /\ Len(a) \in Int /\ j \in Int /\ j >= 1
        BY <1>1, <1>5, <3>3
      <4>. HIDE DEF a
      <4>2. \A e \in Int : ~(e + j <= e) /\ (e + j) - e = j
        BY <4>1
      <4>. QED BY <4>1, <4>2, Zenon
    <3>5. w[(n - i) + j] = b[j]
      BY <1>7, <3>3, <3>4
    <3>. QED BY <1>6, <1>8, <3>1, <3>5
  <2>2. CASE j > i
    <3>1. j - i \in 1 .. n /\ j - i <= n - i /\ i + (j - i) = j /\ j - i \in 1 .. n - i
      BY <1>1, <2>2
    <3>2. w[j - i] = a[j - i]
      BY <1>5, <1>7, <1>8, <3>1
    <3>. QED BY <1>5, <1>8, <3>1, <3>2
  <2>. QED BY <1>1, <2>1, <2>2
<1>10. \A t \in Range(q) : t \in Range(w)
  BY <1>1, <1>9 DEF Range
<1>11. ASSUME NEW j \in 1 .. n PROVE \E k \in DOMAIN q : q[k] = w[j]
  <2>1. w[j] = IF j <= Len(a) THEN a[j] ELSE b[j - Len(a)]
    BY <1>7, <1>8
  <2>2. CASE j <= n - i
    <3>1. j \in 1 .. n - i /\ i + j \in 1 .. n
      BY <1>1, <2>2
    <3>. QED BY <1>1, <1>5, <2>1, <2>2, <3>1
  <2>3. CASE ~(j <= n - i)
    <3>1. j - (n - i) \in 1 .. i /\ j - (n - i) \in 1 .. n
      BY <1>1, <2>3
    <3>. QED BY <1>1, <1>5, <1>6, <2>1, <2>3, <3>1
  <2>. QED BY <2>2, <2>3
<1>12. Range(w) \subseteq Range(q)
  BY <1>8, <1>11 DEF Range
<1>. QED BY <1>7, <1>10, <1>12 DEF w, a, b, m, n

LEMMA Preempts ==
    ASSUME IInv, NEW c \in CPU, NEW tk \in [Tid -> TaskType], NEW q \in Seq(Nat),
           \A d \in CPU : tk[Worker[d]].state \notin {"Terminating", "Migrating"},
           \A t \in Tid \ known : tk[t].state = "New" /\ tk[t].blocked <= 0,
           Worker[c] \in Range(q), Range(q) \subseteq known,
           UNCHANGED <<pool, ids>>, PreemptIrq(c, tk, q)
    PROVE  Tasks' /\ Queues' /\ Current'
<1>. DEFINE stop == {i \in 1 .. Len(q) : q[i] \notin pool[c] \/ Eligible(tk, q[i])}
            i    == Min(stop)
            next == q[i]
            old  == curr[c]
<1>1. q # <<>>
  BY DEF Range
<1>2. CASE next \notin pool[c] \/ old \notin pool[c]
  <2>1. UNCHANGED <<task, rq, curr>>
    BY <1>1, <1>2 DEF PreemptIrq
  <2>. QED BY <2>1, Undisturbed
<1>3. CASE next \in pool[c] /\ old \in pool[c]
  <2>. DEFINE woken == [tk EXCEPT ![next].state = IF @ = "Sleeping" THEN "Ready" ELSE @]
              w     == SubSeq(q, i + 1, Len(q)) \o SubSeq(q, 1, i)
  <2>1. /\ stop # {}
        /\ rq' = [rq EXCEPT ![c] = w]
        /\ curr' = [curr EXCEPT ![c] = next]
        /\ task' = IF next = old THEN woken
                   ELSE [woken EXCEPT ![old].state = Outgoing(@),
                                      ![next].state = "Running"]
    BY <1>1, <1>3 DEF PreemptIrq
  <2>2. i \in stop
    <3>1. stop \in SUBSET Nat
      OBVIOUS
    <3>. HIDE DEF stop
    <3>. QED BY <2>1, <3>1, LeastOf
  <2>3. i \in DOMAIN q
    BY <2>2
  <2>. HIDE DEF stop, i
  <2>4. w \in Seq(Nat) /\ Worker[c] \in Range(w) /\ Range(w) \subseteq known
    BY <2>3, Rotates
  <2>10. \A d \in CPU : Worker[d] \in Tid
    BY Here
  <2>5. Queues'
    <3>. HIDE DEF w
    <3>. QED BY <2>1, <2>4 DEF IInv, Queues, ids
  <2>6. /\ next \in Tid /\ next \in pool[c] /\ next \in known
        /\ old \in Tid /\ old \in known
    BY <1>3, <2>3 DEF IInv, Pools, Current, Range
  <2>. HIDE DEF next, old
  <2>7. Current'
    BY <2>1, <2>6 DEF IInv, Current, ids
  <2>8. /\ woken \in [Tid -> TaskType]
        /\ \A d \in CPU : woken[Worker[d]].state \notin {"Terminating", "Migrating"}
        /\ \A t \in Tid \ known : woken[t].state = "New" /\ woken[t].blocked <= 0
    <3>1. tk[next] \in TaskType
      BY <2>6
    <3>2. /\ woken[next] = [tk[next] EXCEPT !.state = IF @ = "Sleeping" THEN "Ready" ELSE @]
          /\ woken = [tk EXCEPT ![next] = woken[next]]
      BY <2>6
    <3>. HIDE DEF woken
    <3>3. woken[next] \in TaskType /\ woken[next].state \in {tk[next].state, "Ready"}
      BY <3>1, <3>2 DEF TaskType, States
    <3>. QED BY <2>6, <2>10, <3>2, <3>3
  <2>9. Tasks'
    <3>. HIDE DEF woken
    <3>1. CASE next = old
      BY <2>1, <2>8, <3>1 DEF Tasks, ids
    <3>2. CASE next # old
      <4>1. task' = [woken EXCEPT ![old].state = Outgoing(@), ![next].state = "Running"]
        BY <2>1, <3>2
      <4>2. /\ task'[old] = [woken[old] EXCEPT !.state = Outgoing(@)]
            /\ task'[next] = [woken[next] EXCEPT !.state = "Running"]
            /\ task' = [woken EXCEPT ![old] = task'[old], ![next] = task'[next]]
        BY <2>6, <2>8, <3>2, <4>1
      <4>3. woken[old] \in TaskType /\ woken[next] \in TaskType
        BY <2>6, <2>8
      <4>4. task'[next] \in TaskType /\ task'[next].state = "Running"
        BY <4>2, <4>3 DEF TaskType, States
      <4>5. task'[old] \in TaskType /\ task'[old].state \in {woken[old].state, "Ready"}
        BY <4>2, <4>3 DEF TaskType, States, Outgoing
      <4>. QED BY <2>6, <2>8, <2>10, <4>2, <4>4, <4>5 DEF Tasks, ids
    <3>. QED BY <3>1, <3>2
  <2>. QED BY <2>5, <2>7, <2>9
<1>. QED BY <1>2, <1>3

-----------------------------------------------------------------------------
(* The calls of the tasks                                                  *)

\* Nothing that the invariant is about changes.
Idle == UNCHANGED <<task, th, pool, rq, curr, tid_cpu, ids, mq, wk, waiters, ioq>>

LEMMA IdleKeeps ==
    ASSUME IInv, Idle
    PROVE  IInv'
<1>1. \A x : Box(x)' = Box(x)
  BY DEF Idle, Box
<1>2. /\ \A x, i : Move(x, i)' <=> Move(x, i)
      /\ \A t : Travels(t)' <=> Travels(t)
  BY <1>1 DEF Move, Travels
<1>3. Numbers' /\ Pools' /\ Movers'
  BY <1>1, <1>2 DEF Idle, IInv, Numbers, Fresh, Pools, Tells, Movers, ids
<1>4. Tasks' /\ Threads' /\ Queues' /\ Current' /\ Lists' /\ Served'
  BY <1>1, <1>2 DEF Idle, IInv, Tasks, Threads, Sound, Queues, Current, Lists, Served,
                    Serves, ids
<1>5. Moves' /\ Victims'
  BY <1>1, <1>2 DEF Idle, IInv, Moves, Victims, Holds, Buries, ids
<1>. QED BY <1>3, <1>4, <1>5 DEF IInv

\* A step of the running thread that leaves pools and workers as they are.
LEMMA StepKeeps ==
    ASSUME IInv, NEW c \in CPU, Steps(c), UNCHANGED <<pool, tid_cpu, ids, wk>>, Posts,
           Tasks', Queues', Current', Lists'
    PROVE  IInv'
<1>1. Carried
  BY Posted DEF IInv, Moves
<1>. QED BY <1>1, ThreadSteps, VictimsKept, ServedKept, PoolsKept DEF IInv, Carried, Steps

\* A thread in a call is not a worker's.
LEMMA InCall ==
    ASSUME IInv, NEW c \in CPU, th[T(c)].pc \in CallPcs
    PROVE  T(c) \notin Workers /\ T(c) # Worker[c]
  BY Here DEF Sound, CallPcs, Backs, WorkPcs, MakePcs, WakePcs

LEMMA InCallSteps ==
    ASSUME IInv, NEW c \in CPU, th[T(c)].pc \in CallPcs,
           NEW r \in ThreadType, th' = [th EXCEPT ![T(c)] = r],
           r.pc \in CallPcs \cup {"cr_new", "ub_map"}, r.back \in Backs,
           r.pc \in WakePcs \cup {"join_pool", "join_ask"} => r.obj \in Tid
    PROVE  Steps(c)
<1>1. th'[T(c)] = r
  BY Here DEF IInv, Threads
<1>2. T(c) \notin Workers /\ T(c) # Worker[c]
  BY InCall
<1>3. /\ r.pc \notin WorkPcs /\ r.pc \notin MakePcs \ {"cr_new"} /\ r.pc \notin AddPcs
      /\ r.pc \notin TellPcs /\ r.pc # "mv_map" /\ th[T(c)].pc \notin TellPcs
  BY DEF WorkPcs, MakePcs, AddPcs, TellPcs, CallPcs, Backs
<1>. QED BY <1>1, <1>2, <1>3 DEF Steps, Strides, Sound, Mute

\* A call starts.
LEMMA Enters ==
    ASSUME IInv, NEW c \in CPU, NEW call, Calling(c, call),
           NEW l \in {"blk_add", "sig", "slp_int", "cr_new", "ub_map"},
           NEW ie \in BOOLEAN, NEW back \in Backs, NEW obj \in Nat,
           l = "ub_map" => obj \in Tid, Enter(c, l, ie, back, obj)
    PROVE  Steps(c)
<1>. DEFINE me == th[T(c)]
            n  == me.left - 1
            r  == [me EXCEPT !.pc = l, !.ie = ie, !.back = back, !.obj = obj, !.left = n]
<1>1. me \in ThreadType
  BY Here
<1>2. me.pc \in CallPcs
  BY DEF Calling, At, CallPcs, Backs
<1>3. th' = [th EXCEPT ![T(c)] = r]
  BY DEF Enter
<1>. HIDE DEF me
<1>4. n \in Int
  BY <1>1 DEF ThreadType
<1>. HIDE DEF n
<1>5. l \in Pcs /\ back \in Pcs /\ l \in CallPcs \cup {"cr_new", "ub_map"}
      /\ (l \in WakePcs \cup {"join_pool", "join_ask"} => l = "ub_map")
  BY DEF Pcs, CallPcs, MakePcs, WakePcs, WorkPcs
<1>6. r \in ThreadType /\ r.pc = l /\ r.back = back /\ r.obj = obj
  BY <1>1, <1>4, <1>5 DEF ThreadType
<1>. HIDE DEF r
<1>. QED BY <1>2, <1>3, <1>5, <1>6, InCallSteps DEF me

LEMMA WaitKeeps ==
    ASSUME IInv, NEW c \in CPU, Wait(c)
    PROVE  IInv'
<1>1. Steps(c)
  BY Enters DEF Wait, Guarded, Backs
<1>2. Lists'
  BY Here, AppendProperties DEF Wait, IInv, Lists
<1>. QED BY <1>1, <1>2, Undisturbed, StepKeeps DEF Wait, Posts, shared

LEMMA SignalKeeps ==
    ASSUME IInv, NEW c \in CPU, NEW n \in Nat, Signal(c, n)
    PROVE  IInv'
<1>1. Steps(c)
  BY Enters DEF Signal, Backs
<1>. QED BY <1>1, Undisturbed, StepKeeps DEF Signal, Posts, shared

\* A thread at its start.
LEMMA Zeroed == Thread0 \in ThreadType /\ Thread0.back = "run" /\ Thread0.pc = "run"
<1>1. "run" \in Pcs /\ None \in Place /\ TRUE \in BOOLEAN
  BY DEF Pcs, CallPcs, Backs, Place
<1>. QED BY <1>1 DEF ThreadType, Thread0

\* A call is over.
LEMMA Returns ==
    ASSUME IInv, NEW c \in CPU, th[T(c)].pc \in CallPcs, Return(c)
    PROVE  Steps(c)
<1>. DEFINE n == th[T(c)].left
            r == [Thread0 EXCEPT !.left = n]
<1>1. n \in Int
  BY Here DEF ThreadType
<1>2. th' = [th EXCEPT ![T(c)] = r]
  BY DEF Return
<1>. HIDE DEF n
<1>3. r \in ThreadType /\ r.pc = "run" /\ r.back = "run"
  BY <1>1, SchedAssumption DEF ThreadType, Thread0, Place, Pcs, CallPcs, Backs
<1>. HIDE DEF r
<1>. QED BY <1>2, <1>3, InCallSteps DEF CallPcs, WakePcs, Backs

LEMMA SignalEndKeeps ==
    ASSUME IInv, NEW c \in CPU, SignalEnd(c) \/ CallReturns(c)
    PROVE  IInv'
<1>1. th[T(c)].pc \in CallPcs /\ Return(c)
  BY DEF SignalEnd, CallReturns, At, CallPcs, Backs
<1>2. Steps(c)
  BY <1>1, Returns
<1>3. UNCHANGED <<task, rq, curr, pool, waiters, ioq, tid_cpu, ids, mq, wk>>
  BY DEF SignalEnd, CallReturns, calls, shared
<1>. QED BY <1>2, <1>3, Undisturbed, StepKeeps DEF Posts
\* A queue grows at its end.
LEMMA Grows ==
    ASSUME IInv, NEW c \in CPU, NEW t \in Nat, t \in known, UNCHANGED ids,
           rq' = [rq EXCEPT ![c] = Append(@, t)]
    PROVE  Queues'
<1>. DEFINE q == rq[c]
            w == Append(q, t)
<1>1. q \in Seq(Nat) /\ Worker[c] \in Range(q) /\ Range(q) \subseteq known
  BY DEF IInv, Queues
<1>. HIDE DEF q
<1>2. /\ w \in Seq(Nat) /\ DOMAIN w = 1 .. (Len(q) + 1) /\ DOMAIN q = 1 .. Len(q)
      /\ Len(q) \in Nat /\ w[Len(q) + 1] = t /\ \A i \in 1 .. Len(q) : w[i] = q[i]
  BY <1>1, AppendProperties
<1>5. Range(w) \subseteq known
  <2>1. ASSUME NEW i \in DOMAIN w PROVE w[i] \in known
    <3>1. i = Len(q) + 1 \/ i \in 1 .. Len(q)
      BY <1>2
    <3>. QED BY <1>1, <1>2, <3>1 DEF Range
  <2>. QED BY <2>1 DEF Range
<1>3. Worker[c] \in Range(w)
  BY <1>1, <1>2 DEF Range
<1>4. rq' = [rq EXCEPT ![c] = w]
  BY DEF q
<1>. HIDE DEF w
<1>. QED BY <1>2, <1>3, <1>4, <1>5 DEF IInv, Queues, ids

\* A call goes on.
LEMMA GoesOn ==
    ASSUME IInv, NEW c \in CPU, th[T(c)].pc \in CallPcs, NEW l \in CallPcs, Goto(c, l),
           l \in {"join_pool", "join_ask"} => th[T(c)].obj \in Tid
    PROVE  Steps(c)
<1>. DEFINE me == th[T(c)]
            r  == [me EXCEPT !.pc = l]
<1>1. me \in ThreadType /\ me.back \in Backs
  BY Here, InCall DEF Sound
<1>2. th' = [th EXCEPT ![T(c)] = r]
  BY DEF Goto
<1>. HIDE DEF me
<1>3. l \in Pcs /\ l \notin WakePcs
  BY DEF Pcs, CallPcs, Backs, WorkPcs, WakePcs
<1>4. r \in ThreadType /\ r.pc = l /\ r.back = me.back /\ r.obj = me.obj
  BY <1>1, <1>3 DEF ThreadType
<1>. HIDE DEF r
<1>. QED BY <1>1, <1>2, <1>3, <1>4, InCallSteps DEF me

LEMMA Blocks ==
    ASSUME IInv, NEW c \in CPU, th[T(c)].pc \in CallPcs, NEW back \in Backs, Block(c, back)
    PROVE  Steps(c)
<1>. DEFINE me == th[T(c)]
            r  == [me EXCEPT !.pc = "blk_add", !.ie = TRUE, !.back = back]
<1>1. me \in ThreadType /\ T(c) \in Tid /\ th \in [Tid -> ThreadType]
  BY Here DEF IInv, Threads
<1>2. th' = [th EXCEPT ![T(c)] = r]
  BY <1>1 DEF Block, ThreadType
<1>. HIDE DEF me
<1>3. back \in Pcs /\ "blk_add" \in Pcs
  BY DEF Pcs, CallPcs
<1>4. r \in ThreadType /\ r.pc = "blk_add" /\ r.back = back
  BY <1>1, <1>3 DEF ThreadType
<1>. HIDE DEF r
<1>. QED BY <1>2, <1>4, InCallSteps DEF me, CallPcs, WakePcs

LEMMA TaskSteps ==
    ASSUME IInv, NEW t \in Tid, NEW r \in TaskType, task' = [task EXCEPT ![t] = r],
           UNCHANGED ids, t \notin known => r.state = "New" /\ r.blocked <= 0,
           r.state \in {"Terminating", "Migrating"} => t \notin Workers
    PROVE  Tasks'
  BY DEF IInv, Tasks, Workers, ids

\* A task's state changes.
LEMMA StateSteps ==
    ASSUME IInv, NEW t \in Tid, NEW s \in States, task' = [task EXCEPT ![t].state = s],
           UNCHANGED ids, t \in known,
           s \in {"Terminating", "Migrating"} => t \notin Workers
    PROVE  Tasks'
<1>. DEFINE r == [task[t] EXCEPT !.state = s]
<1>1. task[t] \in TaskType
  BY DEF IInv, Tasks
<1>2. r \in TaskType /\ r.state = s
  BY <1>1 DEF TaskType
<1>3. task' = [task EXCEPT ![t] = r]
  OBVIOUS
<1>. HIDE DEF r
<1>. QED BY <1>2, <1>3, TaskSteps

LEMMA StaysPut ==
    ASSUME IInv, NEW c \in CPU, UNCHANGED th
    PROVE  Steps(c)
  BY Here DEF Steps, Strides, Mute, IInv, Threads

LEMMA UnblocksAtOnce ==
    ASSUME IInv, NEW c \in CPU, NEW t \in Tid, UnblockAtOnce(c, t), UNCHANGED ids
    PROVE  Tasks' /\ Queues' /\ Posts
<1>1. CASE tid_cpu[t] = None
  BY <1>1, Undisturbed DEF UnblockAtOnce, Posts
<1>2. CASE tid_cpu[t] # None /\ Elsewhere(c, t)
  <2>1. Send(UnblockIpm(c, t)) /\ UNCHANGED <<task, rq>>
    BY <1>2 DEF UnblockAtOnce
  <2>2. UnblockIpm(c, t) \in Message /\ UnblockIpm(c, t).kind # "MoveTask"
    BY DEF UnblockIpm, Ipm, Message, IInv, Pools
  <2>. QED BY <2>1, <2>2, Undisturbed DEF Send, Posts
<1>3. CASE tid_cpu[t] # None /\ ~Elsewhere(c, t) /\ t \notin pool[c]
  BY <1>3, Undisturbed DEF UnblockAtOnce, Posts
<1>4. CASE tid_cpu[t] # None /\ ~Elsewhere(c, t) /\ t \in pool[c]
           /\ task[t].state = "Sleeping"
  <2>1. task' = [task EXCEPT ![t].state = "Ready"] /\ UNCHANGED <<rq, mq>>
    BY <1>4 DEF UnblockAtOnce
  <2>2. t \in known
    BY <1>4 DEF IInv, Tasks
  <2>. QED BY <2>1, <2>2, StateSteps, Undisturbed DEF Posts, States
<1>5. CASE tid_cpu[t] # None /\ ~Elsewhere(c, t) /\ t \in pool[c]
           /\ task[t].state # "Sleeping"
  <2>. DEFINE n == task[t].blocked - 1
              s == IF task[t].blocked = 1 THEN "Ready" ELSE task[t].state
              r == [task[t] EXCEPT !.blocked = n, !.state = s]
  <2>1. /\ task' = [task EXCEPT ![t].blocked = @ - 1,
                               ![t].state = IF task[t].blocked = 1 THEN "Ready" ELSE @]
        /\ rq' = (IF task[t].blocked = 1 THEN [rq EXCEPT ![c] = Append(@, t)] ELSE rq)
        /\ mq' = mq
    BY <1>5 DEF UnblockAtOnce
  <2>2. task[t] \in TaskType /\ task \in [Tid -> TaskType]
    BY DEF IInv, Tasks
  <2>3. n \in Int /\ s \in States /\ s \in {"Ready", task[t].state}
    BY <2>2 DEF TaskType, States
  <2>9. t \notin known => s = "New" /\ n <= 0 /\ task[t].blocked # 1
    BY <2>2 DEF IInv, Tasks, TaskType
  <2>4. task' = [task EXCEPT ![t] = r]
    BY <2>1, <2>2 DEF TaskType
  <2>. HIDE DEF n, s
  <2>5. r \in TaskType /\ r.state = s /\ r.blocked = n
    BY <2>2, <2>3 DEF TaskType
  <2>6. t \in Workers => s \notin {"Terminating", "Migrating"}
    BY <2>3 DEF Workers, IInv, Tasks
  <2>. HIDE DEF r
  <2>7. Tasks'
    BY <2>4, <2>5, <2>6, <2>9, TaskSteps
  <2>8. Queues'
    <3>1. t \in Nat
      BY SchedAssumption DEF SchedAssumption, Tid
    <3>2. (t \in known /\ rq' = [rq EXCEPT ![c] = Append(@, t)]) \/ UNCHANGED rq
      BY <2>1, <2>9
    <3>. QED BY <3>1, <3>2, Grows, Undisturbed
  <2>. QED BY <2>1, <2>7, <2>8 DEF Posts
<1>. QED BY <1>1, <1>2, <1>3, <1>4, <1>5

LEMMA SignalPopKeeps ==
    ASSUME IInv, NEW c \in CPU, SignalPop(c)
    PROVE  IInv'
<1>1. PICK t \in Range(waiters) : PopWaiter(t) /\ UnblockAtOnce(c, t)
  BY DEF SignalPop
<1>2. waiters \in Seq(Tid) /\ waiters # <<>> /\ t \in Tid
  BY DEF IInv, Lists, Range, SignalPop
<1>3. Lists'
  BY <1>1, <1>2, HeadTailProperties DEF PopWaiter, SignalPop, IInv, Lists
<1>4. Steps(c)
  <2>. DEFINE me == th[T(c)]
              n  == me.obj - 1
              r  == [me EXCEPT !.obj = n]
  <2>1. me \in ThreadType /\ me.pc = "sig" /\ me.obj > 0 /\ T(c) \in Tid
        /\ th \in [Tid -> ThreadType]
    BY Here DEF SignalPop, At, IInv, Threads
  <2>2. me.back \in Backs
    BY <2>1, Here, InCall DEF Sound, CallPcs
  <2>3. th' = [th EXCEPT ![T(c)] = r]
    BY <2>1 DEF SignalPop, ThreadType
  <2>. HIDE DEF me
  <2>4. n \in Nat
    BY <2>1 DEF ThreadType
  <2>. HIDE DEF n
  <2>5. r \in ThreadType /\ r.pc = "sig" /\ r.back = me.back
    BY <2>1, <2>4 DEF ThreadType
  <2>. HIDE DEF r
  <2>. QED BY <2>1, <2>2, <2>3, <2>5, InCallSteps DEF me, WakePcs, CallPcs
<1>6. UNCHANGED <<pool, curr, tid_cpu, ids, wk>>
  BY DEF SignalPop, shared
<1>5. Tasks' /\ Queues' /\ Posts
  BY <1>1, <1>2, <1>6, UnblocksAtOnce
<1>. QED BY <1>3, <1>4, <1>5, <1>6, Undisturbed, StepKeeps

LEMMA HandlerKeeps ==
    ASSUME IInv, NEW c \in CPU, Handler(c)
    PROVE  IInv'
<1>1. CASE IrqSignalPop(c)
  <2>1. PICK t \in Range(waiters) : PopWaiter(t) /\ UnblockAtOnce(c, t)
    BY <1>1 DEF IrqSignalPop
  <2>2. waiters \in Seq(Tid) /\ waiters # <<>> /\ t \in Tid
    BY <1>1 DEF IInv, Lists, Range, IrqSignalPop
  <2>3. Lists'
    BY <1>1, <2>1, <2>2, HeadTailProperties DEF PopWaiter, IrqSignalPop, IInv, Lists
  <2>5. UNCHANGED <<pool, curr, tid_cpu, ids, wk, th>>
    BY <1>1 DEF IrqSignalPop, shared
  <2>4. Tasks' /\ Queues' /\ Posts
    BY <2>1, <2>2, <2>5, UnblocksAtOnce
  <2>. QED BY <2>3, <2>4, <2>5, StaysPut, Undisturbed, StepKeeps
<1>2. CASE IrqExit(c)
  BY <1>2, IdleKeeps DEF IrqExit, Idle, shared
<1>. QED BY <1>1, <1>2 DEF Handler

LEMMA SleepKeeps ==
    ASSUME IInv, NEW c \in CPU, Sleep(c)
    PROVE  IInv'
<1>1. Steps(c)
  BY Enters DEF Sleep, Gate, Backs
<1>2. Tasks'
  BY Here, StateSteps DEF Sleep, FallAsleep, States, shared
<1>. QED BY <1>1, <1>2, Undisturbed, StepKeeps DEF Sleep, Posts, shared, calls

LEMMA IoKeeps ==
    ASSUME IInv, NEW c \in CPU, Io(c) \/ Serve(c)
    PROVE  IInv'
<1>1. CASE Io(c)
  <2>1. Steps(c)
    BY <1>1, Enters DEF Io, Backs
  <2>2. Lists'
    BY <1>1, Here, AppendProperties DEF Io, IInv, Lists
  <2>. QED BY <1>1, <2>1, <2>2, Undisturbed, StepKeeps DEF Io, Posts, shared
<1>2. CASE Serve(c)
  <2>1. ioq \in Seq(Tid) /\ ioq # <<>> /\ Head(ioq) \in Tid /\ Tail(ioq) \in Seq(Tid)
    BY <1>2, HeadTailProperties DEF Serve, IInv, Lists
  <2>2. Head(ioq) \in Nat
    BY <2>1, SchedAssumption DEF SchedAssumption, Tid
  <2>3. Steps(c)
    BY <1>2, <2>1, <2>2, Enters DEF Serve, Gate, Backs
  <2>4. Lists'
    BY <1>2, <2>1 DEF Serve, IInv, Lists
  <2>. QED BY <1>2, <2>3, <2>4, Undisturbed, StepKeeps DEF Serve, Posts, shared
<1>. QED BY <1>1, <1>2

LEMMA SpawnKeeps ==
    ASSUME IInv, NEW c \in CPU, NEW d \in CPU, Spawn(c, d)
    PROVE  IInv'
<1>1. PICK call : Calling(c, call)
  BY DEF Spawn
<1>2. CASE d = c
  <2>1. Steps(c)
    BY <1>1, <1>2, Enters DEF Spawn, Gate, Backs
  <2>. QED BY <1>2, <2>1, Undisturbed, StepKeeps DEF Spawn, Posts, shared, calls
<1>3. CASE d # c
  <2>1. Steps(c)
    BY <1>1, <1>3, Enters DEF Spawn, Backs, IInv, Numbers
  <2>2. Posts
    <3>1. Ipm(d, "CreateTask", T(c), c, 0) \in Message
      BY Here DEF Ipm, Message, Place
    <3>. QED BY <1>3, <3>1 DEF Spawn, Posts, Send, Ipm
  <2>. QED BY <2>1, <2>2, Undisturbed, StepKeeps DEF Spawn, shared, calls
<1>. QED BY <1>2, <1>3

LEMMA MigrateKeeps ==
    ASSUME IInv, NEW c \in CPU, NEW d \in CPU, Migrate(c, d)
    PROVE  IInv'
<1>1. Steps(c)
  BY Enters DEF Migrate, Gate, Backs
<1>2. Tasks'
  <2>. DEFINE r == [task[T(c)] EXCEPT !.cpu = d, !.state = "Migrating"]
  <2>1. T(c) \in Tid /\ task[T(c)] \in TaskType /\ d \in Place
    BY Here
  <2>2. task' = [task EXCEPT ![T(c)] = r]
    BY <2>1 DEF Migrate, IInv, Tasks, TaskType
  <2>3. r \in TaskType
    BY <2>1 DEF TaskType, States
  <2>4. T(c) \notin Workers /\ T(c) \in known
    BY Here, InCall DEF Migrate, Calling, At, CallPcs, Backs
  <2>5. UNCHANGED ids
    BY DEF Migrate, shared
  <2>. HIDE DEF r
  <2>. QED BY <2>1, <2>2, <2>3, <2>4, <2>5, TaskSteps
<1>. QED BY <1>1, <1>2, Undisturbed, StepKeeps DEF Migrate, Posts, shared, calls

LEMMA JoinKeeps ==
    ASSUME IInv, NEW c \in CPU, NEW t \in Tid, Join(c, t)
    PROVE  IInv'
<1>. DEFINE me == th[T(c)]
            l  == IF tid_cpu[t] = None THEN "joined"
                  ELSE IF tid_cpu[t] = c THEN "join_pool" ELSE "join_ask"
            n  == me.left - 1
            at == tid_cpu[t]
            ie == Gate(c)
            r  == [me EXCEPT !.pc = l, !.ie = ie, !.back = "joined", !.obj = t,
                             !.arg = at, !.left = n]
<1>1. me \in ThreadType /\ me.pc \in CallPcs /\ at \in Place /\ ie \in BOOLEAN
  BY Here DEF Join, Calling, At, CallPcs, Backs, Gate, IInv, Pools
<1>2. th' = [th EXCEPT ![T(c)] = r]
  BY DEF Join
<1>3. t \in Nat /\ l \in {"joined", "join_pool", "join_ask"}
  BY SchedAssumption DEF SchedAssumption, Tid
<1>. HIDE DEF me, l, at, ie
<1>4. n \in Int
  BY <1>1 DEF ThreadType
<1>. HIDE DEF n
<1>5. l \in Pcs /\ l \in CallPcs /\ "joined" \in Pcs
  BY <1>3 DEF Pcs, CallPcs, Backs
<1>6. r \in ThreadType /\ r.pc = l /\ r.back = "joined" /\ r.obj = t
  BY <1>1, <1>3, <1>4, <1>5 DEF ThreadType
<1>. HIDE DEF r
<1>7. Steps(c)
  BY <1>1, <1>2, <1>5, <1>6, InCallSteps DEF me, Backs
<1>. QED BY <1>7, Undisturbed, StepKeeps DEF Join, Posts, shared, calls

LEMMA JoinLocalKeeps ==
    ASSUME IInv, NEW c \in CPU, JoinLocal(c)
    PROVE  IInv'
<1>1. th[T(c)].pc = "join_pool" /\ th[T(c)].pc \in CallPcs /\ th[T(c)].obj \in Tid
  BY Here DEF JoinLocal, At, CallPcs, Sound
<1>2. Steps(c)
  <2>1. Goto(c, "blk_add") \/ Goto(c, "join_ask")
    BY DEF JoinLocal
  <2>. QED BY <1>1, <2>1, GoesOn DEF CallPcs
<1>3. Tasks'
  <2>. DEFINE t == th[T(c)].obj
              s == Append(task[t].joiners, T(c))
              r == [task[t] EXCEPT !.joiners = s]
  <2>1. t \in Tid /\ task[t] \in TaskType /\ T(c) \in Tid
    BY <1>1, Here DEF IInv, Tasks
  <2>2. s \in Seq(Tid)
    BY <2>1, AppendProperties DEF TaskType
  <2>3. UNCHANGED task \/ task' = [task EXCEPT ![t] = r]
    BY DEF JoinLocal
  <2>4. /\ t \in Workers => task[t].state \notin {"Terminating", "Migrating"}
        /\ t \notin known => task[t].state = "New" /\ task[t].blocked <= 0
        /\ UNCHANGED ids
    BY <2>1 DEF Workers, IInv, Tasks, JoinLocal, shared
  <2>. HIDE DEF s, t
  <2>5. r \in TaskType /\ r.state = task[t].state /\ r.blocked = task[t].blocked
    BY <2>1, <2>2 DEF TaskType
  <2>. HIDE DEF r
  <2>. QED BY <2>1, <2>3, <2>4, <2>5, Undisturbed, TaskSteps
<1>. QED BY <1>2, <1>3, Undisturbed, StepKeeps DEF JoinLocal, Posts, shared, calls

LEMMA JoinAskKeeps ==
    ASSUME IInv, NEW c \in CPU, JoinAsk(c)
    PROVE  IInv'
<1>1. /\ th[T(c)].pc \in CallPcs /\ th[T(c)].obj \in Tid /\ th[T(c)].arg \in Place
      /\ T(c) \in Tid
  BY Here DEF JoinAsk, At, CallPcs, Sound, ThreadType
<1>2. Steps(c)
  BY <1>1, Blocks DEF JoinAsk, Backs
<1>3. Posts
  <2>. DEFINE m == Ipm(th[T(c)].arg, "AddJoiner", th[T(c)].obj, c, T(c))
  <2>1. m \in Message /\ m.kind # "MoveTask"
    BY <1>1 DEF Ipm, Message
  <2>2. mq' = Append(mq, m)
    BY DEF JoinAsk, Send
  <2>. HIDE DEF m
  <2>. QED BY <2>1, <2>2 DEF Posts
<1>. QED BY <1>2, <1>3, Undisturbed, StepKeeps DEF JoinAsk, shared, calls

\* set_msg_ret changes no state.
LEMMA SetsMsgRet ==
    ASSUME IInv, NEW t \in Tid, NEW n \in Nat, SetMsgRet(t, n), UNCHANGED ids
    PROVE  Tasks'
<1>. DEFINE r == [task[t] EXCEPT !.ret = n]
<1>1. task[t] \in TaskType
      /\ (t \in Workers => task[t].state \notin {"Terminating", "Migrating"})
      /\ (t \notin known => task[t].state = "New" /\ task[t].blocked <= 0)
  BY DEF IInv, Tasks, Workers
<1>2. task' = [task EXCEPT ![t] = r]
  BY DEF SetMsgRet
<1>3. r \in TaskType /\ r.state = task[t].state /\ r.blocked = task[t].blocked
  BY <1>1 DEF TaskType
<1>. HIDE DEF r
<1>. QED BY <1>1, <1>2, <1>3, TaskSteps

LEMMA AnswerKeeps ==
    ASSUME IInv, NEW c \in CPU, JoinAnswer(c) \/ SpawnAnswer(c)
    PROVE  IInv'
<1>1. th[T(c)].pc \in CallPcs /\ SetMsgRet(T(c), 0)
  BY DEF JoinAnswer, SpawnAnswer, At, CallPcs, Backs
<1>2. Tasks'
  BY <1>1, Here, SetsMsgRet DEF JoinAnswer, SpawnAnswer, shared
<1>3. Block(c, "joined") \/ Goto(c, "join_poll") \/ Goto(c, "ret")
  BY DEF JoinAnswer, SpawnAnswer, OtherAnswer
<1>4. Steps(c)
  BY <1>1, <1>3, Blocks, GoesOn DEF CallPcs, Backs
<1>5. UNCHANGED <<pool, rq, curr, tid_cpu, ids, mq, wk, waiters, ioq>>
  BY DEF JoinAnswer, SpawnAnswer, shared, calls
<1>. QED BY <1>2, <1>4, <1>5, Undisturbed, StepKeeps DEF Posts

LEMMA JoinPollKeeps ==
    ASSUME IInv, NEW c \in CPU, JoinPoll(c)
    PROVE  IInv'
<1>1. th[T(c)].pc \in CallPcs
  BY DEF JoinPoll, At, CallPcs, Backs
<1>2. CASE tid_cpu[th[T(c)].obj] = None
  <2>1. Steps(c)
    BY <1>1, <1>2, GoesOn DEF JoinPoll, CallPcs, Backs
  <2>. QED BY <1>2, <2>1, Undisturbed, StepKeeps DEF JoinPoll, Posts, shared, calls
<1>3. CASE tid_cpu[th[T(c)].obj] # None
  <2>1. Tasks'
    BY <1>3, Here, StateSteps DEF JoinPoll, FallAsleep, States, shared
  <2>2. Steps(c)
    <3>. DEFINE me == th[T(c)]
                r  == [me EXCEPT !.pc = "slp_int", !.back = "join_poll"]
    <3>1. me \in ThreadType /\ T(c) \in Tid /\ th \in [Tid -> ThreadType]
      BY Here DEF IInv, Threads
    <3>2. th' = [th EXCEPT ![T(c)] = r]
      BY <1>3, <3>1 DEF JoinPoll, ThreadType
    <3>. HIDE DEF me
    <3>3. r \in ThreadType /\ r.pc = "slp_int" /\ r.back = "join_poll"
      BY <3>1 DEF ThreadType, Pcs, CallPcs, Backs
    <3>. HIDE DEF r
    <3>. QED BY <1>1, <3>2, <3>3, InCallSteps DEF CallPcs, WakePcs, Backs
  <2>. QED BY <2>1, <2>2, Undisturbed, StepKeeps DEF JoinPoll, Posts, shared, calls
<1>. QED BY <1>2, <1>3

-----------------------------------------------------------------------------
(* block_task, terminate_task and the timer                                *)

\* Where a call goes on once it is woken, or need not block.
LEMMA BackInCall ==
    ASSUME IInv, NEW c \in CPU, th[T(c)].pc \in CallPcs
    PROVE  th[T(c)].back \in CallPcs \ {"join_pool", "join_ask"}
  BY Here, InCall DEF Sound, CallPcs, Backs

LEMMA BlockAddKeeps ==
    ASSUME IInv, NEW c \in CPU, BlockAdd(c)
    PROVE  IInv'
<1>1. th[T(c)].pc \in CallPcs /\ T(c) \in Tid /\ task[T(c)] \in TaskType
      /\ T(c) \in known /\ UNCHANGED ids
  BY Here DEF BlockAdd, At, CallPcs, shared
<1>2. Steps(c)
  <2>1. Goto(c, th[T(c)].back) \/ Goto(c, "blk_state")
    BY DEF BlockAdd, Goto
  <2>. QED BY <1>1, <2>1, BackInCall, GoesOn DEF CallPcs
<1>3. Tasks'
  <2>. DEFINE n == task[T(c)].blocked + 1
              r == [task[T(c)] EXCEPT !.blocked = n]
  <2>1. task' = [task EXCEPT ![T(c)] = r]
    BY DEF BlockAdd
  <2>2. n \in Int
    BY <1>1 DEF TaskType
  <2>3. T(c) \in Workers => task[T(c)].state \notin {"Terminating", "Migrating"}
    BY DEF Workers, IInv, Tasks
  <2>. HIDE DEF n
  <2>4. r \in TaskType /\ r.state = task[T(c)].state
    BY <1>1, <2>2 DEF TaskType
  <2>. HIDE DEF r
  <2>. QED BY <1>1, <2>1, <2>3, <2>4, TaskSteps
<1>. QED BY <1>2, <1>3, Undisturbed, StepKeeps DEF BlockAdd, Posts, shared, calls

LEMMA BlockStateKeeps ==
    ASSUME IInv, NEW c \in CPU, BlockState(c)
    PROVE  IInv'
<1>1. th[T(c)].pc \in CallPcs /\ T(c) \in Tid /\ task[T(c)] \in TaskType
      /\ T(c) \in known /\ UNCHANGED ids
  BY Here DEF BlockState, At, CallPcs, shared
<1>2. Steps(c)
  BY <1>1, GoesOn DEF BlockState, CallPcs
<1>3. Tasks'
  <2>. DEFINE s == IF task[T(c)].state = "Migrating" THEN task[T(c)].state ELSE "Blocked"
  <2>1. task' = [task EXCEPT ![T(c)].state = s]
    BY DEF BlockState
  <2>2. s \in States
    BY <1>1 DEF TaskType, States
  <2>3. T(c) \notin Workers
    BY <1>1, InCall
  <2>. HIDE DEF s
  <2>. QED BY <1>1, <2>1, <2>2, <2>3, StateSteps
<1>. QED BY <1>2, <1>3, Undisturbed, StepKeeps DEF BlockState, Posts, shared, calls

\* The worker stays in the queue when another task leaves it.
LEMMA Leaves ==
    ASSUME IInv, NEW c \in CPU, T(c) # Worker[c]
    PROVE  /\ RemTask(rq[c], T(c)) \in Seq(Nat)
           /\ Worker[c] \in Range(RemTask(rq[c], T(c)))
           /\ Range(RemTask(rq[c], T(c))) \subseteq known
<1>1. rq[c] \in Seq(Nat) /\ Worker[c] \in Range(rq[c]) /\ Range(rq[c]) \subseteq known
  BY DEF IInv, Queues
<1>. QED BY <1>1, RemTaskLeaves

LEMMA BlockRemKeeps ==
    ASSUME IInv, NEW c \in CPU, BlockRem(c)
    PROVE  IInv'
<1>1. th[T(c)].pc \in CallPcs
  BY DEF BlockRem, At, CallPcs
<1>2. Steps(c)
  BY <1>1, GoesOn DEF BlockRem, CallPcs
<1>3. Queues'
  <2>. DEFINE w == RemTask(rq[c], T(c))
  <2>1. w \in Seq(Nat) /\ Worker[c] \in Range(w) /\ Range(w) \subseteq known
    BY <1>1, InCall, Leaves
  <2>2. rq' = [rq EXCEPT ![c] = w] /\ UNCHANGED ids
    BY DEF BlockRem, shared
  <2>. HIDE DEF w
  <2>. QED BY <2>1, <2>2 DEF IInv, Queues, ids
<1>. QED BY <1>2, <1>3, Undisturbed, StepKeeps DEF BlockRem, Posts, shared, calls

LEMMA BlockIntKeeps ==
    ASSUME IInv, NEW c \in CPU, BlockInt(c)
    PROVE  IInv'
<1>1. th[T(c)].pc \in CallPcs
  BY DEF BlockInt, At, CallPcs
<1>2. Steps(c)
  BY <1>1, BackInCall, GoesOn DEF BlockInt, Goto
<1>3. Tasks' /\ Queues' /\ Current'
  <2>1. PreemptIrq(c, task, rq[c]) /\ UNCHANGED <<pool, ids>>
    BY DEF BlockInt, shared
  <2>2. /\ task \in [Tid -> TaskType] /\ rq[c] \in Seq(Nat) /\ Worker[c] \in Range(rq[c])
        /\ \A d \in CPU : task[Worker[d]].state \notin {"Terminating", "Migrating"}
        /\ \A t \in Tid \ known : task[t].state = "New" /\ task[t].blocked <= 0
        /\ Range(rq[c]) \subseteq known
    BY DEF IInv, Tasks, Queues
  <2>. QED BY <2>1, <2>2, Preempts
<1>4. Lists'
  BY Undisturbed DEF BlockInt, shared, calls
<1>. QED BY <1>2, <1>3, <1>4, StepKeeps DEF BlockInt, Posts, shared, calls

LEMMA ExitKeeps ==
    ASSUME IInv, NEW c \in CPU, Exit(c)
    PROVE  IInv'
<1>1. th[T(c)].pc \in CallPcs /\ T(c) \in Tid /\ task[T(c)] \in TaskType
  BY Here DEF Exit, At, CallPcs, Backs
<1>2. T(c) \notin Workers /\ T(c) # Worker[c]
  BY <1>1, InCall
<1>3. Steps(c)
  <2>. DEFINE r == [Thread0 EXCEPT !.pc = "dead"]
  <2>1. th' = [th EXCEPT ![T(c)] = r]
    BY DEF Exit
  <2>2. r \in ThreadType /\ r.pc = "dead" /\ r.back = "run"
    BY Zeroed DEF ThreadType, Pcs, CallPcs
  <2>. HIDE DEF r
  <2>. QED BY <1>1, <2>1, <2>2, InCallSteps DEF CallPcs, WakePcs, Backs
<1>4. Tasks' /\ Queues' /\ Current'
  <2>. DEFINE tk == [task EXCEPT ![T(c)].state = "Terminating"]
              q  == RemTask(rq[c], T(c))
  <2>1. PreemptIrq(c, tk, q) /\ UNCHANGED <<pool, ids>>
    BY DEF Exit
  <2>2. /\ tk \in [Tid -> TaskType]
        /\ \A d \in CPU : tk[Worker[d]].state \notin {"Terminating", "Migrating"}
        /\ \A t \in Tid \ known : tk[t].state = "New" /\ tk[t].blocked <= 0
    <3>1. task \in [Tid -> TaskType] /\ \A d \in CPU : Worker[d] \in Tid
      BY Here DEF IInv, Tasks
    <3>2. tk[T(c)] = [task[T(c)] EXCEPT !.state = "Terminating"]
          /\ tk = [task EXCEPT ![T(c)] = tk[T(c)]]
      BY <1>1, <3>1
    <3>. HIDE DEF tk
    <3>3. tk[T(c)] \in TaskType
      BY <1>1, <3>2 DEF TaskType, States
    <3>4. T(c) \in known /\ \A d \in CPU : Worker[d] # T(c)
      BY <1>2, Here DEF Workers
    <3>. QED BY <1>1, <3>1, <3>2, <3>3, <3>4 DEF IInv, Tasks
  <2>3. q \in Seq(Nat) /\ Worker[c] \in Range(q) /\ Range(q) \subseteq known
    BY <1>2, Leaves
  <2>. HIDE DEF tk, q
  <2>. QED BY <2>1, <2>2, <2>3, Preempts
<1>5. Lists'
  BY Undisturbed DEF Exit, calls
<1>. QED BY <1>3, <1>4, <1>5, StepKeeps DEF Exit, Posts, calls

\* An interrupt ends the worker's hlt.
LEMMA Interrupts ==
    ASSUME IInv, NEW c \in CPU, th' = [th EXCEPT ![T(c)].pc = AfterInterrupt(@)]
    PROVE  Steps(c)
<1>. DEFINE me == th[T(c)]
            l  == AfterInterrupt(me.pc)
            r  == [me EXCEPT !.pc = l]
<1>1. me \in ThreadType /\ Sound(T(c), me) /\ T(c) \in Tid
  BY Here
<1>2. th' = [th EXCEPT ![T(c)] = r]
  OBVIOUS
<1>. HIDE DEF me
<1>3. l \in Pcs /\ (l = me.pc \/ (me.pc = "halt" /\ l = "scan"))
  BY <1>1 DEF AfterInterrupt, ThreadType, Pcs, WorkPcs
<1>. HIDE DEF l
<1>4. r \in ThreadType /\ r.pc = l /\ r.back = me.back /\ r.obj = me.obj
      /\ r.arg = me.arg
  BY <1>1, <1>3 DEF ThreadType
<1>5. th'[T(c)] = r
  BY <1>1, <1>2 DEF IInv, Threads
<1>8. r = me \/ (me.pc \notin TellPcs /\ r.pc \notin TellPcs)
  <2>1. CASE l = me.pc
    BY <1>1, <2>1 DEF ThreadType
  <2>2. CASE me.pc = "halt" /\ l = "scan"
    BY <1>4, <2>2 DEF TellPcs
  <2>. QED BY <1>3, <2>1, <2>2
<1>. HIDE DEF r
<1>6. Sound(T(c), r)
  BY <1>1, <1>3, <1>4 DEF Sound, WorkPcs, MakePcs, WakePcs, AddPcs
<1>7. (Holds(r) => Holds(me)) /\ (Buries(r) => Buries(me)) /\ (Serves(r) => Serves(me))
  BY <1>3, <1>4 DEF Holds, Buries, WakePcs, Serves, MakePcs
<1>. QED BY <1>2, <1>5, <1>6, <1>7, <1>8 DEF Steps, Strides, Mute, me

LEMMA TimerKeeps ==
    ASSUME IInv, NEW c \in CPU, Timer(c)
    PROVE  IInv'
<1>1. Steps(c)
  BY Interrupts DEF Timer
<1>2. Tasks' /\ Queues' /\ Current'
  <2>1. PreemptIrq(c, task, rq[c]) /\ UNCHANGED <<pool, ids>>
    BY DEF Timer, shared
  <2>2. /\ task \in [Tid -> TaskType] /\ rq[c] \in Seq(Nat) /\ Worker[c] \in Range(rq[c])
        /\ \A d \in CPU : task[Worker[d]].state \notin {"Terminating", "Migrating"}
        /\ \A t \in Tid \ known : task[t].state = "New" /\ task[t].blocked <= 0
        /\ Range(rq[c]) \subseteq known
    BY DEF IInv, Tasks, Queues
  <2>. QED BY <2>1, <2>2, Preempts
<1>3. Lists'
  BY Undisturbed DEF Timer, shared, calls
<1>. QED BY <1>1, <1>2, <1>3, StepKeeps DEF Timer, Posts, shared, calls

LEMMA IrqEnterKeeps ==
    ASSUME IInv, NEW c \in CPU, IrqEnter(c)
    PROVE  IInv'
<1>1. Steps(c)
  BY Interrupts DEF IrqEnter
<1>. QED BY <1>1, Undisturbed, StepKeeps DEF IrqEnter, Posts, shared

-----------------------------------------------------------------------------
(* unblock_task and create_task, by a call or by the worker                *)

LEMMA Waking ==
    ASSUME IInv, NEW c \in CPU, th[T(c)].pc \in WakePcs,
           NEW r \in ThreadType, th' = [th EXCEPT ![T(c)] = r],
           r.back = th[T(c)].back, r.obj = th[T(c)].obj,
           r.pc \in AddPcs => r.obj \in known,
           r.pc \in WakePcs \cup {th[T(c)].back}
    PROVE  Steps(c)
<1>1. th'[T(c)] = r
  BY Here DEF IInv, Threads
<1>2. Sound(T(c), th[T(c)])
  BY Here
<1>0. r.pc \in WakePcs \/ r.pc \in Backs \cup {"ipm", "drop"}
  BY <1>2 DEF Sound
<1>3. Sound(T(c), r)
  BY <1>0, <1>2 DEF Sound, WorkPcs, MakePcs, WakePcs, Backs
<1>5. th[T(c)].pc \notin TellPcs /\ r.pc \notin TellPcs
  BY <1>0 DEF TellPcs, WakePcs, Backs
<1>4. T(c) = Worker[c] => /\ Holds(r) => Holds(th[T(c)])
                          /\ Buries(r) => Buries(th[T(c)])
                          /\ Serves(r) => Serves(th[T(c)])
  <2>1. T(c) = Worker[c] => th[T(c)].back \in {"ipm", "drop"}
    BY <1>2, Here DEF Sound
  <2>. QED BY <2>1 DEF Holds, Buries, WakePcs, Serves, MakePcs
<1>. QED BY <1>1, <1>3, <1>4, <1>5 DEF Steps, Strides, Mute

\* A creation whose task the map knows.
LEMMA Making ==
    ASSUME IInv, NEW c \in CPU, th[T(c)].pc \in {"cr_add", "cr_ready", "cr_lb"},
           NEW r \in ThreadType, th' = [th EXCEPT ![T(c)] = r],
           r.back = th[T(c)].back, r.obj = th[T(c)].obj, r.arg = th[T(c)].arg,
           r.pc = "cr_ready" => th[T(c)].pc = "cr_add",
           r.pc \in {"cr_ready", "cr_lb", th[T(c)].back}
    PROVE  Steps(c)
<1>1. th'[T(c)] = r
  BY Here DEF IInv, Threads
<1>2. Sound(T(c), th[T(c)])
  BY Here
<1>0. r.pc \in {"cr_ready", "cr_lb", "answer"} \cup Backs
  BY <1>2 DEF Sound, MakePcs
<1>6. th[T(c)].obj \in Tid /\ th[T(c)].arg \in CPU
      /\ (r.pc = "cr_ready" => r.obj \in known)
  BY <1>2 DEF Sound, MakePcs, AddPcs
<1>3. Sound(T(c), r)
  <2>1. /\ T(c) \in Workers => r.pc \in {"cr_ready", "cr_lb", "answer"} /\ r.back = "answer"
        /\ T(c) \notin Workers => r.pc \in {"cr_ready", "cr_lb"} \cup Backs /\ r.back \in Backs
    BY <1>2 DEF Sound, MakePcs
  <2>. QED BY <1>0, <1>6, <2>1 DEF Sound, WorkPcs, MakePcs, WakePcs, Backs, AddPcs
<1>4. T(c) = Worker[c] => ~Holds(r) /\ ~Buries(r)
  BY <1>0 DEF Holds, Buries, WakePcs, Backs
<1>5. Serves(th[T(c)])
  BY DEF Serves, MakePcs
<1>7. th[T(c)].pc \notin TellPcs /\ r.pc \notin TellPcs
  BY <1>0 DEF TellPcs, Backs
<1>. QED BY <1>1, <1>3, <1>4, <1>5, <1>7 DEF Steps, Strides, Mute

\* Goto of an unblock or of a creation.
LEMMA WakingGoes ==
    ASSUME IInv, NEW c \in CPU, th[T(c)].pc \in WakePcs, NEW l, Goto(c, l),
           l \in AddPcs => th[T(c)].obj \in known,
           l \in WakePcs \cup {th[T(c)].back}
    PROVE  Steps(c)
<1>. DEFINE me == th[T(c)]
            r  == [me EXCEPT !.pc = l]
<1>1. me \in ThreadType
  BY Here
<1>2. th' = [th EXCEPT ![T(c)] = r]
  BY DEF Goto
<1>. HIDE DEF me
<1>3. l \in Pcs
  BY <1>1 DEF me, Pcs, ThreadType
<1>4. r \in ThreadType /\ r.pc = l /\ r.back = me.back /\ r.obj = me.obj
  BY <1>1, <1>3 DEF ThreadType
<1>. HIDE DEF r
<1>. QED BY <1>2, <1>4, Waking DEF me

LEMMA MakingGoes ==
    ASSUME IInv, NEW c \in CPU, th[T(c)].pc \in {"cr_add", "cr_ready", "cr_lb"},
           NEW l, Goto(c, l), l = "cr_ready" => th[T(c)].pc = "cr_add",
           l \in {"cr_ready", "cr_lb", th[T(c)].back}
    PROVE  Steps(c)
<1>. DEFINE me == th[T(c)]
            r  == [me EXCEPT !.pc = l]
<1>1. me \in ThreadType
  BY Here
<1>2. th' = [th EXCEPT ![T(c)] = r]
  BY DEF Goto
<1>. HIDE DEF me
<1>3. l \in Pcs
  BY <1>1 DEF me, Pcs, MakePcs, ThreadType
<1>4. /\ r \in ThreadType /\ r.pc = l /\ r.back = me.back
      /\ r.obj = me.obj /\ r.arg = me.arg
  BY <1>1, <1>3 DEF ThreadType
<1>. HIDE DEF r
<1>. QED BY <1>2, <1>4, Making DEF me

LEMMA WakingBack ==
    ASSUME IInv, NEW c \in CPU, th[T(c)].pc \in WakePcs
    PROVE  th[T(c)].back \notin AddPcs
  BY Here DEF Sound, AddPcs, Backs

LEMMA UnblockMapKeeps ==
    ASSUME IInv, NEW c \in CPU, UnblockMap(c)
    PROVE  IInv'
<1>. DEFINE me == th[T(c)]
            l  == IF tid_cpu[me.obj] = None THEN me.back ELSE "ub_cpu"
            at == tid_cpu[me.obj]
            r  == [me EXCEPT !.pc = l, !.arg = at]
<1>1. me \in ThreadType /\ me.pc \in WakePcs /\ me.obj \in Tid /\ T(c) \in Tid
      /\ th \in [Tid -> ThreadType]
  BY Here DEF UnblockMap, At, WakePcs, Sound, IInv, Threads
<1>2. at \in Place /\ l \in WakePcs \cup {me.back}
  BY <1>1 DEF IInv, Pools, WakePcs
<1>3. th' = [th EXCEPT ![T(c)] = r]
  BY <1>1 DEF UnblockMap, ThreadType
<1>7. l \notin AddPcs
  BY <1>1, WakingBack DEF AddPcs
<1>. HIDE DEF me, l, at
<1>4. l \in Pcs
  BY <1>1, <1>2 DEF Pcs, ThreadType
<1>5. r \in ThreadType /\ r.pc = l /\ r.back = me.back /\ r.obj = me.obj
  BY <1>1, <1>2, <1>4 DEF ThreadType
<1>. HIDE DEF r
<1>6. Steps(c)
  BY <1>1, <1>2, <1>3, <1>5, <1>7, Waking DEF me
<1>. QED BY <1>6, Undisturbed, StepKeeps DEF UnblockMap, Posts, shared, calls

LEMMA UnblockRemoteKeeps ==
    ASSUME IInv, NEW c \in CPU, UnblockRemote(c)
    PROVE  IInv'
<1>1. /\ th[T(c)].pc \in WakePcs /\ th[T(c)].obj \in Tid /\ th[T(c)].arg \in Place
  BY Here DEF UnblockRemote, At, WakePcs, Sound, ThreadType
<1>4. th[T(c)].back \notin AddPcs
  BY <1>1, WakingBack
<1>2. Steps(c)
  BY <1>1, <1>4, WakingGoes DEF UnblockRemote
<1>3. Posts
  <2>. DEFINE m == Ipm(th[T(c)].arg, "Unblock", th[T(c)].obj, c, 0)
  <2>1. m \in Message /\ m.kind # "MoveTask"
    BY <1>1 DEF Ipm, Message
  <2>2. mq' = Append(mq, m)
    BY DEF UnblockRemote, Send
  <2>. HIDE DEF m
  <2>. QED BY <2>1, <2>2 DEF Posts
<1>. QED BY <1>2, <1>3, Undisturbed, StepKeeps DEF UnblockRemote, shared, calls

LEMMA UnblockCountKeeps ==
    ASSUME IInv, NEW c \in CPU, UnblockCount(c)
    PROVE  IInv'
<1>. DEFINE t == th[T(c)].obj
<1>1. th[T(c)].pc \in WakePcs /\ t \in Tid /\ task[t] \in TaskType
  BY Here DEF UnblockCount, At, WakePcs, Sound, IInv, Tasks
<1>2. CASE t \notin pool[c]
  BY <1>2, IdleKeeps DEF UnblockCount, Fault, Idle, shared, calls
<1>3. CASE t \in pool[c]
  <2>1. Steps(c)
    <3>1. \/ Goto(c, "ub_ready") /\ task[t].blocked = 1
          \/ Goto(c, th[T(c)].back)
      BY <1>3 DEF UnblockCount
    <3>2. task[t].blocked = 1 => t \in known
      BY <1>1 DEF IInv, Tasks
    <3>. QED BY <1>1, <3>1, <3>2, WakingGoes, WakingBack DEF WakePcs
  <2>2. Tasks'
    <3>. DEFINE n == task[t].blocked - 1
                r == IF task[t].state = "Sleeping"
                     THEN [task[t] EXCEPT !.state = "Ready"]
                     ELSE [task[t] EXCEPT !.blocked = n]
    <3>1. task' = [task EXCEPT ![t] = r]
      BY <1>3 DEF UnblockCount
    <3>2. n \in Int
      BY <1>1 DEF TaskType
    <3>3. t \in Workers => task[t].state \notin {"Terminating", "Migrating"}
      BY DEF Workers, IInv, Tasks
    <3>5. t \notin known => task[t].state = "New" /\ n <= 0
      BY <1>1 DEF IInv, Tasks, TaskType
    <3>6. UNCHANGED ids
      BY <1>3 DEF UnblockCount, shared
    <3>. HIDE DEF n
    <3>4. /\ r \in TaskType /\ r.state \in {"Ready", task[t].state}
          /\ t \notin known => r.state = "New" /\ r.blocked <= 0
      BY <1>1, <3>2, <3>5 DEF TaskType, States
    <3>. HIDE DEF r, t
    <3>. QED BY <1>1, <3>1, <3>3, <3>4, <3>6, TaskSteps
  <2>. QED BY <1>3, <2>1, <2>2, Undisturbed, StepKeeps DEF UnblockCount, Posts, shared, calls
<1>. QED BY <1>2, <1>3

LEMMA UnblockReadyKeeps ==
    ASSUME IInv, NEW c \in CPU, UnblockReady(c)
    PROVE  IInv'
<1>1. th[T(c)].pc \in WakePcs /\ th[T(c)].obj \in Tid /\ th[T(c)].obj \in known
  BY Here DEF UnblockReady, At, WakePcs, AddPcs, Sound
<1>2. Steps(c)
  BY <1>1, WakingGoes DEF UnblockReady, WakePcs
<1>3. Tasks'
  BY <1>1, StateSteps DEF UnblockReady, States, shared
<1>. QED BY <1>2, <1>3, Undisturbed, StepKeeps DEF UnblockReady, Posts, shared, calls

LEMMA UnblockAddKeeps ==
    ASSUME IInv, NEW c \in CPU, UnblockAdd(c)
    PROVE  IInv'
<1>1. th[T(c)].pc \in WakePcs /\ th[T(c)].obj \in Nat /\ th[T(c)].obj \in known
  BY Here DEF UnblockAdd, At, WakePcs, AddPcs, Sound, ThreadType
<1>2. Steps(c)
  BY <1>1, WakingGoes DEF UnblockAdd, WakePcs
<1>3. Queues'
  BY <1>1, Grows DEF UnblockAdd, shared
<1>. QED BY <1>2, <1>3, Undisturbed, StepKeeps DEF UnblockAdd, Posts, shared, calls

LEMMA CreationsBack ==
    ASSUME IInv, NEW c \in CPU, th[T(c)].pc \in MakePcs
    PROVE  th[T(c)].back \in Backs \cup {"answer"}
  BY Here DEF Sound

LEMMA CreateGoesOnKeeps ==
    ASSUME IInv, NEW c \in CPU, CreateAdd(c) \/ CreateReady(c) \/ CreateCount(c)
    PROVE  IInv'
<1>1. /\ th[T(c)].pc \in {"cr_add", "cr_ready", "cr_lb"} /\ th[T(c)].obj \in Nat
      /\ th[T(c)].obj \in Tid /\ th[T(c)].arg \in CPU
      /\ th[T(c)].pc \in {"cr_add", "cr_ready"} => th[T(c)].obj \in known
  BY Here DEF CreateAdd, CreateReady, CreateCount, At, MakePcs, AddPcs, Sound, ThreadType
<1>2. CASE CreateAdd(c)
  <2>0. th[T(c)].pc = "cr_add"
    BY <1>2 DEF CreateAdd, At
  <2>1. Steps(c)
    BY <1>1, <1>2, <2>0, MakingGoes DEF CreateAdd
  <2>2. Queues'
    BY <1>1, <1>2, <2>0, Grows DEF CreateAdd, shared
  <2>. QED BY <1>2, <2>1, <2>2, Undisturbed, StepKeeps DEF CreateAdd, Posts, shared, calls
<1>3. CASE CreateReady(c) /\ th[T(c)].obj \notin pool[th[T(c)].arg]
  BY <1>3, IdleKeeps DEF CreateReady, Fault, Idle, shared, calls
<1>4. CASE CreateReady(c) /\ th[T(c)].obj \in pool[th[T(c)].arg]
  <2>0. th[T(c)].pc = "cr_ready"
    BY <1>4 DEF CreateReady, At
  <2>1. Steps(c)
    BY <1>1, <1>4, MakingGoes DEF CreateReady
  <2>2. Tasks'
    BY <1>1, <1>4, <2>0, StateSteps DEF CreateReady, States, shared
  <2>. QED BY <1>4, <2>1, <2>2, Undisturbed, StepKeeps DEF CreateReady, Posts, shared, calls
<1>5. CASE CreateCount(c)
  <2>1. Steps(c)
    <3>1. th[T(c)].back # "cr_ready"
      BY <1>1, CreationsBack DEF MakePcs, Backs
    <3>. QED BY <1>1, <1>5, <3>1, MakingGoes DEF CreateCount
  <2>. QED BY <1>5, <2>1, Undisturbed, StepKeeps DEF CreateCount, Posts, calls
<1>. QED BY <1>2, <1>3, <1>4, <1>5

\* What the map is not told of yet matters to nothing but numbers and pools.
LEMMA CreationKeeps ==
    ASSUME IInv, NEW c \in CPU, th[T(c)].pc \in MakePcs,
           UNCHANGED <<rq, curr, mq, wk, waiters, ioq>>, known \subseteq known',
           \A d \in CPU : pool[d] \subseteq pool'[d] /\ pool'[d] \cap known \subseteq pool[d],
           \A d \in CPU : \/ th'[Worker[d]] = th[Worker[d]]
                          \/ Worker[d] = T(c) /\ th'[Worker[d]].pc \in MakePcs,
           Tasks', Threads', Numbers', Pools'
    PROVE  IInv'
<1>1. \A x : Box(x)' = Box(x)
  BY DEF Box
<1>2. /\ \A x, i : Move(x, i)' <=> Move(x, i)
      /\ \A u : Travels(u)' <=> Travels(u)
  BY <1>1 DEF Move, Travels
<1>3. Moves'
  BY <1>1, <1>2 DEF IInv, Moves
<1>4. ASSUME NEW d \in CPU
      PROVE  /\ Holds(th'[Worker[d]]) => Holds(th[Worker[d]])
             /\ Buries(th'[Worker[d]]) => Buries(th[Worker[d]])
             /\ Serves(th'[Worker[d]]) => Serves(th[Worker[d]])
             /\ th'[Worker[d]].pc = "mv_map" => th'[Worker[d]] = th[Worker[d]]
  BY DEF Holds, Buries, Serves, MakePcs, WakePcs
<1>5. Victims'
  BY <1>2, <1>4, VictimsStay
<1>6. Served'
  BY <1>4 DEF IInv, Served, Serves
<1>7. Movers'
  BY <1>4 DEF IInv, Movers
<1>8. Queues' /\ Current' /\ Lists'
  BY DEF IInv, Queues, Current, Lists
<1>. QED BY <1>3, <1>5, <1>6, <1>7, <1>8 DEF IInv

\* A new task gets a number that nobody had.
LEMMA CreateTidKeeps ==
    ASSUME IInv, NEW c \in CPU, CreateTid(c)
    PROVE  IInv'
<1>. DEFINE n  == next_tid
            me == th[T(c)]
            r  == [me EXCEPT !.pc = "cr_pool", !.obj = n, !.arg = c]
<1>1. /\ me \in ThreadType /\ Sound(T(c), me) /\ me.pc = "cr_new" /\ me.pc \in MakePcs
      /\ T(c) \in Tid /\ T(c) \in known /\ c \in Place
  BY Here DEF CreateTid, At, MakePcs
<1>2. /\ n \in Nat /\ n \in Tid /\ n \notin known /\ n < next_tid' /\ next_tid' \in Nat \ {0}
      /\ \A t \in Tid : t < n => t < next_tid'
  <2>1. n \in Nat \ {0} /\ n <= MaxTid /\ MaxTid \in Nat /\ next_tid' = n + 1
    BY SchedAssumption DEF IInv, Numbers, CreateTid, SchedAssumption
  <2>. QED BY <2>1 DEF Tid, IInv, Numbers
<1>3. /\ th' = [th EXCEPT ![T(c)] = r]
      /\ UNCHANGED <<task, pool, rq, curr, tid_cpu, known, mq, wk, waiters, ioq>>
  BY <1>1 DEF CreateTid, calls, ThreadType, IInv, Threads
<1>. HIDE DEF me, n
<1>4. /\ r \in ThreadType /\ r.pc = "cr_pool" /\ r.back = me.back
      /\ r.obj = n /\ r.arg = c
  BY <1>1, <1>2 DEF ThreadType, Pcs, MakePcs
<1>. HIDE DEF r
<1>5. /\ th' \in [Tid -> ThreadType]
      /\ \A u \in Tid : th'[u] = IF u = T(c) THEN r ELSE th[u]
  BY <1>1, <1>3, <1>4 DEF IInv, Threads
<1>6. Threads'
  <2>1. Sound(T(c), r)
    BY <1>1, <1>2, <1>4 DEF Sound, WorkPcs, MakePcs, WakePcs, AddPcs
  <2>. QED BY <1>3, <1>5, <2>1 DEF IInv, Threads, Sound
<1>7. Numbers'
  <2>1. \A u \in Tid : Fresh(u)' <=> u = T(c) \/ Fresh(u)
    BY <1>1, <1>4, <1>5 DEF Fresh, me
  <2>2. \A u \in Tid : Fresh(u) => u # T(c) /\ th'[u] = th[u] /\ th[u].obj # n
                                   /\ th[u].obj \in Tid
    <3>1. n \in Nat /\ ~(n < n)
      BY <1>2
    <3>. QED BY <1>1, <1>5, <3>1 DEF Fresh, me, IInv, Numbers, Threads, Sound, MakePcs, n
  <2>3. \A t \in known : t < next_tid'
    BY <1>2 DEF IInv, Numbers, n
  <2>4. ASSUME NEW u \in Tid, Fresh(u)'
        PROVE  /\ th'[u].obj \notin known /\ th'[u].obj < next_tid'
               /\ \A v \in Tid : Fresh(v)' /\ th'[v].obj = th'[u].obj => u = v
    <3>1. CASE u = T(c)
      BY <1>2, <1>4, <1>5, <2>1, <2>2, <3>1
    <3>2. CASE u # T(c)
      <4>1. Fresh(u) /\ th'[u] = th[u] /\ th[u].obj # n /\ th[u].obj \in Tid
        BY <2>1, <2>2, <2>4, <3>2
      <4>2. /\ th[u].obj \notin known /\ th[u].obj < n
            /\ \A v \in Tid : Fresh(v) /\ th[v].obj = th[u].obj => u = v
        BY <4>1 DEF IInv, Numbers, n
      <4>3. th[u].obj < next_tid'
        BY <1>2, <4>1, <4>2
      <4>. QED BY <1>4, <1>5, <2>1, <2>2, <4>1, <4>2, <4>3
    <3>. QED BY <3>1, <3>2
  <2>5. \A u \in Tid \ known : th'[u].pc = "run"
    BY <1>1, <1>5 DEF IInv, Numbers
  <2>. QED BY <1>2, <1>3, <2>3, <2>4, <2>5 DEF Numbers, Fresh, IInv
<1>8. Pools'
  <2>1. \A d, t : /\ Tells("mv_map", d, t) => Tells("mv_map", d, t)'
                  /\ Tells("cr_map", d, t) => Tells("cr_map", d, t)'
    BY <1>1, <1>5 DEF Tells, me
  <2>2. \A u : Travels(u)' <=> Travels(u)
    BY <1>3 DEF Travels, Move, Box
  <2>. QED BY <1>3, <2>1, <2>2 DEF IInv, Pools
<1>9. Tasks'
  BY <1>3 DEF IInv, Tasks
<1>10. \A d \in CPU : \/ th'[Worker[d]] = th[Worker[d]]
                      \/ Worker[d] = T(c) /\ th'[Worker[d]].pc \in MakePcs
  BY <1>4, <1>5, Here DEF MakePcs
<1>. QED BY <1>1, <1>3, <1>6, <1>7, <1>8, <1>9, <1>10, CreationKeeps DEF me

\* The task that a thread at cr_pool or cr_map creates.
LEMMA Newborn ==
    ASSUME IInv, NEW c \in CPU, th[T(c)].pc \in {"cr_pool", "cr_map"}
    PROVE  LET t == th[T(c)].obj IN
           /\ t \in Tid /\ t \in Nat /\ t \notin known /\ th[T(c)].arg \in CPU
           /\ t < next_tid /\ t # T(c) /\ t \notin Workers /\ th[t].pc = "run" /\ ~Travels(t)
           /\ \A d \in CPU : t \in pool[d] => th[T(c)].pc = "cr_map" /\ d = th[T(c)].arg
           /\ \A u \in Tid : Fresh(u) /\ th[u].obj = t => u = T(c)
<1>. DEFINE me == th[T(c)]
            t  == me.obj
<1>1. /\ T(c) \in Tid /\ T(c) \in known /\ Fresh(T(c)) /\ Workers \subseteq known
      /\ me.pc \in MakePcs \ {"cr_new"} /\ Sound(T(c), me)
  <2>1. Workers \subseteq known
    BY DEF Workers, IInv, Queues
  <2>. QED BY <2>1, Here DEF Fresh, MakePcs
<1>2. t \in Tid /\ me.arg \in CPU
  BY <1>1 DEF Sound
<1>3. /\ t \notin known /\ t < next_tid
      /\ \A u \in Tid : Fresh(u) /\ th[u].obj = t => u = T(c)
  BY <1>1 DEF IInv, Numbers
<1>4. ~Travels(t)
  BY <1>3 DEF Travels, IInv, Moves
<1>5. th[t].pc = "run"
  BY <1>2, <1>3 DEF IInv, Numbers
<1>6. \A d \in CPU : t \in pool[d] => me.pc = "cr_map" /\ d = me.arg
  <2>1. ASSUME NEW d \in CPU, t \in pool[d] PROVE Tells("cr_map", d, t)
    BY <1>3, <2>1 DEF IInv, Pools
  <2>2. ASSUME NEW u \in Tid, th[u].pc = "cr_map", th[u].obj = t PROVE u = T(c)
    BY <1>3, <2>2 DEF Fresh
  <2>. QED BY <2>1, <2>2 DEF Tells
<1>7. t \in Nat
  BY <1>2, SchedAssumption DEF SchedAssumption, Tid
<1>. QED BY <1>1, <1>2, <1>3, <1>4, <1>5, <1>6, <1>7

LEMMA CreateInsertKeeps ==
    ASSUME IInv, NEW c \in CPU, CreateInsert(c)
    PROVE  IInv'
<1>. SUFFICES ASSUME NEW w, w = T(c), NEW me, me = th[w],
                     NEW t, t = me.obj, NEW d, d = me.arg
              PROVE  IInv'
  OBVIOUS
<1>. DEFINE r == [me EXCEPT !.pc = "cr_map"]
<1>1. /\ me \in ThreadType /\ Sound(w, me) /\ me.pc = "cr_pool" /\ me.pc \in MakePcs
      /\ w \in Tid /\ w \in known
  BY Here DEF CreateInsert, At, MakePcs
<1>2. /\ t \in Tid /\ t \notin known /\ d \in CPU /\ t # w /\ ~Travels(t)
      /\ (\A e \in CPU : t \notin pool[e])
      /\ \A u \in Tid : Fresh(u) /\ th[u].obj = t => u = w
  BY <1>1, Newborn
<1>3. /\ th' = [th EXCEPT ![w] = r] /\ pool' = [pool EXCEPT ![d] = @ \cup {t}]
      /\ task' = [task EXCEPT ![t] = [NewTask EXCEPT !.cpu = d]]
      /\ UNCHANGED <<rq, curr, tid_cpu, ids, mq, wk, waiters, ioq>>
  BY DEF CreateInsert, Goto, calls, shared
<1>4. /\ r \in ThreadType /\ r.pc = "cr_map" /\ r.back = me.back
      /\ r.obj = t /\ r.arg = d
  BY <1>1 DEF ThreadType, Pcs, MakePcs
<1>. HIDE DEF r
<1>5. /\ th' \in [Tid -> ThreadType]
      /\ \A u \in Tid : th'[u] = IF u = w THEN r ELSE th[u]
  BY <1>1, <1>3, <1>4 DEF IInv, Threads
<1>6. Threads'
  <2>1. Sound(w, r)
    BY <1>1, <1>2, <1>4 DEF Sound, WorkPcs, MakePcs, WakePcs, AddPcs
  <2>. QED BY <1>3, <1>5, <2>1 DEF IInv, Threads, Sound, ids
<1>7. Numbers'
  <2>1. \A u \in Tid : /\ Fresh(u)' <=> Fresh(u)
                       /\ th'[u].obj = th[u].obj
                       /\ u \notin known => th'[u] = th[u]
    BY <1>1, <1>4, <1>5 DEF Fresh
  <2>. QED BY <1>3, <2>1 DEF IInv, Numbers, ids
<1>8. Pools'
  <2>1. /\ \A e, u : /\ Tells("mv_map", e, u) => Tells("mv_map", e, u)'
                     /\ Tells("cr_map", e, u) => Tells("cr_map", e, u)'
        /\ Tells("cr_map", d, t)'
    BY <1>1, <1>4, <1>5 DEF Tells
  <2>2. \A u : Travels(u)' <=> Travels(u)
    BY <1>3 DEF Travels, Move, Box
  <2>3. /\ pool' \in [CPU -> SUBSET Tid]
        /\ \A e \in CPU : pool'[e] = IF e = d THEN pool[e] \cup {t} ELSE pool[e]
    <3>. DEFINE s == pool[d] \cup {t}
    <3>1. pool \in [CPU -> SUBSET Tid]
      BY DEF IInv, Pools
    <3>2. s \in SUBSET Tid /\ pool' = [pool EXCEPT ![d] = s]
      BY <1>2, <1>3, <3>1
    <3>3. \A e \in CPU : e # d => pool'[e] = pool[e]
      BY <3>1, <3>2
    <3>4. pool'[d] = s
      BY <1>2, <3>1, <3>2
    <3>5. pool' \in [CPU -> SUBSET Tid]
      <4>. HIDE DEF s
      <4>. QED BY <3>1, <3>2
    <3>. QED BY <3>3, <3>4, <3>5
  <2>4. ASSUME NEW e \in CPU, NEW u \in pool'[e]
        PROVE  /\ ~Travels(u)' /\ \A f \in CPU : u \in pool'[f] => e = f
               /\ IF u \in known THEN tid_cpu[u] = e \/ Tells("mv_map", e, u)'
                                 ELSE Tells("cr_map", e, u)'
    <3>1. CASE u = t
      BY <1>2, <2>1, <2>2, <2>3, <2>4, <3>1
    <3>2. CASE u # t
      <4>1. u \in pool[e] /\ \A f \in CPU : u \in pool'[f] => u \in pool[f]
        BY <2>3, <2>4, <3>2
      <4>2. /\ ~Travels(u) /\ \A f \in CPU : u \in pool[f] => e = f
            /\ IF u \in known THEN tid_cpu[u] = e \/ Tells("mv_map", e, u)
                              ELSE Tells("cr_map", e, u)
        BY <4>1 DEF IInv, Pools
      <4>. QED BY <2>1, <2>2, <4>1, <4>2
    <3>. QED BY <3>1, <3>2
  <2>5. tid_cpu' \in [Tid -> Place] /\ tid_cpu' = tid_cpu /\ known' = known
    BY <1>3 DEF IInv, Pools, ids
  <2>. QED BY <2>3, <2>4, <2>5 DEF Pools
<1>9. Tasks'
  <2>. DEFINE n == [NewTask EXCEPT !.cpu = d]
  <2>1. n \in TaskType /\ n.state = "New" /\ n.blocked = 0
    <3>1. <<>> \in Seq(Tid) /\ d \in Place
      BY <1>2, EmptySeq DEF Place
    <3>2. n = [state |-> "New", cpu |-> d, blocked |-> 0, joiners |-> <<>>, ret |-> 0]
      BY DEF NewTask
    <3>. HIDE DEF n
    <3>. QED BY <3>1, <3>2 DEF TaskType, States
  <2>. HIDE DEF n
  <2>2. task' = [task EXCEPT ![t] = n]
    BY <1>3 DEF n
  <2>3. t \in Tid /\ UNCHANGED ids /\ n.state \notin {"Terminating", "Migrating"}
        /\ n.blocked <= 0
    BY <1>2, <1>3, <2>1
  <2>. QED BY <2>1, <2>2, <2>3, TaskSteps
<1>10. \A e \in CPU : \/ th'[Worker[e]] = th[Worker[e]]
                      \/ Worker[e] = w /\ th'[Worker[e]].pc \in MakePcs
  BY <1>4, <1>5, Here DEF MakePcs
<1>11. \A e \in CPU : pool[e] \subseteq pool'[e] /\ pool'[e] \cap known \subseteq pool[e]
  BY <1>2, <1>3 DEF IInv, Pools
<1>12. known \subseteq known'
  BY <1>3 DEF ids
<1>. QED BY <1>1, <1>3, <1>6, <1>7, <1>8, <1>9, <1>10, <1>11, <1>12, CreationKeeps

\* From here on the task is one of its CPU's.
LEMMA CreateMapKeeps ==
    ASSUME IInv, NEW c \in CPU, CreateMap(c)
    PROVE  IInv'
<1>. SUFFICES ASSUME NEW w, w = T(c), NEW me, me = th[w],
                     NEW t, t = me.obj, NEW d, d = me.arg
              PROVE  IInv'
  OBVIOUS
<1>. DEFINE r == [me EXCEPT !.pc = "cr_add"]
<1>1. /\ me \in ThreadType /\ Sound(w, me) /\ me.pc = "cr_map" /\ me.pc \in MakePcs
      /\ w \in Tid /\ w \in known
  BY Here DEF CreateMap, At, MakePcs
<1>2. /\ t \in Tid /\ t \notin known /\ d \in CPU /\ t # w /\ t < next_tid
      /\ t \notin Workers /\ th[t].pc = "run"
      /\ (\A e \in CPU : t \in pool[e] => e = d)
      /\ \A u \in Tid : Fresh(u) /\ th[u].obj = t => u = w
  BY <1>1, Newborn
<1>3. /\ th' = [th EXCEPT ![t] = Client(t), ![w].pc = "cr_add"]
      /\ tid_cpu' = [tid_cpu EXCEPT ![t] = d] /\ known' = known \cup {t}
      /\ UNCHANGED <<task, pool, rq, curr, next_tid, mq, wk, waiters, ioq>>
  BY DEF CreateMap, MapTo, calls
<1>4. /\ r \in ThreadType /\ r.pc = "cr_add" /\ r.back = me.back
      /\ r.obj = t /\ r.arg = d
  <2>. QED BY <1>1 DEF ThreadType, Pcs, MakePcs
<1>13. Client(t) \in ThreadType /\ Client(t).pc = "run" /\ Client(t).back = "run"
  <2>1. Left[t] \in Int
    BY <1>2, SchedAssumption DEF SchedAssumption
  <2>. QED BY <2>1, Zeroed DEF Client, ThreadType
<1>5. /\ th' \in [Tid -> ThreadType]
      /\ \A u \in Tid : th'[u] = IF u = t THEN Client(t) ELSE IF u = w THEN r ELSE th[u]
  <2>1. \A u \in Tid : th'[u] = IF u = t THEN Client(t) ELSE IF u = w THEN r ELSE th[u]
    BY <1>1, <1>2, <1>3 DEF IInv, Threads, ThreadType
  <2>2. th' = [u \in Tid |-> th'[u]]
    BY <1>1, <1>2, <1>3 DEF IInv, Threads
  <2>. HIDE DEF r
  <2>. QED BY <1>4, <1>13, <2>1, <2>2 DEF IInv, Threads
<1>. HIDE DEF r
<1>6. Threads'
  <2>1. Sound(w, r)'
    BY <1>1, <1>2, <1>3, <1>4 DEF Sound, WorkPcs, MakePcs, WakePcs, AddPcs, Workers
  <2>2. Sound(t, Client(t))'
    BY <1>2, <1>13 DEF Sound, WorkPcs, MakePcs, WakePcs, AddPcs, Backs, Workers
  <2>3. ASSUME NEW u \in Tid, NEW x, x = th[u] PROVE Sound(u, x)'
    <3>1. Sound(u, x)
      BY <2>3 DEF IInv, Threads
    <3>. QED BY <1>3, <3>1 DEF Sound
  <2>. QED BY <1>5, <2>1, <2>2, <2>3 DEF Threads, Sound
<1>7. \A u \in Tid : th[u].pc \in TellPcs /\ u # w => th'[u] = th[u]
  BY <1>2, <1>5 DEF TellPcs
<1>8. Numbers'
  <2>1. ASSUME NEW u \in Tid, Fresh(u)'
        PROVE  Fresh(u) /\ u # w /\ th'[u] = th[u] /\ th[u].obj # t
    <3>1. u # t /\ u # w
      BY <1>4, <1>5, <1>13, <2>1 DEF Fresh
    <3>. QED BY <1>2, <1>5, <2>1, <3>1 DEF Fresh
  <2>2. \A u \in Tid : u \notin known' => th'[u] = th[u]
    BY <1>1, <1>2, <1>3, <1>5
  <2>3. known' \in SUBSET Tid /\ \A u \in known' : u < next_tid'
    BY <1>2, <1>3 DEF IInv, Numbers
  <2>4. ASSUME NEW u \in Tid, Fresh(u)'
        PROVE  /\ th'[u].obj \notin known' /\ th'[u].obj < next_tid
               /\ \A v \in Tid : Fresh(v)' /\ th'[v].obj = th'[u].obj => u = v
    <3>1. /\ th[u].obj \notin known /\ th[u].obj < next_tid
          /\ \A v \in Tid : Fresh(v) /\ th[v].obj = th[u].obj => u = v
      BY <2>1, <2>4 DEF IInv, Numbers
    <3>4. known' = known \cup {t} /\ th'[u] = th[u] /\ th[u].obj # t
      BY <1>3, <2>1, <2>4
    <3>2. th'[u].obj \notin known' /\ th'[u].obj < next_tid
      BY <3>1, <3>4
    <3>3. ASSUME NEW v \in Tid, Fresh(v)', th'[v].obj = th'[u].obj PROVE u = v
      <4>1. Fresh(v) /\ th'[v] = th[v] /\ th'[u] = th[u]
        BY <2>1, <2>4, <3>3
      <4>. QED BY <3>1, <3>3, <4>1
    <3>. QED BY <3>2, <3>3
  <2>5. \A u \in Tid \ known' : th'[u].pc = "run"
    BY <1>3, <2>2 DEF IInv, Numbers
  <2>6. next_tid' = next_tid /\ next_tid \in Nat \ {0}
    BY <1>3 DEF IInv, Numbers
  <2>. QED BY <2>3, <2>4, <2>5, <2>6 DEF Numbers
<1>9. Pools'
  <2>1. \A u : Travels(u)' <=> Travels(u)
    BY <1>3 DEF Travels, Move, Box
  <2>2. /\ tid_cpu' \in [Tid -> Place] /\ tid_cpu'[t] = d
        /\ \A u \in Tid : u # t => tid_cpu'[u] = tid_cpu[u]
    BY <1>2, <1>3 DEF IInv, Pools, Place
  <2>3. ASSUME NEW e, NEW u, u # t
        PROVE  /\ Tells("mv_map", e, u) => Tells("mv_map", e, u)'
               /\ Tells("cr_map", e, u) => Tells("cr_map", e, u)'
    BY <1>1, <1>2, <1>7, <2>3 DEF Tells, TellPcs
  <2>4. ASSUME NEW e \in CPU, NEW u \in pool[e]
        PROVE  IF u \in known' THEN tid_cpu'[u] = e \/ Tells("mv_map", e, u)'
                               ELSE Tells("cr_map", e, u)'
    <3>1. CASE u = t
      BY <1>2, <1>3, <2>2, <2>4, <3>1
    <3>2. CASE u # t
      <4>1. /\ u \in Tid
            /\ IF u \in known THEN tid_cpu[u] = e \/ Tells("mv_map", e, u)
                              ELSE Tells("cr_map", e, u)
        BY <2>4 DEF IInv, Pools
      <4>. QED BY <1>3, <2>2, <2>3, <3>2, <4>1
    <3>. QED BY <3>1, <3>2
  <2>. QED BY <1>3, <2>1, <2>2, <2>4 DEF IInv, Pools
<1>10. Tasks'
  BY <1>3 DEF IInv, Tasks
<1>11. \A e \in CPU : \/ th'[Worker[e]] = th[Worker[e]]
                      \/ Worker[e] = w /\ th'[Worker[e]].pc \in MakePcs
  BY <1>2, <1>4, <1>5, Here DEF MakePcs
<1>. QED BY <1>1, <1>3, <1>6, <1>8, <1>9, <1>10, <1>11, CreationKeeps

-----------------------------------------------------------------------------
(* The worker task                                                         *)

\* Where its code takes the worker.
Working(r) ==
    /\ r.pc \in (WorkPcs \ {"mv_map"}) \cup {"cr_new", "ub_map"}
    /\ r.pc = "cr_new" => r.back = "answer"
    /\ r.pc = "ub_map" => r.back \in {"ipm", "drop"} /\ r.obj \in Tid

LEMMA Works ==
    ASSUME IInv, NEW c \in CPU, th[T(c)].pc \in WorkPcs,
           NEW r \in ThreadType, th' = [th EXCEPT ![T(c)] = r], Working(r)
    PROVE  /\ T(c) = Worker[c] /\ Strides(c) /\ th'[Worker[c]] = r
           /\ \A d \in CPU : d # c => /\ Worker[d] # Worker[c]
                                      /\ th'[Worker[d]] = th[Worker[d]]
           /\ th'[T(c)] = r /\ r.pc \notin TellPcs
           /\ th[T(c)].pc # "mv_map" => Mute(c)
<1>1. T(c) = Worker[c] /\ T(c) \in Tid /\ T(c) \in Workers
      /\ (\A d \in CPU : Worker[d] \in Tid)
  BY Here
<1>2. th'[T(c)] = r /\ \A t \in Tid : t # T(c) => th'[t] = th[t]
  BY <1>1 DEF IInv, Threads
<1>3. \A d \in CPU : d # c => Worker[d] # Worker[c]
  BY SchedAssumption DEF SchedAssumption
<1>4. Sound(T(c), r)
  BY <1>1 DEF Working, Sound, WorkPcs, MakePcs, WakePcs, AddPcs
<1>5. r.pc \notin TellPcs /\ (th[T(c)].pc # "mv_map" => th[T(c)].pc \notin TellPcs)
  BY DEF Working, TellPcs, WorkPcs
<1>. QED BY <1>1, <1>2, <1>3, <1>4, <1>5 DEF Strides, Mute

\* A step of the worker that leaves the pools as they are.
LEMMA WorkKeeps ==
    ASSUME IInv, NEW c \in CPU, th[T(c)].pc \in WorkPcs \ {"mv_map"},
           NEW r \in ThreadType, th' = [th EXCEPT ![T(c)] = r], Working(r),
           ~Holds(r), Buries(r) => Buries(th[T(c)]), Serves(r) => wk'[c].inbox # <<>>,
           UNCHANGED <<pool, tid_cpu, ids>>, Carried,
           \A d \in CPU : /\ wk'[d].victim = wk[d].victim
                          /\ d # c => wk'[d].inbox = wk[d].inbox,
           Tasks', Queues', Current', Lists'
    PROVE  IInv'
<1>1. /\ T(c) = Worker[c] /\ Strides(c) /\ Mute(c) /\ th'[Worker[c]] = r
      /\ \A d \in CPU : d # c => Worker[d] # Worker[c] /\ th'[Worker[d]] = th[Worker[d]]
  BY Works
<1>2. Threads'
  BY <1>1, ThreadSteps
<1>3. Pools' /\ Numbers' /\ Movers' /\ Moves'
  BY <1>1, PoolsKept DEF Carried
<1>4. Served'
  BY <1>1 DEF IInv, Served, Serves
<1>5. Victims'
  <2>1. \A d \in CPU : /\ Holds(th'[Worker[d]]) => Holds(th[Worker[d]])
                      /\ Buries(th'[Worker[d]]) => Buries(th[Worker[d]])
    BY <1>1
  <2>. QED BY <2>1, VictimsStay DEF Carried, ids
<1>. QED BY <1>2, <1>3, <1>4, <1>5 DEF IInv

\* The message that the worker is at.
LEMMA First ==
    ASSUME IInv, NEW c \in CPU, wk[c].inbox # <<>>
    PROVE  LET m == Head(wk[c].inbox) IN
           /\ m \in Message /\ m.tid \in Tid /\ m.from \in CPU /\ m.from \in Place
           /\ m.val \in Nat /\ (m.kind = "AddJoiner" => m.val \in Tid)
           /\ m = wk[c].inbox[1] /\ 1 \in DOMAIN wk[c].inbox
<1>. DEFINE m == Head(wk[c].inbox)
<1>1. wk[c].inbox \in Seq(Message)
  BY DEF IInv, Moves, WorkType
<1>2. m \in Message /\ m = wk[c].inbox[1] /\ 1 \in DOMAIN wk[c].inbox
  BY <1>1
<1>. HIDE DEF m
<1>3. m.tid \in Tid /\ m.from \in CPU /\ m.val \in Nat /\ (m.kind = "AddJoiner" => m.val \in Tid)
  <2>1. Tid \subseteq Nat
    BY SchedAssumption DEF SchedAssumption, Tid
  <2>. QED BY <1>2, <2>1 DEF Message
<1>. QED BY <1>2, <1>3 DEF m, Place

\* The worker unblocks a task.
LEMMA WorkerUnblocks ==
    ASSUME IInv, NEW c \in CPU, th[T(c)].pc \in WorkPcs, NEW t \in Tid,
           NEW back \in {"ipm", "drop"}, Unblock(c, t, back)
    PROVE  \E r \in ThreadType : /\ th' = [th EXCEPT ![T(c)] = r]
                                 /\ Working(r) /\ ~Holds(r) /\ ~Serves(r)
                                 /\ Buries(r) <=> back = "drop"
<1>. DEFINE me == th[T(c)]
            r  == [me EXCEPT !.pc = "ub_map", !.obj = t, !.back = back]
<1>1. me \in ThreadType /\ T(c) \in Tid /\ th \in [Tid -> ThreadType]
      /\ t \in Nat /\ back \in Pcs /\ "ub_map" \in Pcs
  BY Here, SchedAssumption
     DEF IInv, Threads, SchedAssumption, Tid, Pcs, WorkPcs, WakePcs
<1>2. th' = [th EXCEPT ![T(c)] = r]
  BY <1>1 DEF Unblock, ThreadType
<1>. HIDE DEF me
<1>3. r \in ThreadType /\ r.pc = "ub_map" /\ r.back = back /\ r.obj = t
  BY <1>1 DEF ThreadType
<1>. HIDE DEF r
<1>4. Working(r) /\ ~Holds(r) /\ ~Serves(r) /\ (Buries(r) <=> back = "drop")
  BY <1>3 DEF Working, Holds, Buries, Serves, WorkPcs, MakePcs, WakePcs
<1>. QED BY <1>2, <1>3, <1>4

LEMMA DropJoinerKeeps ==
    ASSUME IInv, NEW c \in CPU, DropJoiner(c)
    PROVE  IInv'
<1>. DEFINE s == wk[c].todo
            w == Tail(s)
            j == Head(s)
<1>1. /\ th[T(c)].pc = "drop" /\ s # <<>> /\ wk' = [wk EXCEPT ![c].todo = w]
      /\ Unblock(c, j, "drop") /\ UNCHANGED <<task, pool, rq, curr, shared, mq, calls>>
  BY DEF DropJoiner, At
<1>2. wk[c] \in WorkType /\ s \in Seq(Tid)
  BY DEF IInv, Moves, WorkType
<1>. HIDE DEF s
<1>3. w \in Seq(Tid) /\ j \in Tid
  BY <1>1, <1>2, HeadTailProperties
<1>. HIDE DEF w, j
<1>4. wk' \in [CPU -> WorkType] /\ \A d \in CPU : wk'[d].inbox = wk[d].inbox
                                                  /\ wk'[d].victim = wk[d].victim
  BY <1>1, <1>2, <1>3 DEF IInv, Moves, WorkType
<1>5. Carried
  BY <1>1, <1>4, Posted DEF Posts, shared
<1>6. PICK r \in ThreadType : th' = [th EXCEPT ![T(c)] = r]
                              /\ Working(r) /\ ~Holds(r) /\ ~Serves(r)
  BY <1>1, <1>3, WorkerUnblocks DEF WorkPcs
<1>7. Buries(th[T(c)]) /\ th[T(c)].pc \in WorkPcs \ {"mv_map"}
  BY <1>1 DEF Buries, WorkPcs
<1>. QED BY <1>1, <1>4, <1>5, <1>6, <1>7, WorkKeeps, Undisturbed DEF shared, calls

\* A message of another kind is done with.
LEMMA PopKeeps ==
    ASSUME IInv, NEW c \in CPU, th[T(c)].pc \in WorkPcs \ {"mv_map"},
           wk[c].inbox # <<>>, Pop(c), Posts,
           NEW r \in ThreadType, th' = [th EXCEPT ![T(c)] = r], Working(r),
           ~Holds(r), ~Buries(r), ~Serves(r),
           UNCHANGED <<pool, rq, curr, tid_cpu, ids, waiters, ioq>>, Tasks'
    PROVE  IInv'
<1>1. /\ Carried
      /\ \A d \in CPU : wk'[d].victim = wk[d].victim /\ (d # c => wk'[d].inbox = wk[d].inbox)
  BY Popped
<1>. QED BY <1>1, WorkKeeps, Undisturbed

LEMMA DoUnblockKeeps ==
    ASSUME IInv, NEW c \in CPU, DoUnblock(c)
    PROVE  IInv'
<1>1. /\ th[T(c)].pc \in WorkPcs \ {"mv_map"} /\ wk[c].inbox # <<>> /\ Pop(c)
      /\ Unblock(c, Head(wk[c].inbox).tid, "ipm")
      /\ UNCHANGED <<task, pool, rq, curr, shared, mq, calls>>
  BY DEF DoUnblock, Next_ipm, At, WorkPcs
<1>2. Head(wk[c].inbox).tid \in Tid
  BY <1>1, First
<1>3. PICK r \in ThreadType : th' = [th EXCEPT ![T(c)] = r]
                              /\ Working(r) /\ ~Holds(r) /\ ~Serves(r) /\ ~Buries(r)
  BY <1>1, <1>2, WorkerUnblocks
<1>. QED BY <1>1, <1>3, PopKeeps, Undisturbed DEF Posts, shared, calls


LEMMA DoCreateTaskKeeps ==
    ASSUME IInv, NEW c \in CPU, DoCreateTask(c)
    PROVE  IInv'
<1>. DEFINE me == th[T(c)]
            r  == [me EXCEPT !.pc = "cr_new", !.back = "answer"]
<1>1. /\ th[T(c)].pc \in WorkPcs \ {"mv_map"} /\ wk[c].inbox # <<>>
      /\ UNCHANGED <<task, pool, rq, curr, shared, mq, wk, calls>>
  BY DEF DoCreateTask, Next_ipm, At, WorkPcs
<1>2. me \in ThreadType /\ T(c) \in Tid /\ th \in [Tid -> ThreadType]
  BY Here DEF IInv, Threads
<1>3. th' = [th EXCEPT ![T(c)] = r]
  BY <1>2 DEF DoCreateTask, ThreadType
<1>. HIDE DEF me
<1>4. r \in ThreadType /\ r.pc = "cr_new" /\ r.back = "answer"
  BY <1>2 DEF ThreadType, Pcs, WorkPcs, MakePcs
<1>. HIDE DEF r
<1>5. Working(r) /\ ~Holds(r) /\ ~Buries(r)
  BY <1>4 DEF Working, Holds, Buries, MakePcs, WakePcs
<1>6. Carried
  BY <1>1, Posted DEF Posts, shared, IInv, Moves
<1>. QED BY <1>1, <1>3, <1>4, <1>5, <1>6, WorkKeeps, Undisturbed DEF shared, calls

\* The worker goes on with its own code.
LEMMA AtWork ==
    ASSUME NEW l \in {"scan", "fetch", "ipm", "halt"}
    PROVE  LET r == [Thread0 EXCEPT !.pc = l] IN
           /\ r \in ThreadType /\ r.pc = l /\ Working(r)
           /\ ~Holds(r) /\ ~Buries(r) /\ ~Serves(r)
<1>. DEFINE r == [Thread0 EXCEPT !.pc = l]
<1>1. r \in ThreadType /\ r.pc = l
  BY Zeroed DEF ThreadType, Pcs, WorkPcs
<1>. HIDE DEF r
<1>2. Working(r) /\ ~Holds(r) /\ ~Buries(r) /\ ~Serves(r)
  BY <1>1 DEF Working, Holds, Buries, Serves, WorkPcs, MakePcs, WakePcs
<1>. QED BY <1>1, <1>2 DEF r

LEMMA AnswerCreateKeeps ==
    ASSUME IInv, NEW c \in CPU, AnswerCreate(c)
    PROVE  IInv'
<1>. DEFINE m == Head(wk[c].inbox)
            n == th[T(c)].obj
            r == [Thread0 EXCEPT !.pc = "ipm"]
<1>1. /\ th[T(c)].pc = "answer" /\ th[T(c)].pc \in WorkPcs \ {"mv_map"}
      /\ mq' = Append(mq, Ipm(m.from, "RespondAndUnblock", m.tid, c, n)) /\ Pop(c)
      /\ th' = [th EXCEPT ![T(c)] = r]
      /\ UNCHANGED <<task, pool, rq, curr, shared, calls>>
  BY DEF AnswerCreate, At, WorkPcs, Send
<1>2. wk[c].inbox # <<>>
  <2>1. T(c) = Worker[c]
    BY <1>1, Here
  <2>. QED BY <1>1, <2>1 DEF IInv, Served, Serves
<1>3. n \in Nat
  BY Here DEF ThreadType
<1>4. m.from \in Place /\ m.tid \in Tid
  BY <1>2, First
<1>. HIDE DEF m, n
<1>5. Posts
  BY <1>1, <1>3, <1>4 DEF Posts, Ipm, Message
<1>6. r \in ThreadType /\ Working(r) /\ ~Holds(r) /\ ~Buries(r) /\ ~Serves(r)
  BY AtWork DEF WorkPcs
<1>. HIDE DEF r
<1>. QED BY <1>1, <1>2, <1>5, <1>6, PopKeeps, Undisturbed DEF shared, calls

LEMMA DoRespondKeeps ==
    ASSUME IInv, NEW c \in CPU, DoRespond(c)
    PROVE  IInv'
<1>. DEFINE m == Head(wk[c].inbox)
<1>1. th[T(c)].pc \in WorkPcs \ {"mv_map"} /\ wk[c].inbox # <<>>
  BY DEF DoRespond, Next_ipm, At, WorkPcs
<1>2. m.tid \in Tid /\ m.val \in Nat
  BY <1>1, First
<1>3. CASE m.tid \notin pool[c]
  BY <1>3, IdleKeeps DEF DoRespond, Fault, Idle, shared, calls
<1>4. CASE m.tid \in pool[c]
  <2>1. /\ SetMsgRet(m.tid, m.val) /\ Unblock(c, m.tid, "ipm") /\ Pop(c)
        /\ UNCHANGED <<pool, rq, curr, shared, mq, calls>>
    BY <1>4 DEF DoRespond
  <2>. HIDE DEF m
  <2>2. PICK r \in ThreadType : th' = [th EXCEPT ![T(c)] = r]
                                /\ Working(r) /\ ~Holds(r) /\ ~Serves(r) /\ ~Buries(r)
    BY <1>1, <1>2, <2>1, WorkerUnblocks
  <2>3. Tasks'
    BY <1>2, <2>1, SetsMsgRet DEF shared
  <2>. QED BY <1>1, <2>1, <2>2, <2>3, PopKeeps DEF Posts, shared, calls
<1>. QED BY <1>3, <1>4

LEMMA DoAddJoinerKeeps ==
    ASSUME IInv, NEW c \in CPU, DoAddJoiner(c)
    PROVE  IInv'
<1>. DEFINE m == Head(wk[c].inbox)
            v == IF m.tid \in pool[c] THEN m.tid ELSE 0
            r == th[T(c)]
<1>1. /\ th[T(c)].pc = "ipm" /\ th[T(c)].pc \in WorkPcs \ {"mv_map"} /\ wk[c].inbox # <<>>
      /\ m.kind = "AddJoiner"
      /\ task' = IF m.tid \in pool[c]
                 THEN [task EXCEPT ![m.tid].joiners = Append(@, m.val)] ELSE task
      /\ mq' = Append(mq, Ipm(m.from, "RespondAndUnblock", m.val, c, v)) /\ Pop(c)
      /\ UNCHANGED <<th, pool, rq, curr, shared, calls>>
  BY DEF DoAddJoiner, Next_ipm, At, WorkPcs, Send
<1>2. m.from \in Place /\ m.tid \in Tid /\ m.val \in Tid
  BY <1>1, First
<1>. HIDE DEF m
<1>3. v \in Nat
  BY <1>2, SchedAssumption DEF SchedAssumption, Tid
<1>. HIDE DEF v
<1>4. Posts
  BY <1>1, <1>2, <1>3 DEF Posts, Ipm, Message
<1>5. Tasks'
  <2>1. CASE m.tid \in pool[c]
    <3>. DEFINE w == Append(task[m.tid].joiners, m.val)
                k == [task[m.tid] EXCEPT !.joiners = w]
    <3>1. task[m.tid] \in TaskType /\ task[m.tid].joiners \in Seq(Tid)
      BY <1>2 DEF IInv, Tasks, TaskType
    <3>2. w \in Seq(Tid)
      BY <1>2, <3>1, AppendProperties
    <3>3. task' = [task EXCEPT ![m.tid] = k]
      BY <1>1, <2>1
    <3>. HIDE DEF w
    <3>4. k \in TaskType /\ k.state = task[m.tid].state /\ k.blocked = task[m.tid].blocked
      BY <3>1, <3>2 DEF TaskType
    <3>5. /\ m.tid \in Workers => k.state \notin {"Terminating", "Migrating"}
          /\ m.tid \notin known => k.state = "New" /\ k.blocked <= 0
          /\ UNCHANGED ids
      BY <1>1, <1>2, <3>4 DEF Workers, IInv, Tasks, shared
    <3>. HIDE DEF k
    <3>. QED BY <1>2, <3>3, <3>4, <3>5, TaskSteps
  <2>2. CASE m.tid \notin pool[c]
    BY <1>1, <2>2, Undisturbed DEF shared
  <2>. QED BY <2>1, <2>2
<1>6. r \in ThreadType /\ th' = [th EXCEPT ![T(c)] = r]
  BY <1>1, Here DEF IInv, Threads
<1>7. Working(r) /\ ~Holds(r) /\ ~Buries(r) /\ ~Serves(r)
  BY <1>1 DEF Working, Holds, Buries, Serves, WorkPcs, MakePcs, WakePcs
<1>. HIDE DEF r
<1>. QED BY <1>1, <1>4, <1>5, <1>6, <1>7, PopKeeps DEF shared, calls

LEMMA HaltKeeps ==
    ASSUME IInv, NEW c \in CPU, Halt(c)
    PROVE  IInv'
<1>. DEFINE r == [Thread0 EXCEPT !.pc = "halt"]
<1>1. /\ th[T(c)].pc \in WorkPcs \ {"mv_map"} /\ th' = [th EXCEPT ![T(c)] = r]
      /\ UNCHANGED <<task, pool, rq, curr, shared, mq, wk, calls>>
  BY DEF Halt, At, WorkPcs
<1>2. r \in ThreadType /\ Working(r) /\ ~Holds(r) /\ ~Buries(r) /\ ~Serves(r)
  BY AtWork DEF WorkPcs
<1>. HIDE DEF r
<1>3. Carried
  BY <1>1, Posted DEF Posts, shared, IInv, Moves
<1>. QED BY <1>1, <1>2, <1>3, WorkKeeps, Undisturbed DEF shared, calls


\* The messages for a CPU move from the shared queue to its worker.
LEMMA FetchKeeps ==
    ASSUME IInv, NEW c \in CPU, Fetch(c)
    PROVE  IInv'
<1>. DEFINE A == Addressed(c)
            N == DOMAIN mq \ A
            a == Kept(mq, A)
            n == Kept(mq, N)
            me == th[T(c)]
            r  == [me EXCEPT !.pc = "ipm"]
<1>1. /\ th[T(c)].pc = "fetch" /\ wk' = [wk EXCEPT ![c].inbox = a] /\ mq' = n
      /\ th' = [th EXCEPT ![T(c)] = r]
      /\ UNCHANGED <<task, pool, rq, curr, shared, calls>>
  BY DEF Fetch, At, Goto
<1>2. mq \in Seq(Message) /\ wk \in [CPU -> WorkType] /\ c # None
  BY SchedAssumption DEF IInv, Moves, SchedAssumption
<1>3. /\ A \in SUBSET DOMAIN mq /\ N \in SUBSET DOMAIN mq
      /\ \A i : i \in A => i \notin N
  BY DEF Addressed
<1>. HIDE DEF A, N, a, n
<1>4. /\ a \in Seq(Message) /\ n \in Seq(Message)
      /\ (\E e : Keeps(a, mq, A, e)) /\ (\E e : Keeps(n, mq, N, e))
  BY <1>2, <1>3, KeptKeeps DEF a, n
<1>5. PICK e : Keeps(a, mq, A, e)
  BY <1>4
<1>6. PICK f : Keeps(n, mq, N, f)
  BY <1>4
<1>7. DOMAIN mq \in SUBSET Nat
  BY <1>2
<1>8. /\ wk' \in [CPU -> WorkType] /\ wk'[c].inbox = a
      /\ \A d \in CPU : /\ wk'[d].victim = wk[d].victim
                        /\ d # c => wk'[d].inbox = wk[d].inbox
  <2>1. wk[c] \in WorkType
    BY <1>2
  <2>. QED BY <1>1, <1>2, <1>4, <2>1 DEF WorkType
\* Where a message that is in the queue or the worker's list now was before.
<1>. DEFINE X(x) == IF x = c THEN None ELSE x
            P(x, i) == IF x = None THEN f[i] ELSE IF x = c THEN e[i] ELSE i
<1>9. ASSUME NEW x \in Place, NEW i \in Nat, Move(x, i)'
      PROVE  /\ X(x) \in Place /\ P(x, i) \in Nat /\ Move(X(x), P(x, i))
             /\ (Box(x)[i].tid)' = Box(X(x))[P(x, i)].tid
             /\ x = None => i \in DOMAIN n /\ P(x, i) \in N
             /\ x = c => i \in DOMAIN a /\ P(x, i) \in A
  <2>1. CASE x = None
    <3>1. i \in DOMAIN n /\ n[i].kind = "MoveTask" /\ (Box(x)[i].tid)' = n[i].tid
      BY <1>1, <1>9, <2>1 DEF Move, Box
    <3>2. f[i] \in N /\ n[i] = mq[f[i]]
      BY <1>6, <3>1 DEF Keeps
    <3>. QED BY <1>2, <1>3, <1>7, <2>1, <3>1, <3>2 DEF Move, Box
  <2>2. CASE x = c
    <3>1. i \in DOMAIN a /\ a[i].kind = "MoveTask" /\ (Box(x)[i].tid)' = a[i].tid
      BY <1>2, <1>8, <1>9, <2>2 DEF Move, Box
    <3>2. e[i] \in A /\ a[i] = mq[e[i]]
      BY <1>5, <3>1 DEF Keeps
    <3>. QED BY <1>2, <1>3, <1>7, <2>2, <3>1, <3>2 DEF Move, Box, Place
  <2>3. CASE x \in CPU /\ x # c /\ x # None
    BY <1>8, <1>9, <2>3 DEF Move, Box
  <2>. QED BY <2>1, <2>2, <2>3 DEF Place
<1>10. Carried
  <2>1. ASSUME NEW t \in Tid, Travels(t)' PROVE Travels(t)
    <3>1. PICK x \in Place, i \in Nat : Move(x, i)' /\ (Box(x)[i].tid)' = t
      BY <2>1 DEF Travels
    <3>. QED BY <1>9, <3>1 DEF Travels
  <2>2. ASSUME NEW x \in Place, NEW i \in Nat, Move(x, i)'
        PROVE  /\ (Box(x)[i].tid)' \in known'
               /\ \A y \in Place, j \in Nat :
                    Move(y, j)' /\ (Box(y)[j].tid)' = (Box(x)[i].tid)' => x = y /\ i = j
    <3>1. (Box(x)[i].tid)' \in known'
      BY <1>1, <1>9, <2>2 DEF IInv, Moves, shared, ids
    <3>2. ASSUME NEW y \in Place, NEW j \in Nat,
                 Move(y, j)', (Box(y)[j].tid)' = (Box(x)[i].tid)'
          PROVE  x = y /\ i = j
      <4>1. X(x) = X(y) /\ P(x, i) = P(y, j)
        <5>1. /\ X(x) \in Place /\ P(x, i) \in Nat /\ Move(X(x), P(x, i))
              /\ (Box(x)[i].tid)' = Box(X(x))[P(x, i)].tid
          BY <1>9, <2>2
        <5>2. /\ X(y) \in Place /\ P(y, j) \in Nat /\ Move(X(y), P(y, j))
              /\ (Box(y)[j].tid)' = Box(X(y))[P(y, j)].tid
          BY <1>9, <3>2
        <5>. HIDE DEF X, P
        <5>. QED BY <3>2, <5>1, <5>2 DEF IInv, Moves
      <4>2. x = y
        <5>1. (x = None => P(x, i) \in N) /\ (x = c => P(x, i) \in A)
          BY <1>9, <2>2
        <5>2. (y = None => P(y, j) \in N) /\ (y = c => P(y, j) \in A)
          BY <1>9, <3>2
        <5>3. x = y \/ (x = None /\ y = c) \/ (x = c /\ y = None)
          BY <4>1
        <5>. HIDE DEF P, X
        <5>. QED BY <1>3, <4>1, <5>1, <5>2, <5>3
      <4>3. (x = None => i \in DOMAIN n /\ j \in DOMAIN n)
            /\ (x = c => i \in DOMAIN a /\ j \in DOMAIN a)
        BY <1>9, <2>2, <3>2, <4>2
      <4>4. i = j
        BY <1>2, <1>5, <1>6, <4>1, <4>2, <4>3 DEF Keeps
      <4>. QED BY <4>2, <4>4
    <3>. QED BY <3>1, <3>2
  <2>. QED BY <1>1, <1>4, <1>8, <2>1, <2>2 DEF Carried, Moves
<1>11. /\ r \in ThreadType /\ Working(r) /\ ~Holds(r) /\ ~Buries(r) /\ ~Serves(r)
       /\ th[T(c)].pc \in WorkPcs \ {"mv_map"}
  <2>1. me \in ThreadType
    BY Here
  <2>2. me.pc \in WorkPcs \ {"mv_map"}
    BY <1>1 DEF WorkPcs
  <2>. HIDE DEF me
  <2>3. r \in ThreadType /\ r.pc = "ipm"
    BY <2>1 DEF ThreadType, Pcs, WorkPcs
  <2>. HIDE DEF r
  <2>. QED BY <2>2, <2>3 DEF Working, Holds, Buries, Serves, WorkPcs, MakePcs, WakePcs, me
<1>. HIDE DEF r
<1>. QED BY <1>1, <1>8, <1>10, <1>11, WorkKeeps, Undisturbed DEF shared, calls


LEMMA WorkerGoes ==
    ASSUME IInv, NEW c \in CPU, th[T(c)].pc \in WorkPcs, NEW l \in WorkPcs \ {"mv_map"},
           Goto(c, l)
    PROVE  \E r \in ThreadType : th' = [th EXCEPT ![T(c)] = r] /\ Working(r) /\ r.pc = l
<1>. DEFINE me == th[T(c)]
            r  == [me EXCEPT !.pc = l]
<1>1. me \in ThreadType
  BY Here
<1>2. th' = [th EXCEPT ![T(c)] = r]
  BY DEF Goto
<1>. HIDE DEF me
<1>3. r \in ThreadType /\ r.pc = l
  BY <1>1 DEF ThreadType, Pcs
<1>. HIDE DEF r
<1>4. Working(r)
  BY <1>3 DEF Working, WorkPcs, MakePcs, WakePcs
<1>. QED BY <1>2, <1>3, <1>4

\* The worker takes a dead or a migrating task of its pool, never itself.
LEMMA ScanKeeps ==
    ASSUME IInv, NEW c \in CPU, Scan(c)
    PROVE  IInv'
<1>. DEFINE dead   == {t \in pool[c] : task[t].state = "Terminating"}
            moving == {t \in pool[c] : task[t].state = "Migrating"}
            v == IF dead # {} THEN Min(dead) ELSE IF moving # {} THEN Max(moving) ELSE 0
            l == IF dead # {} THEN "remove" ELSE IF moving # {} THEN "move_out" ELSE "fetch"
<1>1. /\ th[T(c)].pc \in WorkPcs \ {"mv_map"} /\ wk' = [wk EXCEPT ![c].victim = v] /\ Goto(c, l)
      /\ UNCHANGED <<task, pool, rq, curr, shared, mq, calls>>
  BY DEF Scan, At, WorkPcs
<1>2. /\ dead \in SUBSET Nat /\ moving \in SUBSET (1 .. MaxTid) /\ MaxTid \in Nat
      /\ dead \cup moving \subseteq pool[c] \ {Worker[c]}
  <2>1. pool[c] \subseteq 1 .. MaxTid /\ MaxTid \in Nat
    BY SchedAssumption DEF IInv, Pools, Tid, SchedAssumption
  <2>2. task[Worker[c]].state \notin {"Terminating", "Migrating"}
    BY DEF IInv, Tasks
  <2>. QED BY <2>1, <2>2
<1>. HIDE DEF dead, moving
<1>0. dead \cup moving \subseteq known
  <2>1. \A t \in pool[c] : t \in Tid
    BY DEF IInv, Pools
  <2>2. \A t \in Tid : task[t].state \in {"Terminating", "Migrating"} => t \in known
    BY DEF IInv, Tasks
  <2>. QED BY <2>1, <2>2 DEF dead, moving
<1>3. v \in Nat /\ (l \in {"remove", "move_out"} => v \in pool[c] \ {Worker[c]} /\ v \in known)
  <2>1. CASE dead # {}
    <3>1. Min(dead) \in dead
      BY <1>2, <2>1, LeastOf
    <3>. QED BY <1>0, <1>2, <2>1, <3>1
  <2>2. CASE dead = {} /\ moving # {}
    <3>1. Max(moving) \in moving
      BY <1>2, <2>2, GreatestOf
    <3>2. moving \subseteq pool[c] \ {Worker[c]} /\ moving \subseteq Nat /\ moving \subseteq known
      BY <1>0, <1>2
    <3>3. Max(moving) \in pool[c] \ {Worker[c]} /\ Max(moving) \in Nat /\ Max(moving) \in known
      BY <3>1, <3>2, Zenon
    <3>. QED BY <2>2, <3>3
  <2>3. CASE dead = {} /\ moving = {}
    BY <2>3
  <2>. QED BY <2>1, <2>2, <2>3
<1>4. l \in {"remove", "move_out", "fetch"}
  OBVIOUS
<1>. HIDE DEF v, l
<1>5. PICK r \in ThreadType : th' = [th EXCEPT ![T(c)] = r] /\ Working(r) /\ r.pc = l
  BY <1>1, <1>4, WorkerGoes DEF WorkPcs
<1>6. /\ T(c) = Worker[c] /\ Strides(c) /\ Mute(c) /\ th'[Worker[c]] = r
      /\ \A d \in CPU : d # c => Worker[d] # Worker[c] /\ th'[Worker[d]] = th[Worker[d]]
  BY <1>1, <1>5, Works
<1>7. /\ wk' \in [CPU -> WorkType] /\ wk'[c].victim = v
      /\ \A d \in CPU : /\ wk'[d].inbox = wk[d].inbox
                        /\ d # c => wk'[d].victim = wk[d].victim
  <2>1. wk \in [CPU -> WorkType] /\ wk[c] \in WorkType
    BY DEF IInv, Moves
  <2>. QED BY <1>1, <1>3, <2>1 DEF WorkType
<1>8. Carried
  BY <1>1, <1>7, Posted DEF Posts, shared
<1>9. Victims'
  <2>1. /\ Holds(r) => v \in pool'[c] \ {Worker[c]} /\ v \in known
        /\ ~Buries(r)
    BY <1>1, <1>3, <1>4, <1>5 DEF Holds, Buries, WakePcs
  <2>2. \A u \in Tid : ~Travels(u) => ~Travels(u)'
    BY <1>8 DEF Carried
  <2>. QED BY <1>1, <1>6, <1>7, <2>1, <2>2, VictimsAre DEF shared
<1>10. Served'
  <2>1. ~Serves(r)
    BY <1>4, <1>5 DEF Serves, MakePcs
  <2>. QED BY <1>6, <1>7, <2>1 DEF IInv, Served, Serves
<1>. QED BY <1>1, <1>6, <1>8, <1>9, <1>10, ThreadSteps, PoolsKept, Undisturbed
         DEF Carried, IInv, shared, calls

\* A dead task is in no pool any more.
LEMMA RemoveDeadKeeps ==
    ASSUME IInv, NEW c \in CPU, RemoveDead(c)
    PROVE  IInv'
<1>. DEFINE t == wk[c].victim
            w == IF task[t].state = "Terminating" THEN task[t].joiners ELSE <<>>
            k == [task[t] EXCEPT !.joiners = <<>>]
<1>1. /\ th[T(c)].pc \in WorkPcs \ {"mv_map"} /\ th[T(c)].pc = "remove"
      /\ pool' = [pool EXCEPT ![c] = @ \ {t}] /\ wk' = [wk EXCEPT ![c].todo = w]
      /\ task' = [task EXCEPT ![t] = k] /\ Goto(c, "drop")
      /\ UNCHANGED <<rq, curr, shared, mq, calls>>
  BY DEF RemoveDead, At, WorkPcs, LeavePool
<1>2. T(c) = Worker[c] /\ T(c) = curr[c]
  BY <1>1, Here DEF T
<1>3. t \in pool[c] \ {Worker[c]} /\ t \in Tid /\ task[t] \in TaskType
      /\ t \in known /\ ~Travels(t) /\ \A d \in CPU : d # c => t \notin pool[d]
  <2>1. t \in pool[c] \ {Worker[c]} /\ t \in known
    BY <1>1, <1>2 DEF IInv, Victims, Holds
  <2>. QED BY <2>1 DEF IInv, Pools, Tasks
<1>. HIDE DEF t
<1>4. k \in TaskType /\ k.state = task[t].state /\ w \in Seq(Tid)
  <2>1. <<>> \in Seq(Tid)
    BY EmptySeq
  <2>. QED BY <1>3, <2>1 DEF TaskType
<1>5. Tasks'
  <2>1. t \in Workers => k.state \notin {"Terminating", "Migrating"}
    BY <1>4 DEF IInv, Tasks, Workers
  <2>. HIDE DEF k
  <2>. QED BY <1>1, <1>3, <1>4, <2>1, TaskSteps DEF shared
<1>. HIDE DEF k, w
<1>6. PICK r \in ThreadType : th' = [th EXCEPT ![T(c)] = r] /\ Working(r) /\ r.pc = "drop"
  BY <1>1, WorkerGoes DEF WorkPcs
<1>7. /\ Strides(c) /\ Mute(c) /\ th'[Worker[c]] = r /\ th'[T(c)] = r
      /\ \A d \in CPU : d # c => Worker[d] # Worker[c] /\ th'[Worker[d]] = th[Worker[d]]
  BY <1>1, <1>6, Works
<1>8. /\ wk' \in [CPU -> WorkType]
      /\ \A d \in CPU : wk'[d].inbox = wk[d].inbox /\ wk'[d].victim = wk[d].victim
  <2>1. wk \in [CPU -> WorkType] /\ wk[c] \in WorkType
    BY DEF IInv, Moves
  <2>. QED BY <1>1, <1>4, <2>1 DEF WorkType
<1>9. Carried
  BY <1>1, <1>8, Posted DEF Posts, shared
<1>10. \A d \in CPU : /\ pool'[d] \subseteq pool[d] /\ t \notin pool'[d]
                      /\ d # c => pool'[d] = pool[d]
  BY <1>1, <1>3 DEF IInv, Pools
<1>11. Pools' /\ Numbers' /\ Movers'
  <2>1. pool' \in [CPU -> SUBSET Tid]
    BY <1>1 DEF IInv, Pools
  <2>2. \A d \in CPU : \A u \in pool'[d] : u \in Tid /\ u \in pool[d] /\ ~Travels(u)'
    BY <1>9, <1>10 DEF IInv, Pools, Carried
  <2>3. Pools'
    BY <1>1, <1>7, <2>1, <2>2, PoolsShrink DEF IInv, Pools, shared
  <2>4. r.pc \notin {"cr_pool", "cr_map", "mv_map"}
    BY <1>6
  <2>. QED BY <1>1, <1>7, <1>10, <2>3, <2>4, NumbersKept, MoversAre DEF shared
<1>12. Victims'
  <2>. PICK v : v = wk'[c].victim
    OBVIOUS
  <2>1. v = t
    BY <1>8 DEF t
  <2>2. ~Holds(r) /\ v \in Tid /\ ~Travels(v)'
    BY <1>3, <1>6, <1>9, <2>1 DEF Holds, Carried
  <2>3. \A u \in Tid : ~Travels(u) => ~Travels(u)'
    BY <1>9 DEF Carried
  <2>4. \A u \in Tid : (\A d \in CPU : u \notin pool[d]) => u \notin pool'[c] /\ u # t
    BY <1>3, <1>10
  <2>. QED BY <1>1, <1>3, <1>7, <1>8, <1>10, <2>1, <2>2, <2>3, <2>4, VictimsAre DEF shared
<1>13. Served'
  <2>1. ~Serves(r)
    BY <1>6 DEF Serves, MakePcs
  <2>. QED BY <1>7, <1>8, <2>1 DEF IInv, Served, Serves
<1>14. Current'
  BY <1>1, <1>2, <1>3 DEF IInv, Current, Pools, shared, ids
<1>15. Queues' /\ Lists'
  BY <1>1, Undisturbed DEF shared, calls
<1>16. Threads'
  BY <1>1, <1>7, ThreadSteps DEF shared
<1>. QED BY <1>5, <1>9, <1>11, <1>12, <1>13, <1>14, <1>15, <1>16 DEF IInv, Carried


\* TID_CPU_MAP forgets a dead task.
LEMMA DropEndKeeps ==
    ASSUME IInv, NEW c \in CPU, DropEnd(c)
    PROVE  IInv'
<1>. DEFINE t == wk[c].victim
            s == IF task[t].state = "Terminating" THEN "Dropped" ELSE task[t].state
            r == [Thread0 EXCEPT !.pc = "fetch"]
<1>1. /\ th[T(c)].pc \in WorkPcs \ {"mv_map"} /\ th[T(c)].pc = "drop"
      /\ tid_cpu' = [tid_cpu EXCEPT ![t] = None] /\ wk' = [wk EXCEPT ![c].victim = 0]
      /\ task' = [task EXCEPT ![t].state = IF @ = "Terminating" THEN "Dropped" ELSE @]
      /\ th' = [th EXCEPT ![T(c)] = r]
      /\ UNCHANGED <<pool, rq, curr, ids, mq, calls>>
  BY DEF DropEnd, At, WorkPcs
<1>2. T(c) = Worker[c]
  BY <1>1, Here
<1>3. t \in Tid /\ t \in known /\ task[t] \in TaskType /\ \A d \in CPU : t \notin pool[d]
  BY <1>1, <1>2 DEF IInv, Victims, Buries, Tasks
<1>4. r \in ThreadType /\ Working(r) /\ ~Holds(r) /\ ~Buries(r) /\ ~Serves(r)
  BY AtWork DEF WorkPcs
<1>. HIDE DEF t, r
<1>5. Tasks'
  <2>1. s \in States /\ (s \in {"Terminating", "Migrating"} => task[t].state = s)
    BY <1>3 DEF TaskType, States
  <2>2. task' = [task EXCEPT ![t].state = s]
    BY <1>1
  <2>. HIDE DEF s
  <2>3. s \in {"Terminating", "Migrating"} => t \notin Workers
    BY <1>3, <2>1 DEF IInv, Tasks, Workers
  <2>. QED BY <1>1, <1>3, <2>1, <2>2, <2>3, StateSteps
<1>6. /\ Strides(c) /\ Mute(c) /\ th'[Worker[c]] = r /\ th'[T(c)] = r
      /\ \A d \in CPU : d # c => Worker[d] # Worker[c] /\ th'[Worker[d]] = th[Worker[d]]
  BY <1>1, <1>4, Works
<1>7. /\ wk' \in [CPU -> WorkType]
      /\ \A d \in CPU : /\ wk'[d].inbox = wk[d].inbox
                        /\ d # c => wk'[d].victim = wk[d].victim
  <2>1. wk \in [CPU -> WorkType] /\ wk[c] \in WorkType
    BY DEF IInv, Moves
  <2>. QED BY <1>1, <2>1 DEF WorkType
<1>8. Carried
  BY <1>1, <1>7, Posted DEF Posts
<1>9. Pools' /\ Numbers' /\ Movers'
  <2>1. tid_cpu' \in [Tid -> Place]
    BY <1>1 DEF IInv, Pools, Place
  <2>2. \A d \in CPU : \A u \in pool[d] : u \in Tid /\ u # t /\ ~Travels(u)'
    BY <1>3, <1>8 DEF IInv, Pools, Carried
  <2>3. Pools'
    BY <1>1, <1>6, <2>1, <2>2, PoolsShrink DEF IInv, Pools
  <2>4. r.pc = "fetch"
    BY DEF r, Thread0
  <2>. QED BY <1>1, <1>6, <2>3, <2>4, NumbersKept, MoversAre
<1>10. Victims'
  <2>1. \A u \in Tid : ~Travels(u) => ~Travels(u)'
    BY <1>8 DEF Carried
  <2>. QED BY <1>1, <1>4, <1>6, <1>7, <2>1, VictimsAre
<1>11. Served'
  BY <1>4, <1>6, <1>7 DEF IInv, Served, Serves
<1>. QED BY <1>1, <1>5, <1>6, <1>8, <1>9, <1>10, <1>11, ThreadSteps, Undisturbed
         DEF IInv, Carried, calls

\* A task goes on its way in one message.
LEMMA Sent ==
    ASSUME IInv, UNCHANGED ids, NEW m \in Message, NEW t \in Tid, m.tid = t,
           ~Travels(t), t \in known, mq' = Append(mq, m),
           wk' \in [CPU -> WorkType], \A d \in CPU : wk'[d].inbox = wk[d].inbox
    PROVE  Moves' /\ \A u \in Tid : Travels(u)' => u = t \/ Travels(u)
<1>. DEFINE n == Len(mq)
<1>1. /\ mq \in Seq(Message) /\ n \in Nat /\ DOMAIN mq = 1 .. n
      /\ mq' \in Seq(Message) /\ DOMAIN mq' = 1 .. (n + 1) /\ mq'[n + 1] = m
      /\ \A i \in 1 .. n : mq'[i] = mq[i]
  <2>1. mq \in Seq(Message)
    BY DEF IInv, Moves
  <2>. QED BY <2>1, AppendProperties
<1>. HIDE DEF n
<1>2. ASSUME NEW x \in Place, NEW i \in Nat, Move(x, i)'
      PROVE  \/ Move(x, i) /\ (Box(x)[i].tid)' = Box(x)[i].tid
             \/ x = None /\ i = n + 1 /\ (Box(x)[i].tid)' = t
  <2>1. CASE x = None
    <3>1. i \in 1 .. n + 1 /\ mq'[i].kind = "MoveTask"
      BY <1>1, <1>2, <2>1 DEF Move, Box
    <3>2. CASE i = n + 1
      BY <1>1, <2>1, <3>2 DEF Box
    <3>3. CASE i # n + 1
      <4>1. i \in 1 .. n
        BY <1>1, <3>1, <3>3
      <4>. QED BY <1>1, <2>1, <3>1, <4>1 DEF Move, Box
    <3>. QED BY <3>2, <3>3
  <2>2. CASE x \in CPU /\ x # None
    BY <1>2, <2>2 DEF Move, Box
  <2>. QED BY <2>1, <2>2 DEF Place
<1>3. ASSUME NEW u \in Tid, Travels(u)' PROVE u = t \/ Travels(u)
  <2>1. PICK x \in Place, i \in Nat : Move(x, i)' /\ (Box(x)[i].tid)' = u
    BY <1>3 DEF Travels
  <2>. QED BY <1>2, <2>1 DEF Travels
<1>4. ASSUME NEW x \in Place, NEW i \in Nat, Move(x, i)'
      PROVE  /\ (Box(x)[i].tid)' \in known
             /\ \A y \in Place, j \in Nat :
                  Move(y, j)' /\ (Box(y)[j].tid)' = (Box(x)[i].tid)' => x = y /\ i = j
  <2>1. (Box(x)[i].tid)' \in known
    BY <1>2, <1>4 DEF IInv, Moves
  <2>2. ASSUME NEW y \in Place, NEW j \in Nat,
               Move(y, j)', (Box(y)[j].tid)' = (Box(x)[i].tid)'
        PROVE  x = y /\ i = j
    <3>1. \/ Move(x, i) /\ (Box(x)[i].tid)' = Box(x)[i].tid
          \/ x = None /\ i = n + 1 /\ (Box(x)[i].tid)' = t
      BY <1>2, <1>4
    <3>2. \/ Move(y, j) /\ (Box(y)[j].tid)' = Box(y)[j].tid
          \/ y = None /\ j = n + 1 /\ (Box(y)[j].tid)' = t
      BY <1>2, <2>2
    <3>3. ASSUME NEW z \in Place, NEW k \in Nat, Move(z, k) PROVE Box(z)[k].tid # t
      BY <3>3 DEF Travels
    <3>. QED BY <2>2, <3>1, <3>2, <3>3 DEF IInv, Moves
  <2>. QED BY <2>1, <2>2
<1>. QED BY <1>1, <1>3, <1>4 DEF Moves, ids


\* A migrating task leaves its pool.
LEMMA MoveOutKeeps ==
    ASSUME IInv, NEW c \in CPU, MoveOut(c)
    PROVE  IInv'
<1>. PICK t : t = wk[c].victim
  OBVIOUS
<1>1. /\ th[T(c)].pc \in WorkPcs \ {"mv_map"} /\ th[T(c)].pc = "move_out"
      /\ pool' = [pool EXCEPT ![c] = @ \ {t}] /\ Goto(c, "mv_lb")
      /\ UNCHANGED <<task, rq, curr, shared, mq, wk, calls>>
  BY DEF MoveOut, At, WorkPcs, LeavePool
<1>2. T(c) = Worker[c] /\ T(c) = curr[c]
  BY <1>1, Here DEF T
<1>3. t \in pool[c] \ {Worker[c]} /\ t \in Tid /\ t \in known /\ ~Travels(t)
      /\ \A d \in CPU : d # c => t \notin pool[d]
  <2>1. t \in pool[c] \ {Worker[c]} /\ t \in known
    BY <1>1, <1>2 DEF IInv, Victims, Holds
  <2>. QED BY <2>1 DEF IInv, Pools
<1>4. PICK r \in ThreadType : th' = [th EXCEPT ![T(c)] = r] /\ Working(r) /\ r.pc = "mv_lb"
  BY <1>1, WorkerGoes DEF WorkPcs
<1>5. /\ Strides(c) /\ Mute(c) /\ th'[Worker[c]] = r /\ th'[T(c)] = r
      /\ \A d \in CPU : d # c => Worker[d] # Worker[c] /\ th'[Worker[d]] = th[Worker[d]]
  BY <1>1, <1>4, Works
<1>6. Carried
  BY <1>1, Posted DEF Posts, shared, IInv, Moves
<1>7. \A d \in CPU : /\ pool'[d] \subseteq pool[d] /\ t \notin pool'[d]
                     /\ d # c => pool'[d] = pool[d]
  BY <1>1, <1>3 DEF IInv, Pools
<1>8. Pools' /\ Numbers' /\ Movers'
  <2>1. pool' \in [CPU -> SUBSET Tid]
    BY <1>1 DEF IInv, Pools
  <2>2. \A d \in CPU : \A u \in pool'[d] : u \in Tid /\ u \in pool[d] /\ ~Travels(u)'
    BY <1>6, <1>7 DEF IInv, Pools, Carried
  <2>3. Pools'
    BY <1>1, <1>5, <2>1, <2>2, PoolsShrink DEF IInv, Pools, shared
  <2>4. r.pc \notin {"cr_pool", "cr_map", "mv_map"}
    BY <1>4
  <2>. QED BY <1>1, <1>5, <1>7, <2>3, <2>4, NumbersKept, MoversAre DEF shared
<1>9. Victims'
  <2>1. t = wk'[c].victim
    BY <1>1
  <2>2. ~Holds(r) /\ ~Travels(t)'
    BY <1>3, <1>4, <1>6 DEF Holds, Carried
  <2>3. \A u \in Tid : ~Travels(u) => ~Travels(u)'
    BY <1>6 DEF Carried
  <2>4. \A u \in Tid : (\A d \in CPU : u \notin pool[d]) => u \notin pool'[c] /\ u # t
    BY <1>3, <1>7
  <2>. QED BY <1>1, <1>3, <1>5, <1>7, <2>1, <2>2, <2>3, <2>4, VictimsAre DEF shared
<1>10. Served'
  <2>1. ~Serves(r)
    BY <1>4 DEF Serves, MakePcs
  <2>. QED BY <1>1, <1>5, <2>1 DEF IInv, Served, Serves
<1>11. Current'
  BY <1>1, <1>2, <1>3 DEF IInv, Current, Pools, shared, ids
<1>12. Tasks' /\ Queues' /\ Lists'
  BY <1>1, Undisturbed DEF shared, calls
<1>13. Threads'
  BY <1>1, <1>5, ThreadSteps DEF shared
<1>. QED BY <1>6, <1>8, <1>9, <1>10, <1>11, <1>12, <1>13 DEF IInv, Carried

LEMMA MoveUncountKeeps ==
    ASSUME IInv, NEW c \in CPU, MoveUncount(c)
    PROVE  IInv'
<1>1. /\ th[T(c)].pc \in WorkPcs \ {"mv_map"} /\ th[T(c)].pc = "mv_lb" /\ Goto(c, "mv_send")
      /\ UNCHANGED <<task, pool, rq, curr, tid_cpu, ids, mq, wk, calls>>
  BY DEF MoveUncount, At, WorkPcs
<1>2. PICK r \in ThreadType : th' = [th EXCEPT ![T(c)] = r] /\ Working(r) /\ r.pc = "mv_send"
  BY <1>1, WorkerGoes DEF WorkPcs
<1>3. ~Holds(r) /\ ~Serves(r) /\ Buries(th[T(c)])
  BY <1>1, <1>2 DEF Holds, Serves, Buries, MakePcs
<1>4. wk' \in [CPU -> WorkType] /\ Carried
  BY <1>1, Posted DEF Posts, IInv, Moves
<1>. QED BY <1>1, <1>2, <1>3, <1>4, WorkKeeps, Undisturbed DEF calls

\* It leaves for another CPU.
LEMMA MoveSendKeeps ==
    ASSUME IInv, NEW c \in CPU, MoveSend(c)
    PROVE  IInv'
<1>. PICK t : t = wk[c].victim
  OBVIOUS
<1>. DEFINE m == Ipm(task[t].cpu, "MoveTask", t, c, 0)
<1>1. /\ th[T(c)].pc \in WorkPcs \ {"mv_map"} /\ th[T(c)].pc = "mv_send"
      /\ task' = [task EXCEPT ![t].state = "Blocked"] /\ Goto(c, "fetch")
      /\ mq' = Append(mq, m) /\ wk' = [wk EXCEPT ![c].victim = 0]
      /\ UNCHANGED <<pool, rq, curr, shared, calls>>
  BY DEF MoveSend, At, WorkPcs, Send
<1>2. T(c) = Worker[c]
  BY <1>1, Here
<1>3. Buries(th[Worker[c]]) /\ t \in Tid /\ t \in known /\ ~Travels(t) /\ task[t] \in TaskType
      /\ \A d \in CPU : t \notin pool[d]
  <2>1. Buries(th[Worker[c]])
    BY <1>1, <1>2 DEF Buries
  <2>. QED BY <2>1 DEF IInv, Victims, Tasks
<1>4. m \in Message /\ m.tid = t
  <2>1. task[t].cpu \in Place
    BY <1>3 DEF TaskType
  <2>. QED BY <1>3, <2>1 DEF Ipm, Message
<1>. HIDE DEF m
<1>5. Tasks'
  BY <1>1, <1>3, StateSteps DEF States, shared
<1>6. PICK r \in ThreadType : th' = [th EXCEPT ![T(c)] = r] /\ Working(r) /\ r.pc = "fetch"
  BY <1>1, WorkerGoes DEF WorkPcs
<1>7. /\ Strides(c) /\ Mute(c) /\ th'[Worker[c]] = r /\ th'[T(c)] = r
      /\ \A d \in CPU : d # c => Worker[d] # Worker[c] /\ th'[Worker[d]] = th[Worker[d]]
  BY <1>1, <1>6, Works
<1>8. /\ wk' \in [CPU -> WorkType]
      /\ \A d \in CPU : /\ wk'[d].inbox = wk[d].inbox
                        /\ d # c => wk'[d].victim = wk[d].victim
  <2>1. wk \in [CPU -> WorkType] /\ wk[c] \in WorkType
    BY DEF IInv, Moves
  <2>. QED BY <1>1, <2>1 DEF WorkType
<1>9. Moves' /\ \A u \in Tid : Travels(u)' => u = t \/ Travels(u)
  BY <1>1, <1>3, <1>4, <1>8, Sent DEF shared
<1>10. Pools' /\ Numbers' /\ Movers'
  <2>1. pool' \in [CPU -> SUBSET Tid] /\ tid_cpu' \in [Tid -> Place]
    BY <1>1 DEF IInv, Pools, shared
  <2>2. \A d \in CPU : \A u \in pool[d] : u \in Tid /\ u # t /\ ~Travels(u)'
    BY <1>3, <1>9 DEF IInv, Pools
  <2>3. Pools'
    BY <1>1, <1>7, <2>1, <2>2, PoolsShrink DEF shared
  <2>4. r.pc \notin {"cr_pool", "cr_map", "mv_map"}
    BY <1>6
  <2>. QED BY <1>1, <1>7, <2>3, <2>4, NumbersKept, MoversAre DEF shared
<1>11. Victims'
  <2>1. ~Holds(r) /\ ~Buries(r)
    BY <1>6 DEF Holds, Buries, WakePcs
  <2>. QED BY <1>1, <1>3, <1>7, <1>8, <1>9, <2>1, VictimsAre DEF shared
<1>12. Served'
  <2>1. ~Serves(r)
    BY <1>6 DEF Serves, MakePcs
  <2>. QED BY <1>7, <1>8, <2>1 DEF IInv, Served, Serves
<1>13. Queues' /\ Lists' /\ Current'
  BY <1>1, Undisturbed DEF shared, calls
<1>14. Threads'
  BY <1>1, <1>7, ThreadSteps DEF shared
<1>. QED BY <1>5, <1>9, <1>10, <1>11, <1>12, <1>13, <1>14 DEF IInv

\* A task arrives in a pool; its worker has to tell the map.
LEMMA DoMoveTaskKeeps ==
    ASSUME IInv, NEW c \in CPU, DoMoveTask(c)
    PROVE  IInv'
<1>1. th[T(c)].pc \in WorkPcs \ {"mv_map"} /\ wk[c].inbox # <<>>
  BY DEF DoMoveTask, Next_ipm, At, WorkPcs
<1>. PICK t \in Tid : t = Head(wk[c].inbox).tid
  BY <1>1, First
<1>. DEFINE me == th[T(c)]
            r  == [me EXCEPT !.pc = "mv_map", !.obj = t, !.arg = c]
<1>2. /\ Pop(c) /\ Head(wk[c].inbox).kind = "MoveTask"
      /\ pool' = [pool EXCEPT ![c] = @ \cup {t}]
      /\ UNCHANGED <<task, rq, curr, shared, mq, calls>>
  BY DEF DoMoveTask, Next_ipm, At
<1>3. /\ c \in Place /\ Move(c, 1) /\ wk[c].inbox[1].tid = t /\ Box(c)[1].tid = t
  <2>1. c \in Place /\ c # None
    BY SchedAssumption DEF Place, SchedAssumption
  <2>. QED BY <1>1, <1>2, <2>1, First DEF Move, Box
<1>4. Travels(t) /\ t \in known
  BY <1>3 DEF Travels, IInv, Moves
<1>5. /\ Carried /\ wk' \in [CPU -> WorkType] /\ ~Travels(t)'
      /\ \A d \in CPU : wk'[d].victim = wk[d].victim /\ (d # c => wk'[d].inbox = wk[d].inbox)
  BY <1>1, <1>2, <1>3, Popped DEF Posts, shared
<1>6. /\ T(c) = Worker[c] /\ T(c) \in Tid /\ T(c) \in Workers /\ me \in ThreadType
      /\ th \in [Tid -> ThreadType] /\ t \in Nat
  <2>1. t \in Nat
    BY SchedAssumption DEF SchedAssumption, Tid
  <2>. QED BY <1>1, <2>1, Here DEF IInv, Threads
<1>7. th' = [th EXCEPT ![T(c)] = r]
  <2>1. th' = [th EXCEPT ![T(c)].pc = "mv_map", ![T(c)].obj = t, ![T(c)].arg = c]
    BY DEF DoMoveTask
  <2>. QED BY <1>6, <2>1 DEF ThreadType
<1>. HIDE DEF me
<1>8. r \in ThreadType /\ r.pc = "mv_map" /\ r.obj = t /\ r.arg = c
  BY <1>3, <1>6 DEF ThreadType, Pcs, WorkPcs
<1>. HIDE DEF r
<1>9. Sound(T(c), r) /\ ~Holds(r) /\ ~Buries(r) /\ ~Serves(r)
  <2>1. Sound(T(c), r)
    BY <1>6, <1>8 DEF Sound, WorkPcs, MakePcs, WakePcs, AddPcs
  <2>. QED BY <1>8, <2>1 DEF Holds, Buries, Serves, WakePcs, MakePcs
<1>10. /\ Strides(c) /\ th'[Worker[c]] = r /\ th'[T(c)] = r
       /\ \A d \in CPU : d # c => Worker[d] # Worker[c] /\ th'[Worker[d]] = th[Worker[d]]
       /\ \A u \in Tid : u # T(c) => th'[u] = th[u]
  <2>1. \A d \in CPU : Worker[d] \in Tid /\ (d # c => Worker[d] # Worker[c])
    BY SchedAssumption DEF SchedAssumption
  <2>2. th'[T(c)] = r /\ \A u \in Tid : u # T(c) => th'[u] = th[u]
    BY <1>6, <1>7
  <2>. QED BY <1>6, <1>7, <1>9, <2>1, <2>2 DEF Strides
<1>11. \A d \in CPU : /\ t \notin pool[d] /\ pool[d] \subseteq pool'[d]
                      /\ d # c => pool'[d] = pool[d]
                      /\ \A u \in pool'[d] : u \in pool[d] \/ (u = t /\ d = c)
  BY <1>2, <1>4 DEF IInv, Pools
<1>12. Pools'
  <2>1. pool' \in [CPU -> SUBSET Tid] /\ tid_cpu' \in [Tid -> Place]
    BY <1>2 DEF IInv, Pools, shared
  <2>2. \A d, u : /\ Tells("cr_map", d, u) => Tells("cr_map", d, u)'
                  /\ Tells("mv_map", d, u) => Tells("mv_map", d, u)'
    <3>1. me.pc \notin {"cr_map", "mv_map"}
      BY <1>1 DEF me, WorkPcs
    <3>. QED BY <1>10, <3>1 DEF Tells, me
  <2>3. Tells("mv_map", c, t)'
    BY <1>6, <1>8, <1>10 DEF Tells
  <2>4. ASSUME NEW d \in CPU, NEW u \in pool'[d]
        PROVE  /\ ~Travels(u)' /\ \A e \in CPU : u \in pool'[e] => d = e
               /\ IF u \in known THEN tid_cpu'[u] = d \/ Tells("mv_map", d, u)'
                                 ELSE Tells("cr_map", d, u)'
    <3>1. CASE u = t
      BY <1>4, <1>5, <1>11, <2>3, <2>4, <3>1
    <3>2. CASE u # t
      <4>1. u \in pool[d] /\ u \in Tid /\ \A e \in CPU : u \in pool'[e] => u \in pool[e]
        BY <1>11, <2>4, <3>2 DEF IInv, Pools
      <4>2. /\ ~Travels(u) /\ \A e \in CPU : u \in pool[e] => d = e
            /\ IF u \in known THEN tid_cpu[u] = d \/ Tells("mv_map", d, u)
                              ELSE Tells("cr_map", d, u)
        BY <4>1 DEF IInv, Pools
      <4>. QED BY <1>2, <1>5, <2>2, <4>1, <4>2 DEF Carried, shared
    <3>. QED BY <3>1, <3>2
  <2>. QED BY <1>2, <2>1, <2>4 DEF Pools, shared, ids
<1>13. Numbers'
  BY <1>2, <1>8, <1>10, NumbersKept DEF shared
<1>14. Movers'
  BY <1>2, <1>4, <1>8, <1>10, <1>11 DEF IInv, Movers, Pools, shared, ids
<1>15. Victims'
  <2>1. \A u \in Tid : ~Travels(u) => ~Travels(u)' /\ u # t
    BY <1>4, <1>5 DEF Carried
  <2>. QED BY <1>2, <1>5, <1>9, <1>10, <1>11, <2>1, VictimsAre DEF shared
<1>16. Served'
  BY <1>5, <1>9, <1>10 DEF IInv, Served, Serves
<1>17. Current'
  BY <1>2, <1>11 DEF IInv, Current, shared, ids
<1>18. Tasks' /\ Queues' /\ Lists'
  BY <1>2, Undisturbed DEF shared, calls
<1>19. Threads'
  BY <1>2, <1>10, ThreadSteps DEF shared
<1>. QED BY <1>5, <1>12, <1>13, <1>14, <1>15, <1>16, <1>17, <1>18, <1>19 DEF IInv, Carried

\* The map is told of it.
LEMMA MoveMapKeeps ==
    ASSUME IInv, NEW c \in CPU, MoveMap(c)
    PROVE  IInv'
<1>. PICK t : t = th[T(c)].obj
  OBVIOUS
<1>1. th[T(c)].pc \in WorkPcs /\ th[T(c)].pc = "mv_map"
  BY DEF MoveMap, At, WorkPcs
<1>2. T(c) = Worker[c] /\ T(c) \in Tid
  BY <1>1, Here
<1>3. /\ th[T(c)].arg = c /\ t \in pool[c] /\ t \in known /\ t \in Tid
      /\ ~Travels(t) /\ \A d \in CPU : d # c => t \notin pool[d]
  <2>1. th[T(c)].arg = c /\ t \in pool[c] /\ t \in known
    BY <1>1, <1>2 DEF IInv, Movers
  <2>. QED BY <2>1 DEF IInv, Pools
<1>4. /\ tid_cpu' = [tid_cpu EXCEPT ![t] = c] /\ Unblock(c, t, "ipm")
      /\ UNCHANGED <<task, pool, rq, curr, ids, mq, wk, calls>>
  BY <1>3 DEF MoveMap, MapTo
<1>5. PICK r \in ThreadType : th' = [th EXCEPT ![T(c)] = r]
                              /\ Working(r) /\ ~Holds(r) /\ ~Serves(r) /\ ~Buries(r)
  BY <1>1, <1>3, <1>4, WorkerUnblocks
<1>6. /\ Strides(c) /\ th'[Worker[c]] = r /\ th'[T(c)] = r /\ r.pc \notin TellPcs
      /\ \A d \in CPU : d # c => Worker[d] # Worker[c] /\ th'[Worker[d]] = th[Worker[d]]
  BY <1>1, <1>5, Works
<1>7. wk' \in [CPU -> WorkType] /\ Carried
  BY <1>4, Posted DEF Posts, IInv, Moves
<1>8. Pools'
  <2>1. pool' \in [CPU -> SUBSET Tid] /\ tid_cpu' \in [Tid -> Place]
        /\ tid_cpu'[t] = c /\ \A u \in Tid : u # t => tid_cpu'[u] = tid_cpu[u]
    BY <1>3, <1>4 DEF IInv, Pools, Place
  <2>2. \A u \in Tid : u # T(c) => th'[u] = th[u]
    BY <1>2, <1>5 DEF IInv, Threads
  <2>3. \A d, u : /\ Tells("cr_map", d, u) => Tells("cr_map", d, u)'
                  /\ Tells("mv_map", d, u) /\ u # t => Tells("mv_map", d, u)'
    BY <1>1, <2>2 DEF Tells
  <2>4. ASSUME NEW d \in CPU, NEW u \in pool[d]
        PROVE  /\ ~Travels(u)' /\ \A e \in CPU : u \in pool[e] => d = e
               /\ IF u \in known THEN tid_cpu'[u] = d \/ Tells("mv_map", d, u)'
                                 ELSE Tells("cr_map", d, u)'
    <3>1. /\ u \in Tid /\ ~Travels(u) /\ \A e \in CPU : u \in pool[e] => d = e
          /\ IF u \in known THEN tid_cpu[u] = d \/ Tells("mv_map", d, u)
                            ELSE Tells("cr_map", d, u)
      BY <2>4 DEF IInv, Pools
    <3>2. ~Travels(u)'
      BY <1>7, <3>1 DEF Carried
    <3>3. CASE u = t
      BY <1>3, <2>1, <2>4, <3>1, <3>2, <3>3
    <3>4. CASE u # t
      BY <2>1, <2>3, <3>1, <3>2, <3>4
    <3>. QED BY <3>3, <3>4
  <2>. QED BY <1>4, <2>1, <2>4 DEF Pools, ids
<1>9. Numbers' /\ Movers'
  <2>1. r.pc \notin {"cr_pool", "cr_map", "mv_map"}
    BY <1>6 DEF TellPcs
  <2>. QED BY <1>4, <1>6, <2>1, NumbersKept, MoversAre
<1>10. Victims'
  BY <1>4, <1>5, <1>6, <1>7, VictimsStay DEF Carried, ids
<1>11. Served'
  BY <1>4, <1>5, <1>6 DEF IInv, Served, Serves
<1>12. Tasks' /\ Queues' /\ Current' /\ Lists'
  BY <1>4, Undisturbed DEF calls
<1>13. Threads'
  BY <1>4, <1>6, ThreadSteps
<1>. QED BY <1>7, <1>8, <1>9, <1>10, <1>11, <1>12, <1>13 DEF IInv, Carried

-----------------------------------------------------------------------------
(* The start                                                               *)

\* The tasks of the start have the first numbers.
LEMMA HomesAreFinite ==
    IsFiniteSet(DOMAIN Home) /\ Cardinality(DOMAIN Home) \in Nat
<1>1. DOMAIN Home \in SUBSET (1 .. MaxTid) /\ IsFiniteSet(1 .. MaxTid)
  BY SchedAssumption, FS_Interval DEF SchedAssumption, Tid
<1>2. IsFiniteSet(DOMAIN Home)
  BY <1>1, FS_Subset
<1>. QED BY <1>2, FS_CardinalityType

LEMMA HomesAreFirst ==
    ASSUME NEW t \in DOMAIN Home
    PROVE  t \in Nat /\ t < Cardinality(DOMAIN Home) + 1
<1>1. MaxTid \in Nat /\ DOMAIN Home \subseteq 1 .. MaxTid /\ t \in Nat /\ t \in 1 .. MaxTid
  BY SchedAssumption DEF SchedAssumption, Tid
<1>2. IsFiniteSet(DOMAIN Home) /\ Cardinality(DOMAIN Home) \in Nat
  BY HomesAreFinite
<1>3. 1 .. t \subseteq DOMAIN Home
  <2>1. ASSUME NEW u \in 1 .. t PROVE u \in Tid /\ u <= t
    BY <1>1 DEF Tid
  <2>. QED BY <2>1, SchedAssumption DEF SchedAssumption
<1>4. Cardinality(1 .. t) = t
  BY <1>1, FS_Interval
<1>5. t <= Cardinality(DOMAIN Home)
  BY <1>2, <1>3, <1>4, FS_Subset
<1>. QED BY <1>1, <1>2, <1>5

LEMMA SortedHolds ==
    ASSUME NEW S \in SUBSET Tid
    PROVE  Sorted(S) \in Seq(Nat) /\ Range(Sorted(S)) = S
<1>. DEFINE w == Sorted(S)
<1>1. S \in SUBSET Nat /\ IsFiniteSet(S)
  <2>1. MaxTid \in Nat
    BY SchedAssumption DEF SchedAssumption
  <2>2. S \in SUBSET (1 .. MaxTid) /\ IsFiniteSet(1 .. MaxTid)
    BY <2>1, FS_Interval DEF Tid
  <2>3. S \in SUBSET Nat
    BY <2>2
  <2>. QED BY <2>2, <2>3, FS_Subset
<1>. DEFINE n == Cardinality(S)
<1>2. /\ n \in Nat /\ \A k \in 1 .. n : Nth(S, k) \in Nat /\ Nth(S, k) \in S
      /\ \A i \in S : \E k \in 1 .. n : Nth(S, k) = i
  BY <1>1, NthCounts
<1>3. w = [k \in 1 .. n |-> Nth(S, k)]
  BY DEF Sorted
<1>. HIDE DEF n, w
<1>4. w \in [1 .. n -> Nat] /\ DOMAIN w = 1 .. n
  BY <1>2, <1>3
<1>5. w \in Seq(Nat)
  BY <1>2, <1>4, SeqDef
<1>6. ASSUME NEW t \in S PROVE t \in Range(w)
  <2>1. PICK k \in 1 .. n : Nth(S, k) = t
    BY <1>2
  <2>2. w[k] = t
    BY <1>3, <2>1
  <2>. QED BY <1>4, <2>2 DEF Range
<1>7. ASSUME NEW t \in Range(w) PROVE t \in S
  <2>1. PICK k \in 1 .. n : w[k] = t
    BY <1>4 DEF Range
  <2>. QED BY <1>2, <1>3, <2>1
<1>8. Range(w) = S
  BY <1>6, <1>7
<1>. QED BY <1>5, <1>8 DEF w

LEMMA Starts ==
    ASSUME Init
    PROVE  IInv
<1>1. /\ \A c \in CPU : Worker[c] \in Tid /\ Worker[c] \in DOMAIN Home /\ Home[Worker[c]] = c
                        /\ Worker[c] \in Workers
      /\ Worker \in [CPU -> Tid] /\ DOMAIN Home \subseteq Tid
      /\ \A t \in DOMAIN Home : Home[t] \in CPU
      /\ Tid \subseteq Nat /\ None \notin CPU
  BY SchedAssumption DEF SchedAssumption, Workers, Tid
<1>2. mq = <<>> /\ \A c \in CPU : wk[c] = [inbox |-> <<>>, todo |-> <<>>, victim |-> 0]
  BY DEF Init
<1>3. \A x \in Place : Box(x) = <<>>
  BY <1>2 DEF Box, Place
<1>4. (\A x \in Place : \A i : ~Move(x, i)) /\ (\A t : ~Travels(t))
  <2>1. \A x \in Place : \A i : ~Move(x, i)
    BY <1>3 DEF Move
  <2>. QED BY <2>1 DEF Travels
<1>5. \A c \in CPU : pool[c] = {t \in DOMAIN Home : Home[t] = c}
  BY DEF Init
<1>6. \A c \in CPU : Worker[c] \in pool[c] /\ pool[c] \in SUBSET Tid
  BY <1>1, <1>5
<1>0. known = DOMAIN Home /\ next_tid = Cardinality(DOMAIN Home) + 1
  BY DEF Init
<1>7. Tasks
  <2>1. <<>> \in Seq(Tid)
    BY EmptySeq
  <2>2. ASSUME NEW t \in Tid
        PROVE  /\ task[t] \in TaskType /\ task[t].state \in {"New", "Running", "Ready"}
               /\ t \notin known => task[t].state = "New" /\ task[t].blocked <= 0
    <3>. DEFINE p == IF t \in DOMAIN Home THEN Home[t] ELSE None
                s == IF t \notin DOMAIN Home THEN "New"
                     ELSE IF t \in Workers THEN "Running" ELSE "Ready"
    <3>1. p \in Place /\ s \in States /\ s \in {"New", "Running", "Ready"}
      BY <1>1 DEF Place, States
    <3>2. task[t] = [state |-> s, cpu |-> p, blocked |-> 0, joiners |-> <<>>, ret |-> 0]
      BY DEF Init, NewTask
    <3>3. t \notin known => s = "New"
      BY <1>0
    <3>. HIDE DEF p, s
    <3>. QED BY <2>1, <3>1, <3>2, <3>3 DEF TaskType
  <2>3. task = [t \in Tid |-> task[t]]
    BY DEF Init
  <2>4. task \in [Tid -> TaskType]
    BY <2>2, <2>3
  <2>. QED BY <1>1, <2>2, <2>4 DEF Tasks
<1>8. \A t \in Tid : th[t] = IF t \in Workers THEN [Thread0 EXCEPT !.pc = "scan"] ELSE Client(t)
  BY DEF Init
<1>9. ASSUME NEW t \in Workers, t \in Tid
      PROVE  th[t] \in ThreadType /\ th[t].pc = "scan"
  BY <1>8, <1>9, AtWork DEF WorkPcs
<1>10. Threads
  <2>1. ASSUME NEW t \in Tid PROVE Sound(t, th[t])
    <3>1. CASE t \in Workers
      BY <1>9, <3>1 DEF Sound, WorkPcs, MakePcs, WakePcs, AddPcs
    <3>2. CASE t \notin Workers
      <4>. DEFINE n == Left[t]
                  r == [Thread0 EXCEPT !.left = n]
      <4>1. n \in Int
        BY SchedAssumption DEF SchedAssumption
      <4>. HIDE DEF n
      <4>2. r \in ThreadType /\ r.pc = "run" /\ r.back = "run"
        BY <4>1, Zeroed DEF ThreadType
      <4>3. th[t] = r
        BY <1>8, <3>2 DEF Client, n
      <4>. HIDE DEF r
      <4>. QED BY <3>2, <4>2, <4>3 DEF Sound, WorkPcs, WakePcs, Backs, AddPcs, MakePcs
    <3>. QED BY <3>1, <3>2
  <2>2. th = [t \in Tid |-> th[t]]
    BY DEF Init
  <2>3. \A t \in Tid : th[t] \in ThreadType
    BY <2>1 DEF Sound
  <2>4. th \in [Tid -> ThreadType]
    BY <2>2, <2>3
  <2>. QED BY <2>1, <2>4 DEF Threads
<1>11. Queues
  <2>1. rq = [c \in CPU |-> Sorted(pool[c])]
    BY DEF Init
  <2>2. \A c \in CPU : /\ Sorted(pool[c]) \in Seq(Nat)
                        /\ Worker[c] \in Range(Sorted(pool[c]))
                        /\ Range(Sorted(pool[c])) \subseteq known
    BY <1>0, <1>5, <1>6, SortedHolds
  <2>. QED BY <2>1, <2>2 DEF Queues
<1>12. Current
  BY <1>0, <1>1, <1>6 DEF Init, Current
<1>13. Lists
  BY EmptySeq DEF Init, Lists
<1>14. Pools
  <2>1. /\ pool \in [CPU -> SUBSET Tid] /\ tid_cpu \in [Tid -> Place]
    <3>1. pool = [c \in CPU |-> pool[c]]
      BY DEF Init
    <3>2. tid_cpu = [t \in Tid |-> IF t \in DOMAIN Home THEN Home[t] ELSE None]
      BY DEF Init
    <3>. QED BY <1>1, <1>6, <3>1, <3>2 DEF Place
  <2>2. ASSUME NEW c \in CPU, NEW t \in pool[c]
        PROVE  t \in known /\ tid_cpu[t] = c /\ \A d \in CPU : t \in pool[d] => c = d
    <3>1. t \in DOMAIN Home /\ Home[t] = c /\ t \in Tid
      BY <1>1, <1>5
    <3>. QED BY <1>0, <1>5, <3>1 DEF Init
  <2>. QED BY <1>4, <2>1, <2>2 DEF Pools
<1>17. \A t \in Tid : th[t].pc \in {"scan", "run"} /\ (t \notin known => th[t].pc = "run")
  <2>1. \A t \in Workers : t \in known
    BY <1>0, <1>1 DEF Workers
  <2>2. \A t \in Tid : IF t \in Workers THEN th[t].pc = "scan" ELSE th[t].pc = "run"
    BY <1>8 DEF Thread0, Client
  <2>. QED BY <2>1, <2>2
<1>18. Numbers
  <2>1. next_tid \in Nat \ {0} /\ \A t \in known : t < next_tid
    BY <1>0, HomesAreFinite, HomesAreFirst
  <2>. QED BY <1>0, <1>1, <1>17, <2>1 DEF Numbers, Fresh
<1>19. Movers
  BY <1>1, <1>17 DEF Movers
<1>15. Moves
  <2>1. <<>> \in Seq(Message) /\ <<>> \in Seq(Tid)
    BY EmptySeq
  <2>2. [inbox |-> <<>>, todo |-> <<>>, victim |-> 0] \in WorkType
    BY <2>1 DEF WorkType
  <2>3. wk \in [CPU -> WorkType]
    BY <2>2 DEF Init
  <2>. QED BY <1>2, <1>4, <2>1, <2>3 DEF Moves
<1>16. Victims /\ Served
  <2>1. \A c \in CPU : th[Worker[c]].pc = "scan"
    BY <1>1, <1>9
  <2>. QED BY <2>1 DEF Victims, Served, Holds, Buries, Serves, WakePcs, MakePcs
<1>. QED BY <1>7, <1>10, <1>11, <1>12, <1>13, <1>14, <1>15, <1>16, <1>18, <1>19 DEF IInv

-----------------------------------------------------------------------------
(* The theorems                                                            *)

LEMMA TimePassesKeeps ==
    ASSUME IInv, NEW t \in Tid, TimePasses(t)
    PROVE  IInv'
  BY IdleKeeps DEF TimePasses, Idle, shared, calls

\* A call that the running task makes.
LEMMA CallKeeps ==
    ASSUME IInv, NEW c \in CPU, Call(c)
    PROVE  IInv'
<1>1. CASE Wait(c)
  BY <1>1, WaitKeeps
<1>2. CASE Signal(c, 1) \/ Signal(c, MaxTid)
  <2>1. MaxTid \in Nat /\ 1 \in Nat
    BY SchedAssumption DEF SchedAssumption
  <2>. QED BY <1>2, <2>1, SignalKeeps
<1>3. CASE Sleep(c) \/ Exit(c)
  BY <1>3, SleepKeeps, ExitKeeps
<1>4. CASE Io(c) \/ Serve(c)
  BY <1>4, IoKeeps
<1>5. CASE \E t \in Tid : Join(c, t)
  BY <1>5, JoinKeeps
<1>6. CASE \E d \in CPU : Spawn(c, d) \/ Migrate(c, d)
  BY <1>6, SpawnKeeps, MigrateKeeps
<1>. QED BY <1>1, <1>2, <1>3, <1>4, <1>5, <1>6 DEF Call

\* A step of the kernel code that the running task is in.
LEMMA KernelKeeps ==
    ASSUME IInv, NEW c \in CPU, Kernel(c)
    PROVE  IInv'
<1>1. CASE BlockAdd(c) \/ BlockState(c) \/ BlockRem(c) \/ BlockInt(c)
  BY <1>1, BlockAddKeeps, BlockStateKeeps, BlockRemKeeps, BlockIntKeeps
<1>2. CASE \/ UnblockMap(c) \/ UnblockRemote(c) \/ UnblockCount(c)
           \/ UnblockReady(c) \/ UnblockAdd(c)
  BY <1>2, UnblockMapKeeps, UnblockRemoteKeeps, UnblockCountKeeps,
     UnblockReadyKeeps, UnblockAddKeeps
<1>3. CASE SignalPop(c) \/ SignalEnd(c) \/ CallReturns(c)
  BY <1>3, SignalPopKeeps, SignalEndKeeps
<1>4. CASE JoinLocal(c) \/ JoinAsk(c) \/ JoinAnswer(c) \/ JoinPoll(c) \/ SpawnAnswer(c)
  BY <1>4, JoinLocalKeeps, JoinAskKeeps, AnswerKeeps, JoinPollKeeps
<1>5. CASE \/ CreateTid(c) \/ CreateInsert(c) \/ CreateMap(c)
           \/ CreateAdd(c) \/ CreateReady(c) \/ CreateCount(c)
  BY <1>5, CreateTidKeeps, CreateInsertKeeps, CreateMapKeeps, CreateGoesOnKeeps
<1>6. CASE \/ Scan(c) \/ RemoveDead(c) \/ DropJoiner(c) \/ DropEnd(c)
           \/ MoveOut(c) \/ MoveUncount(c) \/ MoveSend(c)
  BY <1>6, ScanKeeps, RemoveDeadKeeps, DropJoinerKeeps, DropEndKeeps,
     MoveOutKeeps, MoveUncountKeeps, MoveSendKeeps
<1>7. CASE \/ Fetch(c) \/ DoMoveTask(c) \/ MoveMap(c) \/ DoUnblock(c) \/ DoCreateTask(c)
           \/ AnswerCreate(c) \/ DoRespond(c) \/ DoAddJoiner(c) \/ Halt(c)
  BY <1>7, FetchKeeps, DoMoveTaskKeeps, MoveMapKeeps, DoUnblockKeeps, DoCreateTaskKeeps,
     AnswerCreateKeeps, DoRespondKeeps, DoAddJoinerKeeps, HaltKeeps
<1>. QED BY <1>1, <1>2, <1>3, <1>4, <1>5, <1>6, <1>7 DEF Kernel

LEMMA NextKeeps ==
    ASSUME IInv, [Next]_vars
    PROVE  IInv'
<1>1. CASE \E c \in CPU : Call(c) \/ Kernel(c)
  BY <1>1, CallKeeps, KernelKeeps
<1>2. CASE \E c \in CPU : Handler(c) \/ IrqEnter(c) \/ Timer(c)
  BY <1>2, HandlerKeeps, IrqEnterKeeps, TimerKeeps DEF Handler
<1>3. CASE \E t \in Tid : TimePasses(t)
  BY <1>3, TimePassesKeeps
<1>4. CASE UNCHANGED vars
  BY <1>4, IdleKeeps DEF vars, Idle, shared, ids, calls
<1>. QED BY <1>1, <1>2, <1>3, <1>4 DEF Next

\* The inductive invariant of the scheduler: its structures have their types,
\* a task is in one pool or in one message, TID_CPU_MAP names its pool or the
\* thread that put it there is on its way to tell it, numbers are handed out
\* once, and a worker that buries or moves a task is the last to know it.
THEOREM Invariance == Spec => []IInv
<1>1. Init => IInv
  BY Starts
<1>2. IInv /\ [Next]_vars => IInv'
  BY NextKeeps
<1>. QED BY <1>1, <1>2, PTL DEF Spec

LEMMA MessagesFound ==
    ASSUME IInv, NEW t \in Tid, ~Travels(t)
    PROVE  Moving(t) = {}
<1>. SUFFICES ASSUME NEW m \in Range(mq) \cup UNION {Range(wk[c].inbox) : c \in CPU},
                     m.kind = "MoveTask", m.tid = t
              PROVE  FALSE
  BY DEF Moving
<1>1. \A c \in CPU : c # None
  BY SchedAssumption DEF SchedAssumption
<1>2. CASE m \in Range(mq)
  <2>1. PICK i \in DOMAIN mq : mq[i] = m
    BY <1>2 DEF Range
  <2>2. i \in Nat /\ None \in Place
    BY DEF IInv, Moves, Place
  <2>. QED BY <2>1, <2>2 DEF Travels, Move, Box
<1>3. CASE \E c \in CPU : m \in Range(wk[c].inbox)
  <2>1. PICK c \in CPU : m \in Range(wk[c].inbox)
    BY <1>3
  <2>2. PICK i \in DOMAIN wk[c].inbox : wk[c].inbox[i] = m
    BY <2>1 DEF Range
  <2>3. wk[c].inbox \in Seq(Message) /\ c \in Place
    BY DEF IInv, Moves, WorkType, Place
  <2>4. i \in Nat
    BY <2>3
  <2>. QED BY <1>1, <2>2, <2>3, <2>4 DEF Travels, Move, Box
<1>. QED BY <1>2, <1>3

\* However calls, migrations, exits and interrupts race on any number of
\* CPUs, a task is in one pool or in one MoveTask message, never in both, no
\* two CPUs run the same task, the worker of a CPU is always in its run
\* queue, and TID_CPU_MAP names the CPU that has the task from the end of
\* create_task's or process_ipm's update of it on: what the map may say that
\* is not so, it says while one thread is between its insert into the pool
\* and that update.
THEOREM TasksHaveOneHome == Spec => []OneHome
<1>1. IInv => OneHome
  <2>. SUFFICES ASSUME IInv PROVE OneHome
    OBVIOUS
  <2>1. ASSUME NEW c \in CPU, NEW d \in CPU, c # d
        PROVE  pool[c] \cap pool[d] = {} /\ T(c) # T(d)
    <3>1. \A t \in pool[c] : t \notin pool[d]
      BY <2>1 DEF IInv, Pools
    <3>2. T(c) \in pool[c] /\ T(d) \in pool[d]
      BY Here
    <3>. QED BY <3>1, <3>2
  <2>2. ASSUME NEW c \in CPU, NEW t \in pool[c]
        PROVE  Moving(t) = {} /\ (tid_cpu[t] = c \/ Telling(c, t))
    <3>1. /\ t \in Tid /\ ~Travels(t)
          /\ tid_cpu[t] = c \/ Tells("mv_map", c, t) \/ Tells("cr_map", c, t)
      BY DEF IInv, Pools
    <3>. QED BY <3>1, MessagesFound DEF Tells, Telling
  <2>3. \A c \in CPU : Worker[c] \in Range(rq[c])
    BY DEF IInv, Queues
  <2>. QED BY <2>1, <2>2, <2>3 DEF OneHome
<1>. QED BY <1>1, Invariance, PTL

-----------------------------------------------------------------------------
(* Blocks and unblocks                                                     *)
(*                                                                         *)
(* Every block of a task is matched by one unblock to come, and where that *)
(* one is: in a list, in a message, or in the hands of a thread.           *)

\* Whom a message will wake in the end, and what it says.
Kinds == {"AddJoiner", "CreateTask", "RespondAndUnblock", "Unblock"}
Wakee(m) == IF m.kind = "AddJoiner" THEN m.val ELSE m.tid
What(m)  == IF m.kind = "AddJoiner" THEN m.tid ELSE m.val

boxes == [x \in Place |-> Box(x)]

\* What the messages of a kind about a task say.
Mail(b, x, k, t) == {i \in DOMAIN b[x] : b[x][i].kind = k /\ Wakee(b[x][i]) = t}
Said(b, k, t)    == UNION {{What(b[x][i]) : i \in Mail(b, x, k, t)} : x \in Place}

Answer == "RespondAndUnblock"

\* Where the unblock of a task is.
InQueue   == <<"waiters", 0>>
InIo      == <<"ioq", 0>>
InList(u) == <<"joiners", u>>
InTodo(c) == <<"todo", c>>
InHand(v) == <<"unblock", v>>
InMail(k) == <<"mail", k>>

Unblocks(r, t) == r.pc \in {"ub_map", "ub_cpu"} /\ r.obj = t

Wakers(t) ==
    (IF t \in Range(waiters) THEN {InQueue} ELSE {})
    \cup (IF t \in Range(ioq) THEN {InIo} ELSE {})
    \cup {InList(u) : u \in {u \in Tid : t \in Range(task[u].joiners)}}
    \cup {InTodo(c) : c \in {c \in CPU : t \in Range(wk[c].todo)}}
    \cup {InHand(v) : v \in {v \in Tid : Unblocks(th[v], t)}}
    \cup {InMail(k) : k \in {k \in Kinds : Said(boxes, k, t) # {}}}

OnWay == {InHand(v) : v \in Tid} \cup {InMail("Unblock")}
Ripe  == {InTodo(c) : c \in CPU} \cup {InHand(w) : w \in Workers}
         \cup {InMail("Unblock")}

\* The unblock of a task that joins u: in u's list until u is dead.  Far is
\* what of it the worker of the joiner's CPU d cannot come by without a
\* message.
JoinSpots(u, end) == {InList(u)} \cup (IF end = "dead" THEN Ripe ELSE {})
Far(u, end, d, home) ==
    {p \in JoinSpots(u, end) : /\ p # InTodo(d) /\ p # InHand(Worker[d])
                               /\ p = InList(u) => home # d}

-----------------------------------------------------------------------------
(* The account of a task                                                   *)

Blk  == {"blk_add", "blk_state", "blk_rem", "blk_int"}
Rets == {"ret", "wait_ret", "joined", "join_ans", "spawn_ret"}
New  == Tid \ DOMAIN Home

\* The tids of new tasks that were handed out since u was the next one.
Since(u) == {n \in New : n >= u}

\* Where a thread goes on once it is not blocked any more, and how many
\* unblocks its task is owed, given how far the count of its blocks is.
Goal(r)    == IF r.pc \in Blk THEN r.back ELSE r.pc
Owed(r, n) == n + (IF r.pc = "blk_add" THEN 1 ELSE 0)

Single(S) == \A p, q \in S : p = q
Once(a, K, S) == /\ a \in {0, 1} /\ (a = 0 => K = {})
                 /\ Single(K) /\ K \subseteq S

\* A spawn is asked for, when u is the next tid, then answered, then told.
Spawns(a, ret, u, K, ans) ==
    /\ a \in {0, 1} /\ (a = 0 => K = {})
    /\ \/ a = 1 /\ ret = 0 /\ K \subseteq {InMail("CreateTask")}
       \/ a = 1 /\ ret = 0 /\ K \subseteq {InMail("RespondAndUnblock")} /\ ans \subseteq Since(u)
       \/ ret \in Since(u) /\ Single(K) /\ K \subseteq OnWay

\* A join is asked for, then answered no or yes, then told: with a yes a
\* second unblock is to come, which may overtake the task, not the answer.
Asking(ret, u, K, ans, ask, far, me) ==
    \/ ret = 0 /\ K \subseteq {InMail("AddJoiner")} /\ ask \subseteq {u}
    \/ ret = 0 /\ K \subseteq {InMail("RespondAndUnblock")} /\ ans \subseteq {0}
    \/ ret = 0 /\ ans \subseteq {u} /\ \E j \in far : K \subseteq {InMail("RespondAndUnblock"), j}
    \/ ret = 0 /\ K \subseteq {me}
Told(ret, u, K, spots, me) == ret = u /\ \E j \in spots : K \subseteq {me, j}
Joins(a, ret, u, K, ans, ask, end, spots, far, me) ==
    \/ a = 1 /\ (Asking(ret, u, K, ans, ask, far, me) \/ Told(ret, u, K, spots, me))
    \/ a = 0 /\ ret = 0 /\ K = {}
    \/ a = 0 /\ ret = u /\ \E j \in spots : K \subseteq {j}
    \/ a = -1 /\ ret = u /\ K = {} /\ end = "dead"

\* g: the goal, a: the unblocks owed, ret: the answer stored, u: the task it
\* is about, K: the unblocks to come, ans and ask: what answers and requests
\* say, end: where u is, d: the task's CPU, home: that of u.
Ledger(g, a, ret, u, K, ans, ask, end, d, home) ==
    /\ g \notin Rets => a = 0 /\ ret = 0 /\ K = {}
    /\ g = "wait_ret" => ret = 0 /\ Once(a, K, {InQueue} \cup OnWay)
    /\ g = "ret" => ret = 0 /\ Once(a, K, {InIo} \cup OnWay)
    /\ g = "joined" => /\ ret = 0 /\ Once(a, K, JoinSpots(u, end))
                       /\ a = 0 => end = "dead"
    /\ g = "spawn_ret" => Spawns(a, ret, u, K, ans)
    /\ g = "join_ans" => Joins(a, ret, u, K, ans, ask, end, JoinSpots(u, end),
                               Far(u, end, d, home), InHand(Worker[d]))

Account(t) ==
    LET r == th[t] IN
    Ledger(Goal(r), Owed(r, task[t].blocked), task[t].ret, r.obj, Wakers(t),
           Said(boxes, "RespondAndUnblock", t), Said(boxes, "AddJoiner", t),
           th[r.obj].pc, tid_cpu[t], tid_cpu[r.obj])
Accounts == \A t \in Tid : IF t \in Workers THEN Wakers(t) = {} ELSE Account(t)
-----------------------------------------------------------------------------
(* What may become of an account                                           *)

LEMMA SpotsDiffer ==
    /\ InQueue[1] = "waiters" /\ InIo[1] = "ioq"
    /\ \A u : InList(u)[1] = "joiners" /\ InList(u)[2] = u
    /\ \A c : InTodo(c)[1] = "todo" /\ InTodo(c)[2] = c
    /\ \A v : InHand(v)[1] = "unblock" /\ InHand(v)[2] = v
    /\ \A k : InMail(k)[1] = "mail" /\ InMail(k)[2] = k
  BY DEF InQueue, InIo, InList, InTodo, InHand, InMail

LEMMA SpotsAre ==
    ASSUME NEW u, NEW end, NEW p
    PROVE  /\ p \in OnWay <=> p = InMail("Unblock") \/ \E v \in Tid : p = InHand(v)
           /\ p \in Ripe <=> \/ p = InMail("Unblock") \/ \E w \in Workers : p = InHand(w)
                             \/ \E c \in CPU : p = InTodo(c)
           /\ p \in JoinSpots(u, end) <=> p = InList(u) \/ (end = "dead" /\ p \in Ripe)
<1>1. p \in OnWay <=> p = InMail("Unblock") \/ \E v \in Tid : p = InHand(v)
  BY Zenon DEF OnWay
<1>2. p \in Ripe <=> \/ p = InMail("Unblock") \/ \E w \in Workers : p = InHand(w)
                     \/ \E c \in CPU : p = InTodo(c)
  <2>. DEFINE A == {InTodo(c) : c \in CPU}
              B == {InHand(w) : w \in Workers}
  <2>1. p \in A <=> \E c \in CPU : p = InTodo(c)
    OBVIOUS
  <2>2. p \in B <=> \E w \in Workers : p = InHand(w)
    OBVIOUS
  <2>3. Ripe = A \cup B \cup {InMail("Unblock")}
    BY DEF Ripe
  <2>. HIDE DEF A, B
  <2>. QED BY <2>1, <2>2, <2>3
<1>3. p \in JoinSpots(u, end) <=> p = InList(u) \/ (end = "dead" /\ p \in Ripe)
  <2>1. CASE end = "dead"
    BY <2>1 DEF JoinSpots
  <2>2. CASE end # "dead"
    BY <2>2 DEF JoinSpots
  <2>. QED BY <2>1, <2>2
<1>. QED BY <1>1, <1>2, <1>3

\* A message that is no unblock yet is one thing only.
LEMMA MailsDiffer ==
    ASSUME NEW k, k # "Unblock", NEW u, NEW end, NEW w
    PROVE  /\ InMail(k) # InQueue /\ InMail(k) # InIo /\ InMail(k) # InHand(w)
           /\ InMail(k) \notin OnWay /\ InMail(k) \notin JoinSpots(u, end)
           /\ \A l : l # k => InMail(l) # InMail(k)
<1>1. /\ InMail(k) # InQueue /\ InMail(k) # InIo /\ InMail(k) # InHand(w)
      /\ InMail(k) # InList(u) /\ \A l : l # k => InMail(l) # InMail(k)
  BY SpotsDiffer
<1>2. InMail(k) \notin OnWay
  BY <1>1, SpotsAre, SpotsDiffer
<1>3. InMail(k) \notin Ripe
  BY <1>1, SpotsAre, SpotsDiffer
<1>. QED BY <1>1, <1>2, <1>3, SpotsAre

\* Fewer unblocks, answers and requests do no harm, nor does a target that
\* died or left.
LEMMA LedgerFewer ==
    ASSUME NEW g, NEW a, NEW ret, NEW u, NEW K, NEW ans, NEW ask, NEW end, NEW d, NEW home,
           Ledger(g, a, ret, u, K, ans, ask, end, d, home),
           NEW L \in SUBSET K, NEW ans2 \in SUBSET ans, NEW ask2 \in SUBSET ask,
           NEW end2, g \in {"joined", "join_ans"} /\ end = "dead" => end2 = "dead",
           NEW home2, g = "join_ans" => home2 = home \/ home2 # d
    PROVE  Ledger(g, a, ret, u, L, ans2, ask2, end2, d, home2)
<1>. DEFINE S == JoinSpots(u, end)
            S2 == JoinSpots(u, end2)
            F == Far(u, end, d, home)
            F2 == Far(u, end2, d, home2)
            me == InHand(Worker[d])
<1>1. g \in {"joined", "join_ans"} => S \subseteq S2
  <2>. SUFFICES ASSUME NEW p \in S, g \in {"joined", "join_ans"} PROVE p \in S2
    OBVIOUS
  <2>. QED BY SpotsAre
<1>2. g = "join_ans" => F \subseteq F2
  BY <1>1 DEF Far
<1>3. \A T1, T2 : T1 \subseteq T2 /\ Once(a, K, T1) => Once(a, L, T2)
  BY DEF Once, Single
<1>4. Spawns(a, ret, u, K, ans) => Spawns(a, ret, u, L, ans2)
  BY DEF Spawns, Single
<1>5. g = "join_ans" /\ Joins(a, ret, u, K, ans, ask, end, S, F, me)
        => Joins(a, ret, u, L, ans2, ask2, end2, S2, F2, me)
  <2>. HAVE g = "join_ans" /\ Joins(a, ret, u, K, ans, ask, end, S, F, me)
  <2>. HIDE DEF S, S2, F, F2, me
  <2>1. Asking(ret, u, K, ans, ask, F, me) => Asking(ret, u, L, ans2, ask2, F2, me)
    BY <1>2 DEF Asking
  <2>2. Told(ret, u, K, S, me) => Told(ret, u, L, S2, me)
    BY <1>1 DEF Told
  <2>. QED BY <1>1, <2>1, <2>2 DEF Joins
<1>. HIDE DEF S, S2, F, F2, me
<1>. QED BY <1>1, <1>3, <1>4, <1>5 DEF Ledger, S, S2, F, F2, me

\* Nothing is owed to a task that is in no call.
LEMMA LedgerIdle ==
    ASSUME NEW g, g \notin {"spawn_ret", "join_ans"}, NEW u, NEW ans, NEW ask, NEW end,
           NEW d, NEW home, g = "joined" => end = "dead"
    PROVE  Ledger(g, 0, 0, u, {}, ans, ask, end, d, home)
  BY DEF Ledger, Once, Single

\* A call that blocks starts.
LEMMA LedgerEnters ==
    ASSUME NEW g \in Rets, NEW p, NEW u, NEW K \in SUBSET {p}, NEW ans, NEW ask, NEW end,
           NEW d, NEW home,
           \/ g = "wait_ret" /\ p = InQueue
           \/ g = "ret" /\ p = InIo
           \/ g = "joined" /\ p = InList(u)
           \/ g = "spawn_ret" /\ p = InMail("CreateTask")
           \/ g = "join_ans" /\ p = InMail("AddJoiner") /\ ask \subseteq {u}
    PROVE  Ledger(g, 1, 0, u, K, ans, ask, end, d, home)
<1>1. \A S : p \in S => Once(1, K, S)
  BY DEF Once, Single
<1>2. g = "joined" => p \in JoinSpots(u, end)
  BY SpotsAre
<1>. QED BY <1>1, <1>2 DEF Ledger, Rets, Spawns, Joins, Asking

\* An unblock is elsewhere, and no later than it was.
Passes(p, q, d) ==
    \/ p = InQueue /\ q = InMail("Unblock")
    \/ p = InIo /\ \E v \in Tid : q = InHand(v)
    \/ \E c \in CPU : p = InTodo(c) /\ q = InHand(Worker[c])
    \/ \E v \in Tid : v # Worker[d] /\ p = InHand(v) /\ q = InMail("Unblock")

LEMMA LedgerPasses ==
    ASSUME NEW g, NEW a, NEW ret, NEW u, NEW K, NEW ans, NEW ask, NEW end, NEW d \in CPU, NEW home,
           Ledger(g, a, ret, u, K, ans, ask, end, d, home),
           NEW p \in K, NEW q, NEW L \in SUBSET ((K \ {p}) \cup {q}), Passes(p, q, d)
    PROVE  Ledger(g, a, ret, u, L, ans, ask, end, d, home)
<1>. DEFINE S == JoinSpots(u, end)
            F == Far(u, end, d, home)
            me == InHand(Worker[d])
<1>1. q \in OnWay
  BY SchedAssumption, SpotsAre, Zenon DEF Passes, SchedAssumption
<1>2. p \in S => q \in S
  BY SpotsAre, SpotsDiffer DEF Passes, Workers
<1>3. p \in F => q \in F
  BY <1>2, SpotsAre, SpotsDiffer, SchedAssumption DEF Passes, Far, SchedAssumption, Workers
<1>4. p # me /\ p # InMail("AddJoiner") /\ p # InMail("RespondAndUnblock")
      /\ p # InMail("CreateTask")
  BY SpotsDiffer DEF Passes
<1>5. \A T1 : Once(a, K, T1) /\ q \in T1 => Once(a, L, T1)
  BY DEF Once, Single
<1>6. Spawns(a, ret, u, K, ans) => Spawns(a, ret, u, L, ans)
  BY <1>1, <1>4 DEF Spawns, Single
<1>. HIDE DEF S, F, me
<1>7. Asking(ret, u, K, ans, ask, F, me) => Asking(ret, u, L, ans, ask, F, me)
  BY <1>3, <1>4 DEF Asking
<1>8. Told(ret, u, K, S, me) => Told(ret, u, L, S, me)
  BY <1>2, <1>4 DEF Told
<1>9. Joins(a, ret, u, K, ans, ask, end, S, F, me) => Joins(a, ret, u, L, ans, ask, end, S, F, me)
  BY <1>2, <1>4, <1>7, <1>8 DEF Joins
<1>10. Once(a, K, S) => q \in S
  BY <1>2 DEF Once
<1>. QED BY <1>1, <1>2, <1>5, <1>6, <1>9, <1>10 DEF Ledger, S, F, me

\* One of the unblocks reaches the task, by a thread of its CPU d.
LEMMA LedgerPays ==
    ASSUME NEW g, NEW a, NEW ret, NEW u, NEW K, NEW ans, NEW ask, NEW end, NEW d \in CPU, NEW home,
           Ledger(g, a, ret, u, K, ans, ask, end, d, home),
           NEW p \in K, NEW L \in SUBSET (K \ {p}),
           p = InQueue \/ \E v \in Tid : p = InHand(v) /\ (v \in Workers => v = Worker[d])
    PROVE  /\ a \in {0, 1} /\ Ledger(g, a - 1, ret, u, L, ans, ask, end, d, home)
           /\ g \in Rets
<1>. DEFINE S == JoinSpots(u, end)
            F == Far(u, end, d, home)
            me == InHand(Worker[d])
<1>1. p # InMail("AddJoiner") /\ p # InMail("RespondAndUnblock") /\ p # InMail("CreateTask")
      /\ p # InList(u)
  BY SpotsDiffer
<1>2. p \in S => p = me /\ end = "dead"
  BY <1>1, SpotsAre, SpotsDiffer
<1>3. p \notin F
  BY <1>2 DEF Far
<1>4. \A T1 : Once(a, K, T1) => a = 1 /\ L = {} /\ p \in T1 /\ \A T2 : Once(0, L, T2)
  BY DEF Once, Single
<1>5. Spawns(a, ret, u, K, ans) => a = 1 /\ Spawns(0, ret, u, L, ans)
  BY <1>1 DEF Spawns, Single
<1>. HIDE DEF S, F, me
<1>6. Joins(a, ret, u, K, ans, ask, end, S, F, me)
        => a \in {0, 1} /\ Joins(a - 1, ret, u, L, ans, ask, end, S, F, me)
  <2>1. ~(a = -1 /\ ret = u /\ K = {} /\ end = "dead") /\ ~(a = 0 /\ ret = 0 /\ K = {})
    OBVIOUS
  <2>2. CASE a = 1 /\ Asking(ret, u, K, ans, ask, F, me)
    <3>1. ret = 0 /\ L = {}
      BY <1>1, <1>3, <2>2 DEF Asking
    <3>. QED BY <2>2, <3>1 DEF Joins
  <2>3. CASE a = 1 /\ Told(ret, u, K, S, me)
    <3>1. ret = u /\ \E j \in S : L \subseteq {j}
      BY <1>2, <2>3 DEF Told
    <3>. QED BY <2>3, <3>1 DEF Joins
  <2>4. CASE a = 0 /\ ret = u /\ \E j \in S : K \subseteq {j}
    <3>1. L = {} /\ end = "dead"
      BY <1>2, <2>4
    <3>2. a - 1 = -1
      BY <2>4
    <3>. QED BY <2>4, <3>1, <3>2 DEF Joins
  <2>. QED BY <2>1, <2>2, <2>3, <2>4 DEF Joins
<1>7. g \in Rets
  BY DEF Ledger
<1>8. CASE g = "join_ans"
  BY <1>6, <1>8 DEF Ledger, Rets, S, F, me
<1>9. CASE g = "spawn_ret"
  BY <1>5, <1>9 DEF Ledger, Rets
<1>10. CASE g \in {"wait_ret", "ret", "joined"}
  <2>1. a = 1
    BY <1>4, <1>10 DEF Ledger
  <2>2. a - 1 = 0
    BY <2>1
  <2>3. g = "joined" => end = "dead"
    <3>1. g = "joined" => p \in S
      BY <1>4 DEF Ledger, S
    <3>. QED BY <1>2, <3>1
  <2>4. ret = 0 /\ \A T2 : Once(0, L, T2)
    BY <1>4, <1>10 DEF Ledger
  <2>5. Ledger(g, 0, ret, u, L, ans, ask, end, d, home)
    BY <1>7, <1>10, <2>3, <2>4 DEF Ledger
  <2>. QED BY <1>7, <2>1, <2>2, <2>5
<1>. QED BY <1>7, <1>8, <1>9, <1>10 DEF Rets

\* The worker of the task's CPU d takes an unblock message in its hands: no
\* answer is on its way any more.
LEMMA LedgerFetched ==
    ASSUME NEW g, NEW a, NEW ret, NEW u, NEW K, NEW ans, NEW ask, NEW end, NEW d \in CPU, NEW home,
           Ledger(g, a, ret, u, K, ans, ask, end, d, home),
           InMail("Unblock") \in K, InMail("RespondAndUnblock") \notin K,
           NEW L \in SUBSET ((K \ {InMail("Unblock")}) \cup {InHand(Worker[d])})
    PROVE  Ledger(g, a, ret, u, L, ans, ask, end, d, home)
<1>. DEFINE S == JoinSpots(u, end)
            F == Far(u, end, d, home)
            me == InHand(Worker[d])
            p == InMail("Unblock")
<1>1. me \in OnWay /\ (p \in S => me \in S)
  <2>1. Worker[d] \in Tid /\ Worker[d] \in Workers
    BY SchedAssumption DEF SchedAssumption, Workers
  <2>2. p # InList(u)
    BY SpotsDiffer
  <2>. QED BY <2>1, <2>2, SpotsAre
<1>2. p # InQueue /\ p # InIo /\ p # InMail("AddJoiner") /\ p # InMail("CreateTask")
      /\ p # InMail("RespondAndUnblock") /\ p # me
  BY SpotsDiffer
<1>. HIDE DEF S, F, me
<1>3. \A T1 : Once(a, K, T1) => p \in T1 /\ (me \in T1 => Once(a, L, T1))
  BY DEF Once, Single, me
<1>4. Spawns(a, ret, u, K, ans) => Spawns(a, ret, u, L, ans)
  BY <1>1, <1>2 DEF Spawns, Single, me
<1>5. Asking(ret, u, K, ans, ask, F, me) => ret = 0 /\ L \subseteq {me}
  BY <1>2 DEF Asking, me
<1>6. Told(ret, u, K, S, me) => Told(ret, u, L, S, me)
  BY <1>1, <1>2 DEF Told, me
<1>7. (\E j \in S : K \subseteq {j}) => \E j \in S : L \subseteq {j}
  BY <1>1 DEF me
<1>8. Joins(a, ret, u, K, ans, ask, end, S, F, me) => Joins(a, ret, u, L, ans, ask, end, S, F, me)
  BY <1>5, <1>6, <1>7 DEF Joins, Asking
<1>. QED BY <1>1, <1>3, <1>4, <1>8 DEF Ledger, S, F, me

\* The worker of the task's CPU d stores the answer.
LEMMA LedgerAnswered ==
    ASSUME NEW g, NEW a, NEW ret, NEW u, NEW K, NEW ans, NEW ask, NEW end, NEW d \in CPU, NEW home,
           Ledger(g, a, ret, u, K, ans, ask, end, d, home),
           InMail("RespondAndUnblock") \in K, NEW v \in ans,
           NEW L \in SUBSET ((K \ {InMail("RespondAndUnblock")}) \cup {InHand(Worker[d])})
    PROVE  Ledger(g, a, v, u, L, ans, ask, end, d, home)
<1>. DEFINE S == JoinSpots(u, end)
            F == Far(u, end, d, home)
            me == InHand(Worker[d])
            p == InMail("RespondAndUnblock")
<1>1. me \in OnWay
  BY SchedAssumption, SpotsAre DEF SchedAssumption
<1>2. p # InQueue /\ p # InIo /\ p # InMail("AddJoiner") /\ p # InMail("CreateTask")
      /\ p \notin OnWay /\ p \notin S /\ p # me
  BY MailsDiffer
<1>3. F \subseteq S
  BY DEF Far
<1>4. g = "spawn_ret" \/ g = "join_ans"
  BY <1>2 DEF Ledger, Rets, Once
<1>. HIDE DEF S, F, me
<1>5. Spawns(a, ret, u, K, ans) => Spawns(a, v, u, L, ans)
  BY <1>1, <1>2 DEF Spawns, Single, me
<1>6. Joins(a, ret, u, K, ans, ask, end, S, F, me) => Joins(a, v, u, L, ans, ask, end, S, F, me)
  <2>1. ~Told(ret, u, K, S, me)
    BY <1>2 DEF Told
  <2>2. Asking(ret, u, K, ans, ask, F, me) => Asking(v, u, L, ans, ask, F, me) \/ Told(v, u, L, S, me)
    BY <1>2, <1>3 DEF Asking, Told, me
  <2>. QED BY <1>2, <2>1, <2>2 DEF Joins
<1>. QED BY <1>4, <1>5, <1>6 DEF Ledger, Rets, S, F, me

\* The target's worker takes the joiner in the target's list, or does not
\* find the target.
LEMMA LedgerAsked ==
    ASSUME NEW g, NEW a, NEW ret, NEW u, NEW K, NEW ans, NEW ask, NEW end, NEW d \in CPU, NEW home,
           Ledger(g, a, ret, u, K, ans, ask, end, d, home),
           InMail("AddJoiner") \in K, NEW w \in ask,
           NEW ans2, NEW L,
           \/ home # d /\ ans2 \subseteq {w}
                /\ L \subseteq (K \ {InMail("AddJoiner")}) \cup {InMail("RespondAndUnblock"), InList(w)}
           \/ ans2 \subseteq {0}
                /\ L \subseteq (K \ {InMail("AddJoiner")}) \cup {InMail("RespondAndUnblock")}
    PROVE  Ledger(g, a, ret, u, L, ans2, ask, end, d, home) /\ w = u
<1>. DEFINE S == JoinSpots(u, end)
            F == Far(u, end, d, home)
            me == InHand(Worker[d])
            p == InMail("AddJoiner")
<1>1. home # d => InList(u) \in F
  <2>1. InList(u) \in S /\ InList(u) # InTodo(d) /\ InList(u) # InHand(Worker[d])
    BY SpotsDiffer, SpotsAre
  <2>. QED BY <2>1 DEF Far
<1>2. p # InQueue /\ p # InIo /\ p # InMail("RespondAndUnblock") /\ p # InMail("CreateTask")
      /\ p \notin OnWay /\ p \notin S /\ p # me
  BY MailsDiffer
<1>3. F \subseteq S
  BY DEF Far
<1>4. g = "join_ans"
  BY <1>2 DEF Ledger, Rets, Once, Spawns
<1>. HIDE DEF S, F, me
<1>5. Joins(a, ret, u, K, ans, ask, end, S, F, me)
        => w = u /\ Joins(a, ret, u, L, ans2, ask, end, S, F, me)
  <2>1. ~Told(ret, u, K, S, me)
    BY <1>2 DEF Told
  <2>2. Asking(ret, u, K, ans, ask, F, me) => ret = 0 /\ K = {p} /\ w = u
    BY <1>2, <1>3 DEF Asking
  <2>3. Asking(ret, u, K, ans, ask, F, me) => Asking(ret, u, L, ans2, ask, F, me)
    BY <1>1, <2>2 DEF Asking
  <2>. QED BY <1>2, <2>1, <2>2, <2>3 DEF Joins
<1>. QED BY <1>4, <1>5 DEF Ledger, Rets, S, F, me

\* The new task exists and its number is on the way.
LEMMA LedgerCreated ==
    ASSUME NEW g, NEW a, NEW ret, NEW u, NEW K, NEW ans, NEW ask, NEW end, NEW d \in CPU, NEW home,
           Ledger(g, a, ret, u, K, ans, ask, end, d, home),
           InMail("CreateTask") \in K, NEW v \in Since(u), NEW ans2 \in SUBSET {v},
           NEW L \in SUBSET ((K \ {InMail("CreateTask")}) \cup {InMail("RespondAndUnblock")})
    PROVE  Ledger(g, a, ret, u, L, ans2, ask, end, d, home)
<1>. DEFINE S == JoinSpots(u, end)
            F == Far(u, end, d, home)
            me == InHand(Worker[d])
            p == InMail("CreateTask")
<1>2. p # InQueue /\ p # InIo /\ p # InMail("RespondAndUnblock") /\ p # InMail("AddJoiner")
      /\ p \notin OnWay /\ p \notin S /\ p # me
  BY MailsDiffer
<1>3. F \subseteq S
  BY DEF Far
<1>. HIDE DEF S, F, me
<1>4. ~Joins(a, ret, u, K, ans, ask, end, S, F, me)
  BY <1>2, <1>3 DEF Joins, Asking, Told
<1>5. g = "spawn_ret"
  BY <1>2, <1>4 DEF Ledger, Rets, Once, S, F, me
<1>6. Spawns(a, ret, u, K, ans) => Spawns(a, ret, u, L, ans2)
  BY <1>2 DEF Spawns
<1>. QED BY <1>5, <1>6 DEF Ledger, Rets

\* A dead target leaves its pool: its worker has its list in hand.
LEMMA LedgerBuried ==
    ASSUME NEW g, NEW a, NEW ret, NEW u, NEW K, NEW ans, NEW ask, NEW end, NEW d \in CPU, NEW home,
           Ledger(g, a, ret, u, K, ans, ask, end, d, home),
           NEW v, NEW c \in CPU, InList(v) \in K,
           g \in {"joined", "join_ans"} /\ u = v => end = "dead" /\ home = c,
           NEW L \in SUBSET ((K \ {InList(v)}) \cup {InTodo(c)})
    PROVE  Ledger(g, a, ret, u, L, ans, ask, end, d, home)
<1>. DEFINE S == JoinSpots(u, end)
            F == Far(u, end, d, home)
            me == InHand(Worker[d])
            p == InList(v)
            q == InTodo(c)
<1>1. p \notin OnWay /\ p # InQueue /\ p # InIo /\ p # me /\ \A k : p # InMail(k)
  BY SpotsAre, SpotsDiffer
<1>2. g \in {"joined", "join_ans"} /\ p \in S => u = v /\ q \in S
  BY SpotsAre, SpotsDiffer
<1>3. g = "join_ans" /\ p \in F => q \in F
  BY <1>2, SpotsDiffer DEF Far
<1>. HIDE DEF S, F, me, p, q
<1>4. g \notin {"joined", "join_ans"} => FALSE
  BY <1>1 DEF Ledger, Rets, Once, Spawns, p
<1>5. CASE g = "joined"
  BY <1>2, <1>5 DEF Ledger, Rets, Once, Single, p, q, S
<1>6. CASE g = "join_ans"
  <2>1. Asking(ret, u, K, ans, ask, F, me) => Asking(ret, u, L, ans, ask, F, me)
    BY <1>1, <1>3, <1>6 DEF Asking, p, q
  <2>2. Told(ret, u, K, S, me) => Told(ret, u, L, S, me)
    BY <1>1, <1>2, <1>6 DEF Told, p, q
  <2>3. (\E j \in S : K \subseteq {j}) => \E j \in S : L \subseteq {j}
    BY <1>2, <1>6 DEF p, q
  <2>4. Joins(a, ret, u, K, ans, ask, end, S, F, me) => Joins(a, ret, u, L, ans, ask, end, S, F, me)
    BY <2>1, <2>2, <2>3 DEF Joins, p
  <2>. QED BY <1>6, <2>4 DEF Ledger, Rets, S, F, me
<1>. QED BY <1>4, <1>5, <1>6

\* What holds of a task that is owed no unblock.
LEMMA LedgerRests ==
    ASSUME NEW g, NEW a, NEW ret, NEW u, NEW K, NEW ans, NEW ask, NEW end, NEW d, NEW home,
           Ledger(g, a, ret, u, K, ans, ask, end, d, home), a # 1
    PROVE  /\ g \notin {"spawn_ret", "join_ans"} => a = 0 /\ ret = 0 /\ K = {}
           /\ g = "joined" => end = "dead"
           /\ g = "spawn_ret" => a = 0 /\ ret \in Since(u) /\ K = {}
           /\ g = "join_ans" /\ ret # u => a = 0 /\ ret = 0 /\ K = {}
           /\ g = "join_ans" => /\ ret \in {0, u}
                               /\ \A k \in Kinds : InMail(k) \in K => k = "Unblock"
<1>1. \A S : Once(a, K, S) => a = 0 /\ K = {}
  BY DEF Once
<1>2. Spawns(a, ret, u, K, ans) => a = 0 /\ K = {} /\ ret \in Since(u)
  BY DEF Spawns
<1>3. \A S, F, me : Joins(a, ret, u, K, ans, ask, end, S, F, me)
        => /\ ret \in {0, u} /\ (ret # u => a = 0 /\ ret = 0 /\ K = {})
           /\ K = {} \/ \E j \in S : K \subseteq {j}
  BY DEF Joins
<1>4. \A k \in Kinds : InMail(k) \in JoinSpots(u, end) => k = "Unblock"
  BY MailsDiffer
<1>5. g = "join_ans" => K = {} \/ \E j \in JoinSpots(u, end) : K \subseteq {j}
  BY <1>3 DEF Ledger, Rets
<1>6. g = "join_ans" => \A k \in Kinds : InMail(k) \in K => k = "Unblock"
  BY <1>4, <1>5
<1>. QED BY <1>1, <1>2, <1>3, <1>6 DEF Ledger, Rets

\* Who is in a list of joiners waits for the end of the task whose list it is.
LEMMA ListedForTheEnd ==
    ASSUME NEW g, NEW a, NEW ret, NEW u, NEW K, NEW ans, NEW ask, NEW end, NEW d, NEW home,
           Ledger(g, a, ret, u, K, ans, ask, end, d, home), NEW t, InList(t) \in K
    PROVE  g \in {"joined", "join_ans"} /\ t = u
<1>1. InList(t) \notin OnWay /\ InList(t) \notin {InQueue, InIo}
      /\ (\A k : InList(t) # InMail(k)) /\ \A v : InList(t) # InHand(v)
  BY SpotsAre, SpotsDiffer
<1>2. InList(t) \in JoinSpots(u, end) => t = u
  BY SpotsAre, SpotsDiffer
<1>3. \A S : Once(a, K, S) => InList(t) \in S
  BY DEF Once
<1>4. ~Spawns(a, ret, u, K, ans)
  BY <1>1 DEF Spawns
<1>5. ASSUME NEW S, NEW F \in SUBSET S, NEW w, Joins(a, ret, u, K, ans, ask, end, S, F, InHand(w))
      PROVE  InList(t) \in S
  <2>1. Asking(ret, u, K, ans, ask, F, InHand(w)) => InList(t) \in S
    BY <1>1 DEF Asking
  <2>2. Told(ret, u, K, S, InHand(w)) => InList(t) \in S
    BY <1>1 DEF Told
  <2>. QED BY <1>5, <2>1, <2>2 DEF Joins
<1>6. Far(u, end, d, home) \in SUBSET JoinSpots(u, end)
  BY DEF Far
<1>7. g \in Rets
  BY DEF Ledger
<1>8. g \notin {"wait_ret", "ret", "spawn_ret"}
  BY <1>1, <1>3, <1>4 DEF Ledger
<1>9. g = "joined" => t = u
  BY <1>2, <1>3 DEF Ledger
<1>10. g = "join_ans" => t = u
  BY <1>2, <1>5, <1>6 DEF Ledger
<1>. QED BY <1>7, <1>8, <1>9, <1>10 DEF Rets

\* The answer is yes: the task waits to be told.
LEMMA LedgerTold ==
    ASSUME NEW a, NEW ret, NEW u, NEW K, NEW ans, NEW ask, NEW end, NEW d, NEW home,
           Ledger("join_ans", a, ret, u, K, ans, ask, end, d, home), a # 1, ret = u, u # 0
    PROVE  Ledger("joined", a + 1, 0, u, K, ans, ask, end, d, home)
<1>. DEFINE S == JoinSpots(u, end)
            F == Far(u, end, d, home)
            me == InHand(Worker[d])
<1>. HIDE DEF S, F, me
<1>1. Joins(a, ret, u, K, ans, ask, end, S, F, me)
  BY DEF Ledger, Rets, S, F, me
<1>2. \/ a = 0 /\ \E j \in S : K \subseteq {j}
      \/ a = -1 /\ K = {} /\ end = "dead"
  BY <1>1 DEF Joins
<1>3. CASE a = 0 /\ \E j \in S : K \subseteq {j}
  <2>1. a + 1 = 1
    BY <1>3
  <2>2. Once(1, K, S)
    BY <1>3 DEF Once, Single
  <2>. QED BY <2>1, <2>2 DEF Ledger, Rets, S
<1>4. CASE a = -1 /\ K = {} /\ end = "dead"
  <2>1. a + 1 = 0
    BY <1>4
  <2>. QED BY <1>4, <2>1, LedgerIdle
<1>. QED BY <1>2, <1>3, <1>4

\* Who asked for a task waits for the answer.
LEMMA LedgerMaking ==
    ASSUME NEW g, NEW a, NEW ret, NEW u, NEW K, NEW ans, NEW ask, NEW end, NEW d, NEW home,
           Ledger(g, a, ret, u, K, ans, ask, end, d, home), InMail("CreateTask") \in K
    PROVE  g = "spawn_ret" /\ a = 1
<1>. DEFINE S == JoinSpots(u, end)
            F == Far(u, end, d, home)
            me == InHand(Worker[d])
            p == InMail("CreateTask")
<1>1. p # InQueue /\ p # InIo /\ p # InMail("RespondAndUnblock") /\ p # InMail("AddJoiner")
      /\ p \notin OnWay /\ p \notin S /\ p # me
  BY MailsDiffer
<1>2. F \subseteq S
  BY DEF Far
<1>. HIDE DEF S, F, me
<1>3. ~Joins(a, ret, u, K, ans, ask, end, S, F, me)
  BY <1>1, <1>2 DEF Joins, Asking, Told
<1>4. g = "spawn_ret"
  BY <1>1, <1>3 DEF Ledger, Rets, Once, S, F, me
<1>5. Spawns(a, ret, u, K, ans) => a = 1
  BY <1>1 DEF Spawns
<1>. QED BY <1>4, <1>5 DEF Ledger, Rets

\* A request is the one unblock to come, and an unblock that is sent is the
\* only one that is on its way in a message.
LEMMA LedgerSole ==
    ASSUME NEW g, NEW a, NEW ret, NEW u, NEW K, NEW ans, NEW ask, NEW end, NEW d \in CPU, NEW home,
           Ledger(g, a, ret, u, K, ans, ask, end, d, home)
    PROVE  /\ \A k \in {"AddJoiner", "CreateTask"} : InMail(k) \in K => K = {InMail(k)}
           /\ InQueue \in K => InMail("Unblock") \notin K
           /\ \A v \in Tid : v # Worker[d] /\ InHand(v) \in K => InMail("Unblock") \notin K
<1>. DEFINE S == JoinSpots(u, end)
            F == Far(u, end, d, home)
            me == InHand(Worker[d])
<1>1. ASSUME NEW k \in {"AddJoiner", "CreateTask"}
      PROVE  /\ InMail(k) # InQueue /\ InMail(k) # InIo /\ InMail(k) # InMail(Answer)
             /\ InMail(k) \notin OnWay /\ InMail(k) \notin S /\ InMail(k) # me
  BY MailsDiffer DEF Answer
<1>2. F \subseteq S
  BY DEF Far
<1>3. ASSUME NEW p, p = InQueue \/ \E v \in Tid : v # Worker[d] /\ p = InHand(v)
      PROVE  /\ p # me /\ me # InMail("Unblock") /\ InMail("Unblock") # InMail(Answer)
             /\ \A k : p # InMail(k)
  BY <1>3, SpotsDiffer DEF Answer
<1>. HIDE DEF S, F, me
<1>4. ASSUME NEW k \in {"AddJoiner", "CreateTask"}, InMail(k) \in K
      PROVE  K = {InMail(k)}
  <2>1. ~Told(ret, u, K, S, me)
    BY <1>1, <1>4 DEF Told
  <2>2. Asking(ret, u, K, ans, ask, F, me) => K = {InMail(k)}
    BY <1>1, <1>2, <1>4 DEF Asking, Answer
  <2>3. Joins(a, ret, u, K, ans, ask, end, S, F, me) => K = {InMail(k)}
    BY <1>1, <1>4, <2>1, <2>2 DEF Joins
  <2>4. Spawns(a, ret, u, K, ans) => K = {InMail(k)}
    BY <1>1, <1>4 DEF Spawns, Answer
  <2>5. \A D : Once(a, K, D) => InMail(k) \in D
    BY <1>4 DEF Once
  <2>. QED BY <1>1, <1>4, <2>3, <2>4, <2>5 DEF Ledger, Rets, S, F, me
<1>5. ASSUME NEW p \in K, p = InQueue \/ \E v \in Tid : v # Worker[d] /\ p = InHand(v),
             InMail("Unblock") \in K
      PROVE  FALSE
  <2>1. p # me /\ me # InMail("Unblock") /\ InMail("Unblock") # InMail(Answer) /\ \A k : p # InMail(k)
    BY <1>3, <1>5
  <2>2. ~Told(ret, u, K, S, me)
    BY <1>5, <2>1 DEF Told
  <2>3. ~Asking(ret, u, K, ans, ask, F, me)
    BY <1>5, <2>1 DEF Asking, Answer
  <2>4. ~Joins(a, ret, u, K, ans, ask, end, S, F, me)
    BY <1>5, <2>1, <2>2, <2>3 DEF Joins
  <2>5. ~Spawns(a, ret, u, K, ans)
    BY <1>5, <2>1 DEF Spawns, Single
  <2>6. \A D : ~Once(a, K, D)
    BY <1>5, <2>1 DEF Once, Single
  <2>. QED BY <1>5, <2>4, <2>5, <2>6 DEF Ledger, Rets, S, F, me
<1>. QED BY <1>4, <1>5

-----------------------------------------------------------------------------
(* The messages                                                            *)

\* Of two places of messages, the one that the worker comes to later.
Later(x, i, y, j) == (x = None /\ y # None) \/ (x = y /\ i > j)

\* There is one message of a kind about a task at a time; an unblock that is
\* sent while the answer is on its way comes after it.
Ordered(b) ==
    \A x, y \in Place : \A i \in DOMAIN b[x], j \in DOMAIN b[y] :
        LET m == b[x][i]
            n == b[y][j]
        IN
        /\ x # None => m.dest = x
        /\ m.kind = n.kind /\ Wakee(m) = Wakee(n) => x = y /\ i = j
        /\ m.kind = "Unblock" /\ n.kind = Answer /\ Wakee(m) = Wakee(n) => Later(x, i, y, j)

\* Who has to be woken is where the message says.
Fit(m) ==
    /\ m.kind \in Kinds
    /\ m.kind \in {"AddJoiner", "CreateTask"} => m.from = tid_cpu[Wakee(m)]
    /\ m.kind \in {Answer, "Unblock"} => m.dest = tid_cpu[Wakee(m)]
    /\ m.kind = Answer => m.val < next_tid
    /\ m.kind = "AddJoiner" => /\ m.tid \in known /\ m.dest \in CPU
                               /\ ~(m.dest = tid_cpu[m.val] /\ m.tid \in pool[m.dest])

Mails == Ordered(boxes) /\ \A x \in Place : \A i \in DOMAIN Box(x) : Fit(Box(x)[i])

Queuing == [Place -> Seq(Message)]

LEMMA SaidIs ==
    ASSUME NEW b, NEW k, NEW t, NEW v
    PROVE  v \in Said(b, k, t) <=> \E x \in Place : \E i \in DOMAIN b[x] :
                b[x][i].kind = k /\ Wakee(b[x][i]) = t /\ What(b[x][i]) = v
<1>1. ASSUME NEW x
      PROVE  v \in {What(b[x][i]) : i \in Mail(b, x, k, t)} <=> \E i \in DOMAIN b[x] :
                b[x][i].kind = k /\ Wakee(b[x][i]) = t /\ What(b[x][i]) = v
  BY DEF Mail
<1>. QED BY <1>1 DEF Said

LEMMA SaidNothing ==
    ASSUME NEW b, NEW k, NEW t,
           \A x \in Place : \A i \in DOMAIN b[x] : ~(b[x][i].kind = k /\ Wakee(b[x][i]) = t)
    PROVE  Said(b, k, t) = {}
  BY DEF Said, Mail

\* Nothing is said that was not said, nor out of order.
Flown(b, f) ==
    /\ Ordered(f) /\ \A k, t : Said(f, k, t) \subseteq Said(b, k, t)
    /\ \A x \in Place : \A i \in DOMAIN f[x] :
          \E y \in Place : \E j \in DOMAIN b[y] : f[x][i] = b[y][j]

Straight(b) ==
    \A x, y \in Place : \A i \in DOMAIN b[x], j \in DOMAIN b[y] :
        b[x][i].kind = "Unblock" /\ b[y][j].kind = Answer /\ Wakee(b[x][i]) = Wakee(b[y][j])
            => b[x][i].dest = b[y][j].dest

\* Messages move, each from box y[x] and index e[x][i] to box x and index i.
Follows(b, f, y, e) ==
    /\ \A x \in Place : y[x] \in Place
    /\ \A x \in Place : \A i \in DOMAIN f[x] :
          /\ e[x][i] \in DOMAIN b[y[x]] /\ f[x][i] = b[y[x]][e[x][i]]
          /\ x # None => f[x][i].dest = x
    /\ \A x, z \in Place : \A i \in DOMAIN f[x], l \in DOMAIN f[z] :
          /\ y[x] = y[z] /\ e[x][i] = e[z][l] => x = z /\ i = l
          /\ Later(y[x], e[x][i], y[z], e[z][l]) /\ f[x][i].dest = f[z][l].dest
                 => Later(x, i, z, l)

LEMMA MessagesFlow ==
    ASSUME NEW b, Ordered(b), Straight(b), NEW f, NEW y, NEW e, Follows(b, f, y, e)
    PROVE  Flown(b, f)
<1>. USE DEF Follows
<1>1. Ordered(f)
  <2>. SUFFICES ASSUME NEW x \in Place, NEW z \in Place, NEW i \in DOMAIN f[x], NEW l \in DOMAIN f[z]
                PROVE  /\ x # None => f[x][i].dest = x
                       /\ f[x][i].kind = f[z][l].kind /\ Wakee(f[x][i]) = Wakee(f[z][l])
                            => x = z /\ i = l
                       /\ f[x][i].kind = "Unblock" /\ f[z][l].kind = Answer
                              /\ Wakee(f[x][i]) = Wakee(f[z][l]) => Later(x, i, z, l)
    BY DEF Ordered
  <2>. DEFINE p == y[x]
              q == y[z]
              j == e[x][i]
              k == e[z][l]
              m == f[x][i]
              n == f[z][l]
  <2>1. /\ p \in Place /\ j \in DOMAIN b[p] /\ m = b[p][j] /\ (x # None => m.dest = x)
        /\ q \in Place /\ k \in DOMAIN b[q] /\ n = b[q][k]
    OBVIOUS
  <2>2. /\ p = q /\ j = k => x = z /\ i = l
        /\ Later(p, j, q, k) /\ m.dest = n.dest => Later(x, i, z, l)
    OBVIOUS
  <2>. HIDE DEF p, q, j, k, m, n
  <2>3. /\ m.kind = n.kind /\ Wakee(m) = Wakee(n) => p = q /\ j = k
        /\ m.kind = "Unblock" /\ n.kind = Answer /\ Wakee(m) = Wakee(n)
              => Later(p, j, q, k) /\ m.dest = n.dest
    BY <2>1 DEF Ordered, Straight
  <2>. QED BY <2>1, <2>2, <2>3 DEF m, n
<1>2. ASSUME NEW x \in Place, NEW i \in DOMAIN f[x]
      PROVE  \E z \in Place : \E j \in DOMAIN b[z] : f[x][i] = b[z][j]
  OBVIOUS
<1>3. ASSUME NEW k, NEW t, NEW v \in Said(f, k, t) PROVE v \in Said(b, k, t)
  <2>1. PICK x \in Place : \E i \in DOMAIN f[x] :
                f[x][i].kind = k /\ Wakee(f[x][i]) = t /\ What(f[x][i]) = v
    BY <1>3, SaidIs
  <2>2. PICK i \in DOMAIN f[x] : f[x][i].kind = k /\ Wakee(f[x][i]) = t /\ What(f[x][i]) = v
    BY <2>1
  <2>3. PICK z \in Place : \E j \in DOMAIN b[z] : f[x][i] = b[z][j]
    BY <1>2
  <2>4. PICK j \in DOMAIN b[z] : f[x][i] = b[z][j]
    BY <2>3
  <2>. QED BY <2>2, <2>4, SaidIs
<1>. QED BY <1>1, <1>2, <1>3 DEF Flown

\* A worker pops the first message of its own.
Popping(b, c) == [b EXCEPT ![c] = Tail(@)]

LEMMA MessagePops ==
    ASSUME NEW b \in Queuing, Ordered(b), Straight(b), NEW c \in CPU, b[c] # <<>>,
           NEW f, f = Popping(b, c), NEW m, m = Head(b[c])
    PROVE  /\ f \in Queuing /\ Flown(b, f) /\ m \in Message
           /\ Said(f, m.kind, Wakee(m)) = {} /\ What(m) \in Said(b, m.kind, Wakee(m))
<1>. DEFINE y == [x \in Place |-> x]
            h(x) == IF x = c THEN 1 ELSE 0
            e == [x \in Place |-> [i \in Nat |-> i + h(x)]]
<1>1. /\ c \in Place /\ c # None /\ b[c] \in Seq(Message)
      /\ \A x \in Place : f[x] \in Seq(Message) /\ DOMAIN f[x] \subseteq Nat
      /\ f \in Queuing
  <2>1. c \in Place /\ c # None /\ b[c] \in Seq(Message)
    BY SchedAssumption DEF Place, Queuing, SchedAssumption
  <2>2. Tail(b[c]) \in Seq(Message)
    BY <2>1, HeadTailProperties
  <2>3. f \in Queuing
    BY <2>1, <2>2 DEF Queuing, Popping
  <2>. QED BY <2>1, <2>3 DEF Queuing
<1>2. ASSUME NEW x \in Place, NEW i \in DOMAIN f[x]
      PROVE  i + h(x) \in DOMAIN b[x] /\ f[x][i] = b[x][i + h(x)]
  <2>1. CASE x = c
    <3>1. Len(Tail(b[c])) = Len(b[c]) - 1
          /\ \A j \in 1 .. Len(Tail(b[c])) : Tail(b[c])[j] = b[c][j + 1]
      BY <1>1, HeadTailProperties
    <3>2. f[c] = Tail(b[c]) /\ h(x) = 1
      BY <1>1, <2>1 DEF Queuing, Popping
    <3>. DEFINE s == b[c]
                g == Tail(s)
                n == Len(s)
    <3>3. /\ s \in Seq(Message) /\ g \in Seq(Message) /\ Len(g) = n - 1
          /\ \A j \in 1 .. Len(g) : g[j] = s[j + 1]
          /\ f[x] = g /\ b[x] = s /\ h(x) = 1
      BY <1>1, <2>1, <3>1, <3>2
    <3>. HIDE DEF s, g, h
    <3>4. n \in Nat /\ DOMAIN g = 1 .. Len(g) /\ DOMAIN s = 1 .. n
      BY <3>3
    <3>5. i \in 1 .. (n - 1) /\ f[x][i] = s[i + 1]
      BY <1>2, <3>3, <3>4
    <3>. HIDE DEF n
    <3>6. i + 1 \in 1 .. n
      BY <3>4, <3>5
    <3>. QED BY <3>3, <3>4, <3>5, <3>6
  <2>2. CASE x # c
    BY <1>1, <1>2, <2>2 DEF Queuing, Popping
  <2>. QED BY <2>1, <2>2
<1>3. /\ \A x \in Place : y[x] = x
      /\ \A x \in Place : \A i \in DOMAIN f[x] : i \in Nat /\ e[x][i] = i + h(x)
  BY <1>1
<1>4. \A x : h(x) \in Nat
  OBVIOUS
<1>. HIDE DEF y, e, h
<1>5. \A x \in Place : \A i \in DOMAIN f[x] :
         e[x][i] \in DOMAIN b[y[x]] /\ f[x][i] = b[y[x]][e[x][i]]
  BY <1>2, <1>3
<1>6. \A x \in Place : \A i \in DOMAIN f[x] : x # None => f[x][i].dest = x
  BY <1>2 DEF Ordered
<1>7. ASSUME NEW x \in Place, NEW z \in Place, NEW i \in DOMAIN f[x], NEW l \in DOMAIN f[z]
      PROVE  /\ y[x] = y[z] /\ e[x][i] = e[z][l] => x = z /\ i = l
             /\ Later(y[x], e[x][i], y[z], e[z][l]) => Later(x, i, z, l)
  <2>1. i \in Int /\ l \in Int /\ h(x) \in Int /\ h(z) \in Int
    BY <1>3, <1>4
  <2>2. y[x] = x /\ y[z] = z /\ e[x][i] = i + h(x) /\ e[z][l] = l + h(z)
    BY <1>3
  <2>. QED BY <2>1, <2>2 DEF Later
<1>8. Flown(b, f)
  <2>1. \A x \in Place : y[x] \in Place
    BY <1>3
  <2>2. \A x \in Place : \A i \in DOMAIN f[x] :
          /\ e[x][i] \in DOMAIN b[y[x]] /\ f[x][i] = b[y[x]][e[x][i]]
          /\ x # None => f[x][i].dest = x
    BY <1>5, <1>6
  <2>3. \A x, z \in Place : \A i \in DOMAIN f[x], l \in DOMAIN f[z] :
          /\ y[x] = y[z] /\ e[x][i] = e[z][l] => x = z /\ i = l
          /\ Later(y[x], e[x][i], y[z], e[z][l]) /\ f[x][i].dest = f[z][l].dest
                  => Later(x, i, z, l)
    BY <1>7
  <2>4. Follows(b, f, y, e)
    BY <2>1, <2>2, <2>3 DEF Follows
  <2>. QED BY <2>4, MessagesFlow
<1>9. m = b[c][1] /\ 1 \in DOMAIN b[c] /\ m \in Message
  BY <1>1, HeadTailProperties
<1>10. What(m) \in Said(b, m.kind, Wakee(m))
  BY <1>1, <1>9, SaidIs
<1>11. Said(f, m.kind, Wakee(m)) = {}
  <2>1. ASSUME NEW x \in Place, NEW i \in DOMAIN f[x],
               f[x][i].kind = m.kind, Wakee(f[x][i]) = Wakee(m)
        PROVE  FALSE
    <3>1. x = c /\ i + h(x) = 1
      BY <1>1, <1>2, <1>9, <2>1 DEF Ordered
    <3>2. i \in Nat /\ i >= 1 /\ h(x) = 1
      BY <1>1, <3>1 DEF h
    <3>. QED BY <3>1, <3>2
  <2>. QED BY <2>1, SaidNothing
<1>. QED BY <1>1, <1>8, <1>9, <1>10, <1>11

\* A message is added to the shared queue.
Posting(b, m) == [b EXCEPT ![None] = Append(@, m)]
Adds(b, f, m) ==
    /\ Ordered(f) /\ \A k, t : Said(f, k, t) \subseteq Said(b, k, t) \cup {What(m)}
    /\ \A k, t : k # m.kind \/ t # Wakee(m) => Said(f, k, t) \subseteq Said(b, k, t)
    /\ \A x \in Place : \A i \in DOMAIN f[x] :
          f[x][i] = m \/ \E y \in Place : \E j \in DOMAIN b[y] : f[x][i] = b[y][j]

LEMMA MessageAdded ==
    ASSUME NEW b \in Queuing, Ordered(b), NEW m \in Message,
           Said(b, m.kind, Wakee(m)) = {},
           m.kind = Answer => Said(b, "Unblock", Wakee(m)) = {},
           NEW f, f = Posting(b, m)
    PROVE  f \in Queuing /\ Adds(b, f, m)
<1>. DEFINE n == Len(b[None])
<1>1. f \in Queuing /\ None \in Place /\ None \notin CPU
  BY SchedAssumption DEF Queuing, Place, SchedAssumption, Posting
<1>2. ASSUME NEW x \in Place, NEW i \in DOMAIN f[x]
      PROVE  \/ x = None /\ i = n + 1 /\ f[x][i] = m
             \/ i \in DOMAIN b[x] /\ f[x][i] = b[x][i] /\ (x = None => i < n + 1)
  <2>. DEFINE s == b[None]
              g == Append(s, m)
  <2>1. s \in Seq(Message) /\ n \in Nat /\ DOMAIN s = 1 .. n
    BY <1>1 DEF Queuing
  <2>2. DOMAIN g = 1 .. (n + 1) /\ g[n + 1] = m /\ \A j \in 1 .. n : g[j] = s[j]
    BY <2>1
  <2>3. CASE x = None
    <3>1. f[x] = g /\ b[x] = s
      BY <1>1, <2>3 DEF Queuing, Posting
    <3>. HIDE DEF g, s, n
    <3>2. i \in 1 .. (n + 1)
      BY <1>2, <2>2, <3>1
    <3>3. i = n + 1 \/ (i \in 1 .. n /\ i < n + 1)
      BY <2>1, <3>2
    <3>. QED BY <2>1, <2>2, <2>3, <3>1, <3>3
  <2>4. CASE x # None
    BY <1>1, <1>2, <2>4 DEF Queuing, Posting
  <2>. QED BY <2>3, <2>4
<1>3. n \in Nat
  BY <1>1 DEF Queuing
<1>. HIDE DEF n
<1>4. ASSUME NEW x \in Place, NEW i \in DOMAIN b[x], Wakee(b[x][i]) = Wakee(m)
      PROVE  /\ b[x][i].kind # m.kind
             /\ ~(m.kind = Answer /\ b[x][i].kind = "Unblock")
  <2>1. What(b[x][i]) \in Said(b, b[x][i].kind, Wakee(m))
    BY <1>4, SaidIs
  <2>. QED BY <2>1
<1>5. Ordered(f)
  <2>. SUFFICES ASSUME NEW x \in Place, NEW z \in Place, NEW i \in DOMAIN f[x], NEW l \in DOMAIN f[z]
                PROVE  /\ x # None => f[x][i].dest = x
                       /\ f[x][i].kind = f[z][l].kind /\ Wakee(f[x][i]) = Wakee(f[z][l])
                            => x = z /\ i = l
                       /\ f[x][i].kind = "Unblock" /\ f[z][l].kind = Answer
                              /\ Wakee(f[x][i]) = Wakee(f[z][l]) => Later(x, i, z, l)
    BY DEF Ordered
  <2>1. CASE i \in DOMAIN b[x] /\ f[x][i] = b[x][i] /\ l \in DOMAIN b[z] /\ f[z][l] = b[z][l]
    BY <2>1 DEF Ordered
  <2>2. CASE x = None /\ i = n + 1 /\ f[x][i] = m /\ z = None /\ l = n + 1 /\ f[z][l] = m
    BY <2>2 DEF Answer
  <2>3. CASE /\ x = None /\ i = n + 1 /\ f[x][i] = m
             /\ l \in DOMAIN b[z] /\ f[z][l] = b[z][l] /\ (z = None => l < n + 1)
    <3>1. Later(x, i, z, l)
      <4>1. z = None => l \in Nat
        BY <1>1, <2>3 DEF Queuing
      <4>. QED BY <1>3, <2>3, <4>1 DEF Later
    <3>. QED BY <1>4, <2>3, <3>1
  <2>4. CASE /\ z = None /\ l = n + 1 /\ f[z][l] = m
             /\ i \in DOMAIN b[x] /\ f[x][i] = b[x][i]
    <3>1. x # None => b[x][i].dest = x
      BY <2>4 DEF Ordered
    <3>. QED BY <1>4, <2>4, <3>1
  <2>. QED BY <1>2, <2>1, <2>2, <2>3, <2>4
<1>6. ASSUME NEW k, NEW t, NEW v \in Said(f, k, t)
      PROVE  v \in Said(b, k, t) \/ (v = What(m) /\ k = m.kind /\ t = Wakee(m))
  <2>1. PICK x \in Place : \E i \in DOMAIN f[x] :
                f[x][i].kind = k /\ Wakee(f[x][i]) = t /\ What(f[x][i]) = v
    BY <1>6, SaidIs
  <2>2. PICK i \in DOMAIN f[x] : f[x][i].kind = k /\ Wakee(f[x][i]) = t /\ What(f[x][i]) = v
    BY <2>1
  <2>3. CASE f[x][i] = m
    BY <2>2, <2>3
  <2>4. CASE i \in DOMAIN b[x] /\ f[x][i] = b[x][i]
    <3>1. b[x][i].kind = k /\ Wakee(b[x][i]) = t /\ What(b[x][i]) = v
      BY <2>2, <2>4
    <3>. QED BY <2>4, <3>1, SaidIs
  <2>. QED BY <1>2, <2>3, <2>4
<1>7. \A x \in Place : \A i \in DOMAIN f[x] :
          f[x][i] = m \/ \E y \in Place : \E j \in DOMAIN b[y] : f[x][i] = b[y][j]
  BY <1>2
<1>. QED BY <1>1, <1>5, <1>6, <1>7 DEF Adds

\* What Kept keeps stays in its order.
Upwards(e, D) == \A k, l \in D : k > l => e[k] > e[l]

LEMMA NthInOrder ==
    ASSUME NEW S \in SUBSET Nat, IsFiniteSet(S)
    PROVE  \A k, l \in 1 .. Cardinality(S) : k > l => Nth(S, k) > Nth(S, l)
<1>. DEFINE B(f) == {g \in S : g < f}
            r == [f \in S |-> Cardinality(B(f))]
            n == Cardinality(S)
<1>0. r = [f \in S |-> Cardinality({g \in S : g < f})]
  OBVIOUS
<1>1. \A f \in S : r[f] = Cardinality(B(f))
  OBVIOUS
<1>2. ASSUME NEW k PROVE Nth(S, k) = CHOOSE f \in S : r[f] = k - 1
  <2>. HIDE DEF r
  <2>. QED BY <1>1 DEF Nth
<1>. HIDE DEF r
<1>3. n \in Nat /\ \A i \in 0 .. (n - 1) : \E f \in S : r[f] = i
  BY <1>0, RanksAreAll
<1>. HIDE DEF n
<1>4. ASSUME NEW k \in 1 .. n PROVE Nth(S, k) \in S /\ r[Nth(S, k)] = k - 1
  <2>1. k - 1 \in 0 .. (n - 1)
    BY <1>3
  <2>2. \E f \in S : r[f] = k - 1
    BY <1>3, <2>1
  <2>. QED BY <1>2, <2>2
<1>5. ASSUME NEW f \in S, NEW g \in S, f <= g
      PROVE  r[f] \in Nat /\ r[g] \in Nat /\ r[f] <= r[g]
  <2>1. B(f) \subseteq B(g)
    <3>1. f \in Int /\ g \in Int /\ \A h \in S : h \in Int
      OBVIOUS
    <3>2. \A h \in S : h < f => h < g
      BY <1>5, <3>1
    <3>. QED BY <3>2, Zenon
  <2>2. IsFiniteSet(B(g)) /\ IsFiniteSet(B(f))
    BY FS_Subset
  <2>. HIDE DEF B
  <2>3. Cardinality(B(f)) <= Cardinality(B(g))
    BY <2>1, <2>2, FS_Subset
  <2>4. Cardinality(B(f)) \in Nat /\ Cardinality(B(g)) \in Nat
    BY <2>2, FS_CardinalityType
  <2>. QED BY <1>1, <2>3, <2>4
<1>6. ASSUME NEW k \in 1 .. n, NEW l \in 1 .. n, k > l PROVE Nth(S, k) > Nth(S, l)
  <2>. DEFINE f == Nth(S, k)
              g == Nth(S, l)
  <2>1. f \in S /\ g \in S /\ r[f] = k - 1 /\ r[g] = l - 1
    BY <1>4
  <2>. HIDE DEF f, g
  <2>2. f \in Int /\ g \in Int /\ k \in Int /\ l \in Int
    BY <1>3, <2>1
  <2>3. ~(f <= g)
    BY <1>5, <1>6, <2>1, <2>2
  <2>4. f > g
    BY <2>2, <2>3
  <2>. QED BY <2>4 DEF f, g
<1>. QED BY <1>6 DEF n

LEMMA KeptInOrder ==
    ASSUME NEW D, NEW s \in Seq(D), NEW I \in SUBSET DOMAIN s
    PROVE  /\ Kept(s, I) \in Seq(D)
           /\ \E e : Keeps(Kept(s, I), s, I, e) /\ Upwards(e, DOMAIN Kept(s, I))
<1>1. DOMAIN s = 1 .. Len(s) /\ Len(s) \in Nat
  OBVIOUS
<1>2. I \in SUBSET Nat /\ IsFiniteSet(I)
  <2>1. IsFiniteSet(1 .. Len(s))
    BY <1>1, FS_Interval
  <2>. QED BY <1>1, <2>1, FS_Subset
<1>. DEFINE n == Cardinality(I)
            e == [k \in 1 .. n |-> Nth(I, k)]
            w == Kept(s, I)
<1>3. /\ e \in [1 .. n -> I]
      /\ \A k, l \in 1 .. n : e[k] = e[l] => k = l
      /\ \A i \in I : \E k \in 1 .. n : e[k] = i
  BY <1>2, NthCounts
<1>4. w = [k \in 1 .. n |-> s[e[k]]]
  BY DEF Kept
<1>5. \A k, l \in 1 .. n : k > l => e[k] > e[l]
  BY <1>2, NthInOrder
<1>. HIDE DEF n, e, w
<1>6. DOMAIN w = 1 .. n
  BY <1>4
<1>7. Keeps(w, s, I, e) /\ Upwards(e, DOMAIN w)
  BY <1>3, <1>4, <1>5, <1>6 DEF Keeps, Upwards
<1>8. w \in Seq(D)
  BY KeptKeeps DEF w
<1>. QED BY <1>7, <1>8 DEF w

\* A worker takes the messages of its CPU from the shared queue.
LEMMA MessagesFetched ==
    ASSUME NEW b \in Queuing, Ordered(b), Straight(b), NEW c \in CPU,
           NEW f \in Queuing,
           NEW A \in SUBSET DOMAIN b[None], NEW N \in SUBSET DOMAIN b[None],
           \A i \in A : b[None][i].dest = c, \A i \in N : b[None][i].dest # c,
           f[c] = Kept(b[None], A), f[None] = Kept(b[None], N),
           \A x \in Place \ {c, None} : f[x] = b[x]
    PROVE  Flown(b, f)
<1>1. None \in Place /\ c \in Place /\ c # None /\ b[None] \in Seq(Message)
  BY SchedAssumption DEF Place, Queuing, SchedAssumption
<1>2. A \in SUBSET DOMAIN b[None] /\ N \in SUBSET DOMAIN b[None]
      /\ (\A i \in A : b[None][i].dest = c) /\ \A i \in N : b[None][i].dest # c
  OBVIOUS
<1>3. PICK eA : Keeps(f[c], b[None], A, eA) /\ Upwards(eA, DOMAIN f[c])
  BY <1>1, <1>2, KeptInOrder
<1>4. PICK eN : Keeps(f[None], b[None], N, eN) /\ Upwards(eN, DOMAIN f[None])
  BY <1>1, <1>2, KeptInOrder
<1>. DEFINE y == [x \in Place |-> IF x = c THEN None ELSE x]
            e == [x \in Place |-> IF x = c THEN eA ELSE IF x = None THEN eN
                                  ELSE [i \in DOMAIN b[x] |-> i]]
<1>5. /\ y[c] = None /\ e[c] = eA /\ y[None] = None /\ e[None] = eN
      /\ \A x \in Place : x # c /\ x # None => y[x] = x /\ \A i \in DOMAIN f[x] : e[x][i] = i
  BY <1>1
<1>. HIDE DEF y, e
<1>6. ASSUME NEW i \in DOMAIN f[c]
      PROVE  eA[i] \in DOMAIN b[None] /\ f[c][i] = b[None][eA[i]] /\ f[c][i].dest = c
  BY <1>2, <1>3 DEF Keeps
<1>7. ASSUME NEW i \in DOMAIN f[None]
      PROVE  eN[i] \in DOMAIN b[None] /\ f[None][i] = b[None][eN[i]] /\ f[None][i].dest # c
  BY <1>2, <1>4 DEF Keeps
<1>8. ASSUME NEW x \in Place, NEW i \in DOMAIN f[x], x # c, x # None
      PROVE  i \in DOMAIN b[x] /\ f[x][i] = b[x][i] /\ f[x][i].dest = x
  BY <1>8 DEF Ordered
<1>9. \A x \in Place : y[x] \in Place
  BY <1>1, <1>5
<1>10. ASSUME NEW x \in Place, NEW i \in DOMAIN f[x]
       PROVE  /\ e[x][i] \in DOMAIN b[y[x]] /\ f[x][i] = b[y[x]][e[x][i]]
              /\ x # None => f[x][i].dest = x
  BY <1>5, <1>6, <1>7, <1>8
<1>11. ASSUME NEW x \in Place, NEW z \in Place, NEW i \in DOMAIN f[x], NEW l \in DOMAIN f[z]
       PROVE  /\ y[x] = y[z] /\ e[x][i] = e[z][l] => x = z /\ i = l
              /\ Later(y[x], e[x][i], y[z], e[z][l]) /\ f[x][i].dest = f[z][l].dest
                        => Later(x, i, z, l)
  <2>0. f[x] \in Seq(Message) /\ f[z] \in Seq(Message)
    BY DEF Queuing
  <2>1. /\ i \in Int /\ l \in Int
        /\ x = z /\ x \in {c, None} => e[x][i] \in Int /\ e[x][l] \in Int
    <3>1. DOMAIN b[None] \subseteq Nat
      BY <1>1
    <3>2. i \in Int /\ l \in Int
      BY <2>0
    <3>. QED BY <1>5, <1>6, <1>7, <3>1, <3>2
  <2>2. CASE x = z /\ x \in {c, None}
    <3>1. /\ \A k, j \in DOMAIN f[x] : e[x][k] = e[x][j] => k = j
          /\ \A k, j \in DOMAIN f[x] : k > j => e[x][k] > e[x][j]
      BY <1>3, <1>4, <1>5, <2>2 DEF Keeps, Upwards
    <3>2. e[x][i] = e[x][l] => i = l
      BY <2>2, <3>1
    <3>3. e[x][i] > e[x][l] => i > l
      <4>1. l > i => e[x][l] > e[x][i]
        BY <2>2, <3>1
      <4>. QED BY <2>1, <2>2, <4>1
    <3>. QED BY <1>1, <1>5, <2>2, <3>2, <3>3 DEF Later
  <2>3. CASE x = c /\ z = None
    <3>1. eA[i] \in A /\ eN[l] \in N
      BY <1>3, <1>4, <2>3 DEF Keeps
    <3>2. e[x][i] # e[z][l]
      BY <1>2, <1>5, <2>3, <3>1
    <3>. QED BY <1>6, <1>7, <2>3, <3>2
  <2>4. CASE x = None /\ z = c
    <3>1. eN[i] \in N /\ eA[l] \in A
      BY <1>3, <1>4, <2>4 DEF Keeps
    <3>2. e[x][i] # e[z][l]
      BY <1>2, <1>5, <2>4, <3>1
    <3>. QED BY <1>1, <2>4, <3>2 DEF Later
  <2>5. CASE x \in {c, None} /\ z \notin {c, None}
    BY <1>1, <1>5, <1>6, <1>8, <2>5 DEF Later
  <2>6. CASE x \notin {c, None}
    BY <1>1, <1>5, <2>6 DEF Later
  <2>. QED BY <2>2, <2>3, <2>4, <2>5, <2>6
<1>12. Follows(b, f, y, e)
  BY <1>9, <1>10, <1>11 DEF Follows
<1>. QED BY <1>12, MessagesFlow

-----------------------------------------------------------------------------
(* Tasks that stay on their CPU                                            *)

NoMigration == "migrate" \notin Calls

-----------------------------------------------------------------------------
(* The invariant                                                           *)

\* A list holds each task once.
Rows == /\ IsInjective(waiters) /\ IsInjective(ioq)
        /\ \A t \in Tid : IsInjective(task[t].joiners)
        /\ \A c \in CPU : IsInjective(wk[c].todo)

\* The fields of a thread that is in a call.
Awaits(r) == \/ Goal(r) \in {"join_pool", "join_ask", "join_ans", "join_poll", "joined"}
             \/ r.pc = "slp_int" /\ r.back = "join_poll"
Track(t) ==
    LET r == th[t] IN
    /\ r.pc \in Blk => r.back \in Rets
    /\ r.pc \in WakePcs \cup MakePcs => r.back = "ret"
    /\ r.pc = "slp_int" => r.back \in {"ret", "join_poll"}
    /\ r.pc = "join_pool" => r.back = "joined" /\ r.arg = tid_cpu[t]
    /\ r.pc = "join_ask" => r.arg \in CPU /\ ~(r.arg = tid_cpu[t] /\ r.obj \in pool[r.arg])
    /\ Awaits(r) => r.obj \in known
    /\ Goal(r) = "spawn_ret" => r.obj <= next_tid
    /\ r.back = "wait_ret" <=> Goal(r) = "wait_ret"

\* What a thread has in its hands.
Makes == {"cr_pool", "cr_map", "cr_add", "cr_ready", "cr_lb"}
Hand(v) ==
    LET r == th[v] IN
    /\ r.pc = "ub_cpu" => r.arg = tid_cpu[r.obj]
    /\ r.pc \in Makes => r.arg = tid_cpu[v]
    /\ r.pc = "cr_map" => r.obj \in pool[r.arg]
    /\ r.pc \in {"cr_add", "cr_ready", "cr_lb", "answer"} => r.obj \in New /\ r.obj \in known

\* The unblocks that a task is owed.
Due(t) == Owed(th[t], task[t].blocked)

\* One thread at a time brings a task to the run queue of its CPU: one that
\* was blocked, or one that is new.
Brings(v, t) == th[v].pc \in {"ub_ready", "ub_add", "cr_add"} /\ th[v].obj = t
Coming(t) == \E v \in Tid : th[v].pc = "cr_add" /\ th[v].obj = t
Brought(t) ==
    /\ \A v \in Tid : Brings(v, t) => t \notin Workers /\ tid_cpu[v] = tid_cpu[t]
    /\ \A v, w \in Tid : Brings(v, t) /\ Brings(w, t) => v = w
    /\ Readying(t) => th[t].pc \in (Blk \ {"blk_add"}) \cup Rets /\ Due(t) # 1
    /\ Coming(t) => th[t].pc = "run"

\* A task that is not to run is in no run queue, and not current.
Off(t) ==
    \/ th[t].pc = "dead"
    \/ Coming(t)
    \/ th[t].pc \in {"blk_int"} \cup Rets /\ (Due(t) = 1 \/ Readying(t))
Parked(t) ==
    Off(t) =>
        \A c \in CPU : /\ t \notin Range(rq[c])
                       /\ th[t].pc # "blk_int" => curr[c] # t

\* Nobody wakes a sleeper but time.
Nap(t) ==
    task[t].state = "Sleeping" =>
        /\ t \notin Workers /\ th[t].pc \in {"slp_int", "ret", "join_poll"}
        /\ task[t].blocked = 0
        /\ th[t].pc # "slp_int" => \A c \in CPU : curr[c] # t

Fate(t) ==
    /\ task[t].state # "Migrating" /\ task[t].ret < next_tid
    /\ task[t].state = "Terminating" => th[t].pc = "dead"
    /\ t \in known => th[t].pc = "dead" \/ \E c \in CPU : t \in pool[c]
    /\ t \notin known => th[t].pc = "run" /\ t \in New

\* The worker and the run queue of a CPU: what it makes for somebody has a tid
\* that was handed out since that one asked.
Made(r) == r.pc \in Makes \cup {"answer"}
MovePcs == {"move_out", "mv_lb", "mv_send", "mv_map"}
Desk(c) ==
    /\ Serves(th[Worker[c]]) => Head(wk[c].inbox).kind = "CreateTask"
    /\ Made(th[Worker[c]]) => th[Head(wk[c].inbox).tid].obj <= th[Worker[c]].obj
    /\ th[Worker[c]].pc \notin MovePcs
    /\ Holds(th[Worker[c]]) \/ Buries(th[Worker[c]]) => th[wk[c].victim].pc = "dead"
Row(c) == \A t \in Range(rq[c]) : t \in known /\ tid_cpu[t] = c

Body == /\ \A t \in Tid \ Workers : Track(t) /\ Parked(t)
        /\ \A t \in Tid : Hand(t) /\ Brought(t) /\ Nap(t) /\ Fate(t)
        /\ \A c \in CPU : Desk(c) /\ Row(c)

WInv == Accounts /\ Mails /\ Rows /\ Body

-----------------------------------------------------------------------------
(* What the invariant says of a state                                      *)

LEMMA BoxesAre ==
    ASSUME IInv
    PROVE  /\ boxes \in Queuing /\ None \in Place
           /\ \A x \in Place : boxes[x] = Box(x)
           /\ boxes[None] = mq /\ \A c \in CPU : c \in Place /\ boxes[c] = wk[c].inbox
<1>1. None \notin CPU
  BY SchedAssumption DEF SchedAssumption
<1>2. \A x \in Place : Box(x) \in Seq(Message)
  BY <1>1 DEF IInv, Moves, Box, Place, WorkType
<1>. QED BY <1>1, <1>2 DEF boxes, Queuing, Box, Place

LEMMA WakersAre ==
    ASSUME NEW t, NEW p
    PROVE  p \in Wakers(t) <=>
             \/ p = InQueue /\ t \in Range(waiters)
             \/ p = InIo /\ t \in Range(ioq)
             \/ \E u \in Tid : p = InList(u) /\ t \in Range(task[u].joiners)
             \/ \E c \in CPU : p = InTodo(c) /\ t \in Range(wk[c].todo)
             \/ \E v \in Tid : p = InHand(v) /\ Unblocks(th[v], t)
             \/ \E k \in Kinds : p = InMail(k) /\ Said(boxes, k, t) # {}
  BY DEF Wakers

\* Each unblock to come is in one of these places.
LEMMA Spotted ==
    ASSUME NEW t
    PROVE  /\ InQueue \in Wakers(t) <=> t \in Range(waiters)
           /\ InIo \in Wakers(t) <=> t \in Range(ioq)
           /\ \A u : InList(u) \in Wakers(t) <=> u \in Tid /\ t \in Range(task[u].joiners)
           /\ \A c : InTodo(c) \in Wakers(t) <=> c \in CPU /\ t \in Range(wk[c].todo)
           /\ \A v : InHand(v) \in Wakers(t) <=> v \in Tid /\ Unblocks(th[v], t)
           /\ \A k : InMail(k) \in Wakers(t) <=> k \in Kinds /\ Said(boxes, k, t) # {}
  BY WakersAre, SpotsDiffer

\* The map has the word for every known task of a pool.
LEMMA AtHome ==
    ASSUME IInv, WInv, NEW c \in CPU, NEW t \in pool[c], t \in known
    PROVE  tid_cpu[t] = c
<1>1. ASSUME NEW u \in Tid PROVE th[u].pc # "mv_map"
  <2>1. Sound(u, th[u]) /\ \A d \in CPU : Desk(d)
    BY DEF IInv, Threads, WInv, Body
  <2>. QED BY <2>1 DEF Sound, WorkPcs, Workers, Desk, MovePcs
<1>. QED BY <1>1 DEF IInv, Pools, Tells

\* A task that is being created stays in the pool it was put into.
LEMMA NewbornStays ==
    ASSUME IInv, NEW v \in Tid, th[v].pc = "cr_map", th[v].obj \in pool[th[v].arg],
           \A d \in CPU : \A t \in pool[d] \ pool'[d] : t \in known \/ th[t].pc = "dead"
    PROVE  th[v].obj \in pool'[th[v].arg]
<1>1. Sound(v, th[v]) /\ Fresh(v)
  BY DEF IInv, Threads, Fresh
<1>2. th[v].obj \in Tid \ known /\ th[v].arg \in CPU
  BY <1>1 DEF Sound, MakePcs, IInv, Numbers
<1>3. th[th[v].obj].pc = "run"
  BY <1>2 DEF IInv, Numbers
<1>. QED BY <1>2, <1>3

\* Who is to be unblocked is a client in a call that blocks, at home and not
\* asleep.
LEMMA HasWaker ==
    ASSUME IInv, WInv, NEW t \in Tid, NEW p \in Wakers(t)
    PROVE  /\ t \notin Workers /\ Account(t) /\ Goal(th[t]) \in Rets
           /\ th[t].pc # "dead" /\ t \in known
           /\ tid_cpu[t] \in CPU /\ t \in pool[tid_cpu[t]]
           /\ task[t].state # "Sleeping"
<1>1. t \notin Workers /\ Account(t)
  BY DEF WInv, Accounts
<1>2. Goal(th[t]) \in Rets
  BY <1>1 DEF Account, Ledger
<1>3. th[t].pc \in Blk \cup Rets
  BY <1>2 DEF Goal
<1>4. Fate(t) /\ Nap(t) /\ Track(t)
  BY <1>1 DEF WInv, Body
<1>5. th[t].pc # "dead" /\ th[t].pc # "run"
  BY <1>3 DEF Blk, Rets
<1>7. t \in known
  BY <1>4, <1>5 DEF Fate
<1>8. PICK c \in CPU : t \in pool[c]
  BY <1>4, <1>5, <1>7 DEF Fate
<1>9. tid_cpu[t] = c
  BY <1>7, <1>8, AtHome
<1>10. task[t].state # "Sleeping"
  <2>1. SUFFICES ASSUME task[t].state = "Sleeping" PROVE FALSE
    OBVIOUS
  <2>2. th[t].pc = "ret" /\ task[t].blocked = 0
    BY <1>3, <1>4, <2>1 DEF Nap, Blk, Rets
  <2>3. Goal(th[t]) = "ret" /\ Owed(th[t], task[t].blocked) = 0
    BY <2>2 DEF Goal, Owed, Blk
  <2>. QED BY <1>1, <2>3 DEF Account, Ledger, Once, Rets
<1>. QED BY <1>1, <1>2, <1>5, <1>7, <1>8, <1>9, <1>10

\* The running task is owed nothing that is to bring it back to where it is.
LEMMA Resting ==
    ASSUME IInv, WInv, NEW c \in CPU, NEW t, t = T(c), t \notin Workers
    PROVE  /\ th[t].pc # "dead" /\ ~Coming(t) /\ t \in known /\ tid_cpu[t] = c
           /\ th[t].pc \notin Blk => Due(t) = task[t].blocked /\ Due(t) # 1 /\ ~Readying(t)
           /\ th[t].pc \notin Blk \cup {"spawn_ret", "join_ans"} =>
                task[t].blocked = 0 /\ task[t].ret = 0 /\ Wakers(t) = {}
<1>1. /\ t \in Tid /\ t \in pool[c] /\ tid_cpu[t] = c /\ t \in known
      /\ task[t].blocked \in Int /\ curr[c] = t
  <2>1. t \in pool[c] /\ t \in known
    BY DEF IInv, Current, T
  <2>2. tid_cpu[t] = c
    BY <2>1, AtHome
  <2>. QED BY <2>1, <2>2, Here DEF IInv, Tasks, TaskType, T
<1>2. Account(t) /\ Parked(t) /\ Brought(t)
  BY <1>1 DEF WInv, Accounts, Body
<1>3. th[t].pc # "blk_int" => ~Off(t)
  <2>1. Off(t) => \A e \in CPU : th[t].pc # "blk_int" => curr[e] # t
    BY <1>2 DEF Parked
  <2>. QED BY <1>1, <2>1, Zenon
<1>4. th[t].pc # "dead"
  BY <1>3 DEF Off
<1>5. ~Coming(t)
  <2>1. Coming(t) => th[t].pc # "blk_int"
    BY <1>2 DEF Brought
  <2>. QED BY <1>3, <2>1 DEF Off
<1>6. ASSUME th[t].pc \notin Blk
      PROVE  Due(t) = task[t].blocked /\ Due(t) # 1 /\ ~Readying(t) /\ Goal(th[t]) = th[t].pc
  <2>1. Due(t) = task[t].blocked /\ Goal(th[t]) = th[t].pc
    BY <1>1, <1>6 DEF Due, Owed, Goal, Blk
  <2>2. CASE th[t].pc \in Rets
    BY <1>3, <1>6, <2>1, <2>2 DEF Off, Blk
  <2>3. CASE th[t].pc \notin Rets
    <3>1. task[t].blocked = 0
      BY <1>2, <2>1, <2>3 DEF Account, Ledger, Due
    <3>2. ~Readying(t)
      BY <1>2, <1>6, <2>3 DEF Brought
    <3>. QED BY <2>1, <3>1, <3>2
  <2>. QED BY <2>2, <2>3
<1>7. ASSUME th[t].pc \notin Blk \cup {"spawn_ret", "join_ans"}
      PROVE  task[t].blocked = 0 /\ task[t].ret = 0 /\ Wakers(t) = {}
  <2>1. Due(t) = task[t].blocked /\ Due(t) # 1 /\ Goal(th[t]) = th[t].pc
    BY <1>6, <1>7
  <2>. QED BY <1>2, <1>7, <2>1, LedgerRests DEF Account, Due
<1>. QED BY <1>1, <1>4, <1>5, <1>6, <1>7

-----------------------------------------------------------------------------
(* What a step of the running thread leaves alone                          *)

\* The thread me goes on to r; pools may only lose the dead and gain tasks that
\* are not known yet.
Treads(me, r) ==
    /\ th' = [th EXCEPT ![me] = r] /\ UNCHANGED <<tid_cpu, known>>
    /\ next_tid' \in Nat /\ next_tid' >= next_tid
    /\ \A d \in CPU : /\ \A t \in known : t \in pool'[d] => t \in pool[d]
                      /\ \A t \in pool[d] \ pool'[d] : th[t].pc = "dead"

LEMMA NumbersSettled ==
    ASSUME IInv
    PROVE  /\ known \in SUBSET Tid /\ next_tid \in Nat
           /\ next_tid' = next_tid => next_tid' \in Nat /\ next_tid' >= next_tid
BY DEF IInv, Numbers

\* The other tasks are blocked and asleep as they were; the run queues may
\* lose tasks, and a CPU that switches takes one that is not asleep.
Spares(me) ==
    \A t \in Tid \ {me} :
        /\ task'[t].blocked = task[t].blocked
        /\ task'[t].state \in {"Terminating", "Migrating", "Sleeping"}
              => task'[t].state = task[t].state
        /\ task'[t].ret = task[t].ret \/ task'[t].ret \in 0 .. (next_tid - 1)
Thins ==
    \A d \in CPU :
        /\ \A t \in Range(rq'[d]) : t \in Range(rq[d])
        /\ \/ curr'[d] = curr[d]
           \/ curr'[d] \in Range(rq[d]) /\ task'[curr'[d]].state # "Sleeping"

\* What has to be shown of me itself.
Owner(me, r) ==
    /\ th[me].pc # "dead" /\ Hand(me)' /\ Nap(me)'
    /\ r.pc \in {"ub_ready", "ub_add"} =>
            th[me].pc \in {"ub_ready", "ub_add"} /\ r.obj = th[me].obj
    /\ r.pc = "cr_add" => th[me].pc = "cr_add" /\ r.obj = th[me].obj
    /\ task'[me].state # "Migrating" /\ (task'[me].state = "Terminating" => r.pc = "dead")
    /\ task'[me].ret \in {0, task[me].ret}
    /\ me \notin Workers =>
          /\ Track(me)' /\ Parked(me)'
          /\ Readying(me) => /\ r.pc \in (Blk \ {"blk_add"}) \cup Rets
                             /\ Owed(r, task'[me].blocked) # 1

LEMMA BodyKept ==
    ASSUME IInv, WInv, NEW c \in CPU, NEW me, me = T(c), NEW r,
           Treads(me, r), Spares(me), Thins, Owner(me, r), \A d \in CPU : Desk(d)'
    PROVE  Body'
<1>1. /\ me \in Tid /\ me \in known /\ th \in [Tid -> ThreadType] /\ me \in pool[c]
      /\ th'[me] = r /\ \A t \in Tid \ {me} : th'[t] = th[t]
  <2>1. me \in Tid /\ me \in pool[c] /\ me \in known /\ th \in [Tid -> ThreadType]
    BY Here DEF IInv, Threads, Current, T
  <2>. QED BY <2>1 DEF Treads
<1>2. tid_cpu' = tid_cpu /\ known' = known /\ th[me].pc # "dead"
  BY DEF Treads, Owner
<1>3. \A v \in Tid : \A t : Brings(v, t)' => Brings(v, t)
  BY <1>1 DEF Brings, Owner
<1>4. \A t : (Readying(t)' => Readying(t)) /\ (Coming(t)' => Coming(t))
  BY <1>1 DEF Readying, Coming, Owner
<1>5. ~Coming(me)
  <2>1. CASE me \in Workers
    BY <1>1, <2>1 DEF WInv, Body, Brought, Coming, Brings
  <2>2. CASE me \notin Workers
    BY <2>2, Resting
  <2>. QED BY <2>1, <2>2
<1>6. \A t \in Tid \ {me} : Due(t)' = Due(t) /\ th'[t].pc = th[t].pc
  BY <1>1 DEF Due, Spares
<1>7. \A t \in Tid : th[t].pc = "dead" => th'[t].pc = "dead"
  BY <1>1, <1>2
<1>8. ASSUME NEW t \in Tid \ Workers PROVE Track(t)' /\ Parked(t)'
  <2>1. CASE t = me
    BY <1>8, <2>1 DEF Owner
  <2>2. CASE t # me
    <3>1. Track(t) /\ Parked(t)
      BY DEF WInv, Body
    <3>2. th'[t] = th[t]
      BY <1>1, <2>2
    <3>3. Track(t)'
      <4>. DEFINE s == th[t]
      <4>1. s.obj \in Nat /\ next_tid \in Nat /\ next_tid' \in Nat /\ next_tid' >= next_tid
        BY <1>1 DEF ThreadType, IInv, Numbers, Treads
      <4>2. s.obj <= next_tid => s.obj <= next_tid'
        <5>. HIDE DEF s
        <5>. QED BY <4>1
      <4>3. s.pc = "join_ask" => s.obj \in known
        BY <3>1 DEF Track, Awaits, Goal, Blk
      <4>4. ~(s.arg = tid_cpu[t] /\ s.obj \in pool[s.arg]) /\ s.arg \in CPU /\ s.obj \in known
              => ~(s.arg = tid_cpu[t] /\ s.obj \in pool'[s.arg])
        BY DEF Treads
      <4>5. th'[t] = s
        BY <3>2
      <4>. HIDE DEF s
      <4>. QED BY <1>2, <3>1, <4>2, <4>3, <4>4, <4>5 DEF Track, Awaits, s
    <3>4. Off(t)' => Off(t)
      BY <1>4, <1>6, <2>2 DEF Off
    <3>5. ASSUME Off(t), NEW d \in CPU
          PROVE  t \notin Range(rq'[d]) /\ (th'[t].pc # "blk_int" => curr'[d] # t)
      BY <3>1, <3>2, <3>5 DEF Parked, Thins
    <3>. QED BY <3>3, <3>4, <3>5 DEF Parked
  <2>. QED BY <2>1, <2>2
<1>9. ASSUME NEW t \in Tid PROVE Hand(t)' /\ Nap(t)' /\ Fate(t)' /\ Brought(t)'
  <2>0. Hand(t) /\ Nap(t) /\ Fate(t) /\ Brought(t)
    BY DEF WInv, Body
  <2>1. Hand(t)'
    <3>1. CASE t = me
      BY <3>1 DEF Owner
    <3>2. CASE t # me
      <4>1. th[t].pc = "cr_map" => th[t].obj \in pool'[th[t].arg]
        BY <2>0, NewbornStays DEF Hand, Treads
      <4>. QED BY <1>1, <1>2, <2>0, <3>2, <4>1 DEF Hand
    <3>. QED BY <3>1, <3>2
  <2>2. Nap(t)'
    <3>1. CASE t = me
      BY <3>1 DEF Owner
    <3>2. CASE t # me
      <4>. SUFFICES ASSUME task'[t].state = "Sleeping" PROVE Nap(t)'
        BY DEF Nap
      <4>1. task[t].state = "Sleeping" /\ task'[t].blocked = task[t].blocked /\ th'[t] = th[t]
        BY <1>1, <3>2 DEF Spares
      <4>2. \A d \in CPU : curr'[d] = t => curr[d] = t
        BY DEF Thins
      <4>. QED BY <2>0, <4>1, <4>2 DEF Nap
    <3>. QED BY <3>1, <3>2
  <2>3. Fate(t)'
    <3>1. task'[t].state # "Migrating" /\ (task'[t].state = "Terminating" => th'[t].pc = "dead")
      <4>1. CASE t = me
        BY <1>1, <4>1 DEF Owner
      <4>2. CASE t # me
        BY <1>1, <2>0, <4>2 DEF Fate, Spares
      <4>. QED BY <4>1, <4>2
    <3>2. t \in known => th'[t].pc = "dead" \/ \E d \in CPU : t \in pool'[d]
      BY <1>7, <2>0 DEF Fate, Treads
    <3>3. t \notin known => th'[t].pc = "run" /\ t \in New
      BY <1>1, <2>0 DEF Fate
    <3>4. task'[t].ret < next_tid'
      <4>1. next_tid \in Nat \ {0} /\ next_tid' \in Nat /\ next_tid' >= next_tid /\ task[t].ret \in Nat
        BY DEF IInv, Numbers, Treads, Tasks, TaskType
      <4>2. task[t].ret < next_tid /\ task'[t].ret \in {0, task[t].ret} \cup 0 .. (next_tid - 1)
        BY <2>0 DEF Fate, Owner, Spares
      <4>. QED BY <4>1, <4>2
    <3>. QED BY <1>2, <3>1, <3>2, <3>3, <3>4 DEF Fate
  <2>4. Brought(t)'
    <3>1. Readying(t) => t \notin Workers
      BY <2>0 DEF Brought, Readying, Brings
    <3>2. Readying(t) => (th[t].pc \in (Blk \ {"blk_add"}) \cup Rets)' /\ (Due(t) # 1)'
      <4>1. CASE t = me
        BY <1>1, <3>1, <4>1 DEF Owner, Due
      <4>2. CASE t # me
        BY <1>6, <2>0, <4>2 DEF Brought
      <4>. QED BY <4>1, <4>2
    <3>3. Coming(t) => th'[t].pc = "run"
      BY <1>1, <1>5, <2>0 DEF Brought
    <3>4. \A v \in Tid : Brings(v, t) => t \notin Workers /\ tid_cpu[v] = tid_cpu[t]
      BY <2>0 DEF Brought
    <3>5. \A v, w \in Tid : Brings(v, t) /\ Brings(w, t) => v = w
      BY <2>0 DEF Brought
    <3>. QED BY <1>2, <1>3, <1>4, <3>2, <3>3, <3>4, <3>5 DEF Brought
  <2>. QED BY <2>1, <2>2, <2>3, <2>4
<1>10. ASSUME NEW d \in CPU PROVE Desk(d)' /\ Row(d)'
  <2>1. Row(d)
    BY DEF WInv, Body
  <2>. QED BY <1>2, <2>1 DEF Row, Thins
<1>. QED BY <1>8, <1>9, <1>10 DEF Body

\* Only the dead leave the map, and they stay dead.
Steady == \A u \in Tid : u \in known =>
            /\ th[u].pc = "dead" => th'[u].pc = "dead"
            /\ tid_cpu'[u] = tid_cpu[u] \/ (tid_cpu'[u] = None /\ th[u].pc = "dead")

\* A client that goes on to the same end, with no more unblocks to come.
LEMMA AccountKept ==
    ASSUME IInv, WInv, NEW t \in Tid \ Workers, Steady, tid_cpu'[t] = tid_cpu[t],
           Goal(th'[t]) = Goal(th[t]), th'[t].obj = th[t].obj,
           Due(t)' = Due(t), task'[t].ret = task[t].ret,
           Wakers(t)' \subseteq Wakers(t), \A k : Said(boxes, k, t)' \subseteq Said(boxes, k, t)
    PROVE  Account(t)'
<1>. DEFINE g == Goal(th[t])
            u == th[t].obj
<1>1. Account(t) /\ Track(t) /\ Fate(t)
  BY DEF WInv, Accounts, Body
<1>2. Ledger(g, Due(t), task[t].ret, u, Wakers(t), Said(boxes, Answer, t),
             Said(boxes, "AddJoiner", t), th[u].pc, tid_cpu[t], tid_cpu[u])
  BY <1>1 DEF Account, Due, Answer
<1>3. ASSUME g \in {"joined", "join_ans"}
      PROVE  u \in Tid /\ u \in known /\ tid_cpu[t] # None
  <2>1. u \in Tid /\ u \in known
    BY <1>1, <1>3 DEF Track, Awaits, IInv, Numbers
  <2>2. th[t].pc # "dead" /\ th[t].pc # "run"
    BY <1>3 DEF Goal, Blk
  <2>3. t \in known
    BY <1>1, <2>2, SchedAssumption DEF Fate, Tid, SchedAssumption, IInv, Pools
  <2>4. PICK e \in CPU : t \in pool[e]
    BY <1>1, <2>2, <2>3 DEF Fate
  <2>5. tid_cpu[t] # None
    BY <2>3, <2>4, AtHome, SchedAssumption DEF SchedAssumption
  <2>. QED BY <2>1, <2>5
<1>4. g \in {"joined", "join_ans"} /\ th[u].pc = "dead" => th'[u].pc = "dead"
  BY <1>3 DEF Steady
<1>5. g = "join_ans" => tid_cpu'[u] = tid_cpu[u] \/ tid_cpu'[u] # tid_cpu[t]
  BY <1>3 DEF Steady
<1>. HIDE DEF g, u
<1>6. Ledger(g, Due(t), task[t].ret, u, Wakers(t)', Said(boxes, Answer, t)',
             Said(boxes, "AddJoiner", t)', th'[u].pc, tid_cpu[t], tid_cpu'[u])
  <2>1. /\ Wakers(t)' \in SUBSET Wakers(t)
        /\ Said(boxes, Answer, t)' \in SUBSET Said(boxes, Answer, t)
        /\ Said(boxes, "AddJoiner", t)' \in SUBSET Said(boxes, "AddJoiner", t)
    OBVIOUS
  <2>. QED BY <1>2, <1>4, <1>5, <2>1, LedgerFewer
<1>. QED BY <1>6 DEF Account, Due, Answer, g, u

LEMMA TreadsSteady ==
    ASSUME IInv, NEW me, NEW r, Treads(me, r), th[me].pc # "dead"
    PROVE  Steady
  BY DEF Treads, Steady, IInv, Threads

LEMMA AccountsKept ==
    ASSUME IInv, WInv, NEW c \in CPU, NEW me, me = T(c), NEW r,
           Treads(me, r), Spares(me), th[me].pc # "dead",
           \A t \in Tid \ {me} : task'[t].ret = task[t].ret,
           \A t \in Tid : /\ Wakers(t)' \subseteq Wakers(t)
                          /\ \A k : Said(boxes, k, t)' \subseteq Said(boxes, k, t),
           me \notin Workers => Account(me)'
    PROVE  Accounts'
<1>1. ASSUME NEW t \in Workers, t \in Tid PROVE Wakers(t)' = {}
  BY <1>1 DEF WInv, Accounts
<1>2. ASSUME NEW t \in Tid \ Workers, t # me PROVE Account(t)'
  <2>1. th'[t] = th[t]
    BY <1>2 DEF Treads, IInv, Threads
  <2>2. Due(t)' = Due(t) /\ Goal(th'[t]) = Goal(th[t]) /\ th'[t].obj = th[t].obj
    BY <1>2, <2>1 DEF Due, Spares
  <2>3. Steady /\ tid_cpu'[t] = tid_cpu[t]
    BY TreadsSteady DEF Treads
  <2>. QED BY <1>2, <2>2, <2>3, AccountKept
<1>. QED BY <1>1, <1>2 DEF Accounts

LEMMA FitKept ==
    ASSUME IInv, NEW me, NEW r, Treads(me, r), NEW m \in Message, Fit(m)
    PROVE  Fit(m)'
<1>1. ASSUME m.dest \in CPU, m.tid \in known, m.tid \notin pool[m.dest] PROVE m.tid \notin pool'[m.dest]
  BY <1>1 DEF Treads
<1>2. tid_cpu' = tid_cpu /\ known' = known
  BY DEF Treads
<1>3. m.kind = "AddJoiner" =>
        m.dest \in CPU /\ ~(m.dest = tid_cpu[m.val] /\ m.tid \in pool'[m.dest])
  BY <1>1 DEF Fit
<1>4. m.val < next_tid => m.val < next_tid'
  <2>1. m.val \in Nat /\ next_tid \in Nat /\ next_tid' \in Nat /\ next_tid' >= next_tid
    BY DEF Message, Tid, IInv, Numbers, Treads
  <2>. QED BY <2>1
<1>. QED BY <1>2, <1>3, <1>4 DEF Fit

\* The lists and the messages are as they were.
Stays == /\ UNCHANGED <<waiters, ioq, mq>>
         /\ \A u \in Tid : task'[u].joiners = task[u].joiners
         /\ \A d \in CPU : wk'[d].todo = wk[d].todo /\ wk'[d].inbox = wk[d].inbox
Unhands(me, r) == r.pc \in {"ub_map", "ub_cpu"} =>
                    th[me].pc \in {"ub_map", "ub_cpu"} /\ r.obj = th[me].obj

LEMMA BoxesStay ==
    ASSUME IInv, UNCHANGED mq, \A d \in CPU : wk'[d].inbox = wk[d].inbox
    PROVE  boxes' = boxes
<1>1. \A x \in Place : Box(x)' = Box(x)
  BY SchedAssumption DEF Box, Place, SchedAssumption
<1>. QED BY <1>1 DEF boxes

LEMMA WakersMove ==
    ASSUME NEW t, NEW G,
           t \in Range(waiters') => t \in Range(waiters) \/ InQueue \in G,
           t \in Range(ioq') => t \in Range(ioq) \/ InIo \in G,
           \A u \in Tid : t \in Range(task'[u].joiners) => t \in Range(task[u].joiners) \/ InList(u) \in G,
           \A d \in CPU : t \in Range(wk'[d].todo) => t \in Range(wk[d].todo) \/ InTodo(d) \in G,
           \A v \in Tid : Unblocks(th'[v], t) => Unblocks(th[v], t) \/ InHand(v) \in G,
           \A k \in Kinds : Said(boxes, k, t)' # {} => Said(boxes, k, t) # {} \/ InMail(k) \in G
    PROVE  Wakers(t)' \subseteq Wakers(t) \cup G
<1>. SUFFICES ASSUME NEW p \in Wakers(t)', p \notin Wakers(t) PROVE p \in G
  OBVIOUS
<1>1. \/ p = InQueue /\ t \in Range(waiters')
      \/ p = InIo /\ t \in Range(ioq')
      \/ \E u \in Tid : p = InList(u) /\ t \in Range(task'[u].joiners)
      \/ \E c \in CPU : p = InTodo(c) /\ t \in Range(wk'[c].todo)
      \/ \E v \in Tid : p = InHand(v) /\ Unblocks(th'[v], t)
      \/ \E k \in Kinds : p = InMail(k) /\ Said(boxes, k, t)' # {}
  BY DEF Wakers, InQueue, InIo, InList, InTodo, InHand, InMail, Unblocks
<1>2. /\ InQueue = p => t \notin Range(waiters)
      /\ InIo = p => t \notin Range(ioq)
      /\ \A u \in Tid : InList(u) = p => t \notin Range(task[u].joiners)
      /\ \A c \in CPU : InTodo(c) = p => t \notin Range(wk[c].todo)
      /\ \A v \in Tid : InHand(v) = p => ~Unblocks(th[v], t)
      /\ \A k \in Kinds : InMail(k) = p => Said(boxes, k, t) = {}
  BY Spotted
<1>. QED BY <1>1, <1>2

\* What a private step of a thread leaves of the unblocks to come.
LEMMA StaysQuiet ==
    ASSUME IInv, NEW me \in Tid, NEW r, th' = [th EXCEPT ![me] = r], Stays, Unhands(me, r)
    PROVE  \A t : /\ Wakers(t)' \subseteq Wakers(t)
                  /\ \A k : Said(boxes, k, t)' = Said(boxes, k, t)
<1>1. boxes' = boxes
  BY BoxesStay DEF Stays
<1>2. \A k, t : Said(boxes, k, t)' = Said(boxes, k, t)
  BY <1>1 DEF Said, Mail, Wakee, What
<1>3. \A v \in Tid : \A t : Unblocks(th'[v], t) => Unblocks(th[v], t)
  BY DEF Unblocks, Unhands, IInv, Threads
<1>4. ASSUME NEW t PROVE Wakers(t)' \subseteq Wakers(t)
  <2>1. Wakers(t)' \subseteq Wakers(t) \cup {}
    BY <1>2, <1>3, WakersMove DEF Stays
  <2>. QED BY <2>1
<1>. QED BY <1>2, <1>4

\* Somebody makes a task for a client that waits for the answer.
LEMMA AskerWaits ==
    ASSUME IInv, WInv, NEW d \in CPU, Serves(th[Worker[d]]), NEW t, t = Head(wk[d].inbox).tid
    PROVE  /\ t \in Tid \ Workers /\ Goal(th[t]) = "spawn_ret" /\ Due(t) = 1
           /\ InMail("CreateTask") \in Wakers(t)
           /\ th[t].obj \in Nat /\ th[t].obj <= next_tid
           /\ \A c \in CPU : t = T(c) => th[t].pc \in Blk
<1>. DEFINE m == Head(wk[d].inbox)
<1>1. wk[d].inbox \in Seq(Message) /\ wk[d].inbox # <<>> /\ m.kind = "CreateTask"
  BY DEF IInv, Moves, WorkType, Served, WInv, Body, Desk
<1>2. m = wk[d].inbox[1] /\ 1 \in DOMAIN wk[d].inbox /\ m \in Message
  BY <1>1
<1>3. t \in Tid /\ Wakee(m) = t
  BY <1>1, <1>2 DEF Message, Wakee
<1>4. What(m) \in Said(boxes, "CreateTask", t)
  <2>1. d \in Place /\ boxes[d] = wk[d].inbox
    BY BoxesAre
  <2>. HIDE DEF m
  <2>. QED BY <1>1, <1>2, <1>3, <2>1, SaidIs
<1>5. InMail("CreateTask") \in Wakers(t)
  BY <1>4, Spotted DEF Kinds
<1>6. t \notin Workers /\ Account(t)
  BY <1>3, <1>5, HasWaker
<1>. DEFINE K == Wakers(t)
            ans == Said(boxes, "RespondAndUnblock", t)
            ask == Said(boxes, "AddJoiner", t)
            end == th[th[t].obj].pc
            home == tid_cpu[th[t].obj]
            at == tid_cpu[t]
<1>7. Ledger(Goal(th[t]), Due(t), task[t].ret, th[t].obj, K, ans, ask, end, at, home)
  BY <1>6 DEF Account, Due
<1>8. Goal(th[t]) = "spawn_ret" /\ Due(t) = 1
  <2>. HIDE DEF K, ans, ask, end, home, at
  <2>. QED BY <1>5, <1>7, LedgerMaking DEF K
<1>9. th[t].obj \in Nat /\ th[t].obj <= next_tid
  BY <1>3, <1>6, <1>8 DEF IInv, Threads, ThreadType, WInv, Body, Track
<1>10. ASSUME NEW c \in CPU, t = T(c) PROVE th[t].pc \in Blk
  BY <1>6, <1>8, <1>10, Resting
<1>. QED BY <1>3, <1>5, <1>6, <1>8, <1>9, <1>10

LEMMA DesksKept ==
    ASSUME IInv, WInv, NEW c \in CPU, NEW me, me = T(c), NEW r, th' = [th EXCEPT ![me] = r],
           th[me].pc # "dead", th[me].pc \in Blk => r.obj = th[me].obj,
           \A d \in CPU : wk'[d].victim = wk[d].victim /\ wk'[d].inbox = wk[d].inbox,
           me \in Workers =>
                /\ Serves(r) => Serves(th[me])
                /\ Made(r) => (Made(th[me]) /\ r.obj = th[me].obj) \/ r.obj = next_tid
                /\ r.pc \notin MovePcs /\ (Holds(r) \/ Buries(r) => Holds(th[me]) \/ Buries(th[me]))
    PROVE  \A d \in CPU : Desk(d)'
<1>. SUFFICES ASSUME NEW d \in CPU
              PROVE  LET w == th'[Worker[d]] IN
                     /\ Serves(w) => Head(wk'[d].inbox).kind = "CreateTask"
                     /\ Made(w) => th'[Head(wk'[d].inbox).tid].obj <= w.obj
                     /\ w.pc \notin MovePcs
                     /\ Holds(w) \/ Buries(w) => th'[wk'[d].victim].pc = "dead"
  BY DEF Desk, Serves, Made, Holds, Buries
<1>1. Desk(d) /\ Worker[d] \in Tid /\ Worker[d] \in Workers /\ me \in Tid
      /\ (me \in Workers => me = Worker[c])
  BY Here DEF WInv, Body
<1>2. /\ Serves(th'[Worker[d]]) => Serves(th[Worker[d]])
      /\ th'[Worker[d]].pc \notin MovePcs
      /\ Holds(th'[Worker[d]]) \/ Buries(th'[Worker[d]]) => Holds(th[Worker[d]]) \/ Buries(th[Worker[d]])
  <2>1. CASE Worker[d] = me
    BY <1>1, <2>1 DEF IInv, Threads
  <2>2. CASE Worker[d] # me
    <3>1. th'[Worker[d]] = th[Worker[d]]
      BY <1>1, <2>2 DEF IInv, Threads
    <3>. QED BY <1>1, <3>1 DEF Desk
  <2>. QED BY <2>1, <2>2
<1>3. Holds(th[Worker[d]]) \/ Buries(th[Worker[d]]) =>
        wk[d].victim \in Tid /\ th[wk[d].victim].pc = "dead"
  BY <1>1 DEF Desk, IInv, Victims, Pools
<1>4. \A u \in Tid : th[u].pc = "dead" => th'[u].pc = "dead"
  BY <1>1 DEF IInv, Threads
<1>5. ASSUME Made(th'[Worker[d]]) PROVE th'[Head(wk'[d].inbox).tid].obj <= th'[Worker[d]].obj
  <2>. PICK t : t = Head(wk[d].inbox).tid
    OBVIOUS
  <2>1. Serves(th[Worker[d]])
    BY <1>2, <1>5 DEF Made, Makes, Serves, MakePcs
  <2>2. /\ t \in Tid /\ th[t].obj <= next_tid /\ (t = me => th[me].pc \in Blk)
        /\ t # Worker[d]
    BY <1>1, <2>1, AskerWaits
  <2>3. th'[t].obj = th[t].obj
    BY <1>1, <2>2 DEF IInv, Threads
  <2>4. CASE Worker[d] = me
    <3>1. th'[me] = r
      BY <1>1 DEF IInv, Threads
    <3>. QED BY <1>1, <1>5, <2>2, <2>3, <2>4, <3>1 DEF Desk
  <2>5. CASE Worker[d] # me
    <3>1. th'[Worker[d]] = th[Worker[d]]
      BY <1>1, <2>5 DEF IInv, Threads
    <3>. QED BY <1>1, <1>5, <2>3, <3>1 DEF Desk
  <2>. QED BY <2>4, <2>5
<1>. QED BY <1>1, <1>2, <1>3, <1>4, <1>5 DEF Desk

\* The desk of a worker that is not the one that steps.
LEMMA DeskOfOther ==
    ASSUME IInv, WInv, NEW me \in Workers, NEW r, th' = [th EXCEPT ![me] = r], th[me].pc # "dead",
           NEW d \in CPU, Worker[d] # me,
           wk'[d].victim = wk[d].victim, wk'[d].inbox = wk[d].inbox
    PROVE  Desk(d)'
<1>1. Worker[d] \in Tid /\ Worker[d] \in Workers /\ Desk(d) /\ me \in Tid
  BY Here DEF WInv, Body, Workers
<1>2. \A u \in Tid : u # me => th'[u] = th[u]
  BY <1>1 DEF IInv, Threads
<1>3. ASSUME Holds(th[Worker[d]]) \/ Buries(th[Worker[d]])
      PROVE  th'[wk'[d].victim].pc = "dead"
  <2>1. wk[d].victim \in Tid /\ th[wk[d].victim].pc = "dead"
    BY <1>1, <1>3 DEF Desk, IInv, Victims, Pools
  <2>. QED BY <1>2, <2>1
<1>4. ASSUME Made(th[Worker[d]])
      PROVE  th'[Head(wk'[d].inbox).tid].obj <= th[Worker[d]].obj
  <2>. PICK t : t = Head(wk[d].inbox).tid
    OBVIOUS
  <2>1. Serves(th[Worker[d]])
    BY <1>4 DEF Made, Makes, Serves, MakePcs
  <2>2. t \in Tid /\ t # me
    BY <2>1, AskerWaits
  <2>. QED BY <1>1, <1>2, <1>4, <2>2 DEF Desk
<1>. QED BY <1>1, <1>2, <1>3, <1>4 DEF Desk, Serves, Made, Holds, Buries

\* A step of a thread that moves no unblock.
LEMMA Privately ==
    ASSUME IInv, WInv, NEW c \in CPU, NEW me, me = T(c), NEW r,
           Treads(me, r), Spares(me), Thins, Owner(me, r), Stays, Unhands(me, r),
           \A t \in Tid \ {me} : task'[t].ret = task[t].ret,
           \A d \in CPU : Desk(d)', me \notin Workers => Account(me)'
    PROVE  WInv'
<1>1. Body'
  BY BodyKept
<1>2. me \in Tid /\ th' = [th EXCEPT ![me] = r] /\ th[me].pc # "dead"
  BY Here DEF Treads, Owner
<1>3. \A t : Wakers(t)' \subseteq Wakers(t) /\ \A k : Said(boxes, k, t)' = Said(boxes, k, t)
  BY <1>2, StaysQuiet
<1>4. Accounts'
  BY <1>2, <1>3, AccountsKept
<1>5. boxes' = boxes /\ \A x \in Place : Box(x)' = Box(x)
  <2>1. boxes' = boxes
    BY BoxesStay DEF Stays
  <2>. QED BY <2>1, SchedAssumption DEF Stays, Box, Place, SchedAssumption
<1>6. Ordered(boxes)'
  BY <1>5 DEF WInv, Mails, Ordered, Wakee, Later
<1>7. ASSUME NEW x \in Place, NEW i \in DOMAIN Box(x) PROVE Fit(Box(x)[i])'
  <2>. DEFINE m == Box(x)[i]
  <2>1. m \in Message /\ Fit(m) /\ (Box(x)[i])' = m
    <3>1. Box(x) \in Seq(Message)
      BY SchedAssumption DEF IInv, Moves, Box, Place, WorkType, SchedAssumption
    <3>. QED BY <1>5, <1>7, <3>1 DEF WInv, Mails
  <2>. HIDE DEF m
  <2>2. \A n : n = m => Fit(n)'
    BY <2>1, FitKept
  <2>. QED BY <2>1, <2>2
<1>8. Mails'
  BY <1>5, <1>6, <1>7 DEF Mails
<1>9. Rows'
  BY DEF WInv, Rows, Stays
<1>. QED BY <1>1, <1>4, <1>8, <1>9 DEF WInv

-----------------------------------------------------------------------------
(* Steps that move no unblock                                              *)

\* A worker goes on with its work.
LEMMA WorkerGoesOn ==
    ASSUME IInv, WInv, NEW c \in CPU, NEW me, me = T(c), me \in Workers, NEW r,
           Treads(me, r), Spares(me), Thins, Stays, Unhands(me, r),
           \A t \in Tid : task'[t].ret = task[t].ret,
           task'[me].state \in {task[me].state, "Ready", "Running"},
           r.pc = "ub_cpu" => r.arg = tid_cpu[r.obj],
           r.pc \in {"cr_add", "cr_ready", "cr_lb", "answer"} =>
                th[me].pc \in {"cr_add", "cr_ready", "cr_lb", "answer"} /\ r.obj = th[me].obj,
           r.pc \in Makes => r.arg = tid_cpu[me],
           r.pc = "cr_map" => r.obj \in pool'[r.arg],
           r.pc \in {"ub_ready", "ub_add"} =>
                th[me].pc \in {"ub_ready", "ub_add"} /\ r.obj = th[me].obj,
           r.pc = "cr_add" => th[me].pc = "cr_add",
           \A d \in CPU : Desk(d)'
    PROVE  WInv'
<1>1. /\ me \in Tid /\ th'[me] = r /\ tid_cpu' = tid_cpu /\ known' = known
      /\ Sound(me, th[me]) /\ task[me].state \notin {"Terminating", "Migrating"}
  <2>1. me \in Tid /\ Sound(me, th[me]) /\ me = Worker[c]
    BY Here
  <2>. QED BY <2>1 DEF Treads, IInv, Threads, Tasks
<1>2. Hand(me) /\ Nap(me)
  BY <1>1 DEF WInv, Body
<1>3. Hand(me)'
  BY <1>1, <1>2 DEF Hand
<1>4. task'[me].state \notin {"Sleeping", "Terminating", "Migrating"}
  BY <1>1, <1>2 DEF Nap
<1>5. Nap(me)'
  BY <1>4 DEF Nap
<1>6. th[me].pc # "dead"
  BY <1>1 DEF Sound, WorkPcs, MakePcs, WakePcs
<1>7. Owner(me, r)
  BY <1>1, <1>3, <1>4, <1>5, <1>6 DEF Owner
<1>8. \A t \in Tid \ {me} : task'[t].ret = task[t].ret
  OBVIOUS
<1>. QED BY <1>7, <1>8, Privately

\* A client goes on in a call that does not block it.
LEMMA ClientGoesOn ==
    ASSUME IInv, WInv, NEW c \in CPU, NEW me, me = T(c), me \notin Workers, NEW r,
           Treads(me, r), Spares(me), Thins, Stays, Unhands(me, r),
           \A t \in Tid : task'[t].ret = task[t].ret, task'[me].blocked = task[me].blocked,
           th[me].pc \notin Blk \cup {"spawn_ret", "join_ans"},
           r.pc \notin Blk \cup {"spawn_ret", "join_ans"},
           \/ task'[me].state = "Sleeping" /\ r.pc = "slp_int"
           \/ task'[me].state = "Sleeping" /\ r.pc \in {"ret", "join_poll"} /\ curr'[c] # me
           \/ /\ task'[me].state = task[me].state
              /\ th[me].pc # "slp_int" \/ task[me].state # "Sleeping"
           \/ task'[me].state \in {"Ready", "Running"},
           r.pc = "ub_cpu" => r.arg = tid_cpu[r.obj],
           r.pc \in {"cr_add", "cr_ready", "cr_lb", "answer"} =>
                th[me].pc \in {"cr_add", "cr_ready", "cr_lb", "answer"} /\ r.obj = th[me].obj,
           r.pc \in Makes => r.arg = tid_cpu[me],
           r.pc = "cr_map" => r.obj \in pool'[r.arg],
           r.pc \in {"ub_ready", "ub_add"} =>
                th[me].pc \in {"ub_ready", "ub_add"} /\ r.obj = th[me].obj,
           r.pc = "cr_add" => th[me].pc = "cr_add",
           r.pc # "dead", r.pc = "joined" => th[r.obj].pc = "dead" /\ r.obj # me, Track(me)',
           \A d \in CPU : wk'[d].victim = wk[d].victim
    PROVE  WInv'
<1>1. /\ me \in Tid /\ me \in pool[c] /\ th'[me] = r /\ tid_cpu' = tid_cpu /\ known' = known
      /\ \A t \in Tid \ {me} : th'[t] = th[t]
      /\ th \in [Tid -> ThreadType] /\ curr[c] = me
      /\ \A d \in CPU : curr[d] = me => d = c
  <2>1. me \in Tid /\ me \in pool[c] /\ th \in [Tid -> ThreadType] /\ curr[c] = me
    BY Here DEF IInv, Threads, T
  <2>. QED BY <2>1 DEF Treads, IInv, Current, Pools
<1>2. /\ th[me].pc # "dead" /\ ~Coming(me) /\ ~Readying(me)
      /\ task[me].blocked = 0 /\ task[me].ret = 0 /\ Wakers(me) = {}
  BY Resting
<1>3. Hand(me) /\ Nap(me) /\ Fate(me)
  BY <1>1 DEF WInv, Body
<1>4. Hand(me)'
  BY <1>1, <1>3 DEF Hand
<1>5. task'[me].state # "Migrating" /\ (task'[me].state = "Terminating" => r.pc = "dead")
  BY <1>2, <1>3 DEF Fate
<1>6. task'[me].blocked = 0 /\ task'[me].ret = 0
  BY <1>1, <1>2
<1>7. Nap(me)'
  <2>. SUFFICES ASSUME task'[me].state = "Sleeping" PROVE Nap(me)'
    BY DEF Nap
  <2>1. CASE r.pc = "slp_int"
    BY <1>1, <1>6, <2>1 DEF Nap
  <2>2. CASE r.pc \in {"ret", "join_poll"} /\ curr'[c] # me
    <3>1. \A d \in CPU : curr'[d] # me
      <4>1. ASSUME NEW d \in CPU, curr'[d] = me PROVE d = c
        <5>1. curr[d] = me \/ me \in Range(rq[d])
          BY <4>1 DEF Thins
        <5>2. CASE curr[d] = me
          BY <1>1, <5>2
        <5>3. CASE me \in Range(rq[d])
          <6>1. tid_cpu[me] = d
            BY <5>3 DEF WInv, Body, Row
          <6>. QED BY <6>1, Resting
        <5>. QED BY <5>1, <5>2, <5>3
      <4>. QED BY <2>2, <4>1
    <3>. QED BY <1>1, <1>6, <2>2, <3>1 DEF Nap
  <2>3. CASE task[me].state = "Sleeping" /\ th[me].pc # "slp_int"
    BY <1>1, <1>3, <2>3 DEF Nap
  <2>. QED BY <2>1, <2>2, <2>3
<1>8. ~Coming(me)' /\ ~Readying(me)'
  BY <1>1, <1>2 DEF Coming, Readying
<1>9. Due(me)' = 0 /\ Goal(th'[me]) = r.pc
  BY <1>1, <1>6 DEF Due, Owed, Goal, Blk
<1>10. Parked(me)'
  <2>1. ~Off(me)'
    BY <1>1, <1>8, <1>9 DEF Off, Blk
  <2>. QED BY <2>1 DEF Parked
<1>11. Owner(me, r)
  BY <1>2, <1>4, <1>5, <1>6, <1>7, <1>10 DEF Owner
<1>12. Account(me)'
  <2>1. Wakers(me)' = {}
    <3>1. th' = [th EXCEPT ![me] = r]
      BY DEF Treads
    <3>2. Wakers(me)' \subseteq Wakers(me)
      BY <1>1, <3>1, StaysQuiet
    <3>. QED BY <1>2, <3>2
  <2>2. r.pc = "joined" => th'[r.obj].pc = "dead"
    <3>1. r.pc = "joined" => r.obj \in Tid
      <4>1. known \in SUBSET Tid
        BY DEF IInv, Numbers
      <4>. QED BY <1>1, <1>9, <4>1 DEF Track, Awaits
    <3>. QED BY <1>1, <3>1
  <2>. DEFINE ans == Said(boxes, "RespondAndUnblock", me)'
              ask == Said(boxes, "AddJoiner", me)'
              end == th'[r.obj].pc
              d   == tid_cpu[me]
              home == tid_cpu[r.obj]
  <2>3. Ledger(r.pc, 0, 0, r.obj, {}, ans, ask, end, d, home)
    <3>. HIDE DEF ans, ask, d, home
    <3>. QED BY <2>2, LedgerIdle
  <2>. QED BY <1>1, <1>6, <1>9, <2>1, <2>3 DEF Account, Due
<1>13. \A d \in CPU : Desk(d)'
  <2>1. th' = [th EXCEPT ![me] = r]
    BY DEF Treads
  <2>. QED BY <1>2, <2>1, DesksKept DEF Stays
<1>14. \A t \in Tid \ {me} : task'[t].ret = task[t].ret
  OBVIOUS
<1>. QED BY <1>11, <1>12, <1>13, <1>14, Privately

\* A blocking client goes on to where it comes back from.
LEMMA ClientWaits ==
    ASSUME IInv, WInv, NEW c \in CPU, NEW me, me = T(c), me \notin Workers, NEW r,
           Treads(me, r), Spares(me), Thins, Stays,
           \A t \in Tid : task'[t].ret = task[t].ret,
           th[me].pc \in Blk, r.back = th[me].back, r.obj = th[me].obj,
           r.pc \in Blk \ {"blk_add"} \/ r.pc = th[me].back,
           Due(me)' = Due(me), Parked(me)',
           task'[me].state \notin {"Sleeping", "Terminating", "Migrating"},
           \A d \in CPU : wk'[d].victim = wk[d].victim
    PROVE  WInv'
<1>1. /\ me \in Tid /\ th'[me] = r /\ tid_cpu' = tid_cpu /\ known' = known
      /\ th' = [th EXCEPT ![me] = r]
  <2>1. me \in Tid
    BY Here
  <2>. QED BY <2>1 DEF Treads, IInv, Threads
<1>2. Track(me) /\ Brought(me) /\ Due(me)' = Owed(r, task'[me].blocked)
  BY <1>1 DEF WInv, Body, Due
<1>3. /\ r.pc \in Blk \cup Rets /\ Goal(r) = Goal(th[me]) /\ r.pc # "blk_add"
      /\ th[me].pc # "dead" /\ r.back \in Rets
  BY <1>2 DEF Track, Goal, Blk, Rets
<1>4. Track(me)'
  <2>1. r.obj <= next_tid => r.obj <= next_tid'
    <3>1. r.obj \in Nat /\ next_tid \in Nat /\ next_tid' \in Nat /\ next_tid' >= next_tid
      BY <1>1 DEF IInv, Threads, ThreadType, Numbers, Treads
    <3>. QED BY <3>1
  <2>. QED BY <1>1, <1>2, <1>3, <2>1 DEF Track, Awaits, Goal, Blk, Rets, WakePcs, MakePcs
<1>5. Owner(me, r)
  <2>1. Hand(me)' /\ Nap(me)'
    BY <1>1, <1>3 DEF Hand, Nap, Blk, Rets, Makes
  <2>2. Readying(me) => Owed(r, task'[me].blocked) # 1
    BY <1>2 DEF Brought
  <2>3. task'[me].ret = task[me].ret
    BY <1>1
  <2>. QED BY <1>3, <1>4, <2>1, <2>2, <2>3 DEF Owner, Blk, Rets
<1>6. Unhands(me, r)
  BY <1>3 DEF Unhands, Blk, Rets
<1>7. Account(me)'
  <2>1. Wakers(me)' \subseteq Wakers(me) /\ \A k : Said(boxes, k, me)' \subseteq Said(boxes, k, me)
    BY <1>1, <1>6, StaysQuiet
  <2>2. Steady
    BY <1>3, TreadsSteady
  <2>. QED BY <1>1, <1>3, <2>1, <2>2, AccountKept
<1>8. \A d \in CPU : Desk(d)'
  <2>1. \A d \in CPU : wk'[d].victim = wk[d].victim /\ wk'[d].inbox = wk[d].inbox
    BY DEF Stays
  <2>2. th' = [th EXCEPT ![me] = r] /\ th[me].pc # "dead"
    BY <1>1, <1>3
  <2>. QED BY <2>1, <2>2, DesksKept
<1>9. \A t \in Tid \ {me} : task'[t].ret = task[t].ret
  OBVIOUS
<1>. QED BY <1>5, <1>6, <1>7, <1>8, <1>9, Privately

\* An interrupt hits a client.
LEMMA ClientInterrupted ==
    ASSUME IInv, WInv, NEW c \in CPU, NEW me, me = T(c), me \notin Workers,
           th[me].ie, Treads(me, th[me]), Spares(me), Thins, Stays,
           \A t \in Tid : task'[t].ret = task[t].ret, task'[me].blocked = task[me].blocked,
           task'[me].state \in {task[me].state, "Ready", "Running"},
           \A d \in CPU : wk'[d].victim = wk[d].victim
    PROVE  WInv'
<1>. DEFINE r == th[me]
<1>1. /\ me \in Tid /\ th' = th /\ tid_cpu' = tid_cpu /\ known' = known
      /\ th' = [th EXCEPT ![me] = r] /\ curr[c] = me
  <2>1. me \in Tid
    BY Here
  <2>. QED BY <2>1 DEF Treads, IInv, Threads, T
<1>2. Track(me) /\ Parked(me) /\ Brought(me) /\ Hand(me) /\ Nap(me) /\ Fate(me) /\ th[me].pc # "dead"
  BY <1>1, Resting DEF WInv, Body
<1>3. Due(me)' = Due(me)
  BY <1>1 DEF Due
<1>4. Owner(me, r)
  <2>1. Hand(me)' /\ Track(me)'
    <3>1. r \in ThreadType /\ next_tid \in Nat /\ next_tid' \in Nat /\ next_tid' >= next_tid
      BY <1>1 DEF IInv, Threads, Numbers, Treads
    <3>2. r.obj <= next_tid => r.obj <= next_tid'
      BY <3>1 DEF ThreadType
    <3>3. \A d \in CPU : \A t \in known : t \in pool'[d] => t \in pool[d]
      BY DEF Treads
    <3>4. r.pc = "join_ask" => r.obj \in known
      BY <1>2 DEF Track, Awaits, Goal, Blk
    <3>5. r.pc = "cr_map" => r.obj \in pool'[r.arg]
      BY <1>1, <1>2, NewbornStays DEF Hand, Treads
    <3>. QED BY <1>1, <1>2, <3>2, <3>3, <3>4, <3>5 DEF Hand, Track, Awaits
  <2>2. Nap(me)'
    <3>1. task'[me].state = "Sleeping" => task[me].state = "Sleeping"
      OBVIOUS
    <3>2. task[me].state = "Sleeping" => th[me].pc = "slp_int" /\ task[me].blocked = 0
      BY <1>1, <1>2 DEF Nap
    <3>. QED BY <1>1, <3>1, <3>2 DEF Nap
  <2>3. Parked(me)'
    <3>1. Off(me)' => Off(me)
      BY <1>1, <1>3 DEF Off, Readying, Coming
    <3>. QED BY <1>1, <1>2, <3>1 DEF Parked, Thins
  <2>4. Readying(me) => /\ r.pc \in (Blk \ {"blk_add"}) \cup Rets
                        /\ Owed(r, task'[me].blocked) # 1
    BY <1>2 DEF Brought, Due
  <2>5. task'[me].state # "Migrating" /\ task'[me].state # "Terminating"
    BY <1>2 DEF Fate
  <2>6. task'[me].ret = task[me].ret
    BY <1>1
  <2>. QED BY <1>2, <2>1, <2>2, <2>3, <2>4, <2>5, <2>6 DEF Owner
<1>5. Unhands(me, r)
  BY DEF Unhands
<1>6. Account(me)'
  <2>1. Wakers(me)' \subseteq Wakers(me) /\ \A k : Said(boxes, k, me)' \subseteq Said(boxes, k, me)
    BY <1>1, <1>5, StaysQuiet
  <2>2. Steady
    BY <1>2, TreadsSteady
  <2>. QED BY <1>1, <1>3, <2>1, <2>2, AccountKept
<1>7. \A d \in CPU : Desk(d)'
  <2>1. \A d \in CPU : wk'[d].victim = wk[d].victim /\ wk'[d].inbox = wk[d].inbox
    BY DEF Stays
  <2>2. th' = [th EXCEPT ![me] = r] /\ th[me].pc # "dead" /\ r.obj = th[me].obj
    BY <1>1, <1>2
  <2>. HIDE DEF r
  <2>. QED BY <2>1, <2>2, DesksKept
<1>8. \A t \in Tid \ {me} : task'[t].ret = task[t].ret
  OBVIOUS
<1>. QED BY <1>4, <1>5, <1>6, <1>7, <1>8, Privately

-----------------------------------------------------------------------------
(* The switch of tasks                                                     *)

LEMMA RotatesOnly ==
    ASSUME NEW q \in Seq(Nat), NEW i \in DOMAIN q,
           NEW t \in Range(SubSeq(q, i + 1, Len(q)) \o SubSeq(q, 1, i))
    PROVE  t \in Range(q)
<1>. DEFINE n == Len(q)
            m == i + 1
            a == SubSeq(q, m, n)
            b == SubSeq(q, 1, i)
            w == a \o b
<1>1. n \in Nat /\ i \in 1 .. n /\ DOMAIN q = 1 .. n /\ \A j \in 1 .. n : q[j] \in Nat
  OBVIOUS
<1>2. m \in Int /\ n \in Int /\ m >= 1
  BY <1>1
<1>. HIDE DEF n, m
<1>3. /\ a \in Seq(Nat) /\ Len(a) = IF m <= n THEN n - m + 1 ELSE 0
      /\ \A j \in 1 .. n - m + 1 : a[j] = q[m + j - 1]
  <2>1. \A j \in m .. n : q[j] \in Nat
    BY <1>1, <1>2
  <2>. QED BY <1>2, <2>1, SubSeqProperties
<1>4. /\ b \in Seq(Nat) /\ Len(b) = IF 1 <= i THEN i - 1 + 1 ELSE 0
      /\ \A j \in 1 .. i - 1 + 1 : b[j] = q[1 + j - 1]
  <2>1. \A j \in 1 .. i : q[j] \in Nat
    BY <1>1
  <2>. QED BY <1>1, <2>1, SubSeqProperties
<1>. HIDE DEF a, b
<1>5. ASSUME NEW j \in 1 .. Len(a) PROVE a[j] \in Range(q)
  <2>1. Len(a) \in Nat /\ j \in 1 .. n - m + 1 /\ m + j - 1 \in 1 .. n
    BY <1>1, <1>2, <1>3
  <2>2. a[j] = q[m + j - 1]
    BY <1>3, <2>1
  <2>. QED BY <1>1, <2>1, <2>2 DEF Range
<1>6. ASSUME NEW j \in 1 .. Len(b) PROVE b[j] \in Range(q)
  <2>1. j \in 1 .. i - 1 + 1 /\ 1 + j - 1 \in 1 .. n
    BY <1>1, <1>4
  <2>2. b[j] = q[1 + j - 1]
    BY <1>4, <2>1
  <2>. QED BY <1>1, <2>1, <2>2 DEF Range
<1>7. /\ w \in Seq(Nat) /\ Len(w) = Len(a) + Len(b)
      /\ \A j \in 1 .. Len(a) + Len(b) :
            w[j] = IF j <= Len(a) THEN a[j] ELSE b[j - Len(a)]
  BY <1>3, <1>4, ConcatProperties
<1>8. t \in Range(w)
  BY DEF n, m, a, b
<1>. HIDE DEF w
<1>9. Len(a) \in Nat /\ Len(b) \in Nat
  BY <1>3, <1>4
<1>10. PICK j \in 1 .. Len(a) + Len(b) : w[j] = t
  BY <1>7, <1>8, <1>9 DEF Range
<1>11. CASE j <= Len(a)
  <2>1. j \in 1 .. Len(a) /\ t = a[j]
    BY <1>7, <1>9, <1>10, <1>11
  <2>. QED BY <1>5, <2>1
<1>12. CASE ~(j <= Len(a))
  <2>1. j - Len(a) \in 1 .. Len(b)
    BY <1>9, <1>12
  <2>2. t = b[j - Len(a)]
    BY <1>7, <1>10, <1>12
  <2>. QED BY <1>6, <2>1, <2>2
<1>. QED BY <1>11, <1>12

LEMMA RemTaskRemoves ==
    ASSUME NEW q \in Seq(Nat), NEW t, NEW u \in Range(RemTask(q, t))
    PROVE  u \in Range(q) /\ u # t
<1>. DEFINE I == {i \in DOMAIN q : q[i] # t}
            w == Kept(q, I)
<1>0. I \in SUBSET DOMAIN q /\ \A i \in I : q[i] # t
  OBVIOUS
<1>1. w = RemTask(q, t)
  BY DEF RemTask
<1>. HIDE DEF I
<1>2. PICK e : Keeps(w, q, I, e)
  BY <1>0, KeptKeeps
<1>. HIDE DEF w
<1>3. PICK k \in DOMAIN w : w[k] = u
  BY <1>1 DEF Range
<1>4. e[k] \in I /\ u = q[e[k]]
  BY <1>2, <1>3 DEF Keeps
<1>. QED BY <1>0, <1>4 DEF Range

\* preempt_irq does not stop the kernel: the CPU goes on with a task of the
\* queue that is not asleep.
LEMMA Switches ==
    ASSUME IInv, NEW c \in CPU, NEW tk \in [Tid -> TaskType], NEW q \in Seq(Nat),
           PreemptIrq(c, tk, q), fault' = "none", fault = "none"
    PROVE  /\ \A d \in CPU \ {c} : rq'[d] = rq[d] /\ curr'[d] = curr[d]
           /\ \A t \in Range(rq'[c]) : t \in Range(q)
           /\ curr'[c] \in Range(q) /\ task'[curr'[c]].state # "Sleeping"
           /\ \A t \in Tid : /\ task'[t].blocked = tk[t].blocked /\ task'[t].ret = tk[t].ret
                             /\ task'[t].joiners = tk[t].joiners
                             /\ task'[t].state \in {tk[t].state, "Ready", "Running"}
<1>. DEFINE stop == {i \in 1 .. Len(q) : q[i] \notin pool[c] \/ Eligible(tk, q[i])}
            i    == Min(stop)
            next == q[i]
            old  == curr[c]
            woken == [tk EXCEPT ![next].state = IF @ = "Sleeping" THEN "Ready" ELSE @]
            w     == SubSeq(q, i + 1, Len(q)) \o SubSeq(q, 1, i)
<1>1. q # <<>> /\ next \in pool[c] /\ old \in pool[c]
  <2>1. CASE q = <<>>
    BY <2>1 DEF PreemptIrq
  <2>2. CASE q # <<>> /\ (next \notin pool[c] \/ old \notin pool[c])
    BY <2>2 DEF PreemptIrq
  <2>. QED BY <2>1, <2>2
<1>2. /\ stop # {}
      /\ rq' = [rq EXCEPT ![c] = w]
      /\ curr' = [curr EXCEPT ![c] = next]
      /\ task' = IF next = old THEN woken
                 ELSE [woken EXCEPT ![old].state = Outgoing(@),
                                    ![next].state = "Running"]
  BY <1>1 DEF PreemptIrq
<1>3. i \in DOMAIN q
  <2>1. stop \in SUBSET Nat /\ stop \in SUBSET DOMAIN q
    OBVIOUS
  <2>. HIDE DEF stop
  <2>. QED BY <1>2, <2>1, LeastOf
<1>. HIDE DEF stop, i
<1>4. next \in Tid /\ old \in Tid /\ next \in Range(q)
  BY <1>1, <1>3 DEF IInv, Pools, Range
<1>5. \A t \in Range(w) : t \in Range(q)
  BY <1>3, RotatesOnly
<1>. HIDE DEF next, old, w
<1>6. /\ \A d \in CPU \ {c} : rq'[d] = rq[d] /\ curr'[d] = curr[d]
      /\ rq'[c] = w /\ curr'[c] = next
  BY <1>2 DEF IInv, Queues, Current
<1>7. /\ \A t \in Tid \ {next} : woken[t] = tk[t]
      /\ woken[next] = [tk[next] EXCEPT !.state = IF @ = "Sleeping" THEN "Ready" ELSE @]
      /\ woken \in [Tid -> TaskType]
  <2>1. tk[next] \in TaskType /\ DOMAIN tk = Tid
    BY <1>4
  <2>. DEFINE x == [tk[next] EXCEPT !.state = IF @ = "Sleeping" THEN "Ready" ELSE @]
  <2>2. x \in TaskType
    BY <2>1 DEF TaskType, States
  <2>3. woken = [tk EXCEPT ![next] = x]
    OBVIOUS
  <2>. HIDE DEF x, woken
  <2>4. woken \in [Tid -> TaskType] /\ woken[next] = x /\ \A t \in Tid \ {next} : woken[t] = tk[t]
    BY <1>4, <2>2, <2>3
  <2>. QED BY <2>4 DEF x
<1>8. \A t \in Tid : /\ woken[t].blocked = tk[t].blocked /\ woken[t].ret = tk[t].ret
                     /\ woken[t].joiners = tk[t].joiners
                     /\ woken[t].state \in {tk[t].state, "Ready"}
  BY <1>4, <1>7 DEF TaskType
<1>9. woken[next].state # "Sleeping"
  BY <1>4, <1>7 DEF TaskType
<1>. HIDE DEF woken
<1>10. CASE next = old
  <2>1. task' = woken
    BY <1>2, <1>10
  <2>. QED BY <1>4, <1>5, <1>6, <1>8, <1>9, <2>1
<1>11. CASE next # old
  <2>1. task' = [woken EXCEPT ![old].state = Outgoing(@), ![next].state = "Running"]
    BY <1>2, <1>11
  <2>2. /\ task'[old] = [woken[old] EXCEPT !.state = Outgoing(@)]
        /\ task'[next] = [woken[next] EXCEPT !.state = "Running"]
        /\ \A t \in Tid \ {old, next} : task'[t] = woken[t]
    BY <1>4, <1>7, <1>11, <2>1
  <2>3. woken[old] \in TaskType /\ woken[next] \in TaskType
    BY <1>4, <1>7
  <2>4. /\ task'[old].blocked = woken[old].blocked /\ task'[old].ret = woken[old].ret
        /\ task'[old].joiners = woken[old].joiners
        /\ task'[old].state \in {woken[old].state, "Ready"}
    BY <2>2, <2>3 DEF Outgoing, TaskType
  <2>5. /\ task'[next].blocked = woken[next].blocked /\ task'[next].ret = woken[next].ret
        /\ task'[next].joiners = woken[next].joiners
        /\ task'[next].state = "Running"
    BY <2>2, <2>3 DEF TaskType
  <2>6. ASSUME NEW t \in Tid
        PROVE  /\ task'[t].blocked = tk[t].blocked /\ task'[t].ret = tk[t].ret
               /\ task'[t].joiners = tk[t].joiners
               /\ task'[t].state \in {tk[t].state, "Ready", "Running"}
    <3>1. CASE t = old
      BY <1>4, <1>8, <2>4, <3>1
    <3>2. CASE t = next
      BY <1>4, <1>8, <2>5, <3>2
    <3>3. CASE t \notin {old, next}
      BY <1>8, <2>2, <3>3
    <3>. QED BY <3>1, <3>2, <3>3
  <2>. QED BY <1>4, <1>5, <1>6, <2>5, <2>6
<1>. QED BY <1>10, <1>11

-----------------------------------------------------------------------------
(* The calls and the kernel code that move no unblock                      *)

\* Nothing of it changes.
LEMMA WakesUnmoved ==
    ASSUME WInv, UNCHANGED <<task, th, pool, rq, curr, tid_cpu, next_tid, known, mq, wk, waiters, ioq>>
    PROVE  WInv'
<1>1. boxes' = boxes /\ \A x \in Place : Box(x)' = Box(x)
  BY DEF boxes, Box
<1>2. \A k, t : Said(boxes, k, t)' = Said(boxes, k, t)
  BY <1>1 DEF Said, Mail, Wakee, What
<1>3. \A t : Wakers(t)' = Wakers(t)
  BY <1>2 DEF Wakers, Unblocks, InQueue, InIo, InList, InTodo, InHand, InMail
<1>4. Accounts'
  BY <1>2, <1>3 DEF WInv, Accounts, Account, Goal, Owed
<1>5. Mails'
  <2>1. Ordered(boxes)'
    BY <1>1 DEF WInv, Mails, Ordered, Later, Wakee
  <2>2. ASSUME NEW x \in Place, NEW i \in DOMAIN Box(x) PROVE Fit(Box(x)[i])'
    <3>1. Fit(Box(x)[i])
      BY DEF WInv, Mails
    <3>. QED BY <1>1, <3>1 DEF Fit, Wakee
  <2>. QED BY <1>1, <2>1, <2>2 DEF Mails
<1>6. Rows'
  BY DEF WInv, Rows
<1>7. ASSUME NEW t \in Tid
      PROVE  /\ Track(t)' = Track(t) /\ Parked(t)' = Parked(t) /\ Hand(t)' = Hand(t)
             /\ Brought(t)' = Brought(t) /\ Nap(t)' = Nap(t) /\ Fate(t)' = Fate(t)
  <2>1. /\ Due(t)' = Due(t) /\ Readying(t)' = Readying(t) /\ Coming(t)' = Coming(t)
        /\ Off(t)' = Off(t)
    BY DEF Due, Readying, Coming, Off
  <2>2. \A v \in Tid : Brings(v, t)' = Brings(v, t)
    BY DEF Brings
  <2>3. Track(t)' = Track(t)
    BY DEF Track
  <2>4. Parked(t)' = Parked(t)
    BY <2>1 DEF Parked
  <2>5. Hand(t)' = Hand(t) /\ Nap(t)' = Nap(t) /\ Fate(t)' = Fate(t)
    BY DEF Hand, Nap, Fate
  <2>6. Brought(t)' = Brought(t)
    BY <2>1, <2>2 DEF Brought
  <2>. QED BY <2>3, <2>4, <2>5, <2>6
<1>8. \A d \in CPU : Desk(d)' = Desk(d) /\ Row(d)' = Row(d)
  BY DEF Desk, Row
<1>9. Body'
  BY <1>7, <1>8 DEF WInv, Body
<1>. QED BY <1>4, <1>5, <1>6, <1>9 DEF WInv

\* A step of the kernel code that gets at no list, queue or pool.
Locals(me, r) ==
    /\ th' = [th EXCEPT ![me] = r]
    /\ UNCHANGED <<pool, rq, curr, tid_cpu, next_tid, known, mq, waiters, ioq>>
    /\ \A d \in CPU : wk'[d].todo = wk[d].todo /\ wk'[d].inbox = wk[d].inbox
    /\ \A t \in Tid : /\ task'[t].joiners = task[t].joiners /\ task'[t].blocked = task[t].blocked
                      /\ task'[t].ret = task[t].ret
                      /\ t # me => task'[t].state \in {task[t].state, "Ready"}

LEMMA Locally ==
    ASSUME IInv, NEW me, NEW r, Locals(me, r)
    PROVE  Treads(me, r) /\ Spares(me) /\ Thins /\ Stays
<1>1. Treads(me, r)
  BY DEF Locals, Treads, IInv, Numbers
<1>2. Spares(me)
  BY DEF Locals, Spares
<1>3. Thins
  BY DEF Locals, Thins
<1>4. Stays
  BY DEF Locals, Stays
<1>. QED BY <1>1, <1>2, <1>3, <1>4

LEMMA WorkerLocally ==
    ASSUME IInv, WInv, NEW c \in CPU, NEW me, me = T(c), me \in Workers, NEW r,
           Locals(me, r), UNCHANGED wk, task'[me].state \in {task[me].state, "Ready"},
           Unhands(me, r),
           r.pc = "ub_cpu" => r.arg = tid_cpu[r.obj],
           r.pc \in {"cr_add", "cr_ready", "cr_lb", "answer"} =>
                th[me].pc \in {"cr_add", "cr_ready", "cr_lb", "answer"} /\ r.obj = th[me].obj,
           r.pc \in Makes => r.arg = tid_cpu[me],
           r.pc = "cr_map" => r.obj \in pool'[r.arg],
           r.pc \in {"ub_ready", "ub_add"} =>
                th[me].pc \in {"ub_ready", "ub_add"} /\ r.obj = th[me].obj,
           r.pc = "cr_add" => th[me].pc = "cr_add",
           Serves(r) => Serves(th[me]),
           Made(r) => (Made(th[me]) /\ r.obj = th[me].obj) \/ r.obj = next_tid,
           r.pc \notin MovePcs, Holds(r) \/ Buries(r) => Holds(th[me]) \/ Buries(th[me])
    PROVE  WInv'
<1>1. Treads(me, r) /\ Spares(me) /\ Thins /\ Stays
  BY Locally
<1>2. \A d \in CPU : Desk(d)'
  <2>1. th[me].pc \notin Blk \cup {"dead"} /\ th' = [th EXCEPT ![me] = r]
    BY Here DEF Sound, WorkPcs, MakePcs, WakePcs, Locals, Blk
  <2>. QED BY <2>1, DesksKept
<1>3. /\ \A t \in Tid : task'[t].ret = task[t].ret
      /\ task'[me].state \in {task[me].state, "Ready", "Running"}
  BY DEF Locals
<1>. QED BY <1>1, <1>2, <1>3, WorkerGoesOn

LEMMA ClientLocally ==
    ASSUME IInv, WInv, NEW c \in CPU, NEW me, me = T(c), me \notin Workers, NEW r,
           Locals(me, r), UNCHANGED wk, Unhands(me, r),
           th[me].pc \notin Blk \cup {"spawn_ret", "join_ans", "slp_int"},
           r.pc \notin Blk \cup {"spawn_ret", "join_ans", "dead"},
           \/ task'[me].state = "Sleeping" /\ r.pc = "slp_int"
           \/ task'[me].state \in {task[me].state, "Ready"},
           r.pc = "ub_cpu" => r.arg = tid_cpu[r.obj],
           r.pc \in {"cr_add", "cr_ready", "cr_lb", "answer"} =>
                th[me].pc \in {"cr_add", "cr_ready", "cr_lb", "answer"} /\ r.obj = th[me].obj,
           r.pc \in Makes => r.arg = tid_cpu[me],
           r.pc = "cr_map" => r.obj \in pool'[r.arg],
           r.pc \in {"ub_ready", "ub_add"} =>
                th[me].pc \in {"ub_ready", "ub_add"} /\ r.obj = th[me].obj,
           r.pc = "cr_add" => th[me].pc = "cr_add",
           r.pc = "joined" => th[r.obj].pc = "dead" /\ r.obj # me, Track(me)'
    PROVE  WInv'
<1>1. Treads(me, r) /\ Spares(me) /\ Thins /\ Stays
  BY Locally
<1>2. me \in Tid
  BY Here
<1>3. \A t \in Tid : task'[t].ret = task[t].ret
  BY DEF Locals
<1>4. task'[me].blocked = task[me].blocked
  BY <1>2 DEF Locals
<1>5. \A d \in CPU : wk'[d].victim = wk[d].victim
  OBVIOUS
<1>. QED BY <1>1, <1>3, <1>4, <1>5, ClientGoesOn

\* The running thread goes on elsewhere, or a call of it starts.
Sets(me, r, l, back, obj, arg) ==
    /\ th' = [th EXCEPT ![me] = r] /\ th'[me] = r
    /\ r.pc = l /\ r.back = back /\ r.obj = obj /\ r.arg = arg

LEMMA GoesTo ==
    ASSUME IInv, NEW c \in CPU, NEW me, me = T(c), NEW l, Goto(c, l)
    PROVE  \E r : Sets(me, r, l, th[me].back, th[me].obj, th[me].arg)
<1>. DEFINE s == th[me]
            r == [s EXCEPT !.pc = l]
<1>1. me \in Tid /\ th \in [Tid -> ThreadType] /\ s \in ThreadType
  BY Here DEF IInv, Threads
<1>2. th' = [th EXCEPT ![me] = r]
  BY DEF Goto
<1>. HIDE DEF s
<1>3. r.pc = l /\ r.back = s.back /\ r.obj = s.obj /\ r.arg = s.arg
  BY <1>1 DEF ThreadType
<1>. HIDE DEF r
<1>4. th'[me] = r
  BY <1>1, <1>2
<1>. QED BY <1>2, <1>3, <1>4 DEF Sets, s

LEMMA EntersAt ==
    ASSUME IInv, NEW c \in CPU, NEW me, me = T(c), NEW l, NEW ie, NEW back, NEW obj,
           Enter(c, l, ie, back, obj)
    PROVE  \E r : Sets(me, r, l, back, obj, th[me].arg)
<1>. DEFINE s == th[me]
            n == s.left - 1
            r == [s EXCEPT !.pc = l, !.ie = ie, !.back = back, !.obj = obj, !.left = n]
<1>1. me \in Tid /\ th \in [Tid -> ThreadType] /\ s \in ThreadType
  BY Here DEF IInv, Threads
<1>2. th' = [th EXCEPT ![me] = r]
  BY DEF Enter
<1>. HIDE DEF s, n
<1>3. r.pc = l /\ r.back = back /\ r.obj = obj /\ r.arg = s.arg
  BY <1>1 DEF ThreadType
<1>. HIDE DEF r
<1>4. th'[me] = r
  BY <1>1, <1>2
<1>. QED BY <1>2, <1>3, <1>4 DEF Sets, s

LEMMA ReturnsAt ==
    ASSUME IInv, NEW c \in CPU, NEW me, me = T(c), Return(c)
    PROVE  \E r : Sets(me, r, "run", "run", 0, None)
<1>. DEFINE n == th[me].left
            r == [Thread0 EXCEPT !.left = n]
<1>1. me \in Tid /\ th \in [Tid -> ThreadType]
  BY Here DEF IInv, Threads
<1>2. th' = [th EXCEPT ![me] = r]
  BY DEF Return
<1>. HIDE DEF n
<1>3. r.pc = "run" /\ r.back = "run" /\ r.obj = 0 /\ r.arg = None
  BY DEF Thread0
<1>. HIDE DEF r
<1>4. th'[me] = r
  BY <1>1, <1>2
<1>. QED BY <1>2, <1>3, <1>4 DEF Sets

LEMMA TimerWakes ==
    ASSUME IInv, WInv, NEW c \in CPU, Timer(c), fault' = "none"
    PROVE  WInv'
<1>. SUFFICES ASSUME NEW me, me = T(c) PROVE WInv'
  OBVIOUS
<1>1. me \in Tid /\ th \in [Tid -> ThreadType] /\ Sound(me, th[me]) /\ th[me] \in ThreadType
  BY Here DEF IInv, Threads
<1>2. /\ UNCHANGED <<pool, tid_cpu, next_tid, known, mq, wk, waiters, ioq>> /\ th[me].ie
      /\ th' = [th EXCEPT ![me].pc = AfterInterrupt(@)]
  BY DEF Timer, shared, ids, calls
<1>3. /\ \A d \in CPU \ {c} : rq'[d] = rq[d] /\ curr'[d] = curr[d]
      /\ \A t \in Range(rq'[c]) : t \in Range(rq[c])
      /\ curr'[c] \in Range(rq[c]) /\ task'[curr'[c]].state # "Sleeping"
      /\ \A t \in Tid : /\ task'[t].blocked = task[t].blocked /\ task'[t].ret = task[t].ret
                        /\ task'[t].joiners = task[t].joiners
                        /\ task'[t].state \in {task[t].state, "Ready", "Running"}
  <2>1. task \in [Tid -> TaskType] /\ rq[c] \in Seq(Nat) /\ fault = "none"
    BY DEF IInv, Tasks, Queues, Timer
  <2>2. PreemptIrq(c, task, rq[c])
    BY DEF Timer
  <2>. QED BY <2>1, <2>2, Switches
<1>4. Spares(me) /\ Thins /\ Stays
  <2>1. Spares(me)
    BY <1>3 DEF Spares
  <2>2. Thins
    BY <1>3 DEF Thins
  <2>3. Stays
    BY <1>2, <1>3 DEF Stays
  <2>. QED BY <2>1, <2>2, <2>3
<1>5. CASE me \notin Workers
  <2>1. AfterInterrupt(th[me].pc) = th[me].pc
    BY <1>1, <1>5 DEF Sound, AfterInterrupt, WorkPcs
  <2>2. th' = [th EXCEPT ![me] = th[me]]
    BY <1>1, <1>2, <2>1 DEF ThreadType
  <2>3. Treads(me, th[me])
    BY <1>2, <2>2, NumbersSettled DEF Treads
  <2>. QED BY <1>1, <1>2, <1>3, <1>4, <1>5, <2>3, ClientInterrupted
<1>6. CASE me \in Workers
  <2>. DEFINE l == AfterInterrupt(th[me].pc)
  <2>1. Goto(c, l)
    BY <1>2 DEF Goto
  <2>2. l = th[me].pc \/ l = "scan"
    BY DEF AfterInterrupt
  <2>. HIDE DEF l
  <2>3. PICK r : Sets(me, r, l, th[me].back, th[me].obj, th[me].arg)
    BY <2>1, GoesTo
  <2>4. Treads(me, r) /\ Unhands(me, r)
    BY <1>2, <2>2, <2>3, NumbersSettled DEF Treads, Unhands, Sets
  <2>5. th[me].pc \notin Blk \cup {"dead"} /\ th[me].pc \notin MovePcs /\ Hand(me)
    <3>1. me = Worker[c]
      BY <1>6, Here
    <3>. QED BY <1>1, <1>6, <3>1 DEF Sound, WorkPcs, MakePcs, WakePcs, WInv, Body, Desk, Blk
  <2>6. \A d \in CPU : Desk(d)'
    <3>1. /\ Serves(r) => Serves(th[me])
          /\ Made(r) => Made(th[me]) /\ r.obj = th[me].obj
          /\ r.pc \notin MovePcs /\ (Holds(r) \/ Buries(r) => Holds(th[me]) \/ Buries(th[me]))
      BY <2>2, <2>3, <2>5 DEF Sets, Serves, Made, Makes, Holds, Buries, MakePcs, WakePcs, MovePcs
    <3>2. th' = [th EXCEPT ![me] = r]
      BY <2>3 DEF Sets
    <3>3. UNCHANGED wk /\ th[me].pc # "dead" /\ th[me].pc \notin Blk
      BY <1>2, <2>5
    <3>. QED BY <3>1, <3>2, <3>3, DesksKept
  <2>7. /\ r.pc = "ub_cpu" => r.arg = tid_cpu[r.obj]
        /\ r.pc \in {"cr_add", "cr_ready", "cr_lb", "answer"} =>
                th[me].pc \in {"cr_add", "cr_ready", "cr_lb", "answer"} /\ r.obj = th[me].obj
        /\ r.pc \in {"ub_ready", "ub_add"} =>
                th[me].pc \in {"ub_ready", "ub_add"} /\ r.obj = th[me].obj
        /\ r.pc = "cr_add" => th[me].pc = "cr_add"
        /\ r.pc \in Makes => r.arg = tid_cpu[me]
    BY <2>2, <2>3, <2>5 DEF Sets, Hand, Makes
  <2>8. r.pc = "cr_map" => r.obj \in pool'[r.arg]
    BY <1>1, <2>2, <2>3, <2>4, <2>5, NewbornStays DEF Sets, Hand, Treads
  <2>. QED BY <1>1, <1>3, <1>4, <1>6, <2>4, <2>6, <2>7, <2>8, WorkerGoesOn
<1>. QED BY <1>5, <1>6

LEMMA IrqEnterWakes ==
    ASSUME IInv, WInv, NEW c \in CPU, IrqEnter(c)
    PROVE  WInv'
<1>. SUFFICES ASSUME NEW me, me = T(c) PROVE WInv'
  OBVIOUS
<1>1. me \in Tid /\ th \in [Tid -> ThreadType] /\ Sound(me, th[me]) /\ th[me] \in ThreadType
  BY Here DEF IInv, Threads
<1>2. UNCHANGED <<task, pool, rq, curr, tid_cpu, next_tid, known, mq, wk, waiters, ioq>>
  BY DEF IrqEnter, shared, ids
<1>. DEFINE l == AfterInterrupt(th[me].pc)
<1>3. Goto(c, l)
  BY DEF IrqEnter, Goto
<1>4. l = th[me].pc \/ l = "scan"
  BY DEF AfterInterrupt
<1>5. CASE me \notin Workers
  <2>1. l = th[me].pc
    BY <1>1, <1>5 DEF Sound, AfterInterrupt, WorkPcs
  <2>2. th' = th
    BY <1>1, <1>3, <2>1 DEF Goto, ThreadType
  <2>. QED BY <1>2, <2>2, WakesUnmoved
<1>6. CASE me \in Workers
  <2>. HIDE DEF l
  <2>1. PICK r : Sets(me, r, l, th[me].back, th[me].obj, th[me].arg)
    BY <1>3, GoesTo
  <2>2. Locals(me, r) /\ Unhands(me, r)
    BY <1>2, <1>4, <2>1 DEF Locals, Unhands, Sets
  <2>3. th[me].pc \notin MovePcs /\ Hand(me) /\ task'[me].state = task[me].state
    <3>1. me = Worker[c]
      BY <1>6, Here
    <3>. QED BY <1>1, <1>2, <1>6, <3>1 DEF WInv, Body, Desk
  <2>4. /\ r.pc = "ub_cpu" => r.arg = tid_cpu[r.obj]
        /\ r.pc \in {"cr_add", "cr_ready", "cr_lb", "answer"} =>
                th[me].pc \in {"cr_add", "cr_ready", "cr_lb", "answer"} /\ r.obj = th[me].obj
        /\ r.pc \in {"ub_ready", "ub_add"} =>
                th[me].pc \in {"ub_ready", "ub_add"} /\ r.obj = th[me].obj
        /\ r.pc = "cr_add" => th[me].pc = "cr_add"
        /\ r.pc \in Makes => r.arg = tid_cpu[me]
        /\ r.pc = "cr_map" => r.obj \in pool'[r.arg]
    BY <1>2, <1>4, <2>1, <2>3 DEF Sets, Hand, Makes
  <2>5. /\ Serves(r) => Serves(th[me])
        /\ Made(r) => Made(th[me]) /\ r.obj = th[me].obj
        /\ r.pc \notin MovePcs /\ (Holds(r) \/ Buries(r) => Holds(th[me]) \/ Buries(th[me]))
    BY <1>4, <2>1, <2>3 DEF Sets, Serves, Made, Makes, Holds, Buries, MakePcs, WakePcs, MovePcs
  <2>. QED BY <1>2, <1>6, <2>2, <2>3, <2>4, <2>5, WorkerLocally
<1>. QED BY <1>5, <1>6

LEMMA SignalWakes ==
    ASSUME IInv, WInv, NEW c \in CPU,
           (\E n : Signal(c, n)) \/ SignalEnd(c) \/ CallReturns(c)
    PROVE  WInv'
<1>. SUFFICES ASSUME NEW me, me = T(c) PROVE WInv'
  OBVIOUS
<1>1. UNCHANGED <<task, pool, rq, curr, tid_cpu, next_tid, known, mq, wk, waiters, ioq>>
  BY DEF Signal, SignalEnd, CallReturns, shared, ids, calls
<1>2. th[me].pc \in {"run", "sig", "ret", "wait_ret", "joined"}
  BY DEF Signal, SignalEnd, CallReturns, Calling, At
<1>3. me \notin Workers /\ me \in Tid
  BY <1>2, InCall, Here DEF CallPcs, Backs
<1>4. PICK r, l, obj, arg : l \in {"run", "sig"} /\ Sets(me, r, l, "run", obj, arg)
  <2>1. CASE \E n : Signal(c, n)
    <3>1. PICK n : Enter(c, "sig", FALSE, "run", n)
      BY <2>1 DEF Signal
    <3>2. \E r : Sets(me, r, "sig", "run", n, th[me].arg)
      BY <3>1, EntersAt
    <3>. QED BY <3>2
  <2>2. CASE SignalEnd(c) \/ CallReturns(c)
    BY <2>2, ReturnsAt DEF SignalEnd, CallReturns
  <2>. QED BY <2>1, <2>2
<1>5. Locals(me, r) /\ Unhands(me, r)
  BY <1>1, <1>4 DEF Locals, Unhands, Sets
<1>6. Track(me)'
  BY <1>4 DEF Sets, Track, Awaits, Goal, Blk, WakePcs, MakePcs
<1>. QED BY <1>1, <1>2, <1>3, <1>4, <1>5, <1>6, ClientLocally DEF Sets, Blk, Makes

\* The target of a join that the map has forgotten is dead.
LEMMA ForgottenIsDead ==
    ASSUME IInv, WInv, NEW t \in Tid, t \in known, tid_cpu[t] = None
    PROVE  th[t].pc = "dead"
<1>1. Fate(t)
  BY DEF WInv, Body
<1>2. \A d \in CPU : t \notin pool[d]
  BY AtHome, SchedAssumption DEF SchedAssumption
<1>. QED BY <1>1, <1>2 DEF Fate

LEMMA SleepWakes ==
    ASSUME IInv, WInv, NEW c \in CPU, Sleep(c)
    PROVE  WInv'
<1>. SUFFICES ASSUME NEW me, me = T(c) PROVE WInv'
  OBVIOUS
<1>1. /\ UNCHANGED <<pool, rq, curr, tid_cpu, next_tid, known, mq, wk, waiters, ioq>>
      /\ task' = [task EXCEPT ![me].state = "Sleeping"] /\ th[me].pc = "run"
  BY DEF Sleep, FallAsleep, shared, ids, calls, Calling, At
<1>2. me \notin Workers /\ me \in Tid /\ task \in [Tid -> TaskType]
  BY <1>1, InCall, Here DEF CallPcs, Backs, IInv, Tasks
<1>3. PICK r : Sets(me, r, "slp_int", "ret", 0, th[me].arg)
  BY EntersAt DEF Sleep
<1>4. /\ \A t \in Tid : /\ task'[t].joiners = task[t].joiners /\ task'[t].blocked = task[t].blocked
                        /\ task'[t].ret = task[t].ret
                        /\ t # me => task'[t] = task[t]
      /\ task'[me].state = "Sleeping"
  BY <1>1, <1>2 DEF TaskType
<1>5. Locals(me, r) /\ Unhands(me, r)
  BY <1>1, <1>3, <1>4 DEF Locals, Unhands, Sets
<1>6. Track(me)'
  BY <1>3 DEF Sets, Track, Awaits, Goal, Blk, WakePcs, MakePcs
<1>. QED BY <1>1, <1>2, <1>3, <1>4, <1>5, <1>6, ClientLocally DEF Sets, Blk, Makes

LEMMA JoinWakes ==
    ASSUME IInv, WInv, NEW c \in CPU, NEW t \in Tid, Join(c, t)
    PROVE  WInv'
<1>. SUFFICES ASSUME NEW me, me = T(c) PROVE WInv'
  OBVIOUS
<1>1. /\ UNCHANGED <<task, pool, rq, curr, tid_cpu, next_tid, known, mq, wk, waiters, ioq>>
      /\ th[me].pc = "run" /\ t \in known /\ t # me
  BY DEF Join, shared, ids, calls, Calling, At
<1>2. me \notin Workers /\ me \in Tid
  BY <1>1, InCall, Here DEF CallPcs, Backs
<1>. DEFINE l == IF tid_cpu[t] = None THEN "joined"
                 ELSE IF tid_cpu[t] = c THEN "join_pool" ELSE "join_ask"
<1>3. PICK r : Sets(me, r, l, "joined", t, tid_cpu[t])
  <2>. DEFINE s == th[me]
              n == s.left - 1
              r == [s EXCEPT !.pc = l, !.ie = Gate(c), !.back = "joined", !.obj = t,
                             !.arg = tid_cpu[t], !.left = n]
  <2>1. th \in [Tid -> ThreadType] /\ s \in ThreadType
    BY <1>2 DEF IInv, Threads
  <2>2. th' = [th EXCEPT ![me] = r]
    BY DEF Join
  <2>. HIDE DEF s, n, l
  <2>3. r.pc = l /\ r.back = "joined" /\ r.obj = t /\ r.arg = tid_cpu[t]
    BY <2>1 DEF ThreadType
  <2>. HIDE DEF r
  <2>4. th'[me] = r
    BY <1>2, <2>1, <2>2
  <2>. QED BY <2>2, <2>3, <2>4 DEF Sets
<1>4. t \in known /\ tid_cpu[t] \in Place /\ tid_cpu[me] = c
  <2>1. tid_cpu[me] = c
    BY <1>2, Resting
  <2>. QED BY <1>1, <2>1 DEF IInv, Pools
<1>5. l = "joined" => th[t].pc = "dead"
  BY <1>4, ForgottenIsDead
<1>6. /\ l \in {"joined", "join_pool", "join_ask"}
      /\ l = "join_pool" => tid_cpu[t] = c
      /\ l = "join_ask" => tid_cpu[t] \in CPU /\ tid_cpu[t] # c
  BY <1>4 DEF Place
<1>. HIDE DEF l
<1>7. Locals(me, r) /\ Unhands(me, r)
  BY <1>1, <1>3, <1>6 DEF Locals, Unhands, Sets
<1>8. Track(me)'
  BY <1>1, <1>3, <1>4, <1>6 DEF Sets, Track, Awaits, Goal, Blk, WakePcs, MakePcs
<1>. QED BY <1>1, <1>2, <1>3, <1>5, <1>6, <1>7, <1>8, ClientLocally DEF Sets, Blk, Makes

LEMMA JoinPollWakes ==
    ASSUME IInv, WInv, NEW c \in CPU, JoinPoll(c)
    PROVE  WInv'
<1>. SUFFICES ASSUME NEW me, me = T(c) PROVE WInv'
  OBVIOUS
<1>. DEFINE t == th[me].obj
<1>1. /\ UNCHANGED <<pool, rq, curr, tid_cpu, next_tid, known, mq, wk, waiters, ioq>>
      /\ th[me].pc = "join_poll"
  BY DEF JoinPoll, shared, ids, calls, At
<1>2. me \notin Workers /\ me \in Tid /\ task \in [Tid -> TaskType] /\ th \in [Tid -> ThreadType]
  BY <1>1, InCall, Here DEF CallPcs, Backs, IInv, Tasks, Threads
<1>3. Track(me)
  BY <1>2 DEF WInv, Body
<1>4. t \in Tid /\ t \in known /\ th[me].back # "wait_ret"
  BY <1>1, <1>3, NumbersSettled DEF Track, Awaits, Goal, Blk
<1>5. CASE tid_cpu[t] = None
  <2>1. Goto(c, "joined") /\ UNCHANGED task
    BY <1>5 DEF JoinPoll
  <2>2. PICK r : Sets(me, r, "joined", th[me].back, t, th[me].arg)
    BY <2>1, GoesTo
  <2>3. th[t].pc = "dead"
    BY <1>4, <1>5, ForgottenIsDead
  <2>4. Locals(me, r) /\ Unhands(me, r)
    BY <1>1, <2>1, <2>2 DEF Locals, Unhands, Sets
  <2>5. Track(me)'
    BY <1>1, <1>4, <2>2 DEF Sets, Track, Awaits, Goal, Blk, WakePcs, MakePcs
  <2>6. t # me
    BY <1>1, <2>3
  <2>. QED BY <1>1, <1>2, <2>1, <2>2, <2>3, <2>4, <2>5, <2>6, ClientLocally DEF Sets, Blk, Makes
<1>6. CASE tid_cpu[t] # None
  <2>1. /\ task' = [task EXCEPT ![me].state = "Sleeping"]
        /\ th' = [th EXCEPT ![me].pc = "slp_int", ![me].back = "join_poll"]
    BY <1>6 DEF JoinPoll, FallAsleep
  <2>2. PICK r : Sets(me, r, "slp_int", "join_poll", t, th[me].arg)
    <3>. DEFINE s == th[me]
                r == [s EXCEPT !.pc = "slp_int", !.back = "join_poll"]
    <3>1. s \in ThreadType
      BY <1>2
    <3>2. th' = [th EXCEPT ![me] = r]
      BY <1>2, <2>1 DEF ThreadType
    <3>. HIDE DEF s
    <3>3. r.pc = "slp_int" /\ r.back = "join_poll" /\ r.obj = s.obj /\ r.arg = s.arg
      BY <3>1 DEF ThreadType
    <3>. HIDE DEF r
    <3>4. th'[me] = r
      BY <1>2, <3>2
    <3>. QED BY <3>2, <3>3, <3>4 DEF Sets, s
  <2>3. /\ \A u \in Tid : /\ task'[u].joiners = task[u].joiners /\ task'[u].blocked = task[u].blocked
                          /\ task'[u].ret = task[u].ret
                          /\ u # me => task'[u] = task[u]
        /\ task'[me].state = "Sleeping"
    BY <1>2, <2>1 DEF TaskType
  <2>4. Locals(me, r) /\ Unhands(me, r)
    BY <1>1, <2>2, <2>3 DEF Locals, Unhands, Sets
  <2>5. Track(me)'
    BY <1>1, <1>4, <2>2 DEF Sets, Track, Awaits, Goal, Blk, WakePcs, MakePcs
  <2>. QED BY <1>1, <1>2, <2>2, <2>3, <2>4, <2>5, ClientLocally DEF Sets, Blk, Makes
<1>. QED BY <1>5, <1>6

\* An unblock or a creation goes on, by a client or by the worker.
LEMMA HelperGoesOn ==
    ASSUME IInv, WInv, NEW c \in CPU, NEW me, me = T(c), NEW r,
           Locals(me, r), UNCHANGED wk, task'[me].state \in {task[me].state, "Ready"},
           th'[me] = r, r.back = th[me].back, r.obj = th[me].obj,
           \/ th[me].pc \in WakePcs /\ r.pc \in {"ub_cpu", "ub_add", th[me].back}
           \/ /\ th[me].pc \in {"cr_ready", "cr_lb"} /\ r.arg = th[me].arg
              /\ r.pc \in {"cr_lb", th[me].back},
           r.pc = "ub_cpu" => th[me].pc = "ub_map" /\ r.arg = tid_cpu[r.obj],
           r.pc = "ub_add" => th[me].pc = "ub_ready"
    PROVE  WInv'
<1>1. me \in Tid /\ Sound(me, th[me]) /\ Hand(me)
  BY Here DEF WInv, Body
<1>2. Unhands(me, r)
  BY <1>1 DEF Unhands, Sound, WakePcs, MakePcs, Backs
<1>3. CASE me \in Workers
  <2>1. th[me].back \in {"ipm", "drop", "answer"}
        /\ (th[me].pc \in WakePcs => th[me].back \in {"ipm", "drop"})
        /\ (th[me].pc \in {"cr_ready", "cr_lb"} => th[me].back = "answer")
    BY <1>1, <1>3 DEF Sound, MakePcs
  <2>2. /\ Serves(r) => Serves(th[me])
        /\ Made(r) => Made(th[me]) /\ r.obj = th[me].obj
        /\ r.pc \in Makes => r.arg = tid_cpu[me]
    BY <1>1, <2>1 DEF Serves, Made, Makes, MakePcs, WakePcs, Hand
  <2>3. r.pc \notin MovePcs /\ (Holds(r) \/ Buries(r) => Holds(th[me]) \/ Buries(th[me]))
    BY <2>1 DEF Holds, Buries, MakePcs, WakePcs, MovePcs
  <2>4. /\ r.pc \in {"cr_add", "cr_ready", "cr_lb", "answer"} =>
                th[me].pc \in {"cr_add", "cr_ready", "cr_lb", "answer"} /\ r.obj = th[me].obj
        /\ r.pc \in {"ub_ready", "ub_add"} =>
                th[me].pc \in {"ub_ready", "ub_add"} /\ r.obj = th[me].obj
        /\ r.pc = "cr_add" => th[me].pc = "cr_add"
        /\ r.pc # "cr_map"
    BY <2>1 DEF MakePcs, WakePcs
  <2>. QED BY <1>1, <1>2, <1>3, <2>2, <2>3, <2>4, WorkerLocally
<1>4. CASE me \notin Workers
  <2>1. th[me].back = "ret"
    <3>1. Track(me)
      BY <1>1, <1>4 DEF WInv, Body
    <3>. QED BY <3>1 DEF Track, MakePcs
  <2>2. Track(me)'
    BY <2>1 DEF Track, Awaits, Goal, Blk, WakePcs, MakePcs
  <2>3. /\ r.pc \in {"cr_add", "cr_ready", "cr_lb", "answer"} =>
                th[me].pc \in {"cr_add", "cr_ready", "cr_lb", "answer"} /\ r.obj = th[me].obj
        /\ r.pc \in {"ub_ready", "ub_add"} =>
                th[me].pc \in {"ub_ready", "ub_add"} /\ r.obj = th[me].obj
        /\ r.pc = "cr_add" => th[me].pc = "cr_add"
        /\ r.pc \notin Blk \cup {"spawn_ret", "join_ans", "dead", "joined"}
        /\ th[me].pc \notin Blk \cup {"spawn_ret", "join_ans", "slp_int"}
        /\ r.pc \in Makes => r.arg = tid_cpu[me]
        /\ r.pc # "cr_map"
    BY <1>1, <2>1 DEF MakePcs, WakePcs, Blk, Makes, Hand
  <2>. QED BY <1>1, <1>2, <1>4, <2>2, <2>3, ClientLocally
<1>. QED BY <1>3, <1>4

LEMMA UnblockMapWakes ==
    ASSUME IInv, WInv, NEW c \in CPU, UnblockMap(c)
    PROVE  WInv'
<1>. SUFFICES ASSUME NEW me, me = T(c) PROVE WInv'
  OBVIOUS
<1>. DEFINE s == th[me]
            l == IF tid_cpu[s.obj] = None THEN s.back ELSE "ub_cpu"
            at == tid_cpu[s.obj]
            r == [s EXCEPT !.pc = l, !.arg = at]
<1>1. /\ UNCHANGED <<task, pool, rq, curr, tid_cpu, next_tid, known, mq, wk, waiters, ioq>>
      /\ s.pc = "ub_map"
  BY DEF UnblockMap, shared, ids, calls, At
<1>2. me \in Tid /\ th \in [Tid -> ThreadType] /\ s \in ThreadType
  BY Here DEF IInv, Threads
<1>3. th' = [th EXCEPT ![me] = r]
  BY <1>2 DEF UnblockMap, ThreadType
<1>4. l = s.back \/ l = "ub_cpu"
  OBVIOUS
<1>. HIDE DEF l, s
<1>5. r.pc = l /\ r.back = s.back /\ r.obj = s.obj /\ r.arg = tid_cpu[s.obj]
  BY <1>2 DEF ThreadType
<1>. HIDE DEF r
<1>6. th'[me] = r
  BY <1>2, <1>3
<1>7. Locals(me, r)
  BY <1>1, <1>3 DEF Locals
<1>8. r.pc = "ub_cpu" => r.arg = tid_cpu[r.obj]
  BY <1>5
<1>9. r.pc # "ub_add"
  <2>1. s.back # "ub_add"
    BY <1>1, <1>2, Here DEF Sound, s, WakePcs, Backs
  <2>. QED BY <1>4, <1>5, <2>1
<1>. QED BY <1>1, <1>4, <1>5, <1>6, <1>7, <1>8, <1>9, HelperGoesOn DEF s, WakePcs

LEMMA UnblockReadyWakes ==
    ASSUME IInv, WInv, NEW c \in CPU, UnblockReady(c)
    PROVE  WInv'
<1>. SUFFICES ASSUME NEW me, me = T(c) PROVE WInv'
  OBVIOUS
<1>1. /\ UNCHANGED <<pool, rq, curr, tid_cpu, next_tid, known, mq, wk, waiters, ioq>>
      /\ th[me].pc = "ub_ready" /\ task' = [task EXCEPT ![th[me].obj].state = "Ready"]
      /\ Goto(c, "ub_add")
  BY DEF UnblockReady, shared, ids, calls, At
<1>2. me \in Tid /\ task \in [Tid -> TaskType]
  BY Here DEF IInv, Tasks
<1>3. PICK r : Sets(me, r, "ub_add", th[me].back, th[me].obj, th[me].arg)
  BY <1>1, GoesTo
<1>4. \A t \in Tid : /\ task'[t].joiners = task[t].joiners /\ task'[t].blocked = task[t].blocked
                     /\ task'[t].ret = task[t].ret /\ task'[t].state \in {task[t].state, "Ready"}
  BY <1>1, <1>2 DEF TaskType
<1>5. Locals(me, r)
  BY <1>1, <1>3, <1>4 DEF Locals, Sets
<1>. QED BY <1>1, <1>2, <1>3, <1>4, <1>5, HelperGoesOn DEF Sets, WakePcs

LEMMA CreateReadyWakes ==
    ASSUME IInv, WInv, NEW c \in CPU, CreateReady(c) \/ CreateCount(c), fault' = "none"
    PROVE  WInv'
<1>. SUFFICES ASSUME NEW me, me = T(c) PROVE WInv'
  OBVIOUS
<1>2. me \in Tid /\ task \in [Tid -> TaskType]
  BY Here DEF IInv, Tasks
<1>3. /\ UNCHANGED <<pool, rq, curr, tid_cpu, next_tid, known, mq, wk, waiters, ioq>>
      /\ \/ th[me].pc = "cr_ready" /\ task' = [task EXCEPT ![th[me].obj].state = "Ready"]
               /\ Goto(c, "cr_lb")
         \/ th[me].pc = "cr_lb" /\ task' = task /\ Goto(c, th[me].back)
  BY DEF CreateReady, CreateCount, shared, ids, calls, At, Fault
<1>4. PICK l : l \in {"cr_lb", th[me].back} /\ Goto(c, l)
  BY <1>3
<1>5. PICK r : Sets(me, r, l, th[me].back, th[me].obj, th[me].arg)
  BY <1>4, GoesTo
<1>6. \A t \in Tid : /\ task'[t].joiners = task[t].joiners /\ task'[t].blocked = task[t].blocked
                     /\ task'[t].ret = task[t].ret /\ task'[t].state \in {task[t].state, "Ready"}
  <2>1. CASE task' = [task EXCEPT ![th[me].obj].state = "Ready"]
    BY <1>2, <2>1 DEF TaskType
  <2>2. CASE task' = task
    BY <2>2
  <2>. QED BY <1>3, <2>1, <2>2
<1>7. Locals(me, r)
  BY <1>3, <1>5, <1>6 DEF Locals, Sets
<1>8. r.pc \notin {"ub_cpu", "ub_add"} /\ th[me].pc \in {"cr_ready", "cr_lb"}
  <2>1. th[me].back \notin {"ub_cpu", "ub_add"} /\ th[me].pc \in {"cr_ready", "cr_lb"}
    BY <1>2, <1>3, Here DEF Sound, MakePcs, Backs
  <2>. QED BY <1>4, <1>5, <2>1 DEF Sets
<1>. QED BY <1>2, <1>3, <1>4, <1>5, <1>6, <1>7, <1>8, HelperGoesOn DEF Sets

LEMMA SpawnHereWakes ==
    ASSUME IInv, WInv, NEW c \in CPU, Spawn(c, c)
    PROVE  WInv'
<1>. SUFFICES ASSUME NEW me, me = T(c) PROVE WInv'
  OBVIOUS
<1>1. /\ UNCHANGED <<task, pool, rq, curr, tid_cpu, next_tid, known, mq, wk, waiters, ioq>>
      /\ th[me].pc = "run"
  BY DEF Spawn, shared, ids, calls, Calling, At
<1>2. me \notin Workers /\ me \in Tid
  BY <1>1, InCall, Here DEF CallPcs, Backs
<1>3. PICK r : Sets(me, r, "cr_new", "ret", 0, th[me].arg)
  BY EntersAt DEF Spawn
<1>4. Locals(me, r) /\ Unhands(me, r)
  BY <1>1, <1>3 DEF Locals, Unhands, Sets
<1>5. Track(me)'
  BY <1>3 DEF Sets, Track, Awaits, Goal, Blk, WakePcs, MakePcs
<1>. QED BY <1>1, <1>2, <1>3, <1>4, <1>5, ClientLocally DEF Sets, Blk, Makes

\* The worker's own steps.
LEMMA ScanWakes ==
    ASSUME IInv, WInv, NEW c \in CPU, Scan(c)
    PROVE  WInv'
<1>. SUFFICES ASSUME NEW me, me = T(c) PROVE WInv'
  OBVIOUS
<1>. DEFINE dead   == {t \in pool[c] : task[t].state = "Terminating"}
            moving == {t \in pool[c] : task[t].state = "Migrating"}
            v == IF dead # {} THEN Min(dead) ELSE IF moving # {} THEN Max(moving) ELSE 0
            l == IF dead # {} THEN "remove" ELSE IF moving # {} THEN "move_out" ELSE "fetch"
            w == [wk[c] EXCEPT !.victim = v]
<1>1. /\ UNCHANGED <<task, pool, rq, curr, tid_cpu, next_tid, known, mq, waiters, ioq>>
      /\ th[me].pc = "scan" /\ Goto(c, l) /\ wk' = [wk EXCEPT ![c] = w]
  BY DEF Scan, shared, ids, calls, At
<1>2. me = Worker[c] /\ me \in Workers /\ me \in Tid /\ wk \in [CPU -> WorkType]
      /\ th \in [Tid -> ThreadType]
  BY <1>1, Here DEF WorkPcs, IInv, Moves, Threads
<1>3. moving = {}
  <2>1. ASSUME NEW t \in pool[c] PROVE task[t].state # "Migrating"
    BY DEF IInv, Pools, WInv, Body, Fate
  <2>. QED BY <2>1
<1>4. dead # {} => v \in Tid /\ th[v].pc = "dead" /\ v # me
  <2>1. dead \in SUBSET Nat
    BY SchedAssumption DEF IInv, Pools, Tid, SchedAssumption
  <2>2. dead # {} => v \in dead
    <3>. HIDE DEF dead
    <3>. QED BY <2>1, LeastOf
  <2>3. dead # {} => v \in Tid /\ task[v].state = "Terminating"
    BY <2>2 DEF IInv, Pools
  <2>. QED BY <1>1, <2>3 DEF WInv, Body, Fate
<1>5. l = IF dead # {} THEN "remove" ELSE "fetch"
  BY <1>3
<1>. HIDE DEF dead, moving, v
<1>6. w.victim = v /\ w.inbox = wk[c].inbox /\ w.todo = wk[c].todo
  BY <1>2 DEF WorkType
<1>. HIDE DEF w
<1>7. /\ \A d \in CPU : wk'[d].todo = wk[d].todo /\ wk'[d].inbox = wk[d].inbox
      /\ wk'[c].victim = v /\ \A d \in CPU \ {c} : wk'[d] = wk[d]
  BY <1>1, <1>2, <1>6
<1>8. l \in {"remove", "fetch"} /\ (l = "remove" => dead # {})
  BY <1>5
<1>. HIDE DEF l
<1>9. PICK r : Sets(me, r, l, th[me].back, th[me].obj, th[me].arg)
  BY <1>1, GoesTo
<1>10. Locals(me, r) /\ Unhands(me, r)
  BY <1>1, <1>7, <1>8, <1>9 DEF Locals, Unhands, Sets
<1>11. ASSUME NEW d \in CPU PROVE Desk(d)'
  <2>1. CASE d = c
    <3>1. th'[Worker[d]] = r /\ (v \in Tid /\ v # me => th'[v] = th[v])
      BY <1>2, <1>9, <2>1 DEF Sets
    <3>. QED BY <1>4, <1>7, <1>8, <1>9, <2>1, <3>1
             DEF Desk, Sets, Serves, Made, Makes, MovePcs, Holds, Buries, MakePcs, WakePcs
  <2>2. CASE d # c
    <3>1. Worker[d] # me /\ wk'[d] = wk[d] /\ th' = [th EXCEPT ![me] = r]
      BY <1>2, <1>7, <1>9, <2>2, SchedAssumption DEF SchedAssumption, Sets
    <3>. QED BY <1>1, <1>2, <3>1, DeskOfOther
  <2>. QED BY <2>1, <2>2
<1>12. Treads(me, r) /\ Spares(me) /\ Thins /\ Stays
  BY <1>10, Locally
<1>. QED BY <1>1, <1>2, <1>8, <1>9, <1>10, <1>11, <1>12, WorkerGoesOn DEF Sets, Makes

LEMMA DoCreateTaskWakes ==
    ASSUME IInv, WInv, NEW c \in CPU, DoCreateTask(c) \/ Halt(c)
    PROVE  WInv'
<1>. SUFFICES ASSUME NEW me, me = T(c) PROVE WInv'
  OBVIOUS
<1>1. /\ UNCHANGED <<task, pool, rq, curr, tid_cpu, next_tid, known, mq, wk, waiters, ioq>>
      /\ th[me].pc = "ipm"
  BY DEF DoCreateTask, Halt, Next_ipm, shared, ids, calls, At
<1>2. me = Worker[c] /\ me \in Workers /\ me \in Tid /\ th \in [Tid -> ThreadType]
  BY <1>1, Here DEF WorkPcs, IInv, Threads
<1>3. PICK r : /\ th' = [th EXCEPT ![me] = r] /\ th'[me] = r
               /\ \/ r.pc = "cr_new" /\ Head(wk[c].inbox).kind = "CreateTask"
                  \/ r.pc = "halt" /\ r.back = "run"
  <2>1. CASE DoCreateTask(c)
    <3>. DEFINE s == th[me]
                r == [s EXCEPT !.pc = "cr_new", !.back = "answer"]
    <3>1. s \in ThreadType
      BY <1>2
    <3>2. th' = [th EXCEPT ![me] = r]
      BY <1>2, <2>1 DEF DoCreateTask, ThreadType
    <3>. HIDE DEF s
    <3>3. r.pc = "cr_new"
      BY <3>1 DEF ThreadType
    <3>. HIDE DEF r
    <3>4. th'[me] = r
      BY <1>2, <3>2
    <3>. QED BY <2>1, <3>2, <3>3, <3>4 DEF DoCreateTask, Next_ipm
  <2>2. CASE Halt(c)
    <3>. DEFINE r == [Thread0 EXCEPT !.pc = "halt"]
    <3>1. th' = [th EXCEPT ![me] = r]
      BY <2>2 DEF Halt
    <3>2. r.pc = "halt" /\ r.back = "run"
      BY DEF Thread0
    <3>. HIDE DEF r
    <3>3. th'[me] = r
      BY <1>2, <3>1
    <3>. QED BY <3>1, <3>2, <3>3
  <2>. QED BY <2>1, <2>2
<1>4. Locals(me, r) /\ Unhands(me, r)
  BY <1>1, <1>3 DEF Locals, Unhands
<1>5. ASSUME NEW d \in CPU PROVE Desk(d)'
  <2>1. CASE d = c
    BY <1>1, <1>2, <1>3, <2>1
       DEF Desk, Serves, Made, Makes, MovePcs, Holds, Buries, MakePcs, WakePcs
  <2>2. CASE d # c
    <3>1. Worker[d] # me
      BY <1>2, <2>2, SchedAssumption DEF SchedAssumption
    <3>. QED BY <1>1, <1>2, <1>3, <3>1, DeskOfOther
  <2>. QED BY <2>1, <2>2
<1>6. Treads(me, r) /\ Spares(me) /\ Thins /\ Stays
  BY <1>4, Locally
<1>. QED BY <1>1, <1>2, <1>3, <1>4, <1>5, <1>6, WorkerGoesOn DEF Makes

-----------------------------------------------------------------------------
(* block_task, terminate_task and the answers                              *)

\* The running task that blocks is neither asleep nor dead, and nobody brings
\* it back to the queue once its unblock is all it waits for.
LEMMA Blocking ==
    ASSUME IInv, WInv, NEW c \in CPU, NEW me, me = T(c), th[me].pc \in Blk
    PROVE  /\ me \notin Workers /\ me \in Tid /\ me \in pool[c] /\ curr[c] = me
           /\ task \in [Tid -> TaskType] /\ th \in [Tid -> ThreadType]
           /\ task[me].state \notin {"Sleeping", "Terminating", "Migrating"}
           /\ ~Coming(me) /\ th[me].back \in Rets
           /\ Readying(me) => th[me].pc # "blk_add" /\ Due(me) # 1
           /\ \A d \in CPU : (me \in Range(rq[d]) \/ curr[d] = me) => d = c
           /\ th[me].pc = "blk_int" /\ (Due(me) = 1 \/ Readying(me)) =>
                \A d \in CPU : me \notin Range(rq[d])
<1>1. me \notin Workers
  BY InCall DEF Blk, CallPcs
<1>2. me \in Tid /\ me \in pool[c] /\ curr[c] = me
  BY Here DEF T
<1>3. Nap(me) /\ Fate(me) /\ Track(me) /\ Brought(me) /\ Parked(me)
  BY <1>1, <1>2 DEF WInv, Body
<1>4. task[me].state \notin {"Sleeping", "Terminating", "Migrating"}
  BY <1>3 DEF Nap, Fate, Blk
<1>5. ~Coming(me)
  BY <1>1, Resting
<1>6. \A d \in CPU : (me \in Range(rq[d]) \/ curr[d] = me) => d = c
  <2>1. tid_cpu[me] = c /\ me \in known
    BY <1>1, Resting
  <2>2. \A d \in CPU : me \in Range(rq[d]) => tid_cpu[me] = d
    BY DEF WInv, Body, Row
  <2>3. \A d \in CPU : curr[d] = me => tid_cpu[me] = d
    BY <2>1, AtHome DEF IInv, Current
  <2>. QED BY <2>1, <2>2, <2>3
<1>7. th[me].back \in Rets
  BY <1>3 DEF Track
<1>8. Readying(me) => th[me].pc # "blk_add" /\ Due(me) # 1
  BY <1>3 DEF Brought, Blk, Rets
<1>9. th[me].pc = "blk_int" /\ (Due(me) = 1 \/ Readying(me)) =>
                \A d \in CPU : me \notin Range(rq[d])
  BY <1>3 DEF Parked, Off
<1>10. task \in [Tid -> TaskType] /\ th \in [Tid -> ThreadType]
  BY DEF IInv, Tasks, Threads
<1>. QED BY <1>1, <1>2, <1>4, <1>5, <1>6, <1>7, <1>8, <1>9, <1>10

LEMMA BlockAddWakes ==
    ASSUME IInv, WInv, NEW c \in CPU, BlockAdd(c)
    PROVE  WInv'
<1>. SUFFICES ASSUME NEW me, me = T(c) PROVE WInv'
  OBVIOUS
<1>. DEFINE s == th[me]
            n == task[me].blocked
            l == IF n # 0 THEN s.back ELSE "blk_state"
            r == [s EXCEPT !.pc = l]
            w == [task[me] EXCEPT !.blocked = @ + 1]
<1>1. /\ UNCHANGED <<pool, rq, curr, tid_cpu, next_tid, known, mq, wk, waiters, ioq>>
      /\ th[me].pc = "blk_add" /\ task' = [task EXCEPT ![me] = w]
      /\ th' = [th EXCEPT ![me] = r]
  BY DEF BlockAdd, EarlyUnblock, shared, ids, calls, At
<1>2. th[me].pc \in Blk
  BY <1>1 DEF Blk
<1>3. /\ me \notin Workers /\ me \in Tid /\ task \in [Tid -> TaskType] /\ th \in [Tid -> ThreadType]
      /\ task[me].state \notin {"Sleeping", "Terminating", "Migrating"}
      /\ ~Coming(me) /\ ~Readying(me) /\ th[me].back \in Rets
  BY <1>1, <1>2, Blocking
<1>4. n \in Int
  BY <1>3 DEF TaskType
<1>5. w.blocked = n + 1 /\ w.ret = task[me].ret /\ w.joiners = task[me].joiners /\ w.state = task[me].state
  BY <1>3 DEF TaskType
<1>6. r.pc = l /\ r.back = s.back /\ r.obj = s.obj
  BY <1>3 DEF ThreadType
<1>. HIDE DEF w, r
<1>7. task'[me] = w /\ th'[me] = r /\ \A t \in Tid \ {me} : task'[t] = task[t] /\ th'[t] = th[t]
  BY <1>1, <1>3
<1>8. Due(me)' = n + 1 /\ Due(me) = n + 1 /\ r.pc # "blk_add"
  <2>1. r.pc # "blk_add"
    BY <1>3, <1>6 DEF Rets
  <2>2. Due(me) = n + 1
    BY <1>1 DEF Due, Owed
  <2>3. Due(me)' = n + 1
    BY <1>4, <1>5, <1>7, <2>1 DEF Due, Owed
  <2>. QED BY <2>1, <2>2, <2>3
<1>9. Parked(me)'
  <2>1. r.pc # "dead" /\ r.pc # "blk_int"
    BY <1>3, <1>6 DEF Rets
  <2>2. ~Coming(me)' /\ ~Readying(me)'
    <3>1. r.pc \notin {"ub_ready", "ub_add", "cr_add"}
      BY <1>3, <1>6 DEF Rets
    <3>. QED BY <1>3, <1>7, <3>1 DEF Coming, Readying
  <2>3. r.pc \in Rets => n + 1 # 1
    BY <1>4, <1>6 DEF Rets
  <2>4. ~Off(me)'
    BY <1>7, <1>8, <2>1, <2>2, <2>3 DEF Off
  <2>. QED BY <2>4 DEF Parked
<1>10. Treads(me, r)
  BY <1>1 DEF Treads, IInv, Numbers
<1>11. Spares(me)
  BY <1>7 DEF Spares
<1>12. Thins
  BY <1>1 DEF Thins
<1>13. Stays /\ \A t \in Tid : task'[t].ret = task[t].ret
  <2>1. \A t \in Tid : task'[t].joiners = task[t].joiners /\ task'[t].ret = task[t].ret
    BY <1>5, <1>7
  <2>. QED BY <1>1, <2>1 DEF Stays
<1>14. r.pc \in Blk \ {"blk_add"} \/ r.pc = th[me].back
  BY <1>6 DEF Blk
<1>15. task'[me].state \notin {"Sleeping", "Terminating", "Migrating"}
  BY <1>3, <1>5, <1>7
<1>16. Due(me)' = Due(me)
  BY <1>8
<1>17. \A d \in CPU : wk'[d].victim = wk[d].victim
  BY <1>1
<1>. HIDE DEF l, n
<1>. QED BY <1>2, <1>3, <1>6, <1>9, <1>10, <1>11, <1>12, <1>13, <1>14, <1>15, <1>16, <1>17, ClientWaits

LEMMA BlockStateWakes ==
    ASSUME IInv, WInv, NEW c \in CPU, BlockState(c)
    PROVE  WInv'
<1>. SUFFICES ASSUME NEW me, me = T(c) PROVE WInv'
  OBVIOUS
<1>. DEFINE w == [task[me] EXCEPT !.state = IF @ = "Migrating" THEN @ ELSE "Blocked"]
<1>1. /\ UNCHANGED <<pool, rq, curr, tid_cpu, next_tid, known, mq, wk, waiters, ioq>>
      /\ th[me].pc = "blk_state" /\ task' = [task EXCEPT ![me] = w]
      /\ Goto(c, "blk_rem")
  BY DEF BlockState, shared, ids, calls, At
<1>2. th[me].pc \in Blk
  BY <1>1 DEF Blk
<1>3. /\ me \notin Workers /\ me \in Tid /\ task \in [Tid -> TaskType] /\ th \in [Tid -> ThreadType]
      /\ task[me].state \notin {"Sleeping", "Terminating", "Migrating"}
      /\ ~Coming(me)
  BY <1>1, <1>2, Blocking
<1>4. w.blocked = task[me].blocked /\ w.ret = task[me].ret /\ w.joiners = task[me].joiners
      /\ w.state = "Blocked"
  BY <1>3 DEF TaskType
<1>. HIDE DEF w
<1>5. task'[me] = w /\ \A t \in Tid \ {me} : task'[t] = task[t]
  BY <1>1, <1>3
<1>6. PICK r : Sets(me, r, "blk_rem", th[me].back, th[me].obj, th[me].arg)
  BY <1>1, GoesTo
<1>7. Due(me)' = Due(me)
  BY <1>1, <1>4, <1>5, <1>6 DEF Due, Owed, Sets
<1>8. Parked(me)'
  <2>1. ~Coming(me)'
    BY <1>3, <1>6 DEF Coming, Sets
  <2>2. ~Off(me)'
    BY <1>6, <2>1 DEF Off, Sets, Rets
  <2>. QED BY <2>2 DEF Parked
<1>9. Treads(me, r)
  BY <1>1, <1>6 DEF Treads, Sets, IInv, Numbers
<1>10. Spares(me)
  BY <1>5 DEF Spares
<1>11. Thins
  BY <1>1 DEF Thins
<1>12. Stays /\ \A t \in Tid : task'[t].ret = task[t].ret
  <2>1. \A t \in Tid : task'[t].joiners = task[t].joiners /\ task'[t].ret = task[t].ret
    BY <1>4, <1>5
  <2>. QED BY <1>1, <2>1 DEF Stays
<1>13. task'[me].state \notin {"Sleeping", "Terminating", "Migrating"}
  BY <1>4, <1>5
<1>14. r.pc \in Blk \ {"blk_add"} /\ r.back = th[me].back /\ r.obj = th[me].obj
  BY <1>6 DEF Sets, Blk
<1>15. \A d \in CPU : wk'[d].victim = wk[d].victim
  BY <1>1
<1>. QED BY <1>2, <1>3, <1>7, <1>8, <1>9, <1>10, <1>11, <1>12, <1>13, <1>14, <1>15, ClientWaits

LEMMA BlockRemWakes ==
    ASSUME IInv, WInv, NEW c \in CPU, BlockRem(c)
    PROVE  WInv'
<1>. SUFFICES ASSUME NEW me, me = T(c) PROVE WInv'
  OBVIOUS
<1>. DEFINE q == RemTask(rq[c], me)
<1>1. /\ UNCHANGED <<task, pool, curr, tid_cpu, next_tid, known, mq, wk, waiters, ioq>>
      /\ th[me].pc = "blk_rem" /\ Goto(c, "blk_int") /\ rq' = [rq EXCEPT ![c] = q]
  BY DEF BlockRem, shared, ids, calls, At
<1>2. th[me].pc \in Blk
  BY <1>1 DEF Blk
<1>3. /\ me \notin Workers /\ me \in Tid
      /\ task[me].state \notin {"Sleeping", "Terminating", "Migrating"}
      /\ \A d \in CPU : me \in Range(rq[d]) => d = c
  BY <1>1, <1>2, Blocking
<1>4. PICK r : Sets(me, r, "blk_int", th[me].back, th[me].obj, th[me].arg)
  BY <1>1, GoesTo
<1>5. \A t \in Range(q) : t \in Range(rq[c]) /\ t # me
  BY RemTaskRemoves DEF IInv, Queues
<1>. HIDE DEF q
<1>6. rq'[c] = q /\ \A d \in CPU \ {c} : rq'[d] = rq[d]
  BY <1>1 DEF IInv, Queues
<1>7. Due(me)' = Due(me)
  BY <1>1, <1>4 DEF Due, Owed, Sets
<1>8. Parked(me)'
  <2>1. th'[me].pc = "blk_int"
    BY <1>4 DEF Sets
  <2>2. \A d \in CPU : me \notin Range(rq'[d])
    BY <1>3, <1>5, <1>6
  <2>. QED BY <2>1, <2>2 DEF Parked
<1>9. Treads(me, r)
  BY <1>1, <1>4 DEF Treads, Sets, IInv, Numbers
<1>10. Spares(me)
  BY <1>1 DEF Spares
<1>11. Thins
  BY <1>1, <1>5, <1>6 DEF Thins
<1>12. Stays /\ \A t \in Tid : task'[t].ret = task[t].ret
  BY <1>1 DEF Stays
<1>13. task'[me].state \notin {"Sleeping", "Terminating", "Migrating"}
  BY <1>1, <1>3
<1>14. r.pc \in Blk \ {"blk_add"} /\ r.back = th[me].back /\ r.obj = th[me].obj
  BY <1>4 DEF Sets, Blk
<1>15. \A d \in CPU : wk'[d].victim = wk[d].victim
  BY <1>1
<1>. QED BY <1>2, <1>3, <1>7, <1>8, <1>9, <1>10, <1>11, <1>12, <1>13, <1>14, <1>15, ClientWaits

LEMMA BlockIntWakes ==
    ASSUME IInv, WInv, NEW c \in CPU, BlockInt(c), fault' = "none"
    PROVE  WInv'
<1>. SUFFICES ASSUME NEW me, me = T(c) PROVE WInv'
  OBVIOUS
<1>1. /\ UNCHANGED <<pool, tid_cpu, next_tid, known, mq, wk, waiters, ioq>>
      /\ th[me].pc \in {"blk_int", "slp_int"} /\ Goto(c, th[me].back)
      /\ PreemptIrq(c, task, rq[c]) /\ fault = "none"
  BY DEF BlockInt, shared, ids, calls, At, Goto
<1>2. me \notin Workers /\ me \in Tid /\ me \in pool[c] /\ curr[c] = me
      /\ th \in [Tid -> ThreadType]
  BY <1>1, InCall, Here DEF CallPcs, T, IInv, Threads
<1>3. Track(me) /\ Nap(me) /\ Fate(me)
  BY <1>2 DEF WInv, Body
<1>4. PICK r : Sets(me, r, th[me].back, th[me].back, th[me].obj, th[me].arg)
  BY <1>1, GoesTo
<1>5. /\ \A d \in CPU \ {c} : rq'[d] = rq[d] /\ curr'[d] = curr[d]
      /\ \A t \in Range(rq'[c]) : t \in Range(rq[c])
      /\ curr'[c] \in Range(rq[c]) /\ task'[curr'[c]].state # "Sleeping"
      /\ \A t \in Tid : /\ task'[t].blocked = task[t].blocked /\ task'[t].ret = task[t].ret
                        /\ task'[t].joiners = task[t].joiners
                        /\ task'[t].state \in {task[t].state, "Ready", "Running"}
  <2>1. task \in [Tid -> TaskType] /\ rq[c] \in Seq(Nat)
    BY DEF IInv, Tasks, Queues
  <2>. QED BY <1>1, <2>1, Switches
<1>6. Treads(me, r)
  BY <1>1, <1>4 DEF Treads, Sets, IInv, Numbers
<1>7. Spares(me)
  BY <1>5 DEF Spares
<1>8. Thins
  BY <1>5 DEF Thins
<1>9. Stays /\ \A t \in Tid : task'[t].ret = task[t].ret
  BY <1>1, <1>5 DEF Stays
<1>10. \A d \in CPU : wk'[d].victim = wk[d].victim
  BY <1>1
<1>11. CASE th[me].pc = "blk_int"
  <2>1. th[me].pc \in Blk
    BY <1>11 DEF Blk
  <2>2. /\ task[me].state \notin {"Sleeping", "Terminating", "Migrating"}
        /\ ~Coming(me) /\ th[me].back \in Rets
        /\ \A d \in CPU : curr[d] = me => d = c
        /\ (Due(me) = 1 \/ Readying(me)) => \A d \in CPU : me \notin Range(rq[d])
    BY <1>11, <2>1, Blocking
  <2>3. Due(me)' = Due(me)
    BY <1>2, <1>4, <1>5, <1>11, <2>2 DEF Due, Owed, Sets, Rets
  <2>4. Readying(me)' => Readying(me)
    <3>1. ASSUME NEW v \in Tid, th'[v].pc \in {"ub_ready", "ub_add"}, th'[v].obj = me
          PROVE  th[v].pc \in {"ub_ready", "ub_add"} /\ th[v].obj = me
      <4>1. v # me
        BY <1>4, <2>2, <3>1 DEF Sets, Rets
      <4>. QED BY <1>2, <1>4, <3>1, <4>1 DEF Sets
    <3>. QED BY <3>1 DEF Readying
  <2>5. ~Coming(me)'
    BY <1>2, <1>4, <2>2 DEF Coming, Sets, Rets
  <2>6. Parked(me)'
    <3>. SUFFICES ASSUME Off(me)', NEW d \in CPU PROVE me \notin Range(rq'[d]) /\ curr'[d] # me
      BY DEF Parked
    <3>1. Due(me) = 1 \/ Readying(me)
      BY <1>4, <2>2, <2>3, <2>4, <2>5 DEF Off, Sets, Rets
    <3>. QED BY <1>5, <2>2, <3>1
  <2>7. task'[me].state \notin {"Sleeping", "Terminating", "Migrating"}
    BY <1>2, <1>5, <2>2
  <2>8. r.back = th[me].back /\ r.obj = th[me].obj /\ r.pc = th[me].back
    BY <1>4 DEF Sets
  <2>. QED BY <1>2, <1>6, <1>7, <1>8, <1>9, <1>10, <2>1, <2>3, <2>6, <2>7, <2>8, ClientWaits
<1>12. CASE th[me].pc = "slp_int"
  <2>1. th[me].back \in {"ret", "join_poll"} /\ r.pc = th[me].back /\ th'[me] = r
    BY <1>3, <1>4, <1>12 DEF Track, Sets
  <2>2. Unhands(me, r)
    BY <2>1 DEF Unhands
  <2>3. Track(me)'
    BY <1>1, <1>3, <1>4, <1>12, <2>1 DEF Sets, Track, Awaits, Goal, Blk, Rets, WakePcs, MakePcs
  <2>4. \/ task'[me].state = "Sleeping" /\ r.pc \in {"ret", "join_poll"} /\ curr'[c] # me
        \/ task'[me].state \in {"Ready", "Running"}
        \/ task'[me].state = task[me].state /\ task[me].state # "Sleeping"
    BY <1>2, <1>5, <2>1
  <2>5. r.pc \notin Makes
    BY <2>1 DEF Makes
  <2>. QED BY <1>2, <1>5, <1>6, <1>7, <1>8, <1>9, <1>10, <1>12, <2>1, <2>2, <2>3, <2>4, <2>5,
              ClientGoesOn DEF Blk
<1>. QED BY <1>1, <1>11, <1>12

LEMMA ExitWakes ==
    ASSUME IInv, WInv, NEW c \in CPU, Exit(c), fault' = "none"
    PROVE  WInv'
<1>. SUFFICES ASSUME NEW me, me = T(c) PROVE WInv'
  OBVIOUS
<1>. DEFINE q == RemTask(rq[c], me)
            w == [task[me] EXCEPT !.state = "Terminating"]
            tk == [task EXCEPT ![me] = w]
            r == [Thread0 EXCEPT !.pc = "dead"]
<1>1. /\ UNCHANGED <<pool, tid_cpu, next_tid, known, mq, wk, waiters, ioq>>
      /\ th[me].pc = "run" /\ th' = [th EXCEPT ![me] = r]
      /\ PreemptIrq(c, tk, q) /\ fault = "none"
  BY DEF Exit, shared, ids, calls, At
<1>2. me \notin Workers /\ me \in Tid /\ me \in pool[c] /\ curr[c] = me /\ th \in [Tid -> ThreadType]
      /\ task \in [Tid -> TaskType]
  BY <1>1, InCall, Here DEF CallPcs, Backs, T, IInv, Threads, Tasks
<1>3. /\ ~Coming(me) /\ ~Readying(me) /\ tid_cpu[me] = c
      /\ task[me].blocked = 0 /\ task[me].ret = 0 /\ Wakers(me) = {}
  BY <1>1, <1>2, Resting DEF Blk
<1>4. w \in TaskType /\ w.blocked = 0 /\ w.ret = 0 /\ w.joiners = task[me].joiners
  BY <1>2, <1>3 DEF TaskType, States
<1>5. tk[me] = w /\ tk \in [Tid -> TaskType] /\ \A t \in Tid \ {me} : tk[t] = task[t]
  <2>. HIDE DEF w
  <2>. QED BY <1>2, <1>4
<1>6. q \in Seq(Nat) /\ \A t \in Range(q) : t \in Range(rq[c]) /\ t # me
  <2>1. rq[c] \in Seq(Nat)
    BY DEF IInv, Queues
  <2>. QED BY <2>1, RemTaskRemoves, RemTaskLeaves
<1>7. r.pc = "dead" /\ r.back = "run"
  BY DEF Thread0
<1>. HIDE DEF q, w, tk, r
<1>8. /\ \A d \in CPU \ {c} : rq'[d] = rq[d] /\ curr'[d] = curr[d]
      /\ \A t \in Range(rq'[c]) : t \in Range(q)
      /\ curr'[c] \in Range(q) /\ task'[curr'[c]].state # "Sleeping"
      /\ \A t \in Tid : /\ task'[t].blocked = tk[t].blocked /\ task'[t].ret = tk[t].ret
                        /\ task'[t].joiners = tk[t].joiners
                        /\ task'[t].state \in {tk[t].state, "Ready", "Running"}
  BY <1>1, <1>5, <1>6, Switches
<1>9. th'[me] = r /\ \A t \in Tid \ {me} : th'[t] = th[t]
  BY <1>1, <1>2
<1>10. Treads(me, r)
  BY <1>1 DEF Treads, IInv, Numbers
<1>11. Spares(me)
  BY <1>5, <1>8 DEF Spares
<1>12. Thins
  BY <1>6, <1>8 DEF Thins
<1>13. \A t \in Tid : task'[t].joiners = task[t].joiners /\ task'[t].ret = task[t].ret
  BY <1>2, <1>3, <1>4, <1>5, <1>8
<1>14. Stays
  BY <1>1, <1>13 DEF Stays
<1>15. Unhands(me, r)
  BY <1>7 DEF Unhands
<1>16. Parked(me)'
  <2>. SUFFICES ASSUME NEW d \in CPU PROVE me \notin Range(rq'[d]) /\ curr'[d] # me
    BY DEF Parked
  <2>1. CASE d = c
    BY <1>6, <1>8, <2>1
  <2>2. CASE d # c
    <3>1. me \in Range(rq[d]) => tid_cpu[me] = d
      BY DEF WInv, Body, Row
    <3>2. curr[d] = me => tid_cpu[me] = d
      BY Here, AtHome DEF IInv, Current
    <3>. QED BY <1>3, <1>8, <2>2, <3>1, <3>2
  <2>. QED BY <2>1, <2>2
<1>17. Owner(me, r)
  <2>1. Track(me)'
    BY <1>7, <1>9 DEF Track, Awaits, Goal, Blk, WakePcs, MakePcs
  <2>2. Hand(me)'
    BY <1>7, <1>9 DEF Hand, Makes
  <2>3. task'[me].state \notin {"Sleeping", "Migrating"}
    <3>1. w.state = "Terminating"
      BY <1>2 DEF w, TaskType
    <3>. QED BY <1>2, <1>5, <1>8, <3>1
  <2>4. Nap(me)'
    BY <2>3 DEF Nap
  <2>5. task'[me].ret = task[me].ret
    BY <1>2, <1>3, <1>4, <1>5, <1>8
  <2>. QED BY <1>1, <1>3, <1>7, <1>16, <2>1, <2>2, <2>3, <2>4, <2>5 DEF Owner
<1>18. Account(me)'
  <2>1. Wakers(me)' = {}
    <3>1. Wakers(me)' \subseteq Wakers(me)
      BY <1>1, <1>2, <1>14, <1>15, StaysQuiet
    <3>. QED BY <1>3, <3>1
  <2>2. Due(me)' = 0 /\ task'[me].ret = 0 /\ Goal(th'[me]) = "dead"
    BY <1>2, <1>3, <1>4, <1>5, <1>7, <1>8, <1>9, <1>13 DEF Due, Owed, Goal, Blk
  <2>. DEFINE ans == Said(boxes, "RespondAndUnblock", me)'
              ask == Said(boxes, "AddJoiner", me)'
              end == th'[r.obj].pc
              d   == tid_cpu[me]
              home == tid_cpu[r.obj]
  <2>3. Ledger("dead", 0, 0, r.obj, {}, ans, ask, end, d, home)
    <3>. HIDE DEF ans, ask, d, home, end
    <3>. QED BY LedgerIdle
  <2>. QED BY <1>1, <1>9, <2>1, <2>2, <2>3 DEF Account, Due
<1>19. \A d \in CPU : Desk(d)'
  BY <1>1, <1>2, DesksKept DEF Blk
<1>20. \A t \in Tid \ {me} : task'[t].ret = task[t].ret
  BY <1>13
<1>. QED BY <1>10, <1>11, <1>12, <1>14, <1>15, <1>17, <1>18, <1>19, <1>20, Privately

\* The answer is taken: the task polls, is told or goes on.
LEMMA AnswerWakes ==
    ASSUME IInv, WInv, NEW c \in CPU, JoinAnswer(c) \/ SpawnAnswer(c)
    PROVE  WInv'
<1>. SUFFICES ASSUME NEW me, me = T(c) PROVE WInv'
  OBVIOUS
<1>. DEFINE w == [task[me] EXCEPT !.ret = 0]
            s == th[me]
            u == th[me].obj
            told == task[me].ret = u
<1>1. /\ UNCHANGED <<pool, rq, curr, tid_cpu, next_tid, known, mq, wk, waiters, ioq>>
      /\ s.pc \in {"join_ans", "spawn_ret"}
      /\ task' = [task EXCEPT ![me] = w]
      /\ \/ s.pc = "join_ans" /\ told /\ Block(c, "joined")
         \/ s.pc = "join_ans" /\ ~told /\ Goto(c, "join_poll")
         \/ s.pc = "spawn_ret" /\ Goto(c, "ret")
  BY DEF JoinAnswer, SpawnAnswer, SetMsgRet, OtherAnswer, shared, ids, calls, At
<1>2. me \notin Workers /\ me \in Tid /\ th \in [Tid -> ThreadType] /\ task \in [Tid -> TaskType]
      /\ curr[c] = me
  BY <1>1, InCall, Here DEF CallPcs, Backs, T, IInv, Threads, Tasks
<1>3. PICK l, b, arg, r :
         /\ Sets(me, r, l, b, u, arg)
         /\ \/ s.pc = "join_ans" /\ told /\ l = "blk_add" /\ b = "joined"
            \/ s.pc = "join_ans" /\ ~told /\ l = "join_poll" /\ b = s.back
            \/ s.pc = "spawn_ret" /\ l = "ret" /\ b = s.back
  <2>1. CASE s.pc = "join_ans" /\ told /\ Block(c, "joined")
    <3>. DEFINE r == [s EXCEPT !.pc = "blk_add", !.ie = TRUE, !.back = "joined"]
    <3>1. s \in ThreadType
      BY <1>2
    <3>2. th' = [th EXCEPT ![me] = r]
      BY <1>2, <2>1 DEF Block, ThreadType
    <3>. HIDE DEF s
    <3>3. r.pc = "blk_add" /\ r.back = "joined" /\ r.obj = s.obj /\ r.arg = s.arg
      BY <3>1 DEF ThreadType
    <3>. HIDE DEF r
    <3>4. th'[me] = r
      BY <1>2, <3>2
    <3>5. Sets(me, r, "blk_add", "joined", u, s.arg)
      BY <3>2, <3>3, <3>4 DEF Sets, s
    <3>. QED BY <2>1, <3>5
  <2>2. CASE s.pc = "join_ans" /\ ~told /\ Goto(c, "join_poll")
    <3>1. \E r : Sets(me, r, "join_poll", s.back, u, s.arg)
      BY <2>2, GoesTo
    <3>. QED BY <2>2, <3>1
  <2>3. CASE s.pc = "spawn_ret" /\ Goto(c, "ret")
    <3>1. \E r : Sets(me, r, "ret", s.back, u, s.arg)
      BY <2>3, GoesTo
    <3>. QED BY <2>3, <3>1
  <2>. QED BY <1>1, <2>1, <2>2, <2>3
<1>4. w.blocked = task[me].blocked /\ w.joiners = task[me].joiners /\ w.state = task[me].state
      /\ w.ret = 0 /\ task[me].blocked \in Int
  BY <1>2 DEF TaskType
<1>. HIDE DEF w
<1>5. task'[me] = w /\ \A t \in Tid \ {me} : task'[t] = task[t]
  BY <1>1, <1>2
<1>6. /\ ~Coming(me) /\ ~Readying(me) /\ Due(me) = task[me].blocked /\ Due(me) # 1
      /\ th[me].pc # "dead"
  BY <1>1, <1>2, Resting DEF Blk
<1>7. Track(me) /\ Nap(me) /\ Fate(me) /\ Account(me)
  BY <1>2 DEF WInv, Body, Accounts
<1>8. s.pc = "join_ans" => u \in Tid /\ u \in known /\ s.back # "wait_ret" /\ u # 0
  <2>1. 0 \notin Tid
    BY DEF Tid
  <2>. QED BY <1>7, <2>1, NumbersSettled DEF Track, Awaits, Goal, Blk
<1>9. s.pc = "spawn_ret" => s.back # "wait_ret"
  BY <1>7 DEF Track, Goal, Blk
<1>10. Treads(me, r) /\ Spares(me) /\ Thins /\ Stays /\ Unhands(me, r)
  <2>1. Treads(me, r) /\ Thins /\ Unhands(me, r)
    BY <1>1, <1>3 DEF Treads, Sets, Thins, Unhands, IInv, Numbers
  <2>2. Spares(me)
    BY <1>5 DEF Spares
  <2>3. \A t \in Tid : task'[t].joiners = task[t].joiners
    BY <1>4, <1>5
  <2>. QED BY <1>1, <2>1, <2>2, <2>3 DEF Stays
<1>11. ~Coming(me)' /\ ~Readying(me)' /\ th'[me] = r
  BY <1>2, <1>3, <1>6 DEF Coming, Readying, Sets
<1>. DEFINE ans == Said(boxes, Answer, me)'
            ask == Said(boxes, "AddJoiner", me)'
            ans0 == Said(boxes, Answer, me)
            ask0 == Said(boxes, "AddJoiner", me)
            d   == tid_cpu[me]
            home == tid_cpu[u]
            K == Wakers(me)
<1>12. Ledger(s.pc, task[me].blocked, task[me].ret, u, K, ans0, ask0, th[u].pc, d, home)
  BY <1>1, <1>6, <1>7 DEF Account, Goal, Due, Answer, Blk
<1>13. K' \subseteq K /\ ans = ans0 /\ ask = ask0
  <2>1. th' = [th EXCEPT ![me] = r]
    BY <1>3 DEF Sets
  <2>. QED BY <1>2, <1>10, <2>1, StaysQuiet
<1>. HIDE DEF ans, ask, ans0, ask0, d, home, K, told
<1>14. Account(me)' /\ Due(me)' \in {0, Due(me), Due(me) + 1} /\ (l # "blk_add" => Due(me)' = 0)
  <2>1. CASE s.pc = "join_ans" /\ told
    <3>1. Ledger("join_ans", task[me].blocked, task[me].ret, u, K, ans0, ask0, th[u].pc, d, home)
      BY <1>12, <2>1
    <3>2. Ledger("joined", task[me].blocked + 1, 0, u, K, ans0, ask0, th[u].pc, d, home)
      <4>1. task[me].blocked # 1 /\ task[me].ret = u /\ u # 0
        BY <1>6, <1>8, <2>1 DEF told
      <4>. HIDE DEF u
      <4>. QED BY <3>1, <4>1, LedgerTold
    <3>3. th[u].pc = "dead" => th'[u].pc = "dead"
      BY <1>2, <1>3, <1>6, <1>8, <2>1 DEF Sets
    <3>4. K' \in SUBSET K /\ ans0 \in SUBSET ans0 /\ ask0 \in SUBSET ask0
      BY <1>13
    <3>5. Ledger("joined", task[me].blocked + 1, 0, u, K', ans0, ask0, th'[u].pc, d, home)
      BY <3>2, <3>3, <3>4, LedgerFewer
    <3>6. l = "blk_add" /\ b = "joined" /\ r.pc = l /\ r.back = b /\ r.obj = u
      BY <1>3, <2>1 DEF Sets
    <3>7. Goal(th'[me]) = "joined" /\ Due(me)' = task[me].blocked + 1 /\ task'[me].ret = 0
      BY <1>4, <1>5, <1>11, <3>6 DEF Goal, Due, Owed, Blk
    <3>. QED BY <1>1, <1>6, <1>11, <1>13, <3>5, <3>6, <3>7
             DEF Account, Due, ans, ask, d, home, K, Answer
  <2>2. CASE (s.pc = "join_ans" /\ ~told) \/ s.pc = "spawn_ret"
    <3>1. task[me].blocked = 0 /\ K = {}
      <4>1. task[me].blocked # 1
        BY <1>6
      <4>2. s.pc = "join_ans" => task[me].ret # u
        BY <2>2 DEF told
      <4>. HIDE DEF s, u
      <4>. QED BY <1>12, <2>2, <4>1, <4>2, LedgerRests
    <3>2. r.pc = l /\ r.obj = u /\ l \in {"join_poll", "ret"}
      BY <1>3, <2>2 DEF Sets
    <3>3. Ledger(l, 0, 0, u, {}, ans, ask, th'[u].pc, d, home)
      BY <3>2, LedgerIdle
    <3>4. Goal(th'[me]) = l /\ Due(me)' = 0 /\ task'[me].ret = 0 /\ K' = {}
      BY <1>4, <1>5, <1>11, <1>13, <3>1, <3>2 DEF Goal, Due, Owed, Blk
    <3>. QED BY <1>1, <1>11, <3>2, <3>3, <3>4 DEF Account, Due, ans, ask, d, home, K, Answer
  <2>. QED BY <1>1, <2>1, <2>2
<1>15. Parked(me)'
  <2>1. ~Off(me)'
    BY <1>3, <1>11, <1>14 DEF Off, Sets, Rets
  <2>. QED BY <2>1 DEF Parked
<1>16. Owner(me, r)
  <2>1. Track(me)'
    BY <1>1, <1>3, <1>8, <1>9, <1>11 DEF Track, Sets, Awaits, Goal, Blk, Rets, WakePcs, MakePcs
  <2>2. Hand(me)'
    BY <1>3, <1>11 DEF Hand, Sets, Makes
  <2>3. task[me].state # "Sleeping" /\ task'[me].state = task[me].state
    BY <1>1, <1>2, <1>4, <1>5, <1>7 DEF Nap
  <2>4. Nap(me)'
    BY <2>3 DEF Nap
  <2>5. task'[me].ret = 0
    BY <1>4, <1>5
  <2>. QED BY <1>3, <1>6, <1>7, <1>15, <2>1, <2>2, <2>3, <2>4, <2>5 DEF Owner, Sets, Fate
<1>17. \A e \in CPU : Desk(e)'
  <2>1. th' = [th EXCEPT ![me] = r]
    BY <1>3 DEF Sets
  <2>. QED BY <1>1, <1>2, <1>6, <2>1, DesksKept DEF Blk
<1>18. \A t \in Tid \ {me} : task'[t].ret = task[t].ret
  BY <1>5
<1>. QED BY <1>10, <1>14, <1>16, <1>17, <1>18, Privately

LEMMA MakerGoesOn ==
    ASSUME IInv, WInv, NEW c \in CPU, NEW me, me = T(c), NEW r,
           Treads(me, r), Spares(me), Thins, Stays, UNCHANGED wk,
           task'[me].state = task[me].state, task'[me].blocked = task[me].blocked,
           \A t \in Tid : task'[t].ret = task[t].ret,
           th[me].pc \in {"cr_new", "cr_pool"}, r.pc \in {"cr_pool", "cr_map"},
           r.back = th[me].back, r.arg = c, r.pc = "cr_map" => r.obj \in pool'[r.arg],
           (th[me].pc = "cr_pool" /\ r.obj = th[me].obj) \/ r.obj = next_tid
    PROVE  WInv'
<1>1. me \in Tid /\ me \in pool[c] /\ me \in known /\ Sound(me, th[me]) /\ th'[me] = r
      /\ (me \in Workers => me = Worker[c])
  <2>1. th \in [Tid -> ThreadType] /\ th' = [th EXCEPT ![me] = r] /\ me \in Tid
    BY Here DEF IInv, Threads, Treads
  <2>. QED BY <2>1, Here
<1>2. tid_cpu[me] = c
  BY <1>1, AtHome
<1>3. Unhands(me, r) /\ th' = [th EXCEPT ![me] = r]
  BY DEF Unhands, Treads
<1>4. CASE me \in Workers
  <2>1. \A d \in CPU : Desk(d)'
    BY <1>3, DesksKept DEF Blk, Serves, MakePcs, Made, Makes, MovePcs, Holds, Buries, WakePcs
  <2>. QED BY <1>2, <1>3, <1>4, <2>1, WorkerGoesOn
<1>5. CASE me \notin Workers
  <2>1. th[me].back = "ret"
    <3>1. Track(me)
      BY <1>1, <1>5 DEF WInv, Body
    <3>. QED BY <3>1 DEF Track, MakePcs
  <2>2. Track(me)'
    BY <1>1, <2>1 DEF Track, Awaits, Goal, Blk, WakePcs, MakePcs
  <2>3. th[me].pc \notin Blk \cup {"spawn_ret", "join_ans", "slp_int"}
        /\ r.pc \notin Blk \cup {"spawn_ret", "join_ans"}
    BY DEF Blk
  <2>. QED BY <1>2, <1>3, <1>5, <2>2, <2>3, ClientGoesOn
<1>. QED BY <1>4, <1>5

LEMMA CreateTidWakes ==
    ASSUME IInv, WInv, NEW c \in CPU, CreateTid(c)
    PROVE  WInv'
<1>. SUFFICES ASSUME NEW me, me = T(c) PROVE WInv'
  OBVIOUS
<1>. DEFINE r == [th[me] EXCEPT !.pc = "cr_pool", !.obj = next_tid, !.arg = c]
<1>1. me \in Tid /\ th \in [Tid -> ThreadType] /\ th[me] \in ThreadType
  BY Here DEF IInv, Threads
<1>2. /\ UNCHANGED <<task, pool, rq, curr, tid_cpu, known, mq, wk, waiters, ioq>>
      /\ th[me].pc = "cr_new" /\ next_tid' = next_tid + 1
  BY DEF CreateTid, calls, At
<1>3. th' = [th EXCEPT ![me] = r]
  BY <1>1 DEF CreateTid, ThreadType
<1>4. r.pc = "cr_pool" /\ r.obj = next_tid /\ r.arg = c /\ r.back = th[me].back
  BY <1>1 DEF ThreadType
<1>. HIDE DEF r
<1>5. Treads(me, r)
  <2>1. next_tid' \in Nat /\ next_tid' >= next_tid
    BY <1>2, NumbersSettled
  <2>. QED BY <1>2, <1>3, <2>1 DEF Treads
<1>6. Spares(me) /\ Thins /\ Stays
  BY <1>2 DEF Spares, Thins, Stays
<1>. QED BY <1>2, <1>4, <1>5, <1>6, MakerGoesOn

\* Nobody waits for the end of a task that is not known yet.
LEMMA NobodyJoinsTheUnknown ==
    ASSUME IInv, WInv, NEW t \in Tid \ known
    PROVE  task[t].joiners = <<>> /\ task[t].blocked = 0 /\ task[t].ret = 0
<1>1. th[t].pc = "run" /\ t \notin Workers
  <2>1. Fate(t)
    BY DEF WInv, Body
  <2>. QED BY <2>1, SchedAssumption DEF Fate, New, Workers, SchedAssumption
<1>2. task[t].blocked = 0 /\ task[t].ret = 0
  <2>1. Account(t)
    BY <1>1 DEF WInv, Accounts
  <2>2. task[t].blocked \in Int
    BY DEF IInv, Tasks, TaskType
  <2>3. Goal(th[t]) \notin Rets /\ Owed(th[t], task[t].blocked) = task[t].blocked
    BY <1>1, <2>2 DEF Goal, Owed, Blk, Rets
  <2>. QED BY <2>1, <2>3 DEF Account, Ledger
<1>3. ASSUME NEW u \in Range(task[t].joiners) PROVE FALSE
  <2>1. u \in Tid
    BY DEF IInv, Tasks, TaskType, Range
  <2>2. InList(t) \in Wakers(u)
    BY <1>3, <2>1, Spotted
  <2>3. u \notin Workers
    BY <2>1, <2>2 DEF WInv, Accounts
  <2>4. Account(u) /\ Track(u)
    BY <2>1, <2>3, <2>2 DEF WInv, Accounts, Body
  <2>5. Goal(th[u]) \in {"joined", "join_ans"} => th[u].obj \in known
    BY <2>4 DEF Track, Awaits
  <2>6. Goal(th[u]) \in {"joined", "join_ans"} /\ th[u].obj = t
    BY <2>2, <2>4, ListedForTheEnd DEF Account
  <2>. QED BY <2>5, <2>6
<1>4. task[t].joiners \in Seq(Tid)
  BY DEF IInv, Tasks, TaskType
<1>5. 1 \in DOMAIN task[t].joiners => task[t].joiners[1] \in Range(task[t].joiners)
  BY DEF Range
<1>6. task[t].joiners = <<>>
  BY <1>3, <1>4, <1>5
<1>. QED BY <1>2, <1>6

LEMMA CreateInsertWakes ==
    ASSUME IInv, WInv, NEW c \in CPU, CreateInsert(c)
    PROVE  WInv'
<1>. SUFFICES ASSUME NEW me, me = T(c) PROVE WInv'
  OBVIOUS
<1>. DEFINE t == th[me].obj
            s == [NewTask EXCEPT !.cpu = th[me].arg]
            r == [th[me] EXCEPT !.pc = "cr_map"]
<1>1. me \in Tid /\ me \in known /\ th \in [Tid -> ThreadType] /\ th[me] \in ThreadType
      /\ Sound(me, th[me]) /\ task \in [Tid -> TaskType] /\ pool \in [CPU -> SUBSET Tid]
  BY Here DEF IInv, Threads, Tasks, Pools
<1>2. /\ UNCHANGED <<rq, curr, tid_cpu, next_tid, known, mq, wk, waiters, ioq>>
      /\ th[me].pc = "cr_pool"
  BY DEF CreateInsert, shared, ids, calls, At
<1>3. pool' = [pool EXCEPT ![th[me].arg] = @ \cup {t}] /\ task' = [task EXCEPT ![t] = s]
      /\ Goto(c, "cr_map")
  BY DEF CreateInsert
<1>4. th' = [th EXCEPT ![me] = r]
  BY <1>3 DEF Goto
<1>5. t \in Tid \ known /\ th[me].arg \in CPU
  BY <1>1, <1>2 DEF Sound, MakePcs, IInv, Numbers, Fresh
<1>6. r.pc = "cr_map" /\ r.obj = t /\ r.arg = th[me].arg /\ r.back = th[me].back
  BY <1>1 DEF ThreadType
<1>7. s.joiners = <<>> /\ s.blocked = 0 /\ s.ret = 0 /\ s.state = "New"
  BY DEF NewTask
<1>8. task[t].joiners = <<>> /\ task[t].blocked = 0 /\ task[t].ret = 0
  BY <1>5, NobodyJoinsTheUnknown
<1>9. th[me].arg = c
  <2>1. Hand(me) /\ tid_cpu[me] = c
    BY <1>1, AtHome, Here DEF WInv, Body
  <2>. QED BY <1>2, <2>1 DEF Hand, Makes
<1>. HIDE DEF r, s
<1>10. /\ \A u \in Tid \ {t} : task'[u] = task[u]
       /\ task'[t] = s /\ me # t
  BY <1>1, <1>3, <1>5
<1>11. \A d \in CPU : pool[d] \subseteq pool'[d] /\ pool'[d] \subseteq pool[d] \cup {t}
  BY <1>1, <1>3, <1>5
<1>15. r.obj \in pool'[r.arg]
  BY <1>1, <1>3, <1>5, <1>6
<1>. HIDE DEF t
<1>12. Treads(me, r)
  <2>1. next_tid' \in Nat /\ next_tid' >= next_tid
    BY <1>2, NumbersSettled
  <2>. QED BY <1>2, <1>4, <1>5, <1>11, <2>1 DEF Treads
<1>13. Spares(me) /\ Thins /\ Stays
  <2>1. Spares(me)
    BY <1>7, <1>8, <1>10 DEF Spares
  <2>. QED BY <1>2, <1>7, <1>8, <1>10, <2>1 DEF Thins, Stays
<1>14. \A u \in Tid : task'[u].ret = task[u].ret
  BY <1>7, <1>8, <1>10
<1>. QED BY <1>1, <1>2, <1>6, <1>9, <1>10, <1>12, <1>13, <1>14, <1>15, MakerGoesOn DEF t
=============================================================================
