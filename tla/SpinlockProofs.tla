--------------------------- MODULE SpinlockProofs ---------------------------
(***************************************************************************)
(* Proofs about Spinlock for any number of CPUs, tasks, interrupt handlers *)
(* and locks: mutual exclusion, the owner of a lock keeps its CPU,         *)
(* interrupts are given back as they were, and the lock refines LockOwner. *)
(***************************************************************************)
EXTENDS Spinlock, SequenceTheorems, TLAPS

\* No task calls Task::block with a spinlock held (sched/mod.rs:9, 370).
NobodySleeps == Sleepers = {}

(***************************************************************************)
(* The stack of guards.                                                    *)
(***************************************************************************)
LEMMA PushFacts ==
    ASSUME NEW S, NEW s \in Seq(S), NEW e \in S
    PROVE  /\ Append(s, e) \in Seq(S)
           /\ Len(Append(s, e)) = Len(s) + 1
           /\ \A i \in 1..Len(s) : Append(s, e)[i] = s[i]
           /\ Append(s, e)[Len(s) + 1] = e
           /\ Append(s, e) # <<>>
  OBVIOUS

LEMMA PopFacts ==
    ASSUME NEW S, NEW s \in Seq(S), s # <<>>
    PROVE  /\ SubSeq(s, 1, Len(s) - 1) \in Seq(S)
           /\ Len(SubSeq(s, 1, Len(s) - 1)) = Len(s) - 1
           /\ \A i \in 1..(Len(s) - 1) : SubSeq(s, 1, Len(s) - 1)[i] = s[i]
           /\ Len(s) \in 1..Len(s)
           /\ s[Len(s)] \in S
  <1>1. /\ Len(s) \in Nat /\ Len(s) # 0
        /\ \A i \in 1..Len(s) : s[i] \in S
    BY EmptySeq, LenProperties
  <1>2. PICK n \in Nat : n = Len(s) - 1
    BY <1>1
  <1>3. \A i \in 1..n : s[i] \in S
    BY <1>1, <1>2
  <1>4. /\ SubSeq(s, 1, n) \in Seq(S)
        /\ Len(SubSeq(s, 1, n)) = IF 1 <= n THEN n - 1 + 1 ELSE 0
        /\ \A i \in 1..(n - 1 + 1) : SubSeq(s, 1, n)[i] = s[1 + i - 1]
    BY <1>3, SubSeqProperties
  <1>5. n - 1 + 1 = n /\ (IF 1 <= n THEN n ELSE 0) = n
    OBVIOUS
  <1>6. \A i \in 1..n : 1 + i - 1 = i
    OBVIOUS
  <1>7. Len(s) \in 1..Len(s) /\ s[Len(s)] \in S
    BY <1>1
  <1>8. QED
    BY <1>2, <1>4, <1>5, <1>6, <1>7

LEMMA EmptyFacts ==
    ASSUME NEW S, NEW s \in Seq(S)
    PROVE  /\ Len(s) \in Nat
           /\ s = <<>> <=> Len(s) = 0
           /\ \A i \in 1..Len(s) : s[i] \in S
  OBVIOUS

(***************************************************************************)
(* The inductive invariant.                                                *)
(***************************************************************************)
\* The context on a CPU is its current task or the handler above it.
OnCpu == \A c \in CPU : cur[c] \in Task => cur[c] = task[c]

\* Where a context is in lock() and drop() agrees with its locals.
Locals ==
    \A x \in Ctx :
        /\ pc[x] \in {"swap", "spin"} => want[x].lock \in Lock
        /\ pc[x] = "reenable" => guards[x] # <<>> /\ Top(x).lock # NoLock

\* Interrupts are off under a guard and inside of lock() and drop().
Masked ==
    \A x \in Ctx :
        /\ guards[x] # <<>> => ~ie[x]
        /\ pc[x] \in {"swap", "reenable"} => ~ie[x]
        /\ guards[x] # <<>> /\ pc[x] \in {"swap", "spin"} => ~ints[x]

\* Only the outermost guard of a context can have interrupts to give back.
Nested ==
    \A x \in Ctx : \A i \in 1..Len(guards[x]) : i > 1 => ~guards[x][i].ints

\* Thread code took its outermost guard with interrupts on.
ThreadIF ==
    \A x \in Ctx : mode[x] = "thread" =>
        /\ guards[x] # <<>> => guards[x][1].ints
        /\ guards[x] = <<>> /\ pc[x] \in {"swap", "spin"} => ints[x]
        /\ guards[x] = <<>> /\ pc[x] \in {"code", "spin"} => ie[x]

\* A handler never sees interrupts on.
IrqIF ==
    \A x \in Irq : /\ ~ie[x] /\ ~ints[x]
                   /\ \A i \in 1..Len(guards[x]) : ~guards[x][i].ints

\* A context that has a lock does not lose the CPU.
OwnerRuns == \A x \in Ctx : ~Spinless(x) => Running(x)

\* The flag of a lock is up exactly while a guard protects it.
FlagUp == \A l \in Lock : is_locked[l] <=> \E x \in Ctx : Holds(x, l)

IInv == /\ TypeOK
        /\ OnCpu
        /\ Locals
        /\ Masked
        /\ Nested
        /\ ThreadIF
        /\ IrqIF
        /\ OwnerRuns
        /\ FlagUp
        /\ MutualExclusion

LEMMA InitIInv == Init => IInv
  <1> SUFFICES ASSUME Init PROVE IInv
    OBVIOUS
  <1> USE SpinlockAssumption
  <1>1. \A x \in Ctx : guards[x] = <<>> /\ Len(guards[x]) = 0
    BY DEF Init
  <1>2. TypeOK
    BY DEF Init, TypeOK, Ctx, Guard, Want, NoWant
  <1>3. OnCpu /\ Locals /\ Masked /\ Nested /\ OwnerRuns
    BY <1>1 DEF Init, OnCpu, Locals, Masked, Nested, OwnerRuns, Spinless
  <1>0. ThreadIF /\ IrqIF
    <2>1. \A x \in Ctx : pc[x] = "code" /\ ie[x] = (x \in Task) /\ ints[x] = FALSE
      BY DEF Init
    <2>2. \A x \in Ctx : mode[x] = "thread" => x \in Task
      BY DEF Init
    <2>3. \A x \in Irq : x \in Ctx /\ x \notin Task
      BY DEF Ctx
    <2>4. ThreadIF
      BY <1>1, <2>1, <2>2 DEF ThreadIF
    <2>5. \A x \in Ctx : \A i \in 1..Len(guards[x]) : FALSE
      BY <1>1
    <2>7. IrqIF
      BY <2>1, <2>3, <2>5, Zenon DEF IrqIF
    <2>6. QED
      BY <2>4, <2>7
  <1>4. FlagUp /\ MutualExclusion
    BY <1>1 DEF Init, FlagUp, Holds, MutualExclusion
  <1>5. QED
    BY <1>0, <1>2, <1>3, <1>4 DEF IInv

(***************************************************************************)
(* The stack of one context after a push and after a pop.                  *)
(***************************************************************************)
LEMMA AfterPush ==
    ASSUME TypeOK, NEW x \in Ctx, NEW g \in Guard, Push(x, g)
    PROVE  /\ guards' \in [Ctx -> Seq(Guard)]
           /\ \A y \in Ctx : y # x => guards'[y] = guards[y]
           /\ Len(guards[x]) \in Nat
           /\ Len(guards'[x]) = Len(guards[x]) + 1
           /\ \A i \in 1..Len(guards[x]) : guards'[x][i] = guards[x][i]
           /\ guards'[x][Len(guards[x]) + 1] = g
           /\ guards'[x] # <<>>
           /\ guards[x] = <<>> => guards'[x][1] = g
  <1>1. guards \in [Ctx -> Seq(Guard)] /\ guards[x] \in Seq(Guard)
    BY DEF TypeOK
  <1>2. guards' = [guards EXCEPT ![x] = Append(guards[x], g)]
    BY DEF Push
  <1>3. guards'[x] = Append(guards[x], g)
    BY <1>1, <1>2
  <1>4. \A y \in Ctx : y # x => guards'[y] = guards[y]
    BY <1>1, <1>2
  <1>5. /\ Append(guards[x], g) \in Seq(Guard)
        /\ Len(Append(guards[x], g)) = Len(guards[x]) + 1
        /\ \A i \in 1..Len(guards[x]) : Append(guards[x], g)[i] = guards[x][i]
        /\ Append(guards[x], g)[Len(guards[x]) + 1] = g
        /\ Append(guards[x], g) # <<>>
    BY <1>1, PushFacts
  <1>6. guards' \in [Ctx -> Seq(Guard)]
    BY <1>1, <1>2, <1>5
  <1>7. Len(guards[x]) \in Nat /\ (guards[x] = <<>> => Len(guards[x]) = 0)
    BY <1>1, EmptyFacts
  <1>8. QED
    BY <1>3, <1>4, <1>5, <1>6, <1>7

LEMMA AfterPop ==
    ASSUME TypeOK, NEW x \in Ctx, guards[x] # <<>>, Pop(x)
    PROVE  /\ guards' \in [Ctx -> Seq(Guard)]
           /\ \A y \in Ctx : y # x => guards'[y] = guards[y]
           /\ Len(guards[x]) \in Nat \ {0}
           /\ Len(guards'[x]) = Len(guards[x]) - 1
           /\ \A i \in 1..(Len(guards[x]) - 1) : guards'[x][i] = guards[x][i]
           /\ Top(x) \in Guard
           /\ guards'[x] = <<>> <=> Len(guards[x]) = 1
  <1>1. guards \in [Ctx -> Seq(Guard)] /\ guards[x] \in Seq(Guard)
    BY DEF TypeOK
  <1>2. guards' = [guards EXCEPT
                     ![x] = SubSeq(guards[x], 1, Len(guards[x]) - 1)]
    BY DEF Pop
  <1>3. guards'[x] = SubSeq(guards[x], 1, Len(guards[x]) - 1)
    BY <1>1, <1>2
  <1>4. \A y \in Ctx : y # x => guards'[y] = guards[y]
    BY <1>1, <1>2
  <1>5. /\ SubSeq(guards[x], 1, Len(guards[x]) - 1) \in Seq(Guard)
        /\ Len(SubSeq(guards[x], 1, Len(guards[x]) - 1)) = Len(guards[x]) - 1
        /\ \A i \in 1..(Len(guards[x]) - 1) :
               SubSeq(guards[x], 1, Len(guards[x]) - 1)[i] = guards[x][i]
        /\ guards[x][Len(guards[x])] \in Guard
    BY <1>1, PopFacts
  <1>6. guards' \in [Ctx -> Seq(Guard)] /\ guards'[x] \in Seq(Guard)
    BY <1>1, <1>2, <1>5
  <1>7. Len(guards[x]) \in Nat \ {0}
    BY <1>1, EmptyFacts
  <1>8. guards'[x] = <<>> <=> Len(guards'[x]) = 0
    BY <1>6, EmptyFacts
  <1>9. Len(guards'[x]) = Len(guards[x]) - 1
    BY <1>3, <1>5
  <1>10. guards'[x] = <<>> <=> Len(guards[x]) = 1
    <2>1. Len(guards[x]) - 1 = 0 <=> Len(guards[x]) = 1
      BY <1>7
    <2>2. QED
      BY <1>8, <1>9, <2>1
  <1>11. Top(x) \in Guard
    BY <1>5 DEF Top
  <1>12. \A i \in 1..(Len(guards[x]) - 1) : guards'[x][i] = guards[x][i]
    BY <1>3, <1>5
  <1>13. QED
    BY <1>4, <1>6, <1>7, <1>9, <1>10, <1>11, <1>12

(***************************************************************************)
(* Steps that neither move a guard nor enter or leave drop().              *)
(***************************************************************************)
LEMMA HoldsFrame ==
    ASSUME UNCHANGED guards,
           \A x \in Ctx : pc'[x] = "reenable" <=> pc[x] = "reenable"
    PROVE  \A x \in Ctx : /\ \A i : HoldsAt(x, i)' <=> HoldsAt(x, i)
                          /\ \A l : Holds(x, l)' <=> Holds(x, l)
                          /\ Spinless(x)' <=> Spinless(x)
  <1>1. \A x \in Ctx : \A i : HoldsAt(x, i)' <=> HoldsAt(x, i)
    BY DEF HoldsAt
  <1>2. \A x \in Ctx : \A l : Holds(x, l)' <=> Holds(x, l)
    BY <1>1 DEF Holds
  <1>3. \A x \in Ctx : Spinless(x)' <=> Spinless(x)
    BY DEF Spinless
  <1>4. QED
    BY <1>1, <1>2, <1>3

LEMMA LocksFrame ==
    ASSUME FlagUp, MutualExclusion, UNCHANGED <<guards, is_locked>>,
           \A x \in Ctx : pc'[x] = "reenable" <=> pc[x] = "reenable"
    PROVE  FlagUp' /\ MutualExclusion'
  <1>1. FlagUp'
    BY HoldsFrame DEF FlagUp
  <1>2. MutualExclusion'
    BY HoldsFrame DEF MutualExclusion
  <1>3. QED
    BY <1>1, <1>2

\* Whoever leaves a CPU has no spinlock: the switch needs interrupts on, or
\* is asked for outside of every lock.
LEMMA SwitchKeepsIInv ==
    ASSUME IInv, NEW c \in CPU, NEW next \in Task, SwitchTo(c, next),
           cur[c] = task[c], Spinless(cur[c]),
           UNCHANGED <<is_locked, mode, pc, want, ints, guards, ops>>
    PROVE  OnCpu' /\ OwnerRuns' /\ FlagUp' /\ MutualExclusion'
  <1>1. /\ cur \in [CPU -> Ctx] /\ task \in [CPU -> Task]
        /\ \A d \in CPU : CpuOf[cur[d]] = d
    BY DEF IInv, TypeOK
  <1>2. OnCpu'
    BY <1>1 DEF IInv, OnCpu, SwitchTo
  <1>3. FlagUp' /\ MutualExclusion'
    BY LocksFrame DEF IInv
  <1>4. ASSUME NEW x \in Ctx, ~Spinless(x)'
        PROVE  Running(x)'
    <2>1. ~Spinless(x)
      BY <1>4, HoldsFrame
    <2>2. Running(x) /\ x # cur[c]
      BY <2>1 DEF IInv, OwnerRuns
    <2>3. CpuOf[x] # c
      BY <2>2 DEF Running
    <2>4. QED
      BY <2>2, <2>3 DEF Running, SwitchTo
  <1>5. QED
    BY <1>2, <1>3, <1>4 DEF OwnerRuns

LEMMA TimerIrqIInv ==
    ASSUME IInv, NEW c \in CPU, NEW next \in Task, TimerIrq(c, next)
    PROVE  IInv'
  <1>0. UNCHANGED <<is_locked, ie, mode, pc, want, ints, guards, ops>>
    BY DEF TimerIrq
  <1>1. cur[c] = task[c] /\ cur[c] \in Ctx /\ guards[cur[c]] = <<>>
    BY DEF IInv, TypeOK, OnCpu, Masked, TimerIrq
  <1>2. Spinless(cur[c])
    BY <1>1, EmptyFacts DEF Spinless, IInv, TypeOK
  <1>3. OnCpu' /\ OwnerRuns' /\ FlagUp' /\ MutualExclusion'
    BY <1>0, <1>1, <1>2, SwitchKeepsIInv DEF TimerIrq
  <1>4. TypeOK'
    BY <1>0 DEF IInv, TypeOK, TimerIrq, SwitchTo, Ctx
  <1>5. Locals' /\ Masked' /\ Nested' /\ ThreadIF' /\ IrqIF'
    BY <1>0 DEF IInv, Locals, Masked, Nested, ThreadIF, IrqIF, Top
  <1>6. QED
    BY <1>3, <1>4, <1>5 DEF IInv

LEMMA BlockIInv ==
    ASSUME NobodySleeps, IInv, NEW t \in Task, NEW next \in Task,
           Block(t, next)
    PROVE  IInv'
  <1>0. /\ UNCHANGED <<is_locked, mode, pc, want, ints, guards, ops>>
        /\ t \in Ctx /\ t \notin Irq /\ CpuOf[t] \in CPU
    BY SpinlockAssumption DEF Block, Ctx
  <1>1. cur[CpuOf[t]] = t /\ t = task[CpuOf[t]] /\ guards[t] = <<>>
    BY <1>0 DEF IInv, OnCpu, Block, Running, NobodySleeps
  <1>2. Spinless(t)
    BY <1>0, <1>1, EmptyFacts DEF Spinless, IInv, TypeOK
  <1>3. OnCpu' /\ OwnerRuns' /\ FlagUp' /\ MutualExclusion'
    BY <1>0, <1>1, <1>2, SwitchKeepsIInv DEF Block
  <1>4. TypeOK'
    BY <1>0 DEF IInv, TypeOK, Block, SwitchTo, Ctx
  <1>5. \A x \in Ctx : x # t => ie'[x] = ie[x]
    BY DEF IInv, TypeOK, Block
  <1>6. ie'[t] /\ pc[t] = "code"
    BY <1>0 DEF IInv, TypeOK, Block
  <1>7. Locals' /\ Nested'
    BY <1>0 DEF IInv, Locals, Nested, Top
  <1>8. Masked' /\ ThreadIF'
    BY <1>0, <1>1, <1>5, <1>6 DEF IInv, Masked, ThreadIF
  <1>9. IrqIF'
    BY <1>0, <1>5 DEF IInv, IrqIF, Ctx
  <1>10. QED
    BY <1>3, <1>4, <1>7, <1>8, <1>9 DEF IInv

LEMMA BlockUnderGuardIInv ==
    ASSUME IInv, NEW t \in Task, NEW next \in Task, BlockUnderGuard(t, next)
    PROVE  IInv'
  <1>0. /\ UNCHANGED <<is_locked, ie, mode, pc, want, ints, guards, ops>>
        /\ t \in Ctx /\ CpuOf[t] \in CPU
    BY SpinlockAssumption DEF BlockUnderGuard, Ctx
  <1>1. cur[CpuOf[t]] = t /\ t = task[CpuOf[t]] /\ Spinless(t)
    BY <1>0 DEF IInv, OnCpu, BlockUnderGuard, Running
  <1>3. OnCpu' /\ OwnerRuns' /\ FlagUp' /\ MutualExclusion'
    BY <1>0, <1>1, SwitchKeepsIInv DEF BlockUnderGuard
  <1>4. TypeOK'
    BY <1>0 DEF IInv, TypeOK, BlockUnderGuard, SwitchTo, Ctx
  <1>5. Locals' /\ Masked' /\ Nested' /\ ThreadIF' /\ IrqIF'
    BY <1>0 DEF IInv, Locals, Masked, Nested, ThreadIF, IrqIF, Top
  <1>6. QED
    BY <1>3, <1>4, <1>5 DEF IInv

LEMMA IrqEnterIInv ==
    ASSUME IInv, NEW h \in Irq, IrqEnter(h)
    PROVE  IInv'
  <1>0. /\ UNCHANGED <<is_locked, ie, task, mode, pc, want, ints, guards, ops>>
        /\ h \in Ctx /\ CpuOf[h] \in CPU /\ h \notin Task
    BY SpinlockAssumption DEF IrqEnter, Ctx
  <1>1. TypeOK' /\ OnCpu'
    BY <1>0 DEF IInv, TypeOK, OnCpu, IrqEnter
  <1>2. Locals' /\ Masked' /\ Nested' /\ ThreadIF' /\ IrqIF'
    BY <1>0 DEF IInv, Locals, Masked, Nested, ThreadIF, IrqIF, Top
  <1>3. FlagUp' /\ MutualExclusion'
    BY <1>0, LocksFrame DEF IInv
  <1>4. LET u == cur[CpuOf[h]] IN u \in Ctx /\ guards[u] = <<>> /\ Spinless(u)
    BY <1>0, EmptyFacts DEF IInv, TypeOK, Masked, IrqEnter, Spinless
  <1>5. ASSUME NEW x \in Ctx, ~Spinless(x)'
        PROVE  Running(x)'
    <2>1. ~Spinless(x)
      BY <1>0, <1>5, HoldsFrame
    <2>2. Running(x) /\ x # cur[CpuOf[h]]
      BY <1>4, <2>1 DEF IInv, OwnerRuns
    <2>3. CpuOf[x] # CpuOf[h]
      BY <2>2 DEF Running
    <2>4. QED
      BY <1>0, <2>2, <2>3 DEF Running, IrqEnter
  <1>6. QED
    BY <1>1, <1>2, <1>3, <1>5 DEF IInv, OwnerRuns

LEMMA IrqExitIInv ==
    ASSUME IInv, NEW h \in Irq, IrqExit(h)
    PROVE  IInv'
  <1>0. /\ UNCHANGED <<is_locked, ie, task, mode, pc, want, ints, guards, ops>>
        /\ h \in Ctx /\ CpuOf[h] \in CPU
    BY SpinlockAssumption DEF IrqExit, Ctx
  <1>1. TypeOK' /\ OnCpu'
    BY <1>0 DEF IInv, TypeOK, OnCpu, IrqExit, Ctx
  <1>2. Locals' /\ Masked' /\ Nested' /\ ThreadIF' /\ IrqIF'
    BY <1>0 DEF IInv, Locals, Masked, Nested, ThreadIF, IrqIF, Top
  <1>3. FlagUp' /\ MutualExclusion'
    BY <1>0, LocksFrame DEF IInv
  <1>4. Spinless(h) /\ cur[CpuOf[h]] = h
    BY <1>0, EmptyFacts DEF IInv, TypeOK, IrqExit, Spinless
  <1>5. ASSUME NEW x \in Ctx, ~Spinless(x)'
        PROVE  Running(x)'
    <2>1. ~Spinless(x)
      BY <1>0, <1>5, HoldsFrame
    <2>2. Running(x) /\ x # h
      BY <1>4, <2>1 DEF IInv, OwnerRuns
    <2>3. CpuOf[x] # CpuOf[h]
      BY <1>4, <2>2 DEF Running
    <2>4. QED
      BY <1>0, <2>2, <2>3 DEF Running, IrqExit
  <1>6. QED
    BY <1>1, <1>2, <1>3, <1>5 DEF IInv, OwnerRuns

(***************************************************************************)
(* Steps of lock() that leave the guards alone, and system calls.          *)
(***************************************************************************)
LEMMA OwnerRunsFrame ==
    ASSUME OwnerRuns, UNCHANGED <<guards, cur>>
    PROVE  OwnerRuns'
  BY DEF OwnerRuns, Spinless, Running

LEMMA ClearIFIInv ==
    ASSUME IInv, NEW x \in Ctx, ClearIF(x), pc[x] \in {"code", "spin"},
           want' \in [Ctx -> Want], want'[x].lock \in Lock,
           \A y \in Ctx : y # x => want'[y] = want[y],
           ops' \in [Ctx -> Nat],
           UNCHANGED <<is_locked, cur, task, mode, guards>>
    PROVE  IInv'
  <1>1. /\ ie' \in [Ctx -> BOOLEAN] /\ ~ie'[x]
        /\ \A y \in Ctx : y # x => ie'[y] = ie[y]
    BY DEF IInv, TypeOK, ClearIF
  <1>2. /\ ints' \in [Ctx -> BOOLEAN] /\ ints'[x] = ie[x]
        /\ \A y \in Ctx : y # x => ints'[y] = ints[y]
    BY DEF IInv, TypeOK, ClearIF
  <1>3. /\ pc' \in [Ctx -> {"code", "swap", "spin", "reenable"}]
        /\ pc'[x] = "swap"
        /\ \A y \in Ctx : y # x => pc'[y] = pc[y]
    BY DEF IInv, TypeOK, ClearIF, Goto
  <1>4. TypeOK'
    BY <1>1, <1>2, <1>3 DEF IInv, TypeOK
  <1>5. OnCpu' /\ Nested' /\ OwnerRuns'
    BY OwnerRunsFrame DEF IInv, OnCpu, Nested
  <1>6. Locals'
    BY <1>3 DEF IInv, Locals, Top
  <1>7. Masked'
    BY <1>1, <1>2, <1>3 DEF IInv, Masked
  <1>8. ThreadIF'
    BY <1>1, <1>2, <1>3 DEF IInv, ThreadIF
  <1>9. IrqIF'
    BY <1>1, <1>2 DEF IInv, IrqIF, Ctx
  <1>10. FlagUp' /\ MutualExclusion'
    BY <1>3, LocksFrame DEF IInv
  <1>11. QED
    BY <1>4, <1>5, <1>6, <1>7, <1>8, <1>9, <1>10 DEF IInv

LEMMA CallIInv ==
    ASSUME IInv, NEW x \in Ctx, NEW l \in Lock, NEW try \in BOOLEAN,
           Call(x, l, try)
    PROVE  IInv'
  <1>1. ClearIF(x) /\ pc[x] = "code"
        /\ UNCHANGED <<is_locked, cur, task, mode, guards>>
    BY DEF Call
  <1>2. [lock |-> l, try |-> try] \in Want
    BY DEF Want
  <1>3. /\ want' \in [Ctx -> Want] /\ want'[x].lock \in Lock
        /\ \A y \in Ctx : y # x => want'[y] = want[y]
    BY <1>2 DEF IInv, TypeOK, Call
  <1>4. ops' \in [Ctx -> Nat]
    BY DEF IInv, TypeOK, Call
  <1>5. QED
    BY <1>1, <1>3, <1>4, ClearIFIInv

LEMMA SpinEndsIInv ==
    ASSUME IInv, NEW x \in Ctx, SpinEnds(x)
    PROVE  IInv'
  <1>1. ClearIF(x) /\ pc[x] = "spin"
        /\ UNCHANGED <<is_locked, cur, task, mode, want, guards, ops>>
    BY DEF SpinEnds
  <1>2. want' \in [Ctx -> Want] /\ want'[x].lock \in Lock /\ ops' \in [Ctx -> Nat]
    BY <1>1 DEF IInv, TypeOK, Locals
  <1>3. QED
    BY <1>1, <1>2, ClearIFIInv

LEMMA SwapFailsIInv ==
    ASSUME IInv, NEW x \in Ctx, SwapFails(x)
    PROVE  IInv'
  <1>0. /\ UNCHANGED <<is_locked, cur, task, mode, guards, ops>>
        /\ pc[x] = "swap"
    BY DEF SwapFails
  <1>1. /\ ie' \in [Ctx -> BOOLEAN] /\ ie'[x] = ints[x]
        /\ \A y \in Ctx : y # x => ie'[y] = ie[y]
    BY DEF IInv, TypeOK, SwapFails
  <1>2. /\ ints' \in [Ctx -> BOOLEAN] /\ (ints'[x] => ints[x])
        /\ \A y \in Ctx : y # x => ints'[y] = ints[y]
        /\ want' \in [Ctx -> Want]
        /\ \A y \in Ctx : y # x => want'[y] = want[y]
        /\ pc' \in [Ctx -> {"code", "swap", "spin", "reenable"}]
        /\ pc'[x] \in {"code", "spin"}
        /\ pc'[x] = "spin" => ints'[x] = ints[x] /\ want'[x] = want[x]
        /\ \A y \in Ctx : y # x => pc'[y] = pc[y]
    <2>0. NoWant \in Want
      BY DEF NoWant, Want
    <2>1. CASE want[x].try
      <3>1. /\ want' = [want EXCEPT ![x] = NoWant]
            /\ ints' = [ints EXCEPT ![x] = FALSE]
            /\ pc' = [pc EXCEPT ![x] = "code"]
        BY <2>1 DEF SwapFails, Return, Goto
      <3>2. QED
        BY <2>0, <3>1 DEF IInv, TypeOK
    <2>2. CASE ~want[x].try
      <3>1. want' = want /\ ints' = ints /\ pc' = [pc EXCEPT ![x] = "spin"]
        BY <2>2 DEF SwapFails, Goto
      <3>2. QED
        BY <3>1 DEF IInv, TypeOK
    <2>3. QED
      BY <2>1, <2>2
  <1>4. TypeOK'
    BY <1>0, <1>1, <1>2 DEF IInv, TypeOK
  <1>5. OnCpu' /\ Nested' /\ OwnerRuns'
    BY <1>0, OwnerRunsFrame DEF IInv, OnCpu, Nested
  <1>6. Locals'
    BY <1>0, <1>2 DEF IInv, Locals, Top
  <1>7. Masked'
    BY <1>0, <1>1, <1>2 DEF IInv, Masked
  <1>8. ThreadIF'
    BY <1>0, <1>1, <1>2 DEF IInv, ThreadIF
  <1>9. IrqIF'
    BY <1>0, <1>1, <1>2 DEF IInv, IrqIF, Ctx
  <1>10. FlagUp' /\ MutualExclusion'
    BY <1>0, <1>2, LocksFrame DEF IInv
  <1>11. QED
    BY <1>4, <1>5, <1>6, <1>7, <1>8, <1>9, <1>10 DEF IInv

LEMMA SyscallIInv ==
    ASSUME IInv, NEW t \in Task, SyscallEnter(t) \/ SyscallExit(t)
    PROVE  IInv'
  <1>0. /\ UNCHANGED <<is_locked, cur, task, pc, want, ints, guards>>
        /\ t \in Ctx /\ t \notin Irq /\ pc[t] = "code" /\ guards[t] = <<>>
    BY SpinlockAssumption DEF SyscallEnter, SyscallExit, Ctx
  <1>1. /\ ie' \in [Ctx -> BOOLEAN]
        /\ \A y \in Ctx : y # t => ie'[y] = ie[y]
        /\ mode' \in [Ctx -> {"thread", "syscall", "irq"}]
        /\ mode'[t] = "thread" => ie'[t]
        /\ mode'[t] \in {"thread", "syscall"}
        /\ \A y \in Ctx : y # t => mode'[y] = mode[y]
        /\ ops' \in [Ctx -> Nat]
    <2>1. CASE SyscallEnter(t)
      BY <1>0, <2>1 DEF IInv, TypeOK, SyscallEnter
    <2>2. CASE SyscallExit(t)
      BY <1>0, <2>2 DEF IInv, TypeOK, SyscallExit
    <2>3. QED
      BY <2>1, <2>2
  <1>4. TypeOK'
    BY <1>0, <1>1 DEF IInv, TypeOK
  <1>5. OnCpu' /\ Nested' /\ OwnerRuns' /\ Locals'
    BY <1>0, OwnerRunsFrame DEF IInv, OnCpu, Nested, Locals, Top
  <1>7. Masked'
    BY <1>0, <1>1 DEF IInv, Masked
  <1>8. ThreadIF'
    BY <1>0, <1>1 DEF IInv, ThreadIF
  <1>9. IrqIF'
    BY <1>0, <1>1 DEF IInv, IrqIF, Ctx
  <1>10. FlagUp' /\ MutualExclusion'
    BY <1>0, LocksFrame DEF IInv
  <1>11. QED
    BY <1>4, <1>5, <1>7, <1>8, <1>9, <1>10 DEF IInv

(***************************************************************************)
(* Steps that push a guard.  The new guard is on top; the others keep      *)
(* their place.                                                            *)
(***************************************************************************)
LEMMA PushHolds ==
    ASSUME TypeOK, NEW x \in Ctx, NEW g \in Guard, Push(x, g),
           NEW n, n = Len(guards[x]) + 1,
           pc[x] # "reenable", pc'[x] # "reenable",
           \A y \in Ctx : y # x => pc'[y] = pc[y]
    PROVE  /\ \A y \in Ctx : y # x => /\ \A i : HoldsAt(y, i)' <=> HoldsAt(y, i)
                                      /\ Spinless(y)' <=> Spinless(y)
           /\ \A i \in 1..Len(guards[x]) :
                  /\ HoldsAt(x, i)' <=> HoldsAt(x, i)
                  /\ guards'[x][i] = guards[x][i]
           /\ HoldsAt(x, n)' <=> g.lock # NoLock
           /\ guards'[x][n] = g
           /\ Len(guards'[x]) = n
           /\ Len(guards[x]) \in Nat
           /\ Spinless(x) /\ g.lock = NoLock => Spinless(x)'
  <1>1. /\ \A y \in Ctx : y # x => guards'[y] = guards[y]
        /\ Len(guards[x]) \in Nat
        /\ Len(guards'[x]) = n
        /\ \A i \in 1..Len(guards[x]) : guards'[x][i] = guards[x][i]
        /\ guards'[x][n] = g
    BY AfterPush
  <1>2. \A y \in Ctx : y # x => /\ \A i : HoldsAt(y, i)' <=> HoldsAt(y, i)
                                /\ Spinless(y)' <=> Spinless(y)
    BY <1>1 DEF HoldsAt, Spinless
  <1>3. \A i \in 1..Len(guards[x]) : HoldsAt(x, i)' <=> HoldsAt(x, i)
    BY <1>1 DEF HoldsAt
  <1>4. HoldsAt(x, n)' <=> g.lock # NoLock
    BY <1>1 DEF HoldsAt
  <1>5. Spinless(x) /\ g.lock = NoLock => Spinless(x)'
    BY <1>1 DEF Spinless
  <1>6. QED
    BY <1>1, <1>2, <1>3, <1>4, <1>5

\* What pushing does to the interrupt flags, whoever pushes.
LEMMA PushFlags ==
    ASSUME IInv, NEW x \in Ctx, NEW g \in Guard, Push(x, g),
           ie' \in [Ctx -> BOOLEAN], ~ie'[x],
           \A y \in Ctx : y # x => ie'[y] = ie[y] /\ pc'[y] = pc[y]
                                   /\ ints'[y] = ints[y],
           ~ints'[x], pc'[x] = "code", UNCHANGED <<cur, task, mode>>,
           guards[x] # <<>> => ~g.ints,
           guards[x] = <<>> /\ mode[x] = "thread" => g.ints,
           x \in Irq => ~g.ints
    PROVE  OnCpu' /\ Masked' /\ Nested' /\ ThreadIF' /\ IrqIF'
  <1>1. /\ guards' \in [Ctx -> Seq(Guard)]
        /\ \A y \in Ctx : y # x => guards'[y] = guards[y]
        /\ Len(guards[x]) \in Nat
        /\ Len(guards'[x]) = Len(guards[x]) + 1
        /\ \A i \in 1..Len(guards[x]) : guards'[x][i] = guards[x][i]
        /\ guards'[x][Len(guards[x]) + 1] = g
        /\ guards'[x] # <<>>
        /\ guards[x] = <<>> => guards'[x][1] = g
    BY AfterPush DEF IInv
  <1>2. guards[x] # <<>> <=> Len(guards[x]) # 0
    BY EmptyFacts DEF IInv, TypeOK
  <1>3. OnCpu'
    BY DEF IInv, OnCpu
  <1>4. Masked'
    BY <1>1 DEF IInv, Masked
  <1>5. Nested'
    <2>1. \A y \in Ctx : y # x =>
              \A i \in 1..Len(guards'[y]) : i > 1 => ~guards'[y][i].ints
      BY <1>1 DEF IInv, Nested
    <2>2. ASSUME NEW i \in 1..Len(guards'[x]), i > 1
          PROVE  ~guards'[x][i].ints
      <3>1. CASE i = Len(guards[x]) + 1
        BY <1>1, <1>2, <2>2, <3>1
      <3>2. CASE i \in 1..Len(guards[x])
        BY <1>1, <2>2, <3>2 DEF IInv, Nested
      <3>3. QED
        BY <1>1, <3>1, <3>2
    <2>3. QED
      BY <2>1, <2>2 DEF Nested
  <1>6. ThreadIF'
    <2>1. guards[x] # <<>> => guards'[x][1] = guards[x][1]
      BY <1>1, <1>2
    <2>2. QED
      BY <1>1, <2>1 DEF IInv, ThreadIF
  <1>7. IrqIF'
    <2>1. \A y \in Irq : y \in Ctx
      BY DEF Ctx
    <2>2. ASSUME NEW i \in 1..Len(guards'[x]), x \in Irq
          PROVE  ~guards'[x][i].ints
      <3>1. CASE i = Len(guards[x]) + 1
        BY <1>1, <2>2, <3>1
      <3>2. CASE i \in 1..Len(guards[x])
        BY <1>1, <2>2, <3>2 DEF IInv, IrqIF
      <3>3. QED
        BY <1>1, <3>1, <3>2
    <2>3. QED
      BY <1>1, <2>1, <2>2 DEF IInv, IrqIF
  <1>8. QED
    BY <1>3, <1>4, <1>5, <1>6, <1>7

LEMMA SwapTakesIInv ==
    ASSUME IInv, NEW x \in Ctx, SwapTakes(x)
    PROVE  /\ IInv'
           /\ \E w \in Lock :
                  /\ \A y \in Ctx : ~Holds(y, w)
                  /\ Holds(x, w)'
                  /\ \A y \in Ctx, l \in Lock \ {w} : Holds(y, l)' <=> Holds(y, l)
  <1>n. PICK n : n = Len(guards[x]) + 1
    OBVIOUS
  <1>w. PICK w : w = want[x].lock
    OBVIOUS
  <1>g. PICK g : g = [lock |-> w, ints |-> ints[x]]
    OBVIOUS
  <1>0. /\ UNCHANGED <<ie, cur, task, mode, ops>> /\ Running(x)
        /\ pc[x] = "swap" /\ ~is_locked[w] /\ Push(x, g)
        /\ is_locked' = [is_locked EXCEPT ![w] = TRUE]
        /\ want' = [want EXCEPT ![x] = NoWant]
        /\ ints' = [ints EXCEPT ![x] = FALSE]
        /\ pc' = [pc EXCEPT ![x] = "code"]
    BY <1>w, <1>g DEF SwapTakes, Return, Goto
  <1>1. /\ w \in Lock /\ g \in Guard /\ g.lock = w /\ g.lock # NoLock
        /\ g.ints = ints[x]
    BY <1>0, <1>w, <1>g, SpinlockAssumption DEF IInv, TypeOK, Locals, Guard
  <1>2. /\ pc'[x] = "code" /\ ~ints'[x] /\ ~ie'[x]
        /\ \A y \in Ctx : y # x => ie'[y] = ie[y] /\ pc'[y] = pc[y]
                                   /\ ints'[y] = ints[y] /\ want'[y] = want[y]
        /\ ie' \in [Ctx -> BOOLEAN]
    BY <1>0 DEF IInv, TypeOK, Masked
  <1>3. OnCpu' /\ Masked' /\ Nested' /\ ThreadIF' /\ IrqIF'
    <2>1. guards[x] # <<>> => ~g.ints
      BY <1>0, <1>1 DEF IInv, Masked
    <2>2. guards[x] = <<>> /\ mode[x] = "thread" => g.ints
      BY <1>0, <1>1 DEF IInv, ThreadIF
    <2>3. x \in Irq => ~g.ints
      BY <1>1 DEF IInv, IrqIF
    <2>4. QED
      BY <1>0, <1>1, <1>2, <2>1, <2>2, <2>3, PushFlags
  <1>4. TypeOK'
    <2>1. guards' \in [Ctx -> Seq(Guard)]
      BY <1>0, <1>1, AfterPush DEF IInv
    <2>2. want' \in [Ctx -> Want] /\ is_locked' \in [Lock -> BOOLEAN]
      BY <1>0 DEF IInv, TypeOK, Want, NoWant
    <2>3. QED
      BY <1>0, <1>1, <2>1, <2>2 DEF IInv, TypeOK
  <1>5. Locals'
    <2>1. \A y \in Ctx : y # x => guards'[y] = guards[y]
      BY <1>0, <1>1, AfterPush DEF IInv
    <2>2. QED
      BY <1>2, <2>1 DEF IInv, Locals, Top
  <1>6. /\ \A y \in Ctx : y # x => /\ \A i : HoldsAt(y, i)' <=> HoldsAt(y, i)
                                   /\ Spinless(y)' <=> Spinless(y)
        /\ \A i \in 1..Len(guards[x]) : /\ HoldsAt(x, i)' <=> HoldsAt(x, i)
                                        /\ guards'[x][i] = guards[x][i]
        /\ HoldsAt(x, n)' /\ n = Len(guards[x]) + 1 /\ guards'[x][n].lock = w
        /\ Len(guards'[x]) = n /\ Len(guards[x]) \in Nat
        /\ \A y \in Ctx : y # x => guards'[y] = guards[y]
    BY <1>0, <1>1, <1>2, <1>n, PushHolds, AfterPush DEF IInv
  <1>7. OwnerRuns'
    BY <1>0, <1>6 DEF IInv, OwnerRuns, Running
  <1>a. ASSUME NEW u \in Ctx, NEW k \in 1..Len(guards'[u]), ~(u = x /\ k = n)
        PROVE  /\ k \in 1..Len(guards[u]) /\ guards'[u][k] = guards[u][k]
               /\ HoldsAt(u, k)' <=> HoldsAt(u, k)
    <2>1. CASE u = x
      <3>1. k \in 1..n /\ k # n
        BY <1>6, <1>a, <2>1
      <3>2. k \in 1..Len(guards[x])
        BY <1>6, <3>1
      <3>3. QED
        BY <1>6, <2>1, <3>2
    <2>2. CASE u # x
      BY <1>6, <1>a, <2>2
    <2>3. QED
      BY <2>1, <2>2
  <1>b. ASSUME NEW u \in Ctx, NEW k \in 1..Len(guards[u])
        PROVE  /\ k \in 1..Len(guards'[u]) /\ guards'[u][k] = guards[u][k]
               /\ HoldsAt(u, k)' <=> HoldsAt(u, k)
    <2>1. CASE u = x
      BY <1>6, <1>b, <2>1
    <2>2. CASE u # x
      BY <1>6, <1>b, <2>2
    <2>3. QED
      BY <2>1, <2>2
  <1>8. \A y \in Ctx : ~Holds(y, w)
    BY <1>0, <1>1 DEF IInv, FlagUp
  <1>c. ASSUME NEW l \in Lock \ {w}, NEW y \in Ctx
        PROVE  Holds(y, l)' <=> Holds(y, l)
    <2>1. Holds(y, l) => Holds(y, l)'
      BY <1>b DEF Holds
    <2>2. Holds(y, l)' => Holds(y, l)
      BY <1>6, <1>a, <1>c DEF Holds
    <2>3. QED
      BY <2>1, <2>2
  <1>d. Holds(x, w)'
    BY <1>6 DEF Holds
  <1>9. FlagUp'
    BY <1>0, <1>1, <1>c, <1>d DEF IInv, FlagUp, TypeOK
  <1>10. MutualExclusion'
    <2> SUFFICES ASSUME NEW y \in Ctx, NEW z \in Ctx,
                        NEW i \in 1..Len(guards'[y]), NEW j \in 1..Len(guards'[z]),
                        HoldsAt(y, i)', HoldsAt(z, j)',
                        guards'[y][i].lock = guards'[z][j].lock
                 PROVE  y = z /\ i = j
      BY DEF MutualExclusion
    <2>1. ASSUME NEW u \in Ctx, NEW k \in 1..Len(guards'[u]), HoldsAt(u, k)',
                 ~(u = x /\ k = n)
          PROVE  guards'[u][k].lock # w
      <3>1. /\ k \in 1..Len(guards[u]) /\ guards'[u][k] = guards[u][k]
            /\ HoldsAt(u, k)
        BY <1>a, <2>1
      <3>2. ~Holds(u, w)
        BY <1>8
      <3>3. QED
        BY <3>1, <3>2, Zenon DEF Holds
    <2>2. CASE (y = x /\ i = n) \/ (z = x /\ j = n)
      BY <1>6, <2>1, <2>2
    <2>3. CASE ~(y = x /\ i = n) /\ ~(z = x /\ j = n)
      <3>1. /\ i \in 1..Len(guards[y]) /\ guards'[y][i] = guards[y][i]
            /\ HoldsAt(y, i)
        BY <1>a, <2>3
      <3>2. /\ j \in 1..Len(guards[z]) /\ guards'[z][j] = guards[z][j]
            /\ HoldsAt(z, j)
        BY <1>a, <2>3
      <3>3. guards[y][i].lock = guards[z][j].lock
        BY <3>1, <3>2
      <3>4. MutualExclusion
        BY DEF IInv
      <3>5. QED
        BY <3>1, <3>2, <3>3, <3>4 DEF MutualExclusion
    <2>4. QED
      BY <2>2, <2>3
  <1>11. \E v \in Lock :
            /\ \A y \in Ctx : ~Holds(y, v)
            /\ Holds(x, v)'
            /\ \A y \in Ctx, l \in Lock \ {v} : Holds(y, l)' <=> Holds(y, l)
    BY <1>1, <1>8, <1>c, <1>d
  <1>12. QED
    BY <1>11, <1>3, <1>4, <1>5, <1>7, <1>9, <1>10 DEF IInv

LEMMA PreemptionLockIInv ==
    ASSUME IInv, NEW x \in Ctx, PreemptionLock(x)
    PROVE  /\ IInv'
           /\ \A y \in Ctx, l \in Lock : Holds(y, l)' <=> Holds(y, l)
  <1>n. PICK n : n = Len(guards[x]) + 1
    OBVIOUS
  <1>g. PICK g : g = [lock |-> NoLock, ints |-> ie[x]]
    OBVIOUS
  <1>0. /\ UNCHANGED <<is_locked, cur, task, mode, pc, want, ints>> /\ Running(x)
        /\ pc[x] = "code" /\ Push(x, g)
        /\ ie' = [ie EXCEPT ![x] = FALSE]
        /\ ops[x] > 0 /\ ops' = [ops EXCEPT ![x] = @ - 1]
    BY <1>g DEF PreemptionLock
  <1>1. g \in Guard /\ g.lock = NoLock /\ g.ints = ie[x]
    BY <1>g DEF IInv, TypeOK, Guard
  <1>2. /\ ~ie'[x] /\ ie' \in [Ctx -> BOOLEAN]
        /\ \A y \in Ctx : y # x => ie'[y] = ie[y]
    BY <1>0 DEF IInv, TypeOK
  <1>3. /\ guards' \in [Ctx -> Seq(Guard)]
        /\ \A y \in Ctx : y # x => guards'[y] = guards[y]
        /\ \A y \in Ctx : y # x => /\ \A i : HoldsAt(y, i)' <=> HoldsAt(y, i)
                                   /\ Spinless(y)' <=> Spinless(y)
        /\ \A i \in 1..Len(guards[x]) : /\ HoldsAt(x, i)' <=> HoldsAt(x, i)
                                        /\ guards'[x][i] = guards[x][i]
        /\ ~HoldsAt(x, n)' /\ n = Len(guards[x]) + 1
        /\ Len(guards'[x]) = n /\ Len(guards[x]) \in Nat
    BY <1>0, <1>1, <1>n, PushHolds, AfterPush DEF IInv
  <1>4. TypeOK'
    BY <1>0, <1>2, <1>3 DEF IInv, TypeOK
  <1>5. OnCpu'
    BY <1>0 DEF IInv, OnCpu
  <1>6. Masked' /\ Nested' /\ ThreadIF' /\ IrqIF' /\ Locals'
    <2>g. guards'[x] # <<>> /\ \A i \in 1..Len(guards[x]) : guards'[x][i] = guards[x][i]
      BY <1>0, <1>1, AfterPush DEF IInv
    <2>m. Masked'
      BY <1>0, <1>2, <1>3 DEF IInv, Masked
    <2>0. /\ \A i \in 1..Len(guards'[x]) : i = n \/ i \in 1..Len(guards[x])
          /\ guards'[x][n] = g
          /\ guards[x] # <<>> <=> n # 1
      BY <1>0, <1>1, <1>3, AfterPush, EmptyFacts DEF IInv, TypeOK
    <2>1. guards[x] # <<>> => ~g.ints
      BY <1>1 DEF IInv, Masked
    <2>2. Nested'
      <3>1. \A i \in 1..Len(guards'[x]) : i > 1 => ~guards'[x][i].ints
        BY <2>0, <2>1, <1>3 DEF IInv, Nested
      <3>2. QED
        BY <1>3, <3>1 DEF IInv, Nested
    <2>3. ThreadIF'
      <3>1. mode[x] = "thread" => guards'[x][1].ints
        <4>1. CASE guards[x] = <<>>
          BY <1>0, <1>1, <1>3, <2>0, <4>1 DEF IInv, ThreadIF
        <4>2. CASE guards[x] # <<>>
          <5>1. 1 \in 1..Len(guards[x])
            BY <1>3, <2>0, <4>2
          <5>2. QED
            BY <1>3, <4>2, <5>1 DEF IInv, ThreadIF
        <4>3. QED
          BY <4>1, <4>2
      <3>2. QED
        BY <1>0, <1>2, <1>3, <2>g, <3>1 DEF IInv, ThreadIF
    <2>4. IrqIF'
      <3>1. x \in Irq => ~g.ints
        BY <1>1 DEF IInv, IrqIF
      <3>2. x \in Irq => \A i \in 1..Len(guards'[x]) : ~guards'[x][i].ints
        BY <1>3, <2>0, <3>1 DEF IInv, IrqIF
      <3>3. \A y \in Irq : y \in Ctx
        BY DEF Ctx
      <3>4. QED
        BY <1>0, <1>2, <1>3, <3>2, <3>3 DEF IInv, IrqIF
    <2>5. Locals'
      BY <1>0, <1>3 DEF IInv, Locals, Top
    <2>6. QED
      BY <2>m, <2>2, <2>3, <2>4, <2>5
  <1>7. OwnerRuns'
    BY <1>0, <1>3 DEF IInv, OwnerRuns, Running
  <1>a. ASSUME NEW u \in Ctx, NEW k \in 1..Len(guards'[u]), HoldsAt(u, k)'
        PROVE  k \in 1..Len(guards[u]) /\ guards'[u][k] = guards[u][k] /\ HoldsAt(u, k)
    <2>1. CASE u = x
      <3>1. k \in 1..n /\ k # n
        BY <1>3, <1>a, <2>1
      <3>2. k \in 1..Len(guards[x])
        BY <1>3, <3>1
      <3>3. QED
        BY <1>3, <1>a, <2>1, <3>2
    <2>2. CASE u # x
      BY <1>3, <1>a, <2>2
    <2>3. QED
      BY <2>1, <2>2
  <1>b. ASSUME NEW u \in Ctx, NEW k \in 1..Len(guards[u]), HoldsAt(u, k)
        PROVE  /\ k \in 1..Len(guards'[u]) /\ guards'[u][k] = guards[u][k]
               /\ HoldsAt(u, k)'
    <2>1. CASE u = x
      BY <1>3, <1>b, <2>1
    <2>2. CASE u # x
      BY <1>3, <1>b, <2>2
    <2>3. QED
      BY <2>1, <2>2
  <1>c. ASSUME NEW y \in Ctx, NEW l \in Lock
        PROVE  Holds(y, l)' <=> Holds(y, l)
    <2>1. Holds(y, l) => Holds(y, l)'
      BY <1>b DEF Holds
    <2>2. Holds(y, l)' => Holds(y, l)
      BY <1>a DEF Holds
    <2>3. QED
      BY <2>1, <2>2
  <1>8. FlagUp'
    BY <1>0, <1>c DEF IInv, FlagUp
  <1>9. MutualExclusion'
    <2>1. SUFFICES ASSUME NEW u \in Ctx, NEW v \in Ctx,
                          NEW i \in 1..Len(guards'[u]), NEW j \in 1..Len(guards'[v]),
                          HoldsAt(u, i)', HoldsAt(v, j)',
                          guards'[u][i].lock = guards'[v][j].lock
                   PROVE  u = v /\ i = j
      BY DEF MutualExclusion
    <2>2. i \in 1..Len(guards[u]) /\ guards'[u][i] = guards[u][i] /\ HoldsAt(u, i)
      BY <2>1, <1>a
    <2>3. j \in 1..Len(guards[v]) /\ guards'[v][j] = guards[v][j] /\ HoldsAt(v, j)
      BY <2>1, <1>a
    <2>4. QED
      BY <2>1, <2>2, <2>3 DEF IInv, MutualExclusion
  <1>10. QED
    BY <1>4, <1>5, <1>6, <1>7, <1>8, <1>9, <1>c DEF IInv

(***************************************************************************)
(* drop(): the store gives the lock back, the rest pops the guard.         *)
(***************************************************************************)
LEMMA DropStoreIInv ==
    ASSUME IInv, NEW x \in Ctx, DropStore(x)
    PROVE  /\ IInv'
           /\ \E w \in Lock :
                  /\ Holds(x, w)
                  /\ \A y \in Ctx : ~Holds(y, w)'
                  /\ \A y \in Ctx, l \in Lock \ {w} : Holds(y, l)' <=> Holds(y, l)
  <1>w. PICK w : w = Top(x).lock
    OBVIOUS
  <1>n. PICK n : n = Len(guards[x])
    OBVIOUS
  <1>0. /\ UNCHANGED <<ie, cur, task, mode, want, ints, guards, ops>>
        /\ pc[x] = "code" /\ guards[x] # <<>> /\ w # NoLock
        /\ is_locked' = [is_locked EXCEPT ![w] = FALSE]
        /\ pc' = [pc EXCEPT ![x] = "reenable"]
    BY <1>w DEF DropStore, Goto
  <1>1. n \in 1..Len(guards[x]) /\ guards[x][n].lock = w /\ w \in Lock
    <2>1. guards[x] \in Seq(Guard)
      BY DEF IInv, TypeOK
    <2>2. n \in 1..Len(guards[x]) /\ guards[x][n] \in Guard
      BY <1>0, <1>n, <2>1, PopFacts
    <2>3. QED
      BY <1>0, <1>w, <1>n, <2>2 DEF Top, Guard
  <1>2. TypeOK' /\ OnCpu' /\ Nested'
    BY <1>0 DEF IInv, TypeOK, OnCpu, Nested
  <1>3. Locals' /\ Masked' /\ ThreadIF' /\ IrqIF'
    BY <1>0, <1>w DEF IInv, TypeOK, Locals, Masked, ThreadIF, IrqIF, Top
  <1>4. OwnerRuns'
    BY <1>0, OwnerRunsFrame DEF IInv
  <1>5. HoldsAt(x, n)
    BY <1>0, <1>1 DEF HoldsAt
  <1>6. ASSUME NEW u \in Ctx, NEW k
        PROVE  HoldsAt(u, k)' <=> HoldsAt(u, k) /\ ~(u = x /\ k = n)
    BY <1>0, <1>n DEF HoldsAt, IInv, TypeOK
  <1>a. ASSUME NEW y \in Ctx PROVE ~Holds(y, w)'
    <2>1. ASSUME NEW k \in 1..Len(guards[y]), HoldsAt(y, k),
                 guards[y][k].lock = w
          PROVE  y = x /\ k = n
      BY <1>1, <1>5, <2>1 DEF IInv, MutualExclusion
    <2>2. QED
      BY <1>0, <1>6, <2>1 DEF Holds
  <1>b. ASSUME NEW l \in Lock \ {w}, NEW y \in Ctx
        PROVE  Holds(y, l)' <=> Holds(y, l)
    BY <1>0, <1>1, <1>6, <1>b DEF Holds
  <1>7. FlagUp'
    BY <1>0, <1>1, <1>a, <1>b DEF IInv, FlagUp, TypeOK
  <1>8. MutualExclusion'
    BY <1>0, <1>6 DEF IInv, MutualExclusion
  <1>9. \E v \in Lock :
            /\ Holds(x, v)
            /\ \A y \in Ctx : ~Holds(y, v)'
            /\ \A y \in Ctx, l \in Lock \ {v} : Holds(y, l)' <=> Holds(y, l)
    <2>1. Holds(x, w)
      BY <1>1, <1>5 DEF Holds
    <2>2. \A y \in Ctx : ~Holds(y, w)'
      BY <1>a
    <2>3. \A y \in Ctx, l \in Lock \ {w} : Holds(y, l)' <=> Holds(y, l)
      BY <1>b
    <2>4. QED
      BY <1>1, <2>1, <2>2, <2>3
  <1>10. QED
    BY <1>9, <1>2, <1>3, <1>4, <1>7, <1>8 DEF IInv

LEMMA PopIInv ==
    ASSUME IInv, NEW x \in Ctx, guards[x] # <<>>, Pop(x), pc'[x] = "code",
           ~HoldsAt(x, Len(guards[x])), pc[x] \in {"code", "reenable"},
           ie' \in [Ctx -> BOOLEAN], ie'[x] = Top(x).ints,
           pc' \in [Ctx -> {"code", "swap", "spin", "reenable"}],
           \A y \in Ctx : y # x => ie'[y] = ie[y] /\ pc'[y] = pc[y],
           UNCHANGED <<is_locked, cur, task, mode, want, ints, ops>>
    PROVE  /\ IInv'
           /\ \A y \in Ctx, l \in Lock : Holds(y, l)' <=> Holds(y, l)
  <1>n. PICK n : n = Len(guards[x])
    OBVIOUS
  <1>1. /\ guards' \in [Ctx -> Seq(Guard)]
        /\ \A y \in Ctx : y # x => guards'[y] = guards[y]
        /\ n \in Nat \ {0}
        /\ Len(guards'[x]) = n - 1
        /\ \A i \in 1..(n - 1) : guards'[x][i] = guards[x][i]
        /\ guards'[x] = <<>> <=> n = 1
        /\ Top(x) = guards[x][n]
    BY <1>n, AfterPop DEF IInv, Top
  <1>2. TypeOK'
    BY <1>1 DEF IInv, TypeOK
  <1>3. OnCpu'
    BY DEF IInv, OnCpu
  <1>4. Locals'
    <2>1. ASSUME NEW y \in Ctx, y # x
          PROVE  /\ pc'[y] = pc[y] /\ want'[y] = want[y] /\ Top(y)' = Top(y)
                 /\ guards'[y] = guards[y]
      BY <1>1, <2>1 DEF Top
    <2>2. ASSUME NEW y \in Ctx
          PROVE  /\ pc'[y] \in {"swap", "spin"} => want'[y].lock \in Lock
                 /\ pc'[y] = "reenable" => guards'[y] # <<>> /\ Top(y)'.lock # NoLock
      <3>1. CASE y = x
        BY <3>1
      <3>2. CASE y # x
        BY <2>1, <3>2 DEF IInv, Locals
      <3>3. QED
        BY <3>1, <3>2
    <2>3. QED
      BY <2>2 DEF Locals
  <1>5. n > 1 => ~ie'[x]
    BY <1>1, <1>n DEF IInv, Nested
  <1>6. Masked'
    <2>1. n # 1 => n > 1
      BY <1>1
    <2>2. guards'[x] # <<>> => ~ie'[x]
      BY <1>1, <1>5, <2>1
    <2>3. QED
      BY <1>1, <2>2 DEF IInv, Masked
  <1>7. Nested'
    <2>1. \A i \in 1..Len(guards'[x]) : i > 1 => ~guards'[x][i].ints
      BY <1>1, <1>n DEF IInv, Nested
    <2>2. QED
      BY <1>1, <2>1 DEF IInv, Nested
  <1>8. ThreadIF'
    <2>1. mode[x] = "thread" => guards[x][1].ints
      BY DEF IInv, ThreadIF
    <2>2. n = 1 => ie'[x] = guards[x][1].ints
      BY <1>1
    <2>3. n # 1 => 1 \in 1..(n - 1)
      BY <1>1
    <2>4. guards'[x] # <<>> => guards'[x][1] = guards[x][1]
      BY <1>1, <2>3
    <2>5. ASSUME mode[x] = "thread"
          PROVE  /\ guards'[x] # <<>> => guards'[x][1].ints
                 /\ guards'[x] = <<>> => ie'[x]
      BY <1>1, <2>1, <2>2, <2>4, <2>5
    <2>6. SUFFICES ASSUME NEW y \in Ctx, mode'[y] = "thread"
                   PROVE  /\ guards'[y] # <<>> => guards'[y][1].ints
                          /\ guards'[y] = <<>> /\ pc'[y] \in {"swap", "spin"}
                                => ints'[y]
                          /\ guards'[y] = <<>> /\ pc'[y] \in {"code", "spin"} => ie'[y]
      BY DEF ThreadIF
    <2>7. CASE y = x
      BY <2>5, <2>6, <2>7
    <2>8. CASE y # x
      BY <1>1, <2>6, <2>8 DEF IInv, ThreadIF
    <2>9. QED
      BY <2>7, <2>8
  <1>9. IrqIF'
    <2>1. x \in Irq => ~ie'[x]
      BY <1>1, <1>n DEF IInv, IrqIF
    <2>2. x \in Irq => \A i \in 1..Len(guards'[x]) : ~guards'[x][i].ints
      BY <1>1, <1>n DEF IInv, IrqIF
    <2>3. \A y \in Irq : y \in Ctx
      BY DEF Ctx
    <2>4. QED
      BY <1>1, <2>1, <2>2, <2>3 DEF IInv, IrqIF
  <1>10. ASSUME NEW u \in Ctx, NEW k \in 1..Len(guards'[u])
         PROVE  /\ k \in 1..Len(guards[u]) /\ guards'[u][k] = guards[u][k]
                /\ HoldsAt(u, k)' => HoldsAt(u, k)
                /\ HoldsAt(u, k) => HoldsAt(u, k)'
    <2>1. CASE u = x
      <3>1. k \in 1..(n - 1) /\ k \in 1..n /\ k # n
        BY <1>1, <1>10, <2>1
      <3>2. guards'[x][k] = guards[x][k]
        BY <1>1, <3>1
      <3>3. QED
        BY <1>n, <2>1, <3>1, <3>2 DEF HoldsAt
    <2>2. CASE u # x
      BY <1>1, <1>10, <2>2 DEF HoldsAt
    <2>3. QED
      BY <2>1, <2>2
  <1>11. ASSUME NEW u \in Ctx, NEW k \in 1..Len(guards[u]), HoldsAt(u, k)
         PROVE  k \in 1..Len(guards'[u])
    <2>1. CASE u = x
      <3>1. k \in 1..n /\ k # n
        BY <1>n, <1>11, <2>1
      <3>2. QED
        BY <1>1, <2>1, <3>1
    <2>2. CASE u # x
      BY <1>1, <1>11, <2>2
    <2>3. QED
      BY <2>1, <2>2
  <1>12. OwnerRuns'
    <2>1. ASSUME NEW u \in Ctx, ~Spinless(u)' PROVE ~Spinless(u)
      BY <1>10, <2>1 DEF Spinless
    <2>2. QED
      BY <2>1 DEF IInv, OwnerRuns, Running
  <1>c. ASSUME NEW y \in Ctx, NEW l \in Lock
        PROVE  Holds(y, l)' <=> Holds(y, l)
    <2>1. Holds(y, l) => Holds(y, l)'
      BY <1>10, <1>11 DEF Holds
    <2>2. Holds(y, l)' => Holds(y, l)
      BY <1>10 DEF Holds
    <2>3. QED
      BY <2>1, <2>2
  <1>13. FlagUp'
    BY <1>c DEF IInv, FlagUp
  <1>14. MutualExclusion'
    <2> SUFFICES ASSUME NEW y \in Ctx, NEW z \in Ctx,
                        NEW i \in 1..Len(guards'[y]), NEW j \in 1..Len(guards'[z]),
                        HoldsAt(y, i)', HoldsAt(z, j)',
                        guards'[y][i].lock = guards'[z][j].lock
                 PROVE  y = z /\ i = j
      BY DEF MutualExclusion
    <2>1. i \in 1..Len(guards[y]) /\ guards'[y][i] = guards[y][i] /\ HoldsAt(y, i)
      BY <1>10
    <2>2. j \in 1..Len(guards[z]) /\ guards'[z][j] = guards[z][j] /\ HoldsAt(z, j)
      BY <1>10
    <2>3. MutualExclusion
      BY DEF IInv
    <2>4. QED
      BY <2>1, <2>2, <2>3 DEF MutualExclusion
  <1>15. QED
    BY <1>2, <1>3, <1>4, <1>6, <1>7, <1>8, <1>9, <1>12, <1>13, <1>14, <1>c DEF IInv

LEMMA DropRestoreIInv ==
    ASSUME IInv, NEW x \in Ctx, DropRestore(x)
    PROVE  /\ IInv'
           /\ \A y \in Ctx, l \in Lock : Holds(y, l)' <=> Holds(y, l)
  <1>1. /\ UNCHANGED <<is_locked, cur, task, mode, want, ints, ops>>
        /\ pc[x] = "reenable" /\ Pop(x) /\ guards[x] # <<>>
        /\ ie' = [ie EXCEPT ![x] = Top(x).ints]
        /\ pc' = [pc EXCEPT ![x] = "code"]
    BY DEF DropRestore, Goto, IInv, Locals
  <1>2. Top(x).ints \in BOOLEAN
    BY <1>1, AfterPop DEF IInv, Guard
  <1>3. ~HoldsAt(x, Len(guards[x]))
    BY <1>1 DEF HoldsAt
  <1>4. /\ ie' \in [Ctx -> BOOLEAN] /\ ie'[x] = Top(x).ints /\ pc'[x] = "code"
        /\ pc' \in [Ctx -> {"code", "swap", "spin", "reenable"}]
        /\ \A y \in Ctx : y # x => ie'[y] = ie[y] /\ pc'[y] = pc[y]
    BY <1>1, <1>2 DEF IInv, TypeOK
  <1>5. QED
    BY <1>1, <1>3, <1>4, PopIInv

LEMMA PreemptionDropIInv ==
    ASSUME IInv, NEW x \in Ctx, PreemptionDrop(x)
    PROVE  /\ IInv'
           /\ \A y \in Ctx, l \in Lock : Holds(y, l)' <=> Holds(y, l)
  <1>1. /\ UNCHANGED <<is_locked, cur, task, mode, pc, want, ints, ops>>
        /\ pc[x] = "code" /\ Pop(x) /\ guards[x] # <<>> /\ Top(x).lock = NoLock
        /\ ie' = [ie EXCEPT ![x] = ie[x] \/ Top(x).ints]
    BY DEF PreemptionDrop
  <1>2. Top(x).ints \in BOOLEAN /\ ~ie[x]
    BY <1>1, AfterPop DEF IInv, Guard, Masked
  <1>3. ~HoldsAt(x, Len(guards[x]))
    BY <1>1 DEF HoldsAt, Top
  <1>4. /\ ie' \in [Ctx -> BOOLEAN] /\ ie'[x] = Top(x).ints /\ pc'[x] = "code"
        /\ pc' \in [Ctx -> {"code", "swap", "spin", "reenable"}]
        /\ \A y \in Ctx : y # x => ie'[y] = ie[y] /\ pc'[y] = pc[y]
    BY <1>1, <1>2 DEF IInv, TypeOK
  <1>5. QED
    BY <1>1, <1>3, <1>4, PopIInv

(***************************************************************************)
(* The theorems.                                                           *)
(***************************************************************************)
LEMMA NextIInv ==
    ASSUME NobodySleeps
    PROVE  IInv /\ [Next]_vars => IInv'
  <1> SUFFICES ASSUME IInv, [Next]_vars PROVE IInv'
    OBVIOUS
  <1>1. ASSUME NEW x \in Ctx, NEW l \in Lock, NEW try \in BOOLEAN, Call(x, l, try)
        PROVE  IInv'
    BY <1>1, CallIInv
  <1>2. ASSUME NEW x \in Ctx, LockStep(x) PROVE IInv'
    BY <1>2, SwapTakesIInv, SwapFailsIInv, SpinEndsIInv DEF LockStep
  <1>3. ASSUME NEW x \in Ctx, DropStep(x) \/ PreemptionLock(x) PROVE IInv'
    BY <1>3, DropStoreIInv, DropRestoreIInv, PreemptionDropIInv,
       PreemptionLockIInv DEF DropStep
  <1>4. ASSUME NEW t \in Task, SyscallEnter(t) \/ SyscallExit(t) PROVE IInv'
    BY <1>4, SyscallIInv
  <1>5. ASSUME NEW t \in Task, NEW next \in Task,
               Block(t, next) \/ BlockUnderGuard(t, next)
        PROVE  IInv'
    BY <1>5, BlockIInv, BlockUnderGuardIInv
  <1>6. ASSUME NEW c \in CPU, NEW next \in Task, TimerIrq(c, next) PROVE IInv'
    BY <1>6, TimerIrqIInv
  <1>7. ASSUME NEW h \in Irq, IrqEnter(h) \/ IrqExit(h) PROVE IInv'
    BY <1>7, IrqEnterIInv, IrqExitIInv
  <1>8. ASSUME UNCHANGED vars PROVE IInv'
    BY <1>8 DEF vars, IInv, TypeOK, OnCpu, Locals, Masked, Nested, ThreadIF,
                IrqIF, OwnerRuns, FlagUp, MutualExclusion, Top, Running,
                Spinless, Holds, HoldsAt
  <1>9. QED
    BY <1>1, <1>2, <1>3, <1>4, <1>5, <1>6, <1>7, <1>8 DEF Next

\* Every state of the specification satisfies the inductive invariant.
THEOREM Invariance ==
    ASSUME NobodySleeps
    PROVE  Spec => []IInv
  BY InitIInv, NextIInv, PTL DEF Spec

\* The flags, guards and program counters keep their types.
THEOREM TypeCorrect ==
    ASSUME NobodySleeps
    PROVE  Spec => []TypeOK
  <1>1. IInv => TypeOK
    BY DEF IInv
  <1>2. QED
    BY <1>1, Invariance, PTL

\* Spinlock::lock excludes: for any number of CPUs, tasks and handlers two
\* guards of one lock never coexist.
THEOREM LockExcludes ==
    ASSUME NobodySleeps
    PROVE  Spec => []MutualExclusion
  <1>1. IInv => MutualExclusion
    BY DEF IInv
  <1>2. QED
    BY <1>1, Invariance, PTL

\* A context that has a spinlock is on its CPU with interrupts off, so no CPU
\* spins on a lock that its own preempted or interrupted code has.
THEOREM OwnerKeepsCpu ==
    ASSUME NobodySleeps
    PROVE  Spec => []HolderKeepsCpu
  <1>1. IInv => HolderKeepsCpu
    <2>1. ASSUME IInv, NEW x \in Ctx, ~Spinless(x)
          PROVE  Running(x) /\ ~ie[x]
      <3>1. guards[x] # <<>>
        BY <2>1, EmptyFacts DEF IInv, TypeOK, Spinless
      <3>2. QED
        BY <2>1, <3>1 DEF IInv, OwnerRuns, Masked
    <2>2. QED
      BY <2>1 DEF HolderKeepsCpu
  <1>2. QED
    BY <1>1, Invariance, PTL

\* Nested guards, try_lock failures and blocking under a guard give the
\* interrupt flag back as they found it.
THEOREM InterruptsGivenBack ==
    ASSUME NobodySleeps
    PROVE  Spec => []InterruptsRestored
  <1>1. IInv => InterruptsRestored
    BY DEF IInv, InterruptsRestored, ThreadIF, IrqIF, TypeOK
  <1>2. QED
    BY <1>1, Invariance, PTL

(***************************************************************************)
(* The refinement of LockOwner.                                            *)
(***************************************************************************)
OwnerHolds ==
    /\ \A x \in Ctx, l \in Lock : Holds(x, l) => owner[l] = x
    /\ \A l \in Lock : (\A x \in Ctx : ~Holds(x, l)) => owner[l] = NoOwner

LEMMA OwnerIsHolder == MutualExclusion => OwnerHolds
  <1> SUFFICES ASSUME MutualExclusion PROVE OwnerHolds
    OBVIOUS
  <1>1. ASSUME NEW x \in Ctx, NEW l \in Lock, Holds(x, l)
        PROVE  owner[l] = x
    <2>1. \A y \in Ctx : Holds(y, l) => y = x
      BY <1>1 DEF MutualExclusion, Holds
    <2>2. (CHOOSE y \in Ctx : Holds(y, l)) = x
      BY <1>1, <2>1
    <2>3. QED
      BY <1>1, <2>2 DEF owner
  <1>2. ASSUME NEW l \in Lock, \A x \in Ctx : ~Holds(x, l)
        PROVE  owner[l] = NoOwner
    BY <1>2 DEF owner
  <1>3. QED
    BY <1>1, <1>2 DEF OwnerHolds

LEMMA OwnerUnchanged ==
    ASSUME \A x \in Ctx, l \in Lock : Holds(x, l)' <=> Holds(x, l)
    PROVE  owner' = owner
  <1>1. ASSUME NEW l \in Lock
        PROVE  owner'[l] = owner[l]
    <2>1. (\E x \in Ctx : Holds(x, l)') <=> (\E x \in Ctx : Holds(x, l))
      OBVIOUS
    <2>2. (CHOOSE x \in Ctx : Holds(x, l)') = (CHOOSE x \in Ctx : Holds(x, l))
      OBVIOUS
    <2>3. QED
      BY <2>1, <2>2 DEF owner
  <1>2. QED
    BY <1>1 DEF owner

LEMMA GuardsUnchanged ==
    ASSUME UNCHANGED guards,
           \A x \in Ctx : pc'[x] = "reenable" <=> pc[x] = "reenable"
    PROVE  owner' = owner
  BY HoldsFrame, OwnerUnchanged

LEMMA InitOwner == Init => Owner!Init
  <1> SUFFICES ASSUME Init PROVE Owner!Init
    OBVIOUS
  <1>1. \A x \in Ctx, l \in Lock : ~Holds(x, l)
    BY DEF Init, Holds
  <1>2. QED
    BY <1>1 DEF owner, Owner!Init

LEMMA NextOwner == IInv /\ IInv' /\ [Next]_vars => [Owner!Next]_owner
  <1> SUFFICES ASSUME IInv, IInv', [Next]_vars PROVE [Owner!Next]_owner
    OBVIOUS
  <1>a. /\ \A x \in Ctx, l \in Lock : Holds(x, l) => owner[l] = x
        /\ \A l \in Lock : (\A x \in Ctx : ~Holds(x, l)) => owner[l] = NoOwner
    BY OwnerIsHolder DEF IInv, OwnerHolds
  <1>b. /\ \A x \in Ctx, l \in Lock : Holds(x, l)' => owner'[l] = x
        /\ \A l \in Lock : (\A x \in Ctx : ~Holds(x, l)') => owner'[l] = NoOwner
    <2>1. MutualExclusion'
      BY DEF IInv
    <2>2. OwnerHolds'
      BY <2>1, OwnerIsHolder, PTL
    <2>3. QED
      BY <2>2 DEF OwnerHolds
  <1>c. ASSUME NEW w \in Lock,
               \A y \in Ctx, l \in Lock \ {w} : Holds(y, l)' <=> Holds(y, l)
        PROVE  owner' = [owner EXCEPT ![w] = owner'[w]]
    <2>1. ASSUME NEW l \in Lock \ {w} PROVE owner'[l] = owner[l]
      <3>1. CASE \E x \in Ctx : Holds(x, l)
        BY <1>a, <1>b, <1>c, <3>1
      <3>2. CASE \A x \in Ctx : ~Holds(x, l)
        BY <1>a, <1>b, <1>c, <3>2
      <3>3. QED
        BY <3>1, <3>2
    <2>2. QED
      BY <2>1 DEF owner
  <1>1. ASSUME NEW x \in Ctx, SwapTakes(x) PROVE Owner!Next
    <2>1. PICK w \in Lock :
              /\ \A y \in Ctx : ~Holds(y, w)
              /\ Holds(x, w)'
              /\ \A y \in Ctx, l \in Lock \ {w} : Holds(y, l)' <=> Holds(y, l)
      BY <1>1, SwapTakesIInv
    <2>2. owner[w] = NoOwner /\ owner' = [owner EXCEPT ![w] = x]
      BY <1>a, <1>b, <1>c, <2>1
    <2>3. QED
      BY <2>2 DEF Owner!Next, Owner!Acquire
  <1>2. ASSUME NEW x \in Ctx, DropStore(x) PROVE Owner!Next
    <2>1. PICK w \in Lock :
              /\ Holds(x, w)
              /\ \A y \in Ctx : ~Holds(y, w)'
              /\ \A y \in Ctx, l \in Lock \ {w} : Holds(y, l)' <=> Holds(y, l)
      BY <1>2, DropStoreIInv
    <2>2. owner[w] = x /\ owner' = [owner EXCEPT ![w] = NoOwner]
      BY <1>a, <1>b, <1>c, <2>1
    <2>3. QED
      BY <2>2 DEF Owner!Next, Owner!Release
  <1>3. ASSUME NEW x \in Ctx, PreemptionLock(x) \/ PreemptionDrop(x) \/ DropRestore(x)
        PROVE  owner' = owner
    BY <1>3, PreemptionLockIInv, PreemptionDropIInv, DropRestoreIInv, OwnerUnchanged
  <1>4. ASSUME NEW x \in Ctx, SwapFails(x) \/ SpinEnds(x) PROVE owner' = owner
    <2>1. /\ UNCHANGED guards /\ pc[x] # "reenable" /\ pc'[x] # "reenable"
          /\ \A y \in Ctx : y # x => pc'[y] = pc[y]
      BY <1>4 DEF SwapFails, SpinEnds, ClearIF, Return, Goto, IInv, TypeOK
    <2>2. QED
      BY <2>1, GuardsUnchanged
  <1>5. ASSUME NEW x \in Ctx, NEW l \in Lock, NEW try \in BOOLEAN, Call(x, l, try)
        PROVE  owner' = owner
    <2>1. /\ UNCHANGED guards /\ pc[x] # "reenable" /\ pc'[x] # "reenable"
          /\ \A y \in Ctx : y # x => pc'[y] = pc[y]
      BY <1>5 DEF Call, ClearIF, Goto, IInv, TypeOK
    <2>2. QED
      BY <2>1, GuardsUnchanged
  <1>6. ASSUME UNCHANGED <<guards, pc>> PROVE owner' = owner
    BY <1>6, GuardsUnchanged
  <1>7. ASSUME NEW t \in Task, SyscallEnter(t) \/ SyscallExit(t)
        PROVE  owner' = owner
    BY <1>6, <1>7 DEF SyscallEnter, SyscallExit
  <1>8. ASSUME NEW t \in Task, NEW next \in Task,
               Block(t, next) \/ BlockUnderGuard(t, next)
        PROVE  owner' = owner
    BY <1>6, <1>8 DEF Block, BlockUnderGuard
  <1>9. ASSUME NEW c \in CPU, NEW next \in Task, TimerIrq(c, next)
        PROVE  owner' = owner
    BY <1>6, <1>9 DEF TimerIrq
  <1>10. ASSUME NEW h \in Irq, IrqEnter(h) \/ IrqExit(h) PROVE owner' = owner
    BY <1>6, <1>10 DEF IrqEnter, IrqExit
  <1>11. ASSUME UNCHANGED vars PROVE owner' = owner
    BY <1>6, <1>11 DEF vars
  <1>12. QED
    BY <1>1, <1>2, <1>3, <1>4, <1>5, <1>7, <1>8, <1>9, <1>10, <1>11
       DEF Next, LockStep, DropStep

\* The lock implements its abstract specification: one owner, taken only when
\* free, given back only by the owner.
THEOREM Refinement ==
    ASSUME NobodySleeps
    PROVE  Spec => ImplementsOwner
  <1>1. Spec => []IInv
    BY Invariance
  <1>2. QED
    BY <1>1, InitOwner, NextOwner, PTL DEF Spec, ImplementsOwner, Owner!Spec
=============================================================================
