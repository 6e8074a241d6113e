---------------------------- MODULE MemoryProofs ----------------------------
(***************************************************************************)
(* Theorems about the kernel's memory: the frame allocator PhysMem, for    *)
(* every frame size, memory map and set of owners, and the heap Kalloc     *)
(* that gets its frames from it, for every set of frames, number of units  *)
(* per frame, number of descriptors per page and set of sizes.             *)
(***************************************************************************)
EXTENDS PhysMem, Kalloc, FiniteSetTheorems, SequenceTheorems, TLAPS

-----------------------------------------------------------------------------
(* PhysMem: rounding and the frames init leaves free, then the inductive   *)
(* invariant, then what follows from it.                                   *)

\* A number is its frame's number times FrameSize and an offset in the frame.
LEMMA Division ==
    ASSUME NEW a \in Nat
    PROVE  /\ a \div FrameSize \in Nat
           /\ a % FrameSize \in 0..(FrameSize - 1)
           /\ a = (a \div FrameSize) * FrameSize + (a % FrameSize)
  BY PhysMemAssumption DEF PhysMemAssumption

\* Multiples of FrameSize are at least FrameSize apart.
LEMMA Apart ==
    ASSUME NEW p \in Int, NEW q \in Int, p * FrameSize < q * FrameSize
    PROVE  p < q /\ p * FrameSize + FrameSize <= q * FrameSize
<1>. FrameSize \in Nat /\ FrameSize >= 2
  BY PhysMemAssumption DEF PhysMemAssumption
<1>1. p < q
  <2>. SUFFICES ASSUME q <= p PROVE FALSE
    OBVIOUS
  <2>1. (p - q) * FrameSize >= 0
    OBVIOUS
  <2>. QED BY <2>1
<1>2. (q - p - 1) * FrameSize >= 0
  BY <1>1
<1>. QED BY <1>1, <1>2

\* The frame and the offset of a multiple of FrameSize.
LEMMA Aligned ==
    ASSUME NEW q \in Nat
    PROVE  /\ q * FrameSize \in Nat /\ q <= q * FrameSize
           /\ (q * FrameSize) \div FrameSize = q
           /\ (q * FrameSize) % FrameSize = 0
<1>. FrameSize \in Nat /\ FrameSize >= 2
  BY PhysMemAssumption DEF PhysMemAssumption
<1>0. q * FrameSize \in Nat /\ q <= q * FrameSize
  <2>1. q * (FrameSize - 1) >= 0
    OBVIOUS
  <2>. QED BY <2>1
<1> DEFINE d == (q * FrameSize) \div FrameSize
           m == (q * FrameSize) % FrameSize
<1>1. d \in Nat /\ m \in 0..(FrameSize - 1) /\ q * FrameSize = d * FrameSize + m
  BY <1>0, Division
<1>. HIDE DEF d, m
<1>2. d = q
  <2>1. ~(d < q)
    <3>. SUFFICES ASSUME d < q PROVE FALSE
      OBVIOUS
    <3>1. (q - d - 1) * FrameSize >= 0
      BY <1>1
    <3>. QED BY <3>1, <1>1
  <2>2. ~(q < d)
    <3>. SUFFICES ASSUME q < d PROVE FALSE
      OBVIOUS
    <3>1. (d - q - 1) * FrameSize >= 0
      BY <1>1
    <3>. QED BY <3>1, <1>1
  <2>. QED BY <2>1, <2>2, <1>1
<1>3. m = 0
  BY <1>1, <1>2
<1>. QED BY <1>0, <1>2, <1>3 DEF d, m

\* round_down! gives the multiple of FrameSize at or below a, round_up! the
\* one at or above it.
LEMMA Rounding ==
    ASSUME NEW a \in Nat
    PROVE  /\ \E q \in Nat : RoundDown(a) = q * FrameSize
           /\ RoundDown(a) \in Nat /\ RoundDown(a) <= a
           /\ \E q \in Nat : RoundUp(a) = q * FrameSize
           /\ RoundUp(a) \in Nat /\ a <= RoundUp(a) /\ RoundUp(a) < a + FrameSize
<1>. FrameSize \in Nat /\ FrameSize >= 2
  BY PhysMemAssumption DEF PhysMemAssumption
<1>1. ASSUME NEW x \in Nat
      PROVE  /\ \E q \in Nat : RoundDown(x) = q * FrameSize
             /\ RoundDown(x) \in Nat
             /\ RoundDown(x) <= x /\ x < RoundDown(x) + FrameSize
  <2>1. PICK q \in Nat, r \in 0..(FrameSize - 1) :
          x \div FrameSize = q /\ x = q * FrameSize + r
    BY Division
  <2>2. RoundDown(x) = q * FrameSize
    BY <2>1 DEF RoundDown
  <2>3. q * FrameSize \in Nat
    BY Aligned
  <2>. QED BY <2>1, <2>2, <2>3
<1>2. /\ \E q \in Nat : RoundDown(a) = q * FrameSize
      /\ RoundDown(a) \in Nat /\ RoundDown(a) <= a
  BY <1>1
<1> DEFINE c == a + FrameSize - 1
<1>3. c \in Nat /\ RoundUp(a) = RoundDown(c)
  BY DEF RoundUp
<1>. HIDE DEF c
<1>4. /\ \E q \in Nat : RoundUp(a) = q * FrameSize
      /\ RoundUp(a) \in Nat
      /\ RoundUp(a) <= c /\ c < RoundUp(a) + FrameSize
  BY <1>1, <1>3
<1>. QED BY <1>2, <1>4 DEF c

-----------------------------------------------------------------------------

\* The addresses init works with.
LEMMA Arguments ==
    ASSUME NEW b \in Boots
    PROVE  /\ last_phys_addr(b) \in Nat
           /\ \A e \in Avail(b) : e.base + e.len <= last_phys_addr(b) + 1
           /\ \A e \in b.mmap : e.base \in Nat /\ e.len \in Nat
           /\ \E k \in Nat : red_zone_start(b) = k * FrameSize
           /\ \E z \in Nat : red_zone_end(b) = z * FrameSize - 1
<1>1. \A e \in b.mmap : e.base \in Nat /\ e.len \in Nat
  BY PhysMemAssumption DEF PhysMemAssumption, Entry
<1> DEFINE Ends == {e.base + e.len : e \in Avail(b)}
<1>2. PICK e \in b.mmap : /\ e.avail /\ e.len > 0
                          /\ \A x \in b.mmap : x.avail =>
                                x.base + x.len <= e.base + e.len
  BY PhysMemAssumption DEF PhysMemAssumption
<1>3. \E m \in Ends : \A x \in Avail(b) : x.base + x.len <= m
  BY <1>2 DEF Avail
<1>4. PICK m \in Ends : /\ last_phys_addr(b) = m - 1
                        /\ \A x \in Avail(b) : x.base + x.len <= m
  BY <1>3 DEF last_phys_addr
<1>5. m \in Nat /\ m > 0
  BY <1>1, <1>2, <1>4 DEF Avail
<1>6. /\ last_phys_addr(b) \in Nat
      /\ \A x \in Avail(b) : x.base + x.len <= last_phys_addr(b) + 1
  BY <1>4, <1>5
<1>7. b.kernel.start \in Nat /\ b.kernel.end \in Nat
  BY PhysMemAssumption DEF PhysMemAssumption, Range2
<1>8. \E k \in Nat : red_zone_start(b) = k * FrameSize
  BY <1>7, Rounding DEF red_zone_start
<1>9. \E z \in Nat : red_zone_end(b) = z * FrameSize - 1
  <2>1. \A x \in b.kmod : x.end \in Nat
    BY PhysMemAssumption DEF PhysMemAssumption, Range2
  <2>2. base(b) \in Nat
    <3> DEFINE last == IF \E x \in b.kmod : x.end > b.kernel.end
                       THEN (CHOOSE x \in b.kmod : TRUE).end
                       ELSE b.kernel.end
    <3>1. last \in Nat
      BY <1>7, <2>1
    <3>. HIDE DEF last
    <3>2. 1 + last \in Nat
      BY <3>1
    <3>3. RoundUp(1 + last) \in Nat
      BY <3>2, Rounding
    <3>. QED BY <3>3 DEF base, last
  <2>3. total_frames(b) \in Nat
    <3>1. last_phys_addr(b) + 1 \in Nat
      BY <1>6
    <3>. QED BY <3>1, Division DEF total_frames
  <2>4. size(b) \in Nat
    BY <2>3 DEF size
  <2>5. base(b) + size(b) \in Nat
    BY <2>2, <2>4
  <2>. QED BY <2>5, Rounding DEF red_zone_end
<1>. QED BY <1>1, <1>6, <1>8, <1>9

\* Rounding an entry's base up and adding its length never takes a frame past
\* the one that holds last_phys_addr.
LEMMA EntryInRam ==
    ASSUME NEW b \in Boots, NEW e \in Avail(b), NEW f \in EntryFrames(b, e)
    PROVE  f \in Nat /\ f * FrameSize <= last_phys_addr(b)
<1>. FrameSize \in Nat /\ FrameSize >= 2
  BY PhysMemAssumption DEF PhysMemAssumption
<1>1. /\ e.base \in Nat /\ e.len \in Nat
      /\ last_phys_addr(b) \in Nat
      /\ e.base + e.len <= last_phys_addr(b) + 1
  BY Arguments DEF Avail
<1>2. PICK s \in Nat : /\ RoundUp(e.base) = s * FrameSize
                       /\ RoundUp(e.base) \in Nat
                       /\ RoundUp(e.base) < e.base + FrameSize
  BY <1>1, Rounding
<1> DEFINE start == RoundUp(e.base)
           end   == RoundDown(start + e.len) - 1
<1>3. start + e.len \in Nat
  BY <1>1, <1>2
<1>4. PICK p \in Nat : end = p * FrameSize - 1 /\ p * FrameSize <= start + e.len
  BY <1>3, Rounding
<1>5. f \in MarkedFrames(start, end)
  BY DEF EntryFrames
<1>6. start \div FrameSize = s /\ start % FrameSize = 0
  BY <1>2, Aligned
<1>7. f \in s..end /\ f * FrameSize + 0 < end
  BY <1>5, <1>6 DEF MarkedFrames
<1>8. f \in Nat
  BY <1>4, <1>7
<1>9. f * FrameSize \in Nat /\ p * FrameSize \in Nat
  BY <1>8, Aligned
<1>10. f * FrameSize < p * FrameSize
  BY <1>4, <1>7, <1>9
<1>11. f * FrameSize + FrameSize <= p * FrameSize
  BY <1>8, <1>10, Apart
<1>. QED BY <1>1, <1>2, <1>4, <1>8, <1>9, <1>11

\* The frames marked for the red zone are the ones is_valid refuses for it.
LEMMA RedZoneMarked ==
    ASSUME NEW b \in Boots, NEW f \in Nat
    PROVE  f \in MarkedFrames(red_zone_start(b), red_zone_end(b))
           <=> /\ red_zone_start(b) <= f * FrameSize
               /\ f * FrameSize <= red_zone_end(b)
<1>. FrameSize \in Nat /\ FrameSize >= 2
  BY PhysMemAssumption DEF PhysMemAssumption
<1>1. PICK k \in Nat, z \in Nat : /\ red_zone_start(b) = k * FrameSize
                                  /\ red_zone_end(b) = z * FrameSize - 1
  BY Arguments
<1>2. /\ (k * FrameSize) \div FrameSize = k
      /\ (k * FrameSize) % FrameSize = 0
      /\ k * FrameSize \in Nat /\ z * FrameSize \in Nat
      /\ f * FrameSize \in Nat /\ f <= f * FrameSize
  BY Aligned
<1>3. f \in MarkedFrames(red_zone_start(b), red_zone_end(b))
      <=> /\ f \in k..(z * FrameSize - 1)
          /\ f * FrameSize < z * FrameSize - 1
  BY <1>1, <1>2 DEF MarkedFrames
<1>4. ASSUME k <= f PROVE k * FrameSize <= f * FrameSize
  <2>1. (f - k) * FrameSize >= 0
    BY <1>4
  <2>. QED BY <2>1
<1>5. ASSUME k * FrameSize <= f * FrameSize PROVE k <= f
  <2>. SUFFICES ASSUME f < k PROVE FALSE
    OBVIOUS
  <2>1. (k - f - 1) * FrameSize >= 0
    OBVIOUS
  <2>. QED BY <2>1, <1>5
<1>6. ASSUME f * FrameSize <= z * FrameSize - 1
      PROVE  f * FrameSize < z * FrameSize - 1
  <2>1. f * FrameSize < z * FrameSize
    BY <1>2, <1>6
  <2>2. f * FrameSize + FrameSize <= z * FrameSize
    BY <2>1, Apart
  <2>. QED BY <1>2, <2>2
<1>7. f * FrameSize < z * FrameSize - 1 => f <= z * FrameSize - 1
  BY <1>2
<1>. QED BY <1>1, <1>2, <1>3, <1>4, <1>5, <1>6, <1>7

-----------------------------------------------------------------------------
(***************************************************************************)
(* The inductive invariant: the properties of the runs, and that every     *)
(* frame of the allocator's is one that is_valid lets come back.           *)
(***************************************************************************)
AllValid ==
    /\ \A f \in bitmap : is_valid(f)
    /\ \A o \in Owner : \A f \in granted[o] : is_valid(f)

PhysInv == TypeOK /\ CountExact /\ NoFrameShared /\ AllValid

\* Whatever is valid lies within 0..last_phys_addr, thus is finite.
LEMMA ValidFinite ==
    ASSUME boot \in Boots, NEW S \in SUBSET Nat, \A f \in S : is_valid(f)
    PROVE  IsFiniteSet(S)
<1>1. last_phys_addr(boot) \in Nat
  BY Arguments
<1>2. \A f \in S : f <= f * FrameSize /\ f * FrameSize \in Nat
  BY Aligned
<1>3. \A f \in S : f <= last_phys_addr(boot)
  BY <1>1, <1>2 DEF is_valid
<1>. QED BY <1>1, <1>3, FS_BoundedSetOfNaturals

\* A valid frame is within the scan of alloc_high_frames.
LEMMA ValidReached ==
    ASSUME boot \in Boots, NEW f \in Nat, is_valid(f)
    PROVE  f <= last_phys_addr(boot) \div FrameSize
<1>. FrameSize \in Nat /\ FrameSize >= 2
  BY PhysMemAssumption DEF PhysMemAssumption
<1>1. last_phys_addr(boot) \in Nat
  BY Arguments
<1>2. PICK q \in Nat, r \in 0..(FrameSize - 1) :
        /\ last_phys_addr(boot) \div FrameSize = q
        /\ last_phys_addr(boot) = q * FrameSize + r
  BY <1>1, Division
<1>3. f * FrameSize <= q * FrameSize + r
  BY <1>2 DEF is_valid
<1>4. ~(q < f)
  <2>. SUFFICES ASSUME q < f PROVE FALSE
    OBVIOUS
  <2>1. (f - q - 1) * FrameSize >= 0
    OBVIOUS
  <2>. QED BY <2>1, <1>3
<1>. QED BY <1>2, <1>4

\* init establishes the invariant.
LEMMA InitPhysInv == PhysInit => PhysInv
<1>. SUFFICES ASSUME PhysInit PROVE PhysInv
  OBVIOUS
<1>1. boot \in Boots /\ bitmap = UsableFrames(boot)
  BY DEF PhysInit
<1>2. \A f \in bitmap : f \in Nat /\ f * FrameSize <= last_phys_addr(boot)
  BY <1>1, EntryInRam DEF UsableFrames, EntriesFrames
<1>3. \A f \in bitmap : is_valid(f)
  <2>. SUFFICES ASSUME NEW f \in bitmap PROVE is_valid(f)
    OBVIOUS
  <2>1. f \notin MarkedFrames(red_zone_start(boot), red_zone_end(boot))
    BY <1>1 DEF UsableFrames, Withheld, RedZoneFrames
  <2>2. f * FrameSize >= 0
    BY <1>2, Aligned
  <2>. QED BY <1>1, <1>2, <2>1, <2>2, RedZoneMarked DEF is_valid, first_phys_addr
<1>4. IsFiniteSet(bitmap)
  BY <1>1, <1>2, <1>3, ValidFinite
<1>5. free_frames = Cardinality(bitmap) /\ free_frames \in Nat
  BY <1>4, FS_CardinalityType DEF PhysInit
<1>6. TypeOK
  BY <1>1, <1>2, <1>4, <1>5 DEF PhysInit, TypeOK
<1>. QED BY <1>3, <1>5, <1>6 DEF PhysInit, PhysInv, CountExact, NoFrameShared, AllValid

\* Handing out free frames keeps the invariant.
LEMMA GrantIInv ==
    ASSUME PhysInv, NEW o \in Owner, NEW call, NEW n, NEW got \in SUBSET bitmap,
           Grant(o, call, n, got), boot' = boot
    PROVE  PhysInv'
<1>. USE DEF PhysInv, TypeOK, CountExact
<1>1. /\ bitmap' = bitmap \ got
      /\ free_frames' = free_frames - Cardinality(got)
      /\ granted' = [granted EXCEPT ![o] = @ \cup got]
      /\ res'.out = "ok"
  BY DEF Grant, Take, Outcome
<1>2. /\ IsFiniteSet(got) /\ Cardinality(got) \in Nat
      /\ IsFiniteSet(bitmap') /\ Cardinality(bitmap') \in Nat
  BY <1>1, FS_Subset, FS_CardinalityType
<1>3. Cardinality(bitmap) = Cardinality(bitmap') + Cardinality(got)
  <2>1. bitmap = bitmap' \cup got /\ bitmap' \cap got = {}
    BY <1>1
  <2>2. Cardinality(bitmap' \cup got)
          = Cardinality(bitmap') + Cardinality(got) - Cardinality(bitmap' \cap got)
    BY <1>2, FS_Union
  <2>3. Cardinality(bitmap' \cap got) = 0
    BY <2>1, FS_EmptySet
  <2>4. Cardinality(bitmap' \cup got) = Cardinality(bitmap)
    BY <2>1
  <2>. QED BY <1>2, <2>2, <2>3, <2>4
<1>4. CountExact' /\ free_frames' \in Nat
  BY <1>1, <1>2, <1>3
<1>5. TypeOK'
  BY <1>1, <1>2, <1>4
<1>6. NoFrameShared'
  BY <1>1 DEF NoFrameShared
<1>7. AllValid'
  BY <1>1 DEF AllValid, is_valid
<1>. QED BY <1>4, <1>5, <1>6, <1>7

\* So does a call that fails.
LEMMA RefuseIInv ==
    ASSUME PhysInv, NEW call, NEW n, NEW out \in {"oom", "wild"},
           Refuse(call, n, out), boot' = boot
    PROVE  PhysInv'
  BY DEF Refuse, Outcome, PhysInv, TypeOK, CountExact, NoFrameShared, AllValid,
         is_valid

\* Taking frames back keeps the count and the shape of the bitmap.
LEMMA GiveCounts ==
    ASSUME PhysInv, NEW S \in SUBSET Nat, Give(S), boot' = boot
    PROVE  /\ bitmap' = bitmap \cup {f \in S : is_valid(f)}
           /\ bitmap' \subseteq Nat /\ IsFiniteSet(bitmap')
           /\ free_frames' = Cardinality(bitmap') /\ free_frames' \in Nat
           /\ \A f \in bitmap' : is_valid(f)'
           /\ res'.out = "ok"
<1>. USE DEF PhysInv, TypeOK, CountExact
<1> DEFINE given == {f \in S : is_valid(f)}
           new   == given \ bitmap
<1>1. /\ bitmap' = bitmap \cup given
      /\ free_frames' = free_frames + Cardinality(new)
      /\ res'.out = "ok"
  BY DEF Give, Outcome
<1>2. IsFiniteSet(given)
  BY ValidFinite
<1>. HIDE DEF given
<1>3. IsFiniteSet(new) /\ Cardinality(new) \in Nat
  BY <1>2, FS_Subset, FS_CardinalityType
<1>4. bitmap' = bitmap \cup new /\ bitmap \cap new = {}
  BY <1>1
<1>5. /\ IsFiniteSet(bitmap')
      /\ Cardinality(bitmap') = Cardinality(bitmap) + Cardinality(new)
                              - Cardinality(bitmap \cap new)
  BY <1>3, <1>4, FS_Union
<1>6. Cardinality(bitmap') = Cardinality(bitmap) + Cardinality(new)
  <2>1. Cardinality(bitmap \cap new) = 0
    BY <1>4, FS_EmptySet
  <2>2. Cardinality(bitmap) \in Nat
    BY FS_CardinalityType
  <2>. QED BY <1>3, <1>5, <2>1, <2>2
<1>7. free_frames' = Cardinality(bitmap') /\ free_frames' \in Nat
  BY <1>1, <1>3, <1>6
<1>8. \A f \in bitmap' : is_valid(f)'
  BY <1>1 DEF AllValid, is_valid, given
<1>9. bitmap' \subseteq Nat
  BY <1>1 DEF given
<1>. QED BY <1>1, <1>5, <1>7, <1>8, <1>9 DEF given

\* What the owners hold after a free.
LEMMA FreeHeldIInv ==
    ASSUME PhysInv, NEW o \in Owner, NEW S \in SUBSET granted[o], free_held(o, S)
    PROVE  PhysInv'
<1>. USE DEF PhysInv
<1>1. S \in SUBSET Nat /\ granted \in [Owner -> SUBSET Nat]
  BY DEF TypeOK
<1>2. /\ Give(S) /\ boot' = boot
      /\ granted' = [granted EXCEPT ![o] = @ \ S]
  BY DEF free_held
<1>3. /\ bitmap' = bitmap \cup {f \in S : is_valid(f)}
      /\ bitmap' \subseteq Nat /\ IsFiniteSet(bitmap')
      /\ free_frames' = Cardinality(bitmap') /\ free_frames' \in Nat
      /\ \A f \in bitmap' : is_valid(f)'
      /\ res'.out = "ok"
  BY <1>1, <1>2, GiveCounts
<1>4. bitmap' \subseteq bitmap \cup S
  BY <1>3
<1>5. TypeOK'
  BY <1>1, <1>2, <1>3 DEF TypeOK
<1>6. NoFrameShared'
  BY <1>1, <1>2, <1>4 DEF NoFrameShared
<1>7. \A p \in Owner : granted'[p] \subseteq granted[p]
  BY <1>1, <1>2
<1>8. AllValid'
  BY <1>2, <1>3, <1>7 DEF AllValid, is_valid
<1>. QED BY <1>3, <1>5, <1>6, <1>8 DEF CountExact

\* A free of a foreign frame changes nothing but the outcome.
LEMMA FreeForeignNothing ==
    ASSUME PhysInv, NEW f \in Nat, free_foreign(f)
    PROVE  bitmap' = bitmap /\ free_frames' = free_frames /\ granted' = granted /\ PhysInv'
<1>. USE DEF PhysInv
<1>1. Give({f}) /\ boot' = boot /\ granted' = granted /\ Foreign(f)
  BY DEF free_foreign
<1>2. boot \in Boots
  BY DEF TypeOK
<1>3. f \in bitmap \/ ~is_valid(f)
  <2>1. CASE f \in bitmap
    BY <2>1
  <2>2. CASE f \in MarkedFrames(red_zone_start(boot), red_zone_end(boot))
    BY <1>2, <2>2, RedZoneMarked DEF is_valid
  <2>3. CASE f * FrameSize > last_phys_addr(boot)
    <3>1. last_phys_addr(boot) \in Nat /\ f * FrameSize \in Nat
      BY <1>2, Arguments, Aligned
    <3>. QED BY <2>3, <3>1 DEF is_valid
  <2>. QED BY <1>1, <2>1, <2>2, <2>3 DEF Foreign, RedZoneFrames
<1>4. /\ bitmap' = bitmap \cup {g \in {f} : is_valid(g)}
      /\ free_frames' = Cardinality(bitmap')
      /\ \A g \in bitmap' : is_valid(g)'
      /\ res'.out = "ok"
  BY <1>1, GiveCounts
<1>5. bitmap' = bitmap
  BY <1>3, <1>4
<1>6. free_frames' = free_frames
  BY <1>4, <1>5 DEF CountExact
<1>7. PhysInv'
  BY <1>1, <1>4, <1>5, <1>6
  DEF TypeOK, CountExact, NoFrameShared, AllValid, is_valid
<1>. QED BY <1>1, <1>5, <1>6, <1>7

\* What a step of the allocator is, whichever call makes it: frames handed
\* out, frames given back, or nothing but an outcome.
LEMMA Steps ==
    ASSUME PhysInv, [PhysNext]_physVars
    PROVE  \/ \E o \in Owner, n \in Requests, call \in {"up", "down", "run"},
                got \in SUBSET bitmap :
                Grant(o, call, n, got) /\ boot' = boot
           \/ \E call \in {"up", "down", "run"}, n \in Requests, out \in {"oom", "wild"} :
                Refuse(call, n, out) /\ boot' = boot
           \/ \E o \in Owner : \E S \in SUBSET granted[o] : free_held(o, S)
           \/ \E f \in Nat : free_foreign(f)
           \/ UNCHANGED physVars
<1>1. ASSUME NEW o \in Owner, NEW n \in Requests, alloc_frames(o, n)
      PROVE  \/ \E got \in SUBSET bitmap : Grant(o, "up", n, got) /\ boot' = boot
             \/ Refuse("up", n, "oom") /\ boot' = boot
  BY <1>1 DEF alloc_frames, LowestFrames, Up
<1>2. ASSUME NEW o \in Owner, NEW n \in Requests, alloc_high_frames(o, n)
      PROVE  \/ \E got \in SUBSET bitmap : Grant(o, "down", n, got) /\ boot' = boot
             \/ Refuse("down", n, "oom") /\ boot' = boot
             \/ Refuse("down", n, "wild") /\ boot' = boot
  BY <1>2 DEF alloc_high_frames, HighestFrames, Down
<1>3. ASSUME NEW o \in Owner, NEW n \in Requests, alloc_continuous(o, n)
      PROVE  \/ \E got \in SUBSET bitmap : Grant(o, "run", n, got) /\ boot' = boot
             \/ Refuse("run", n, "oom") /\ boot' = boot
  BY <1>3 DEF alloc_continuous, Runs, Up
<1>4. \A f \in 0..MaxFrame : f \in Nat
  OBVIOUS
<1>. QED BY <1>1, <1>2, <1>3, <1>4 DEF PhysNext

LEMMA NextPhysInv == PhysInv /\ [PhysNext]_physVars => PhysInv'
<1>. SUFFICES ASSUME PhysInv, [PhysNext]_physVars PROVE PhysInv'
  OBVIOUS
<1>1. ASSUME UNCHANGED physVars PROVE PhysInv'
  BY <1>1
  DEF physVars, PhysInv, TypeOK, CountExact, NoFrameShared, AllValid, is_valid
<1>. QED BY <1>1, Steps, GrantIInv, RefuseIInv, FreeHeldIInv, FreeForeignNothing

-----------------------------------------------------------------------------

\* The invariant holds in every reachable state, for every machine.
THEOREM PhysInvariance == PhysSpec => []PhysInv
<1>. QED BY InitPhysInv, NextPhysInv, PTL DEF PhysSpec

\* The bitmap, the count and the owners keep their shape.
THEOREM TypeCorrect == PhysSpec => []TypeOK
<1>1. PhysInv => TypeOK
  BY DEF PhysInv
<1>. QED BY <1>1, PhysInvariance, PTL

\* The count of free frames is always the number of bits set.
THEOREM CountIsExact == PhysSpec => []CountExact
<1>1. PhysInv => CountExact
  BY DEF PhysInv
<1>. QED BY <1>1, PhysInvariance, PTL

\* No frame is handed out twice, nor handed out while free.
THEOREM NothingShared == PhysSpec => []NoFrameShared
<1>1. PhysInv => NoFrameShared
  BY DEF PhysInv
<1>. QED BY <1>1, PhysInvariance, PTL

\* The red zone is never free and never handed out.
THEOREM KernelIsSafe == PhysSpec => []KernelKeptOut
<1>1. PhysInv => KernelKeptOut
  <2>. SUFFICES ASSUME PhysInv PROVE KernelKeptOut
    OBVIOUS
  <2>1. boot \in Boots
    BY DEF PhysInv, TypeOK
  <2>2. \A f \in Nat : is_valid(f) => f \notin RedZone
    BY <2>1, RedZoneMarked DEF is_valid, RedZone, RedZoneFrames
  <2>3. /\ \A f \in bitmap : f \in Nat /\ is_valid(f)
        /\ \A o \in Owner : \A f \in granted[o] : f \in Nat /\ is_valid(f)
    BY DEF PhysInv, TypeOK, AllValid
  <2>. QED BY <2>2, <2>3 DEF KernelKeptOut
<1>. QED BY <1>1, PhysInvariance, PTL

-----------------------------------------------------------------------------

\* A set with a run of n frames has n frames.
LEMMA RunFits ==
    ASSUME NEW S \in SUBSET Nat, IsFiniteSet(S), NEW n \in Nat \ {0},
           Runs(n, S) # {}
    PROVE  n <= Cardinality(S)
<1>1. PICK f \in S : f..(f + n - 1) \subseteq S
  BY DEF Runs
<1>2. f \in Int /\ f + n - 1 \in Int /\ f <= f + n - 1
      /\ f + n - 1 - f + 1 = n
  BY <1>1
<1>3. Cardinality(f..(f + n - 1)) = n
  BY <1>2, FS_Interval
<1>4. Cardinality(f..(f + n - 1)) <= Cardinality(S)
  BY <1>1, FS_Subset
<1>. QED BY <1>3, <1>4

\* The scan downwards covers every free frame, the one upwards only some.
LEMMA ScansCover ==
    ASSUME PhysInv
    PROVE  /\ Down = bitmap
           /\ IsFiniteSet(Up) /\ Up \in SUBSET Nat
           /\ Cardinality(Up) \in Nat /\ Cardinality(bitmap) \in Nat
           /\ Cardinality(Up) <= Cardinality(bitmap)
<1>1. /\ boot \in Boots /\ bitmap \in SUBSET Nat /\ IsFiniteSet(bitmap)
      /\ \A f \in bitmap : is_valid(f)
  BY DEF PhysInv, TypeOK, AllValid
<1>2. \A f \in bitmap : f <= last_phys_addr(boot) \div FrameSize
  BY <1>1, ValidReached
<1>3. Up \subseteq bitmap
  BY DEF Up
<1>4. Cardinality(Up) <= Cardinality(bitmap) /\ IsFiniteSet(Up)
  BY <1>1, <1>3, FS_Subset
<1>5. Cardinality(Up) \in Nat /\ Cardinality(bitmap) \in Nat
  BY <1>1, <1>4, FS_CardinalityType
<1>. QED BY <1>1, <1>2, <1>3, <1>4, <1>5 DEF Down

\* A request the count refuses is one no scan can serve.
LEMMA ShortIsShort ==
    ASSUME PhysInv, NEW n \in Requests, Short(n)
    PROVE  Cardinality(Up) < n /\ Cardinality(bitmap) < n /\ Runs(n, Up) = {}
<1>1. n \in Nat \ {0} /\ free_frames = Cardinality(bitmap) /\ n > free_frames
  BY PhysMemAssumption DEF PhysMemAssumption, PhysInv, CountExact, Short
<1>2. Cardinality(Up) < n /\ Cardinality(bitmap) < n
  BY <1>1, ScansCover
<1>3. Runs(n, Up) # {} => n <= Cardinality(Up)
  BY <1>1, ScansCover, RunFits
<1>. QED BY <1>1, <1>2, <1>3, ScansCover

\* Why a call failed, in the state in which it failed.
Justified(call, n) ==
    \/ call = "up"   /\ Cardinality(Up) < n
    \/ call = "down" /\ Cardinality(bitmap) < n
    \/ call = "run"  /\ Runs(n, Up) = {}

LEMMA RefusedRightly ==
    ASSUME PhysInv, NEW n \in Requests, NEW o \in Owner
    PROVE  /\ alloc_frames(o, n) =>
                \/ res'.out = "ok"
                \/ Refuse("up", n, "oom") /\ boot' = boot /\ Justified("up", n)
           /\ alloc_high_frames(o, n) =>
                \/ res'.out = "ok"
                \/ Refuse("down", n, "oom") /\ boot' = boot /\ Justified("down", n)
           /\ alloc_continuous(o, n) =>
                \/ res'.out = "ok"
                \/ Refuse("run", n, "oom") /\ boot' = boot /\ Justified("run", n)
<1>1. \A call, got : Grant(o, call, n, got) => res'.out = "ok"
  BY DEF Grant, Outcome
<1>2. Short(n) => /\ Justified("up", n) /\ Justified("down", n)
                  /\ Justified("run", n)
  BY ShortIsShort DEF Justified
<1>3. ~Short(n) => ~(Cardinality(Down) < n)
  BY PhysMemAssumption, ScansCover
  DEF PhysMemAssumption, PhysInv, CountExact, Short
<1>4. alloc_frames(o, n) =>
        \/ res'.out = "ok"
        \/ Refuse("up", n, "oom") /\ boot' = boot /\ Justified("up", n)
  BY <1>1, <1>2 DEF alloc_frames, Justified
<1>5. alloc_high_frames(o, n) =>
        \/ res'.out = "ok"
        \/ Refuse("down", n, "oom") /\ boot' = boot /\ Justified("down", n)
  BY <1>1, <1>2, <1>3 DEF alloc_high_frames
<1>6. alloc_continuous(o, n) =>
        \/ res'.out = "ok"
        \/ Refuse("run", n, "oom") /\ boot' = boot /\ Justified("run", n)
  BY <1>1, <1>2 DEF alloc_continuous, Justified
<1>. QED BY <1>4, <1>5, <1>6

\* A refusal changes nothing that it is judged by.
LEMMA RefusalIsTrue ==
    ASSUME NEW call, NEW n, Refuse(call, n, "oom"), boot' = boot,
           Justified(call, n)
    PROVE  OomIsTrue'
<1>1. /\ bitmap' = bitmap /\ Up' = Up
      /\ res'.call = call /\ res'.n = n /\ res'.out = "oom"
  BY DEF Refuse, Outcome, Up
<1>2. Runs(n, Up)' = Runs(n, Up)
  BY <1>1 DEF Runs
<1>. QED BY <1>1, <1>2 DEF OomIsTrue, Justified, Runs

\* An allocation fails only when the frames its scan covers do not suffice,
\* and the scan downwards never leaves the bitmap: the count is exact, and
\* every free frame lies below the scan's start.
THEOREM OutOfMemoryIsTrue == PhysSpec => []OomIsTrue
<1>1. PhysInit => OomIsTrue
  BY DEF PhysInit, OomIsTrue
<1>2. PhysInv /\ OomIsTrue /\ [PhysNext]_physVars => OomIsTrue'
  <2>. SUFFICES ASSUME PhysInv, OomIsTrue, [PhysNext]_physVars PROVE OomIsTrue'
    OBVIOUS
  <2>1. res'.out = "ok" => OomIsTrue'
    BY DEF OomIsTrue
  <2>2. ASSUME NEW o \in Owner, NEW n \in Requests,
               \/ alloc_frames(o, n) \/ alloc_high_frames(o, n)
               \/ alloc_continuous(o, n)
        PROVE  OomIsTrue'
    BY <2>1, <2>2, RefusedRightly, RefusalIsTrue, Zenon
  <2>3. ASSUME NEW o \in Owner, NEW S \in SUBSET granted[o], free_held(o, S)
        PROVE  OomIsTrue'
    BY <2>1, <2>3 DEF free_held, Give, Outcome
  <2>4. ASSUME NEW f, free_foreign(f) PROVE OomIsTrue'
    BY <2>1, <2>4 DEF free_foreign, Give, Outcome
  <2>5. CASE UNCHANGED physVars
    BY <2>5 DEF physVars, OomIsTrue, Up, Runs
  <2>. QED BY <2>2, <2>3, <2>4, <2>5 DEF PhysNext
<1>. QED BY <1>1, <1>2, PhysInvariance, PTL DEF PhysSpec

-----------------------------------------------------------------------------

\* init and every call refine the abstract allocator.
THEOREM PhysRefinement == PhysSpec => ImplementsFrames
<1>1. PhysInit => Allocator!Init
  BY DEF PhysInit, Allocator!Init
<1>2. PhysInv /\ [PhysNext]_physVars => [Allocator!Next]_(Allocator!fvars)
  <2>. SUFFICES ASSUME PhysInv, [PhysNext]_physVars
                PROVE  Allocator!Next \/ UNCHANGED <<bitmap, granted>>
    BY DEF Allocator!fvars
  <2>1. ASSUME NEW o \in Owner, NEW n, NEW call, NEW got \in SUBSET bitmap,
               Grant(o, call, n, got)
        PROVE  Allocator!Next
    <3>1. Allocator!Alloc(o, got)
      BY <2>1 DEF Grant, Take, Allocator!Alloc
    <3>. QED BY <3>1 DEF Allocator!Next
  <2>2. ASSUME NEW o \in Owner, NEW S \in SUBSET granted[o], free_held(o, S)
        PROVE  Allocator!Next
    <3>1. {f \in S : is_valid(f)} = S
      BY DEF PhysInv, AllValid
    <3>2. Allocator!Free(o, S)
      BY <2>2, <3>1 DEF free_held, Give, Allocator!Free
    <3>. QED BY <3>2 DEF Allocator!Next
  <2>3. ASSUME NEW call, NEW n, NEW out, Refuse(call, n, out)
        PROVE  UNCHANGED <<bitmap, granted>>
    BY <2>3 DEF Refuse
  <2>4. ASSUME NEW f \in Nat, free_foreign(f)
        PROVE  UNCHANGED <<bitmap, granted>>
    BY <2>4, FreeForeignNothing
  <2>5. ASSUME UNCHANGED physVars
        PROVE  UNCHANGED <<bitmap, granted>>
    BY <2>5 DEF physVars
  <2>. QED BY <2>1, <2>2, <2>3, <2>4, <2>5, Steps
<1>. QED BY <1>1, <1>2, PhysInvariance, PTL
     DEF PhysSpec, ImplementsFrames, Allocator!Spec

-----------------------------------------------------------------------------
(* Kalloc: the arithmetic of frames and units, then how what uses the      *)
(* frames changes, then the inductive invariant, and what follows from it. *)

-----------------------------------------------------------------------------
(* Arithmetic                                                              *)

\* The constants, as numbers.
LEMMA Numbers ==
    /\ Frames \subseteq Nat /\ 0 \notin Frames
    /\ Units \in Nat /\ Units >= 2 /\ Descs \in Nat /\ Descs >= 1
    /\ Sizes \subseteq Nat /\ 0 \notin Sizes
    /\ 0 \in Index /\ 0 \in Bits /\ 1 \in Bits
  BY KallocAssumption DEF KallocAssumption, Index, Bits

\* A set of numbers that is not empty has a lowest one.
LEMMA LowestIn ==
    ASSUME NEW S \in SUBSET Nat, S # {}
    PROVE  Lowest(S) \in S /\ \A y \in S : Lowest(S) <= y
<1>1. \E x \in S : \A y \in S : ~(<<y, x>> \in OpToRel(<, Nat))
  BY NatLessThanWellFounded, WFMin, Zenon
<1>2. ASSUME NEW x \in S, NEW y \in S, y < x
      PROVE  <<y, x>> \in OpToRel(<, Nat)
  BY <1>2 DEF OpToRel
<1>3. \E x \in S : \A y \in S : ~(y < x)
  BY <1>1, <1>2, Zenon
<1>4. \E x \in S : \A y \in S : x <= y
  BY <1>3
<1>. QED BY <1>4 DEF Lowest

\* A product grows with its factors.
LEMMA Times ==
    ASSUME NEW x \in Int, NEW y \in Int, NEW m \in Nat, x <= y
    PROVE  x * m <= y * m
<1>1. (y - x) * m >= 0
  OBVIOUS
<1>. QED BY <1>1

\* The quotient of a multiple and a remainder.
LEMMA Quotient ==
    ASSUME NEW m \in Nat, m > 0, NEW q \in Nat, NEW r \in Nat, r < m
    PROVE  (q * m + r) \div m = q
<1> DEFINE d == (q * m + r) \div m
           e == (q * m + r) % m
<1>0. q * m \in Nat
  OBVIOUS
<1>1. d \in Int /\ e \in 0 .. (m - 1) /\ q * m + r = d * m + e
  BY <1>0
<1>. HIDE DEF d, e
<1>2. ~(d < q)
  <2>. SUFFICES ASSUME d + 1 <= q PROVE FALSE
    BY <1>1
  <2>1. (d + 1) * m <= q * m
    BY <1>1, Times
  <2>. QED BY <2>1, <1>1, <1>0
<1>3. ~(q < d)
  <2>. SUFFICES ASSUME q + 1 <= d PROVE FALSE
    BY <1>1
  <2>1. (q + 1) * m <= d * m
    BY <1>1, Times
  <2>. QED BY <2>1, <1>1, <1>0
<1>4. d = q
  BY <1>1, <1>2, <1>3
<1>. QED BY <1>4 DEF d

\* Object n of a cluster of class c lies in the cluster, and n is what free
\* computes from its address.
LEMMA ObjectInCluster ==
    ASSUME NEW c \in Classes, NEW b \in Nat, NEW n \in Bits
    PROVE  /\ At(c, b, n) \in Nat
           /\ b * Units <= At(c, b, n) /\ At(c, b, n) + c <= (b + c) * Units
           /\ (At(c, b, n) - b * Units) \div c = n
<1>. Units \in Nat /\ c \in Nat /\ c > 0 /\ n \in Nat /\ n + 1 <= Units
  BY Numbers DEF Classes, Bits
<1>1. (n + 1) * c <= Units * c
  BY Times
<1>2. c * n \in Nat /\ b * Units \in Nat
  OBVIOUS
<1>3. (c * n) \div c = n
  <2>1. (n * c + 0) \div c = n
    BY Quotient
  <2>. QED BY <2>1, <1>2
<1>4. At(c, b, n) - b * Units = c * n
  BY <1>2 DEF At
<1>. QED BY <1>1, <1>2, <1>3, <1>4 DEF At

\* Objects of a cluster do not overlap.
LEMMA ObjectsApart ==
    ASSUME NEW c \in Classes, NEW b \in Nat, NEW m \in Bits, NEW n \in Bits, m < n
    PROVE  At(c, b, m) + c <= At(c, b, n)
<1>. c \in Nat /\ m \in Nat /\ n \in Nat /\ b * Units \in Nat
  BY Numbers DEF Classes, Bits
<1>1. (m + 1) * c <= n * c
  BY Times
<1>. QED BY <1>1 DEF At

LEMMA RunOfOne == ASSUME NEW b \in Nat PROVE Run(b, 1) = {b}
<1>1. b + 1 - 1 = b
  OBVIOUS
<1>2. \A x : x \in b .. b <=> x = b
  OBVIOUS
<1>. QED BY <1>1, <1>2 DEF Run

\* A unit of a run of frames is in one of its frames.
LEMMA UnitInRun ==
    ASSUME NEW b \in Nat, NEW m \in Nat, NEW a \in Nat,
           b * Units <= a, a < (b + m) * Units
    PROVE  a \div Units \in Run(b, m)
<1>. Units \in Nat /\ Units > 0
  BY Numbers
<1> DEFINE q == a \div Units
           r == a % Units
<1>1. q \in Int /\ r \in 0 .. (Units - 1) /\ a = q * Units + r
  OBVIOUS
<1>. HIDE DEF q, r
<1>2. ~(q + 1 <= b)
  <2>. SUFFICES ASSUME q + 1 <= b PROVE FALSE
    OBVIOUS
  <2>1. (q + 1) * Units <= b * Units
    BY <1>1, Times
  <2>. QED BY <2>1, <1>1
<1>3. ~(b + m <= q)
  <2>. SUFFICES ASSUME b + m <= q PROVE FALSE
    OBVIOUS
  <2>1. (b + m) * Units <= q * Units
    BY <1>1, Times
  <2>. QED BY <2>1, <1>1
<1>. QED BY <1>1, <1>2, <1>3 DEF Run, q

\* Runs of frames that share no frame share no unit.
LEMMA RunsApart ==
    ASSUME NEW b \in Nat, NEW m \in Nat, NEW e \in Nat, NEW n \in Nat,
           m > 0, n > 0, Run(b, m) \cap Run(e, n) = {}
    PROVE  (b + m) * Units <= e * Units \/ (e + n) * Units <= b * Units
<1>1. b + m <= e \/ e + n <= b
  <2>1. b \in Run(b, m) /\ e \in Run(e, n)
    BY DEF Run
  <2>2. b <= e => b + m <= e
    <3>. SUFFICES ASSUME b <= e, e < b + m PROVE FALSE
      OBVIOUS
    <3>1. e \in Run(b, m)
      BY DEF Run
    <3>. QED BY <3>1, <2>1
  <2>3. e <= b => e + n <= b
    <3>. SUFFICES ASSUME e <= b, b < e + n PROVE FALSE
      OBVIOUS
    <3>1. b \in Run(e, n)
      BY DEF Run
    <3>. QED BY <3>1, <2>1
  <2>. QED BY <2>2, <2>3
<1>. QED BY <1>1, Times, Numbers

\* A large object fits into the frames it is given.
LEMMA PagesHold ==
    ASSUME NEW s \in Nat, s > 0
    PROVE  Pages(s) \in Nat /\ Pages(s) > 0 /\ s <= Pages(s) * Units
<1>. Units \in Nat /\ Units >= 2
  BY Numbers
<1> DEFINE q == (s + Units - 1) \div Units
           r == (s + Units - 1) % Units
<1>1. q \in Int /\ r \in 0 .. (Units - 1) /\ s + Units - 1 = q * Units + r
  OBVIOUS
<1>. HIDE DEF q, r
<1>2. s <= q * Units
  BY <1>1
<1>3. ~(q <= 0)
  <2>. SUFFICES ASSUME q <= 0 PROVE FALSE
    OBVIOUS
  <2>1. q * Units <= 0 * Units
    BY <1>1, Times
  <2>2. 0 * Units = 0
    OBVIOUS
  <2>3. q * Units <= 0
    BY <2>1, <2>2
  <2>. QED BY <2>3, <1>1, <1>2
<1>. QED BY <1>1, <1>2, <1>3 DEF Pages, q

-----------------------------------------------------------------------------
(* Descriptor pages                                                        *)

PageType == [cd : [Index -> [base : Nat, au : SUBSET Bits]],
             first : Index, count : Nat]

Usable(cd) == {i \in Index : cd[i].au # {}}

\* What HintsSound says of one page.
SoundPage(pg) ==
    /\ pg \in PageType
    /\ pg.count = Cardinality(Usable(pg.cd))
    /\ pg.count > 0 => pg.cd[pg.first].au # {}
    /\ \A i \in Index : pg.cd[i].base = 0 <=> pg.cd[i].au = Bits

LEMMA UsableFinite ==
    ASSUME NEW cd
    PROVE  IsFiniteSet(Usable(cd)) /\ Cardinality(Usable(cd)) \in Nat
<1>1. IsFiniteSet(Index)
  BY FS_Interval, Numbers DEF Index
<1>2. Usable(cd) \in SUBSET Index
  BY DEF Usable
<1>. QED BY <1>1, <1>2, FS_Subset, FS_CardinalityType

LEMMA NewPageSound == SoundPage(NewPage) /\ NewPage.count > 0
<1>1. Usable(NewPage.cd) = Index
  BY Numbers DEF Usable, NewPage, Blank
<1>2. Cardinality(Index) = Descs
  BY FS_Interval, Numbers DEF Index
<1>. QED BY <1>1, <1>2, Numbers DEF SoundPage, PageType, NewPage, Blank

\* An allocation leaves the hints of its page right.
LEMMA TakenSound ==
    ASSUME NEW pg, SoundPage(pg), pg.count > 0, NEW b \in Frames
    PROVE  LET au == pg.cd[pg.first].au
               t  == Taken(pg, pg.first, b)
           IN  /\ Lowest(au) \in au
               /\ SoundPage(t)
               /\ t.cd = [pg.cd EXCEPT ![pg.first] =
                             [base |-> b, au |-> au \ {Lowest(au)}]]
<1> DEFINE i    == pg.first
           au   == pg.cd[i].au
           left == au \ {Lowest(au)}
           cd   == [pg.cd EXCEPT ![i] = [base |-> b, au |-> left]]
           t    == Taken(pg, i, b)
<1>1. /\ i \in Index /\ au \in SUBSET Bits /\ au # {}
      /\ pg.cd \in [Index -> [base : Nat, au : SUBSET Bits]] /\ pg.count \in Nat
  BY DEF SoundPage, PageType
<1>2. Lowest(au) \in au
  <2>1. au \in SUBSET Nat
    BY <1>1 DEF Bits
  <2>. QED BY <1>1, <2>1, LowestIn
<1>3. /\ t.cd = cd
      /\ t.count = IF left = {} THEN pg.count - 1 ELSE pg.count
      /\ t.first = IF left = {} /\ pg.count > 1 THEN Lowest(Usable(cd)) ELSE i
      /\ t = [cd |-> t.cd, count |-> t.count, first |-> t.first]
  BY DEF Taken, Usable
<1>4. cd \in [Index -> [base : Nat, au : SUBSET Bits]]
  BY <1>1, Numbers
<1>5. /\ \A j \in Index : j # i => cd[j] = pg.cd[j]
      /\ cd[i].au = left /\ cd[i].base = b
  BY <1>1
<1>. HIDE DEF t, cd
<1>6. t.count = Cardinality(Usable(cd)) /\ t.count \in Nat
  <2>1. CASE left = {}
    <3>1. Usable(cd) = Usable(pg.cd) \ {i}
      BY <2>1, <1>5 DEF Usable
    <3>2. i \in Usable(pg.cd)
      BY <1>1 DEF Usable
    <3>3. Cardinality(Usable(cd)) = pg.count - 1
      BY <3>1, <3>2, UsableFinite, FS_RemoveElement DEF SoundPage
    <3>. QED BY <2>1, <3>3, <1>3, UsableFinite
  <2>2. CASE left # {}
    <3>1. Usable(cd) = Usable(pg.cd)
      BY <2>2, <1>1, <1>5 DEF Usable
    <3>. QED BY <2>2, <3>1, <1>1, <1>3 DEF SoundPage
  <2>. QED BY <2>1, <2>2
<1>7. t.first \in Index /\ (t.count > 0 => cd[t.first].au # {})
  <2>1. CASE left = {} /\ pg.count > 1
    <3>1. Cardinality(Usable(cd)) > 0
      BY <2>1, <1>1, <1>3, <1>6
    <3>1a. Usable(cd) # {}
      BY <3>1, FS_EmptySet
    <3>2. Usable(cd) \in SUBSET Nat
      BY DEF Usable, Index
    <3>3. t.first \in Usable(cd)
      BY <2>1, <3>1a, <3>2, <1>3, LowestIn
    <3>. QED BY <3>3 DEF Usable
  <2>2. CASE left = {} /\ ~(pg.count > 1)
    BY <2>2, <1>1, <1>3
  <2>3. CASE left # {}
    BY <2>3, <1>1, <1>3, <1>5
  <2>. QED BY <2>1, <2>2, <2>3
<1>8. \A j \in Index : cd[j].base = 0 <=> cd[j].au = Bits
  <2>1. b # 0 /\ left # Bits
    BY <1>1, <1>2, Numbers
  <2>. QED BY <2>1, <1>5 DEF SoundPage
<1>9. SoundPage(t)
  <2>1. t \in PageType
    BY <1>3, <1>4, <1>6, <1>7 DEF PageType
  <2>. QED BY <2>1, <1>3, <1>6, <1>7, <1>8 DEF SoundPage
<1>. QED BY <1>2, <1>3, <1>9 DEF t, cd

\* So does a free of an object whose bit is clear.
LEMMA FreedSound ==
    ASSUME NEW pg, SoundPage(pg), NEW i \in Index, NEW n \in Bits,
           n \notin pg.cd[i].au
    PROVE  LET au == pg.cd[i].au \cup {n}
               f  == Freed(pg, i, n)
           IN  /\ SoundPage(f)
               /\ f.cd = [pg.cd EXCEPT ![i] =
                             [base |-> IF au = Bits THEN 0 ELSE pg.cd[i].base,
                              au |-> au]]
<1> DEFINE au    == pg.cd[i].au \cup {n}
           start == IF au = Bits THEN 0 ELSE pg.cd[i].base
           cd   == [pg.cd EXCEPT ![i] = [base |-> start, au |-> au]]
           full == pg.cd[i].au = {}
           f    == Freed(pg, i, n)
<1>1. /\ pg.first \in Index /\ au \in SUBSET Bits /\ au # {} /\ start \in Nat
      /\ pg.cd \in [Index -> [base : Nat, au : SUBSET Bits]] /\ pg.count \in Nat
  BY DEF SoundPage, PageType
<1>2. /\ f.cd = cd
      /\ f.count = IF full THEN pg.count + 1 ELSE pg.count
      /\ f.first = IF full THEN IF pg.count = 0 THEN i ELSE pg.first
                   ELSE IF i < pg.first THEN i ELSE pg.first
      /\ f = [cd |-> f.cd, count |-> f.count, first |-> f.first]
  BY DEF Freed
<1>3. cd \in [Index -> [base : Nat, au : SUBSET Bits]]
  BY <1>1
<1>4. /\ \A j \in Index : j # i => cd[j] = pg.cd[j]
      /\ cd[i].au = au /\ cd[i].base = start
  BY <1>1
<1>. HIDE DEF f, cd
<1>5. f.count = Cardinality(Usable(cd)) /\ f.count \in Nat
  <2>1. Usable(cd) = Usable(pg.cd) \cup {i}
    BY <1>1, <1>4 DEF Usable
  <2>2. i \in Usable(pg.cd) <=> ~full
    BY DEF Usable
  <2>3. Cardinality(Usable(cd)) = IF full THEN pg.count + 1 ELSE pg.count
    <3> DEFINE U == Usable(pg.cd)
    <3>1. IsFiniteSet(U) /\ Cardinality(U) \in Nat
      BY UsableFinite
    <3>2. pg.count = Cardinality(U)
      BY DEF SoundPage
    <3>. HIDE DEF U
    <3>3. Cardinality(U \cup {i}) = IF i \in U THEN Cardinality(U)
                                              ELSE Cardinality(U) + 1
      BY <3>1, FS_AddElement
    <3>4. (U \cup {i}) = Usable(cd) /\ (i \in U <=> ~full)
      BY <2>1, <2>2 DEF U
    <3>. QED BY <3>2, <3>3, <3>4
  <2>. QED BY <2>3, <1>1, <1>2
<1>6. f.first \in Index /\ cd[f.first].au # {}
  <2>1. f.first = i \/ (f.first = pg.first /\ pg.count > 0)
    <3>1. CASE full
      BY <3>1, <1>1, <1>2
    <3>2. CASE ~full
      <4>1. i \in Usable(pg.cd)
        BY <3>2 DEF Usable
      <4>2. pg.count > 0
        BY <4>1, UsableFinite, FS_EmptySet DEF SoundPage
      <4>. QED BY <3>2, <4>2, <1>2
    <3>. QED BY <3>1, <3>2
  <2>. QED BY <2>1, <1>1, <1>4 DEF SoundPage
<1>7. \A j \in Index : cd[j].base = 0 <=> cd[j].au = Bits
  <2>1. pg.cd[i].base # 0
    BY DEF SoundPage
  <2>. QED BY <2>1, <1>4 DEF SoundPage
<1>8. SoundPage(f)
  <2>1. f \in PageType
    BY <1>2, <1>3, <1>5, <1>6 DEF PageType
  <2>. QED BY <2>1, <1>2, <1>5, <1>6, <1>7 DEF SoundPage
<1>. QED BY <1>2, <1>8 DEF f, cd

-----------------------------------------------------------------------------
(* What uses the frames                                                    *)

\* A set U of uses [kind, id, b, n] of runs of frames, and the free frames F:
\* every use has frames of its own and the others are free.
Fit(U, F) ==
    /\ \A u \in U : Run(u.b, u.n) \subseteq Frames \ F
    /\ \A u, v \in U : u # v => Run(u.b, u.n) \cap Run(v.b, v.n) = {}
    /\ \A f \in Frames \ F : \E u \in U : f \in Run(u.b, u.n)

\* Frames are taken for one more use.
LEMMA FitAdd ==
    ASSUME NEW U, NEW F \in SUBSET Frames, NEW w, Fit(U, F),
           Run(w.b, w.n) \subseteq F
    PROVE  Fit(U \cup {w}, F \ Run(w.b, w.n))
<1> DEFINE R(u) == Run(u.b, u.n)
<1>. HIDE DEF R
<1>1. /\ \A u \in U : R(u) \subseteq Frames \ F
      /\ \A u, v \in U : u # v => R(u) \cap R(v) = {}
      /\ \A f \in Frames \ F : \E u \in U : f \in R(u)
  BY DEF Fit, R
<1>2. R(w) \subseteq F
  BY DEF R
<1>3. /\ \A u \in U \cup {w} : R(u) \subseteq Frames \ (F \ R(w))
      /\ \A u, v \in U \cup {w} : u # v => R(u) \cap R(v) = {}
      /\ \A f \in Frames \ (F \ R(w)) : \E u \in U \cup {w} : f \in R(u)
  BY <1>1, <1>2
<1>. QED BY <1>3 DEF Fit, R

\* The frames of a use are given back.
LEMMA FitRemove ==
    ASSUME NEW U, NEW F \in SUBSET Frames, NEW w \in U, Fit(U, F)
    PROVE  /\ Fit(U \ {w}, F \cup Run(w.b, w.n))
           /\ F \cup Run(w.b, w.n) \in SUBSET Frames
<1> DEFINE R(u) == Run(u.b, u.n)
<1>. HIDE DEF R
<1>1. /\ \A u \in U : R(u) \subseteq Frames \ F
      /\ \A u, v \in U : u # v => R(u) \cap R(v) = {}
      /\ \A f \in Frames \ F : \E u \in U : f \in R(u)
  BY DEF Fit, R
<1>2. /\ \A u \in U \ {w} : R(u) \subseteq Frames \ (F \cup R(w))
      /\ \A u, v \in U \ {w} : u # v => R(u) \cap R(v) = {}
      /\ \A f \in Frames \ (F \cup R(w)) : \E u \in U \ {w} : f \in R(u)
      /\ F \cup R(w) \in SUBSET Frames
  BY <1>1
<1>. QED BY <1>2 DEF Fit, R

\* The descriptors in use, <<class, page, index>>, those with a cluster, and
\* the objects of a cluster.
PagesOf(c) == {root[c][k] : k \in DOMAIN root[c]}
Slots    == {o \in Classes \X Frames \X Index : o[2] \in PagesOf(o[1])}
D(o)     == cdp[o[2]].cd[o[3]]
Clusters == {o \in Slots : D(o).base # 0}
Object(o, n) == [at |-> At(o[1], D(o).base, n), len |-> o[1]]

\* The uses: descriptor pages, clusters, large objects.
PageUse(p)  == [kind |-> "page", id |-> p, b |-> p, n |-> 1]
ClusterUse(o) == [kind |-> "cluster", id |-> o, b |-> D(o).base, n |-> o[1]]
LargeUse(x) == [kind |-> "large", id |-> x, b |-> x.at \div Units,
                n |-> Pages(x.len)]
Large == {x \in held : x.len \notin Classes}
Uses == {PageUse(p) : p \in UNION {PagesOf(c) : c \in Classes}}
        \cup {ClusterUse(o) : o \in Clusters}
        \cup {LargeUse(x) : x \in Large}

-----------------------------------------------------------------------------
(* The inductive invariant                                                 *)

Typed ==
    /\ root \in [Classes -> Seq(Frames)]
    /\ cdp \in [Frames -> PageType]
    /\ free \in SUBSET Frames
    /\ held \in SUBSET [at : Nat, len : Nat \ {0}]
    /\ stopped # "bug"

\* A page is in one place of one chain.
ChainsApart ==
    /\ \A c \in Classes : \A k, l \in DOMAIN root[c] :
        root[c][k] = root[c][l] => k = l
    /\ \A c, d \in Classes : c # d => PagesOf(c) \cap PagesOf(d) = {}

PagesSound == \A c \in Classes : \A p \in PagesOf(c) : SoundPage(cdp[p])

\* The small objects are the clear bits; large ones start with a frame.
ObjectsMarked ==
    /\ \A o \in Clusters : \A n \in Bits \ D(o).au : Object(o, n) \in held
    /\ \A x \in held \ Large :
        \E o \in Clusters : \E n \in Bits \ D(o).au : x = Object(o, n)
LargeAligned == \A x \in Large : \E b \in Frames : x.at = b * Units

IInv == /\ Typed
        /\ ChainsApart
        /\ PagesSound
        /\ ObjectsMarked
        /\ LargeAligned
        /\ Fit(Uses, free)

LEMMA InitIInv == Init => IInv
<1>. SUFFICES ASSUME Init PROVE IInv
  OBVIOUS
<1>1. \A c \in Classes : DOMAIN root[c] = {} /\ PagesOf(c) = {}
  BY DEF Init, PagesOf
<1>2. Slots = {} /\ Clusters = {} /\ Large = {}
  BY <1>1 DEF Slots, Clusters, Large, Init
<1>3. Uses = {}
  BY <1>1, <1>2 DEF Uses
<1>4. Fit(Uses, free)
  BY <1>3 DEF Fit, Init
<1>5. Typed
  <2>1. NewPage \in PageType
    BY NewPageSound DEF SoundPage
  <2>. QED BY <2>1, EmptySeq DEF Typed, Init
<1>. QED BY <1>1, <1>2, <1>4, <1>5
     DEF IInv, ChainsApart, PagesSound, ObjectsMarked, LargeAligned, Init

\* What the invariant says of a descriptor in use, and of one with a cluster.
LEMMA SlotFacts ==
    ASSUME IInv, NEW o \in Slots
    PROVE  /\ o[1] \in Classes /\ o[2] \in Frames /\ o[3] \in Index
           /\ o[2] \in PagesOf(o[1]) /\ SoundPage(cdp[o[2]])
           /\ o = <<o[1], o[2], o[3]>>
           /\ D(o) \in [base : Nat, au : SUBSET Bits]
           /\ D(o).base = 0 <=> D(o).au = Bits
<1>1. /\ o[1] \in Classes /\ o[2] \in Frames /\ o[3] \in Index
      /\ o[2] \in PagesOf(o[1]) /\ o = <<o[1], o[2], o[3]>>
  BY DEF Slots
<1>2. SoundPage(cdp[o[2]])
  BY <1>1 DEF IInv, PagesSound
<1>. QED BY <1>1, <1>2 DEF SoundPage, PageType, D

LEMMA ClusterFacts ==
    ASSUME IInv, NEW o \in Clusters
    PROVE  /\ o \in Slots /\ o[1] \in Classes /\ D(o).base \in Frames
           /\ o[1] \in Nat /\ o[1] > 0 /\ D(o).base \in Nat
           /\ ClusterUse(o) \in Uses
           /\ Run(D(o).base, o[1]) \subseteq Frames \ free
<1>1. o \in Slots /\ o[1] \in Classes /\ D(o).base \in Nat
  BY SlotFacts DEF Clusters
<1>1a. o[1] \in Nat /\ o[1] > 0
  BY <1>1, Numbers DEF Classes
<1>2. ClusterUse(o) \in Uses
  BY DEF Uses
<1>3. Run(D(o).base, o[1]) \subseteq Frames \ free
  BY <1>2 DEF IInv, Fit, ClusterUse
<1>4. D(o).base \in Run(D(o).base, o[1])
  BY <1>1, <1>1a DEF Run
<1>. QED BY <1>1, <1>1a, <1>2, <1>3, <1>4

\* An address is in one cluster at most.
LEMMA ByAddress ==
    ASSUME IInv, NEW o \in Clusters, NEW q \in Clusters, NEW a \in Nat,
           Covers(o[1], D(o).base, a), Covers(q[1], D(q).base, a)
    PROVE  o = q
<1>1. \A r \in {o, q} : r[1] \in Nat /\ D(r).base \in Nat /\ ClusterUse(r) \in Uses
  BY ClusterFacts
<1>2. \A r \in {o, q} : a \div Units \in Run(D(r).base, r[1])
  BY <1>1, UnitInRun DEF Covers
<1>3. ClusterUse(o) = ClusterUse(q)
  BY <1>1, <1>2 DEF IInv, Fit, ClusterUse
<1>. QED BY <1>3 DEF ClusterUse

\* An object lies in its cluster.
LEMMA ObjectCovered ==
    ASSUME IInv, NEW o \in Clusters, NEW n \in Bits
    PROVE  /\ Object(o, n).at \in Nat /\ Object(o, n).len = o[1]
           /\ Covers(o[1], D(o).base, Object(o, n).at)
           /\ (Object(o, n).at - D(o).base * Units) \div o[1] = n
<1>1. /\ o[1] \in Classes /\ D(o).base \in Nat
      /\ o[1] \in Nat /\ o[1] > 0
  BY ClusterFacts
<1>2. /\ (D(o).base + o[1]) * Units \in Nat /\ D(o).base * Units \in Nat
  BY <1>1, Numbers
<1>. QED BY <1>1, <1>2, ObjectInCluster DEF Object, Covers

\* An object is one bit of one descriptor.
LEMMA ObjectIsOne ==
    ASSUME IInv, NEW o \in Clusters, NEW n \in Bits,
           NEW q \in Clusters, NEW m \in Bits, Object(o, n) = Object(q, m)
    PROVE  o = q /\ n = m
<1>1. o = q
  BY ObjectCovered, ByAddress
<1>. QED BY <1>1, ObjectCovered

-----------------------------------------------------------------------------
(* Allocations                                                             *)

\* The page an allocation uses: one of the class's chain, or a frame that was
\* free.
LEMMA ChoiceFacts ==
    ASSUME IInv, NEW c \in Classes, NEW h \in Choices(c)
    PROVE  /\ h.page \in Frames /\ SoundPage(h.is) /\ h.is.count > 0
           /\ h.chain \in Seq(Frames)
           /\ \A k, l \in DOMAIN h.chain : h.chain[k] = h.chain[l] => k = l
           /\ {h.chain[k] : k \in DOMAIN h.chain} = PagesOf(c) \cup {h.page}
           /\ \/ h.page \in PagesOf(c) /\ h.is = cdp[h.page] /\ h.took = {}
              \/ /\ h.took = {h.page} /\ h.page \in free /\ h.is = NewPage
                 /\ \A d \in Classes : h.page \notin PagesOf(d)
<1>1. root[c] \in Seq(Frames) /\ DOMAIN root[c] = 1 .. Len(root[c])
  BY LenProperties DEF IInv, Typed
<1>2. /\ \A k, l \in DOMAIN root[c] : root[c][k] = root[c][l] => k = l
      /\ \A k \in DOMAIN root[c] : root[c][k] \in Frames
  BY <1>1, ElementOfSeq DEF IInv, ChainsApart
<1>3. CASE WithRoom(c) # {}
  <2> DEFINE k == Lowest(WithRoom(c))
  <2>1. k \in WithRoom(c)
    <3>1. WithRoom(c) \in SUBSET Nat
      BY <1>1 DEF WithRoom
    <3>. QED BY <3>1, <1>3, LowestIn
  <2>2. /\ h.chain = root[c] /\ h.page = root[c][k]
        /\ h.is = cdp[root[c][k]] /\ h.took = {}
    BY <1>3 DEF Choices
  <2>3. h.page \in PagesOf(c) /\ h.page \in Frames /\ cdp[h.page].count > 0
    BY <2>1, <2>2, <1>2 DEF PagesOf, WithRoom
  <2>4. SoundPage(cdp[h.page])
    BY <2>3 DEF IInv, PagesSound
  <2>. QED BY <2>2, <2>3, <2>4, <1>1, <1>2 DEF PagesOf
<1>4. CASE WithRoom(c) = {}
  <2>1. PICK p \in Grants(1, {}) :
            h = [chain |-> <<p>> \o root[c], page |-> p, is |-> NewPage,
                 took |-> {p}]
    BY <1>4 DEF Choices
  <2>2. p \in Frames /\ p \in free
    <3>1. p \in Frames /\ Run(p, 1) \subseteq free
      BY DEF Grants
    <3>2. p \in Run(p, 1)
      BY <3>1, Numbers DEF Run
    <3>. QED BY <3>1, <3>2
  <2>3. \A d \in Classes : p \notin PagesOf(d)
    <3>. SUFFICES ASSUME NEW d \in Classes, p \in PagesOf(d) PROVE FALSE
      OBVIOUS
    <3>1. PageUse(p) \in Uses
      BY DEF Uses
    <3>2. Run(p, 1) \subseteq Frames \ free
      BY <3>1 DEF IInv, Fit, PageUse
    <3>3. p \in Run(p, 1)
      BY <2>2, Numbers DEF Run
    <3>. QED BY <2>2, <3>2, <3>3
  <2>4. <<p>> \in Seq(Frames) /\ Len(<<p>>) = 1 /\ <<p>>[1] = p
    BY <2>2
  <2>5. /\ h.chain \in Seq(Frames) /\ Len(h.chain) = Len(root[c]) + 1
        /\ \A k \in 1 .. (Len(root[c]) + 1) :
            h.chain[k] = IF k = 1 THEN p ELSE root[c][k - 1]
    <3>1. h.chain = <<p>> \o root[c]
      BY <2>1
    <3>2. /\ h.chain \in Seq(Frames) /\ Len(h.chain) = 1 + Len(root[c])
          /\ \A k \in 1 .. (1 + Len(root[c])) :
              h.chain[k] = IF k <= 1 THEN <<p>>[k] ELSE root[c][k - 1]
      BY <3>1, <2>4, <1>1, ConcatProperties
    <3>3. Len(root[c]) \in Nat
      BY <1>1, LenProperties
    <3>. QED BY <3>2, <3>3, <2>4
  <2>6. DOMAIN h.chain = 1 .. (Len(root[c]) + 1) /\ Len(root[c]) \in Nat
    BY <2>5, <1>1, LenProperties
  <2>7. \A k \in DOMAIN root[c] : root[c][k] # p
    BY <2>3 DEF PagesOf
  <2>7a. ASSUME NEW j \in DOMAIN h.chain, j # 1
         PROVE  j - 1 \in DOMAIN root[c] /\ h.chain[j] = root[c][j - 1]
    <3> DEFINE m == Len(root[c])
    <3>1. m \in Nat /\ DOMAIN root[c] = 1 .. m /\ DOMAIN h.chain = 1 .. (m + 1)
      BY <2>6, <1>1, LenProperties
    <3>2. \A i \in 1 .. (m + 1) : h.chain[i] = IF i = 1 THEN p ELSE root[c][i - 1]
      BY <2>5
    <3>. HIDE DEF m
    <3>3. j \in 1 .. (m + 1)
      BY <3>1
    <3>4. j - 1 \in 1 .. m
      BY <3>1, <3>3, <2>7a
    <3>. QED BY <3>1, <3>2, <3>3, <3>4, <2>7a
  <2>8. \A k, l \in DOMAIN h.chain : h.chain[k] = h.chain[l] => k = l
    <3>. SUFFICES ASSUME NEW k \in DOMAIN h.chain, NEW l \in DOMAIN h.chain,
                         h.chain[k] = h.chain[l]
                  PROVE  k = l
      OBVIOUS
    <3>1. k \in Int /\ l \in Int
      BY <2>6
    <3>2. \A j \in {k, l} : j # 1 => /\ j - 1 \in DOMAIN root[c]
                                     /\ h.chain[j] = root[c][j - 1]
      BY <2>7a
    <3>3. h.chain[1] = p
      BY <2>5, <2>6
    <3>4. k = 1 <=> l = 1
      BY <3>2, <3>3, <2>7
    <3>5. CASE k # 1
      BY <3>1, <3>2, <3>4, <3>5, <1>2
    <3>. QED BY <3>4, <3>5
  <2>9. {h.chain[k] : k \in DOMAIN h.chain} = PagesOf(c) \cup {p}
    <3>2. h.chain[1] = p /\ 1 \in DOMAIN h.chain
      BY <2>5, <2>6
    <3>1. \A k \in DOMAIN h.chain : h.chain[k] \in PagesOf(c) \cup {p}
      BY <2>7a, <3>2 DEF PagesOf
    <3>3. \A k \in DOMAIN root[c] : /\ k + 1 \in DOMAIN h.chain
                                    /\ h.chain[k + 1] = root[c][k]
      BY <2>5, <2>6, <1>1
    <3>. QED BY <3>1, <3>2, <3>3 DEF PagesOf
  <2>. QED BY <2>1, <2>2, <2>3, <2>5, <2>8, <2>9, NewPageSound
<1>. QED BY <1>3, <1>4

\* An allocation that succeeds in page p: descriptor e is the one it takes its
\* object from, b its cluster, for which the frames T are taken.
LEMMA PlaceIInv ==
    ASSUME IInv, NEW c \in Classes, NEW h \in Choices(c), NEW b \in Frames,
           NEW T,
           LET d == h.is.cd[h.is.first] IN
           \/ d.base # 0 /\ b = d.base /\ T = {}
           \/ d.base = 0 /\ T = Run(b, c) /\ T \subseteq free \ h.took,
           Place(c, h, b, T)
    PROVE  IInv'
<1> DEFINE p == h.page
           i == h.is.first
           d == h.is.cd[i]
           n == Lowest(d.au)
           t == Taken(h.is, i, b)
           e == <<c, p, i>>
           x == [at |-> At(c, b, n), len |-> c]
           P == IF h.took = {} THEN {} ELSE {PageUse(p)}
<1>1. /\ p \in Frames /\ SoundPage(h.is) /\ h.is.count > 0
      /\ h.chain \in Seq(Frames)
      /\ \A k, l \in DOMAIN h.chain : h.chain[k] = h.chain[l] => k = l
      /\ {h.chain[k] : k \in DOMAIN h.chain} = PagesOf(c) \cup {p}
      /\ \/ p \in PagesOf(c) /\ h.is = cdp[p] /\ h.took = {}
         \/ /\ h.took = {p} /\ p \in free /\ h.is = NewPage
            /\ \A q \in Classes : p \notin PagesOf(q)
  BY ChoiceFacts
<1>2. /\ i \in Index /\ d.au \in SUBSET Bits /\ n \in d.au
      /\ SoundPage(t)
      /\ t.cd = [h.is.cd EXCEPT ![i] = [base |-> b, au |-> d.au \ {n}]]
      /\ \A j \in Index : j # i => t.cd[j] = h.is.cd[j]
      /\ t.cd[i] = [base |-> b, au |-> d.au \ {n}]
      /\ d.base = 0 <=> d.au = Bits
  <2>1. /\ i \in Index /\ d.au \in SUBSET Bits
        /\ h.is.cd \in [Index -> [base : Nat, au : SUBSET Bits]]
        /\ d.base = 0 <=> d.au = Bits
    BY <1>1 DEF SoundPage, PageType
  <2>2. /\ n \in d.au /\ SoundPage(t)
        /\ t.cd = [h.is.cd EXCEPT ![i] = [base |-> b, au |-> d.au \ {n}]]
    BY <1>1, TakenSound
  <2>. QED BY <2>1, <2>2
<1>3. /\ cdp' = [cdp EXCEPT ![p] = t]
      /\ root' = [root EXCEPT ![c] = h.chain]
      /\ free' = free \ (h.took \cup T)
      /\ held' = held \cup {x}
      /\ stopped' = stopped
  BY DEF Place
<1>. HIDE DEF t
<1>4. /\ \A q \in Classes : root'[q] = IF q = c THEN h.chain ELSE root[q]
      /\ \A q \in Frames : cdp'[q] = IF q = p THEN t ELSE cdp[q]
      /\ root' \in [Classes -> Seq(Frames)]
      /\ cdp' \in [Frames -> PageType]
  BY <1>1, <1>2, <1>3 DEF IInv, Typed, SoundPage
<1>5. \A q \in Classes : PagesOf(q)' = IF q = c THEN PagesOf(c) \cup {p}
                                                ELSE PagesOf(q)
  <2>1. PagesOf(c)' = {h.chain[k] : k \in DOMAIN h.chain}
    <3>1. root'[c] = h.chain
      BY <1>4
    <3>. QED BY <3>1 DEF PagesOf
  <2>2. ASSUME NEW q \in Classes, q # c PROVE PagesOf(q)' = PagesOf(q)
    <3>1. root'[q] = root[q]
      BY <2>2, <1>4
    <3>. QED BY <3>1 DEF PagesOf
  <2>. QED BY <2>1, <2>2, <1>1
<1>6. /\ Slots \subseteq Slots' /\ e \in Slots'
      /\ \A o \in Slots' \ Slots : o[2] = p
      /\ \A o \in Slots' : o[2] = p => o = <<c, p, o[3]>> /\ o[3] \in Index
      /\ e \in Slots <=> p \in PagesOf(c)
  <2>1. \A o \in Slots' \ Slots : o[2] = p
    BY <1>5 DEF Slots
  <2>2. \A o \in Slots' : o[2] = p => o = <<c, p, o[3]>> /\ o[3] \in Index
    BY <1>1, <1>5 DEF Slots, IInv, ChainsApart
  <2>3. Slots \subseteq Slots' /\ e \in Slots' /\ (e \in Slots <=> p \in PagesOf(c))
    BY <1>1, <1>2, <1>5 DEF Slots
  <2>. QED BY <2>1, <2>2, <2>3
<1>7. /\ D(e)' = [base |-> b, au |-> d.au \ {n}]
      /\ \A o \in Slots : o # e => D(o)' = D(o)
      /\ \A o \in Slots' \ Slots : o # e => D(o)'.base = 0
      /\ e \in Slots => D(e) = d
      /\ e \notin Slots => d.base = 0
  <2>1. D(e)' = [base |-> b, au |-> d.au \ {n}]
    BY <1>1, <1>2, <1>4 DEF D
  <2>2. ASSUME NEW o \in Slots', o # e
        PROVE  D(o)' = IF o[2] = p THEN h.is.cd[o[3]] ELSE D(o)
    <3>1. o[2] \in Frames
      BY DEF Slots
    <3>2. CASE o[2] = p
      <4>1. o[3] # i /\ o[3] \in Index
        BY <2>2, <3>2, <1>6
      <4>2. cdp'[o[2]] = t
        BY <3>1, <3>2, <1>4
      <4>3. t.cd[o[3]] = h.is.cd[o[3]]
        BY <4>1, <1>2
      <4>. QED BY <3>2, <4>2, <4>3 DEF D
    <3>3. CASE o[2] # p
      BY <3>1, <3>3, <1>4 DEF D
    <3>. QED BY <3>2, <3>3
  <2>3. p \in PagesOf(c) => h.is = cdp[p]
    BY <1>1
  <2>4. \A o \in Slots : o[2] = p => p \in PagesOf(c)
    BY <1>1 DEF Slots
  <2>5. ASSUME NEW o \in Slots' \ Slots PROVE h.is.cd[o[3]].base = 0
    <3>1. o[2] = p /\ o[3] \in Index /\ p \notin PagesOf(c)
      BY <1>6 DEF Slots
    <3>2. h.is = NewPage
      BY <3>1, <1>1
    <3>. QED BY <3>1, <3>2 DEF NewPage, Blank
  <2>6. \A o \in Slots : o # e => D(o)' = D(o)
    BY <2>2, <2>3, <2>4, <1>6 DEF D
  <2>7. \A o \in Slots' \ Slots : o # e => D(o)'.base = 0
    BY <2>2, <2>5, <1>6
  <2>8. e \in Slots => D(e) = d
    BY <2>3, <1>6 DEF D
  <2>9. e \notin Slots => d.base = 0
    BY <2>5, <1>6
  <2>. QED BY <2>1, <2>6, <2>7, <2>8, <2>9
<1>8. /\ Clusters' = Clusters \cup {e}
      /\ e \in Clusters <=> d.base # 0
      /\ \A o \in Clusters : o # e => D(o)' = D(o)
      /\ \A o \in Clusters : ClusterUse(o)' = ClusterUse(o)
  <2>1. b # 0
    BY Numbers
  <2>2. e \in Clusters <=> d.base # 0
    BY <1>7 DEF Clusters
  <2>3. Clusters' = Clusters \cup {e}
    BY <2>1, <1>6, <1>7 DEF Clusters
  <2>4. \A o \in Clusters : o # e => D(o)' = D(o)
    BY <1>7 DEF Clusters
  <2>5. e \in Clusters => D(e)'.base = D(e).base
    BY <2>2, <1>7 DEF Clusters
  <2>. QED BY <2>2, <2>3, <2>4, <2>5 DEF ClusterUse
<1>9. Typed'
  <2>1. x \in [at : Nat, len : Nat \ {0}]
    <3>1. At(c, b, n) \in Nat
      BY <1>2, Numbers, ObjectInCluster
    <3>. QED BY <3>1, Numbers DEF Classes
  <2>. QED BY <2>1, <1>3, <1>4 DEF IInv, Typed
<1>10. ChainsApart'
  <2>1. ChainsApart
    BY DEF IInv
  <2>2. ASSUME NEW q \in Classes, NEW k \in DOMAIN root'[q], NEW l \in DOMAIN root'[q],
               root'[q][k] = root'[q][l]
        PROVE  k = l
    <3>1. CASE q = c
      <4>1. root'[q] = h.chain
        BY <3>1, <1>4
      <4>. QED BY <4>1, <2>2, <1>1
    <3>2. CASE q # c
      <4>1. root'[q] = root[q]
        BY <3>2, <1>4
      <4>. QED BY <4>1, <2>1, <2>2 DEF ChainsApart
    <3>. QED BY <3>1, <3>2
  <2>3. ASSUME NEW q \in Classes, NEW s \in Classes, q # s
        PROVE  PagesOf(q)' \cap PagesOf(s)' = {}
    <3>1. PagesOf(q) \cap PagesOf(s) = {}
      BY <2>1, <2>3 DEF ChainsApart
    <3>2. \A u \in Classes : u # c => p \notin PagesOf(u)
      BY <2>1, <1>1 DEF ChainsApart
    <3>3. \A u \in Classes : u # c => PagesOf(u)' = PagesOf(u)
      BY <1>5
    <3>4. PagesOf(c)' = PagesOf(c) \cup {p}
      BY <1>5
    <3>5. CASE q = c
      BY <3>1, <3>2, <3>3, <3>4, <3>5, <2>3
    <3>6. CASE s = c
      BY <3>1, <3>2, <3>3, <3>4, <3>6, <2>3
    <3>7. CASE q # c /\ s # c
      BY <3>1, <3>3, <3>7
    <3>. QED BY <3>5, <3>6, <3>7
  <2>. QED BY <2>2, <2>3 DEF ChainsApart
<1>11. PagesSound'
  <2>. SUFFICES ASSUME NEW q \in Classes, NEW r \in PagesOf(q)'
                PROVE  SoundPage(cdp'[r])
    BY DEF PagesSound
  <2>1. CASE r = p
    BY <2>1, <1>1, <1>2, <1>4
  <2>2. CASE r # p
    <3>1. r \in PagesOf(q)
      BY <2>2, <1>5
    <3>2. r \in Frames
      <4>1. root[q] \in Seq(Frames)
        BY DEF IInv, Typed
      <4>. QED BY <3>1, <4>1, ElementOfSeq, LenProperties DEF PagesOf
    <3>. QED BY <2>2, <3>1, <3>2, <1>4 DEF IInv, PagesSound
  <2>. QED BY <2>1, <2>2
<1>12. Large' = Large
  BY <1>3 DEF Large
<1>13. ObjectsMarked'
  <2>1. Object(e, n)' = x
    BY <1>7 DEF Object
  <2>a. /\ D(e)'.au = d.au \ {n} /\ D(e)'.base = b
        /\ n \in Bits
        /\ e \in Slots => D(e) = d
        /\ d.base = 0 => d.au = Bits
        /\ d.base # 0 => b = d.base
    <3>1. D(e)'.au = d.au \ {n} /\ D(e)'.base = b
      <4>1. \A r : r = [base |-> b, au |-> d.au \ {n}]
                  => r.au = d.au \ {n} /\ r.base = b
        OBVIOUS
      <4>2. D(e)' = [base |-> b, au |-> d.au \ {n}]
        BY <1>7, Zenon
      <4>. HIDE DEF d, n, e
      <4>. QED BY <4>1, <4>2
    <3>2. n \in Bits /\ (d.base = 0 => d.au = Bits)
      BY <1>2
    <3>3. e \in Slots => D(e) = d
      BY <1>7
    <3>. QED BY <3>1, <3>2, <3>3
  <2>b. /\ Clusters' = Clusters \cup {e}
        /\ e \in Clusters <=> d.base # 0
        /\ held' = held \cup {x}
    BY <1>3, <1>8
  <2>. HIDE DEF d, n, x, e
  <2>2. ASSUME NEW o \in Clusters, o # e, NEW m \in Bits \ D(o)'.au
        PROVE  m \in Bits \ D(o).au /\ Object(o, m)' = Object(o, m)
    BY <2>2, <1>8 DEF Object, e
  <2>3. ASSUME NEW m \in Bits \ D(e)'.au, m # n
        PROVE  /\ e \in Clusters /\ m \in Bits \ D(e).au
               /\ Object(e, m)' = Object(e, m)
    <3>1. m \notin d.au
      BY <2>3, <2>a
    <3>2. d.base # 0
      BY <3>1, <2>a
    <3>3. e \in Clusters
      BY <3>2, <2>b
    <3>4. D(e) = d /\ b = d.base
      BY <3>2, <3>3, <2>a DEF Clusters
    <3>. QED BY <3>1, <3>3, <3>4, <2>a DEF Object
  <2>4. ASSUME NEW o \in Clusters', NEW m \in Bits \ D(o)'.au
        PROVE  Object(o, m)' \in held'
    <3>1. \A u \in Clusters : \A k \in Bits \ D(u).au : Object(u, k) \in held
      BY DEF IInv, ObjectsMarked
    <3>2. CASE o # e
      <4>1. o \in Clusters
        BY <3>2, <2>b
      <4>. QED BY <4>1, <3>1, <3>2, <2>2, <2>b
    <3>3. CASE o = e /\ m = n
      BY <3>3, <2>1, <2>b
    <3>4. CASE o = e /\ m # n
      BY <3>1, <3>4, <2>3, <2>b
    <3>. QED BY <3>2, <3>3, <3>4
  <2>5. ASSUME NEW y \in held' \ Large'
        PROVE  \E o \in Clusters' : \E m \in Bits \ D(o)'.au : y = Object(o, m)'
    <3>1. CASE y = x
      <4>1. n \in Bits \ D(e)'.au
        BY <2>a
      <4>. QED BY <3>1, <4>1, <2>1, <2>b
    <3>2. CASE y # x
      <4>0. y \in held \ Large
        BY <3>2, <2>b, <1>12
      <4>1. PICK o \in Clusters : \E m \in Bits \ D(o).au : y = Object(o, m)
        BY <4>0 DEF IInv, ObjectsMarked
      <4>2. PICK m \in Bits \ D(o).au : y = Object(o, m)
        BY <4>1
      <4>3. CASE o # e
        BY <4>2, <4>3, <1>8 DEF Object, e
      <4>4. CASE o = e
        <5>1. d.base # 0 /\ e \in Slots
          BY <4>4, <2>b DEF Clusters
        <5>2. D(e) = d /\ b = d.base
          BY <5>1, <2>a
        <5>3. m \in Bits \ D(e)'.au /\ Object(e, m)' = Object(e, m)
          BY <5>2, <4>4, <2>a DEF Object
        <5>. QED BY <5>3, <4>2, <4>4, <2>b
      <4>. QED BY <4>3, <4>4
    <3>. QED BY <3>1, <3>2
  <2>. QED BY <2>4, <2>5 DEF ObjectsMarked
<1>14. LargeAligned'
  BY <1>12 DEF IInv, LargeAligned
<1>15. Uses' = (Uses \cup P) \cup {ClusterUse(e)'}
  <2> DEFINE A == UNION {PagesOf(q) : q \in Classes}
             B == UNION {PagesOf(q)' : q \in Classes}
  <2>1. B = A \cup {p}
    <3>1. \A r \in B : r \in A \cup {p}
      BY <1>5
    <3>2. \A r \in A : r \in B
      BY <1>5
    <3>3. p \in B
      BY <1>5
    <3>. QED BY <3>1, <3>2, <3>3
  <2>2. {PageUse(r) : r \in B} = {PageUse(r) : r \in A} \cup {PageUse(p)}
    <3>. HIDE DEF A, B
    <3>. QED BY <2>1
  <2>3. {ClusterUse(o)' : o \in Clusters'}
            = {ClusterUse(o) : o \in Clusters} \cup {ClusterUse(e)'}
    BY <1>8
  <2>4. {LargeUse(y) : y \in Large'} = {LargeUse(y) : y \in Large}
    BY <1>12
  <2>5. P = {} => PageUse(p) \in {PageUse(r) : r \in UNION {PagesOf(q) : q \in Classes}}
    BY <1>1
  <2>6. Uses' = {PageUse(r) : r \in UNION {PagesOf(q)' : q \in Classes}}
                \cup {ClusterUse(o)' : o \in Clusters'}
                \cup {LargeUse(y) : y \in Large'}
    BY DEF Uses, PageUse, LargeUse
  <2>. QED BY <2>2, <2>3, <2>4, <2>5, <2>6 DEF Uses
<1>16. /\ Fit(Uses \cup P, free \ h.took)
       /\ free \ h.took \in SUBSET Frames
  <2>0. free \in SUBSET Frames /\ Fit(Uses, free)
    BY DEF IInv, Typed
  <2>1. CASE h.took = {}
    <3>1. Uses \cup P = Uses /\ free \ h.took = free
      BY <2>1
    <3>. QED BY <2>0, <3>1
  <2>2. CASE h.took # {}
    <3>1. h.took = {p} /\ p \in free /\ P = {PageUse(p)}
      BY <2>2, <1>1
    <3>2. Run(PageUse(p).b, PageUse(p).n) = {p}
      BY <1>1, Numbers, RunOfOne DEF PageUse
    <3>3. Fit(Uses \cup {PageUse(p)}, free \ Run(PageUse(p).b, PageUse(p).n))
      BY <2>0, <3>1, <3>2, FitAdd
    <3>. QED BY <2>0, <3>1, <3>2, <3>3
  <2>. QED BY <2>1, <2>2
<1>17. Fit(Uses, free)'
  <2>1. ClusterUse(e)'.b = b /\ ClusterUse(e)'.n = c
    BY <1>7 DEF ClusterUse
  <2>2. CASE d.base # 0
    <3>1. T = {} /\ free' = free \ h.took
      BY <2>2, <1>3
    <3>2. ClusterUse(e)' \in Uses
      <4>1. e \in Clusters /\ ClusterUse(e)' = ClusterUse(e)
        BY <2>2, <1>8
      <4>. QED BY <4>1 DEF Uses
    <3>3. Uses' = Uses \cup P
      BY <3>2, <1>15
    <3>. QED BY <3>1, <3>3, <1>16 DEF Fit
  <2>3. CASE d.base = 0
    <3>1. T = Run(b, c) /\ T \subseteq free \ h.took
      BY <2>3
    <3>2. free' = (free \ h.took) \ Run(b, c)
      BY <3>1, <1>3
    <3>3. Fit((Uses \cup P) \cup {ClusterUse(e)'}, (free \ h.took) \ Run(b, c))
      BY <2>1, <3>1, <1>16, FitAdd
    <3>4. Fit(Uses', free')
      BY <3>2, <3>3, <1>15
    <3>. QED BY <3>4 DEF Fit
  <2>. QED BY <2>2, <2>3
<1>. QED BY <1>9, <1>10, <1>11, <1>13, <1>14, <1>17 DEF IInv

\* A step that changes at most `stopped`, as a panic does.
LEMMA PanicIInv ==
    ASSUME IInv, UNCHANGED <<root, cdp, free, held>>, stopped' # "bug"
    PROVE  IInv'
<1>1. \A c \in Classes : PagesOf(c)' = PagesOf(c)
  BY DEF PagesOf
<1>2. Slots' = Slots
  BY <1>1 DEF Slots
<1>3. \A o : D(o)' = D(o)
  BY DEF D
<1>4. /\ Clusters' = Clusters /\ Large' = Large
      /\ \A o, n : Object(o, n)' = Object(o, n)
      /\ \A o : ClusterUse(o)' = ClusterUse(o)
  BY <1>2, <1>3 DEF Clusters, Large, Object, ClusterUse
<1>5. Uses' = Uses
  BY <1>1, <1>4 DEF Uses, PageUse, LargeUse
<1>6. Typed' /\ ChainsApart' /\ PagesSound'
  BY <1>1 DEF IInv, Typed, ChainsApart, PagesSound
<1>7. ObjectsMarked' /\ LargeAligned'
  BY <1>3, <1>4 DEF IInv, ObjectsMarked, LargeAligned
<1>8. Fit(Uses, free)'
  BY <1>5 DEF IInv, Fit
<1>. QED BY <1>6, <1>7, <1>8 DEF IInv

LEMMA AllocIInv ==
    ASSUME IInv, NEW c \in Classes, Alloc(c)
    PROVE  IInv'
<1>1. ASSUME Panic("oom") PROVE IInv'
  BY <1>1, PanicIInv DEF Panic
<1>2. ASSUME NEW h \in Choices(c) PROVE h.is.cd[h.is.first].au # {}
  BY ChoiceFacts DEF SoundPage
<1>3. ASSUME NEW h \in Choices(c), h.is.cd[h.is.first].base # 0,
             Place(c, h, h.is.cd[h.is.first].base, {})
      PROVE  IInv'
  <2> DEFINE b == h.is.cd[h.is.first].base
  <2>1. b \in Frames
    <3>1. h.page \in PagesOf(c) /\ h.is = cdp[h.page] /\ h.is.first \in Index
          /\ h.page \in Frames
      BY <1>3, ChoiceFacts DEF NewPage, Blank, SoundPage, PageType
    <3>2. <<c, h.page, h.is.first>> \in Clusters
      BY <1>3, <3>1 DEF Clusters, Slots, D
    <3>3. D(<<c, h.page, h.is.first>>).base \in Frames
      BY <3>2, ClusterFacts
    <3>. QED BY <3>1, <3>3 DEF D
  <2>. QED BY <1>3, <2>1, PlaceIInv
<1>4. ASSUME NEW h \in Choices(c), h.is.cd[h.is.first].base = 0,
             NEW b \in Grants(c, h.took), Place(c, h, b, Run(b, c))
      PROVE  IInv'
  <2>1. b \in Frames /\ Run(b, c) \subseteq free \ h.took
    BY DEF Grants
  <2>. QED BY <1>4, <2>1, PlaceIInv
<1>. QED BY <1>1, <1>2, <1>3, <1>4 DEF Alloc

\* A step that leaves the descriptors alone and changes the large objects.
LEMMA LargeIInv ==
    ASSUME IInv, UNCHANGED <<root, cdp, stopped>>, NEW L,
           held' = (held \ Large) \cup L,
           L \in SUBSET [at : Nat, len : Nat \ {0}],
           \A x \in L : x.len \notin Classes /\ \E b \in Frames : x.at = b * Units,
           free' \in SUBSET Frames,
           Fit((Uses \ {LargeUse(x) : x \in Large}) \cup {LargeUse(x) : x \in L}, free')
    PROVE  IInv'
<1>1. \A c \in Classes : PagesOf(c)' = PagesOf(c)
  BY DEF PagesOf
<1>2. Slots' = Slots
  BY <1>1 DEF Slots
<1>3. \A o : D(o)' = D(o)
  BY DEF D
<1>4. /\ Clusters' = Clusters /\ Large' = L
      /\ held' \ Large' = held \ Large
      /\ \A o, n : Object(o, n)' = Object(o, n)
      /\ \A o : ClusterUse(o)' = ClusterUse(o)
  BY <1>2, <1>3 DEF Clusters, Large, Object, ClusterUse
<1>5. Uses' = (Uses \ {LargeUse(x) : x \in Large}) \cup {LargeUse(x) : x \in L}
  <2> DEFINE A == {PageUse(p) : p \in UNION {PagesOf(c) : c \in Classes}}
             B == {ClusterUse(o) : o \in Clusters}
             C == {LargeUse(x) : x \in Large}
  <2>1. Uses = A \cup B \cup C
    BY DEF Uses
  <2>2. Uses' = A \cup B \cup {LargeUse(x) : x \in L}
    BY <1>1, <1>4 DEF Uses, PageUse, LargeUse
  <2>3. A \cap C = {} /\ B \cap C = {}
    BY DEF PageUse, ClusterUse, LargeUse
  <2>. QED BY <2>1, <2>2, <2>3
<1>6. Typed' /\ ChainsApart' /\ PagesSound'
  BY <1>1 DEF IInv, Typed, ChainsApart, PagesSound
<1>7. ObjectsMarked'
  <2>1. ASSUME NEW o \in Clusters, NEW n \in Bits, Object(o, n) \in held
        PROVE  Object(o, n) \in held'
    <3>1. Object(o, n).len \in Classes
      BY ClusterFacts DEF Object
    <3>. QED BY <2>1, <3>1 DEF Large
  <2>. QED BY <2>1, <1>3, <1>4 DEF IInv, ObjectsMarked
<1>8. LargeAligned'
  BY <1>4 DEF LargeAligned
<1>9. Fit(Uses, free)'
  BY <1>5 DEF Fit
<1>. QED BY <1>6, <1>7, <1>8, <1>9 DEF IInv

LEMMA AllocLargeIInv ==
    ASSUME IInv, NEW s \in Sizes \ Classes, AllocLarge(s)
    PROVE  IInv'
<1>1. PICK b \in Grants(Pages(s), {}) :
          /\ free' = free \ Run(b, Pages(s))
          /\ held' = held \cup {[at |-> b * Units, len |-> s]}
  BY DEF AllocLarge
<1> DEFINE x == [at |-> b * Units, len |-> s]
<1>2. b \in Frames /\ b \in Nat /\ Run(b, Pages(s)) \subseteq free
  BY Numbers DEF Grants
<1>3. s \in Nat \ {0} /\ b * Units \in Nat /\ x \in [at : Nat, len : Nat \ {0}]
  BY <1>2, Numbers
<1>4. x.at \div Units = b
  <2>1. (b * Units + 0) \div Units = b
    BY <1>2, Numbers, Quotient
  <2>. QED BY <2>1, <1>3
<1>5. LargeUse(x).b = b /\ LargeUse(x).n = Pages(s)
  BY <1>4 DEF LargeUse
<1>6. Fit(Uses \cup {LargeUse(x)}, free')
  <2>1. Fit(Uses, free) /\ free \in SUBSET Frames
    BY DEF IInv, Typed
  <2>. QED BY <2>1, <1>1, <1>2, <1>5, FitAdd
<1> DEFINE L == Large \cup {x}
<1>7. (Uses \ {LargeUse(y) : y \in Large}) \cup {LargeUse(y) : y \in L}
        = Uses \cup {LargeUse(x)}
  BY DEF Uses
<1>8. held' = (held \ Large) \cup L
  BY <1>1 DEF Large
<1>9. L \in SUBSET [at : Nat, len : Nat \ {0}]
  BY <1>3 DEF Large, IInv, Typed
<1>10. \A y \in L : y.len \notin Classes /\ \E a \in Frames : y.at = a * Units
  BY <1>2 DEF Large, IInv, LargeAligned
<1>11. free' \in SUBSET Frames /\ UNCHANGED <<root, cdp, stopped>>
  BY <1>1 DEF AllocLarge, IInv, Typed
<1>. HIDE DEF L
<1>. QED BY <1>6, <1>7, <1>8, <1>9, <1>10, <1>11, LargeIInv

LEMMA FreeLargeIInv ==
    ASSUME IInv, NEW x \in held, FreeLarge(x)
    PROVE  IInv'
<1> DEFINE L == Large \ {x}
<1>1. /\ x \in Large /\ held' = held \ {x} /\ UNCHANGED <<root, cdp, stopped>>
      /\ free' = free \cup Run(LargeUse(x).b, LargeUse(x).n)
      /\ LargeUse(x) \in Uses
  BY DEF FreeLarge, Large, LargeUse, Uses
<1>2. Fit(Uses \ {LargeUse(x)}, free') /\ free' \in SUBSET Frames
  <2>1. Fit(Uses, free) /\ free \in SUBSET Frames
    BY DEF IInv, Typed
  <2>. QED BY <2>1, <1>1, FitRemove
<1>3. (Uses \ {LargeUse(y) : y \in Large}) \cup {LargeUse(y) : y \in L}
        = Uses \ {LargeUse(x)}
  <2>1. \A y \in Large : LargeUse(y) = LargeUse(x) => y = x
    BY DEF LargeUse
  <2>. QED BY <2>1, <1>1 DEF Uses
<1>4. held' = (held \ Large) \cup L
  BY <1>1 DEF Large
<1>5. L \in SUBSET [at : Nat, len : Nat \ {0}]
  BY DEF Large, IInv, Typed
<1>6. \A y \in L : y.len \notin Classes /\ \E a \in Frames : y.at = a * Units
  BY DEF Large, IInv, LargeAligned
<1>. HIDE DEF L
<1>. QED BY <1>1, <1>2, <1>3, <1>4, <1>5, <1>6, LargeIInv

\* A free finds the one descriptor of the object it is given.
LEMMA FreeFinds ==
    ASSUME IInv, NEW x \in held \ Large
    PROVE  \E o \in Clusters : \E n \in Bits \ D(o).au :
             /\ x = Object(o, n) /\ x.len = o[1]
             /\ Owners(x.len, x.at) # {}
             /\ root[x.len][FirstOwner(x.len, x.at)[1]] = o[2]
             /\ FirstOwner(x.len, x.at)[2] = o[3]
             /\ (x.at - D(o).base * Units) \div x.len = n
<1>1. PICK o \in Clusters : \E n \in Bits \ D(o).au : x = Object(o, n)
  BY DEF IInv, ObjectsMarked
<1>2. PICK n \in Bits \ D(o).au : x = Object(o, n)
  BY <1>1
<1> DEFINE c == o[1]
<1>3. /\ o[1] \in Classes /\ o[2] \in PagesOf(c) /\ o[3] \in Index
      /\ o = <<c, o[2], o[3]>> /\ D(o).base # 0
  BY SlotFacts DEF Clusters
<1>4. /\ x.at \in Nat /\ x.len = c /\ Covers(c, D(o).base, x.at)
      /\ (x.at - D(o).base * Units) \div c = n
  BY <1>2, ObjectCovered
<1>5. PICK k \in DOMAIN root[c] : root[c][k] = o[2]
  BY <1>3 DEF PagesOf
<1>6. <<k, o[3]>> \in Owners(c, x.at)
  BY <1>3, <1>4, <1>5 DEF Owners, D
<1>7. ASSUME NEW u \in Owners(c, x.at) PROVE u = <<k, o[3]>>
  <2> DEFINE q == <<c, root[c][u[1]], u[2]>>
  <2>0. /\ u[1] \in DOMAIN root[c] /\ u[2] \in Index /\ u = <<u[1], u[2]>>
        /\ cdp[root[c][u[1]]].cd[u[2]].base # 0
        /\ Covers(c, cdp[root[c][u[1]]].cd[u[2]].base, x.at)
    <3>1. /\ u \in (DOMAIN root[c]) \X Index
          /\ cdp[root[c][u[1]]].cd[u[2]].base # 0
          /\ Covers(c, cdp[root[c][u[1]]].cd[u[2]].base, x.at)
      BY Zenon DEF Owners
    <3> DEFINE A == DOMAIN root[c]
    <3>2. u \in A \X Index
      BY <3>1
    <3>. HIDE DEF A
    <3>3. u[1] \in A /\ u[2] \in Index /\ u = <<u[1], u[2]>>
      BY <3>2
    <3>. QED BY <3>1, <3>3 DEF A
  <2>1. /\ u[1] \in DOMAIN root[c] /\ u[2] \in Index /\ u = <<u[1], u[2]>>
        /\ D(q).base # 0 /\ Covers(c, D(q).base, x.at)
    BY <2>0 DEF D
  <2>2. root[c][u[1]] \in Frames
    BY <2>1, <1>3, ElementOfSeq, LenProperties DEF IInv, Typed
  <2>3. q \in Clusters
    BY <2>1, <2>2, <1>3 DEF Clusters, Slots, PagesOf
  <2>4. q = o
    BY <2>1, <2>3, <1>4, ByAddress
  <2>5. root[c][u[1]] = root[c][k] /\ u[2] = o[3]
    BY <2>4, <1>3, <1>5
  <2>. QED BY <2>1, <2>5, <1>3, <1>5 DEF IInv, ChainsApart
<1>8. FirstOwner(c, x.at) = <<k, o[3]>>
  <2>1. k \in Nat /\ o[3] \in Nat
    <3>1. root[c] \in Seq(Frames)
      BY <1>3 DEF IInv, Typed
    <3>2. DOMAIN root[c] = 1 .. Len(root[c])
      BY <3>1, LenProperties
    <3>. QED BY <3>2, <1>3, <1>5 DEF Index
  <2>2. \A p \in Owners(c, x.at) : k < p[1] \/ (k = p[1] /\ o[3] <= p[2])
    BY <1>7, <2>1
  <2>3. Owners(c, x.at) = {<<k, o[3]>>}
    BY <1>6, <1>7
  <2>. QED BY <2>1, <2>3 DEF FirstOwner
<1>. QED BY <1>2, <1>4, <1>5, <1>6, <1>8

LEMMA FreeIInv ==
    ASSUME IInv, NEW x \in held, Free(x)
    PROVE  IInv'
<1>1. x \in held \ Large /\ x.len \in Classes
  BY DEF Free, Large
<1> DEFINE Found(o, n) ==
             /\ x = Object(o, n) /\ x.len = o[1]
             /\ Owners(x.len, x.at) # {}
             /\ root[x.len][FirstOwner(x.len, x.at)[1]] = o[2]
             /\ FirstOwner(x.len, x.at)[2] = o[3]
             /\ (x.at - D(o).base * Units) \div x.len = n
<1>2a. PICK o \in Clusters : \E n \in Bits \ D(o).au : Found(o, n)
  BY <1>1, FreeFinds
<1>2. PICK n \in Bits \ D(o).au : Found(o, n)
  BY <1>2a
<1> DEFINE p  == o[2]
           i  == o[3]
           au == D(o).au \cup {n}
           pg == Freed(cdp[p], i, n)
           b  == D(o).base
<1>3. /\ o \in Slots /\ o[1] \in Classes /\ p \in Frames /\ i \in Index
      /\ o = <<o[1], p, i>> /\ p \in PagesOf(o[1]) /\ SoundPage(cdp[p])
      /\ b \in Frames /\ ClusterUse(o) \in Uses
  BY SlotFacts, ClusterFacts
<1>4. /\ SoundPage(pg)
      /\ pg.cd = [cdp[p].cd EXCEPT ![i] =
                    [base |-> IF au = Bits THEN 0 ELSE b, au |-> au]]
  <2>1. n \notin cdp[p].cd[i].au
    BY DEF D
  <2>2. n \in Bits
    OBVIOUS
  <2>. QED BY <2>1, <2>2, <1>3, FreedSound DEF D
<1>5. /\ \A j \in Index : j # i => pg.cd[j] = cdp[p].cd[j]
      /\ pg.cd[i] = [base |-> IF au = Bits THEN 0 ELSE b, au |-> au]
  <2>1. cdp[p].cd \in [Index -> [base : Nat, au : SUBSET Bits]]
    BY <1>3 DEF SoundPage, PageType
  <2>. QED BY <2>1, <1>3, <1>4
<1>6. /\ cdp' = [cdp EXCEPT ![p] = pg]
      /\ free' = IF pg.cd[i].base = 0 THEN free \cup Run(b, o[1]) ELSE free
      /\ held' = held \ {x} /\ UNCHANGED <<root, stopped>>
  <2> DEFINE f == FirstOwner(x.len, x.at)
  <2>1. /\ Owners(x.len, x.at) # {} /\ x.len = o[1]
        /\ root[x.len][f[1]] = p /\ f[2] = i
        /\ (x.at - b * Units) \div x.len = n
    BY <1>2
  <2>2. /\ held' = held \ {x} /\ UNCHANGED <<root, stopped>>
    BY DEF Free
  <2> DEFINE u == root[x.len][f[1]]
             v == cdp[u].cd[f[2]].base
             g == Freed(cdp[u], f[2], (x.at - v * Units) \div x.len)
  <2>3. /\ cdp' = [cdp EXCEPT ![u] = g]
        /\ free' = IF g.cd[f[2]].base = 0 THEN free \cup Run(v, x.len) ELSE free
    BY <2>1 DEF Free
  <2>4. u = p /\ f[2] = i
    BY <2>1
  <2>5. v = b
    BY <2>4 DEF D
  <2>6. g = pg
    BY <2>1, <2>4, <2>5
  <2>. HIDE DEF f, u, v, g
  <2>. QED BY <2>1, <2>2, <2>3, <2>4, <2>5, <2>6
<1>. HIDE DEF pg
<1>7. /\ \A q \in Frames : cdp'[q] = IF q = p THEN pg ELSE cdp[q]
      /\ cdp' \in [Frames -> PageType]
  BY <1>3, <1>4, <1>6 DEF IInv, Typed, SoundPage
<1>8. \A c \in Classes : PagesOf(c)' = PagesOf(c)
  BY <1>6 DEF PagesOf
<1>9. Slots' = Slots
  BY <1>8 DEF Slots
<1>10. /\ D(o)' = [base |-> IF au = Bits THEN 0 ELSE b, au |-> au]
       /\ \A q \in Slots : q # o => D(q)' = D(q)
  <2>1. D(o)' = [base |-> IF au = Bits THEN 0 ELSE b, au |-> au]
    BY <1>3, <1>5, <1>7 DEF D
  <2>2. ASSUME NEW q \in Slots, q # o PROVE D(q)' = D(q)
    <3>1. q[1] \in Classes /\ q[2] \in Frames /\ q[3] \in Index
          /\ q[2] \in PagesOf(q[1]) /\ q = <<q[1], q[2], q[3]>>
      BY SlotFacts
    <3>2. CASE q[2] = p
      <4>1. q[1] = o[1]
        BY <3>1, <3>2, <1>3 DEF IInv, ChainsApart
      <4>2. q[3] # i
        BY <2>2, <4>1, <3>1, <3>2, <1>3
      <4>3. cdp'[q[2]] = pg /\ pg.cd[q[3]] = cdp[p].cd[q[3]]
        BY <3>1, <3>2, <4>2, <1>5, <1>7
      <4>. QED BY <4>3, <3>2 DEF D
    <3>3. CASE q[2] # p
      BY <3>1, <3>3, <1>7 DEF D
    <3>. QED BY <3>2, <3>3
  <2>. QED BY <2>1, <2>2
<1>11. b # 0 /\ o[1] \in Nat
  BY <1>3, Numbers DEF Classes
<1>12. Clusters' = IF au = Bits THEN Clusters \ {o} ELSE Clusters
  BY <1>9, <1>10, <1>11, <1>3 DEF Clusters
<1>13. \A q \in Clusters : q # o => D(q)' = D(q) /\ ClusterUse(q)' = ClusterUse(q)
  BY <1>10 DEF Clusters, ClusterUse
<1>14. Typed' /\ ChainsApart'
  BY <1>3, <1>6, <1>7, <1>8, ClusterFacts DEF IInv, Typed, ChainsApart
<1>15. PagesSound'
  <2>. SUFFICES ASSUME NEW q \in Classes, NEW r \in PagesOf(q)
                PROVE  SoundPage(cdp'[r])
    BY <1>8 DEF PagesSound
  <2>1. r \in Frames
    BY ElementOfSeq, LenProperties DEF PagesOf, IInv, Typed
  <2>. QED BY <2>1, <1>4, <1>7 DEF IInv, PagesSound
<1>16. Large' = Large
  BY <1>1, <1>6 DEF Large
<1>17. ObjectsMarked'
  <2>1. ASSUME NEW q \in Clusters', NEW m \in Bits \ D(q)'.au
        PROVE  /\ q \in Clusters /\ m \in Bits \ D(q).au
               /\ Object(q, m)' = Object(q, m) /\ Object(q, m) # x
    <3>0. q \in Clusters
      BY <1>12
    <3>1. CASE q = o
      <4>1. au # Bits
        BY <3>1, <1>12
      <4>2. D(o)' = [base |-> b, au |-> au]
        BY <4>1, <1>10
      <4>3. m \in Bits \ D(o).au /\ m # n /\ Object(o, m)' = Object(o, m)
        BY <4>2, <3>1 DEF Object
      <4>. QED BY <4>3, <3>1, <1>2, ObjectIsOne
    <3>2. CASE q # o
      <4>1. D(q)' = D(q) /\ Object(q, m)' = Object(q, m)
        BY <3>0, <3>2, <1>13 DEF Object
      <4>2. Object(q, m) # Object(o, n)
        BY <3>0, <3>2, ObjectIsOne
      <4>. QED BY <3>0, <4>1, <4>2, <1>2
    <3>. QED BY <3>1, <3>2
  <2>2. ASSUME NEW y \in held' \ Large'
        PROVE  \E q \in Clusters' : \E m \in Bits \ D(q)'.au : y = Object(q, m)'
    <3>1. PICK q \in Clusters : \E m \in Bits \ D(q).au : y = Object(q, m)
      BY <1>6, <1>16 DEF IInv, ObjectsMarked
    <3>2. PICK m \in Bits \ D(q).au : y = Object(q, m)
      BY <3>1
    <3>3. CASE q = o
      <4>1. m # n
        BY <3>2, <3>3, <1>2, <1>6
      <4>2. m \notin au /\ au # Bits
        BY <3>3, <4>1
      <4>3. o \in Clusters' /\ D(o)' = [base |-> b, au |-> au]
        BY <4>2, <1>10, <1>12
      <4>4. Object(o, m)' = Object(o, m) /\ m \in Bits \ D(o)'.au
        BY <4>2, <4>3 DEF Object
      <4>. QED BY <3>2, <3>3, <4>3, <4>4
    <3>4. CASE q # o
      <4>1. q \in Clusters' /\ D(q)' = D(q)
        BY <3>4, <1>12, <1>13
      <4>. QED BY <3>2, <4>1 DEF Object
    <3>. QED BY <3>3, <3>4
  <2>3. ASSUME NEW q \in Clusters', NEW m \in Bits \ D(q)'.au
        PROVE  Object(q, m)' \in held'
    <3>1. Object(q, m) \in held
      BY <2>1 DEF IInv, ObjectsMarked
    <3>. QED BY <3>1, <2>1, <1>6
  <2>. QED BY <2>2, <2>3 DEF ObjectsMarked
<1>18. LargeAligned'
  BY <1>16 DEF IInv, LargeAligned
<1> DEFINE A == {PageUse(r) : r \in UNION {PagesOf(c) : c \in Classes}}
           B == {ClusterUse(q) : q \in Clusters}
           C == {LargeUse(y) : y \in Large}
<1>19. Uses' = A \cup {ClusterUse(q)' : q \in Clusters'} \cup C
  BY <1>8, <1>16 DEF Uses, PageUse, LargeUse
<1>20. Uses = A \cup B \cup C
  BY DEF Uses
<1>21. Fit(Uses, free) /\ free \in SUBSET Frames
  BY DEF IInv, Typed
<1>22. (Fit(Uses, free) /\ free \in SUBSET Frames)'
  <2>1. CASE au = Bits
    <3>1. {ClusterUse(q)' : q \in Clusters'} = B \ {ClusterUse(o)}
      <4>1. \A q \in Clusters : ClusterUse(q) = ClusterUse(o) => q = o
        BY DEF ClusterUse
      <4>. QED BY <4>1, <2>1, <1>12, <1>13
    <3>2. ClusterUse(o) \notin A /\ ClusterUse(o) \notin C
      BY DEF ClusterUse, PageUse, LargeUse
    <3>. HIDE DEF A, B, C
    <3>3. Uses' = Uses \ {ClusterUse(o)}
      BY <3>1, <3>2, <1>19, <1>20
    <3>4. ClusterUse(o).b = b /\ ClusterUse(o).n = o[1]
      BY DEF ClusterUse
    <3>5. free' = free \cup Run(b, o[1])
      BY <2>1, <1>5, <1>6
    <3>6. /\ Fit(Uses \ {ClusterUse(o)}, free \cup Run(b, o[1]))
          /\ free \cup Run(b, o[1]) \in SUBSET Frames
      BY <3>4, <1>3, <1>21, FitRemove
    <3>. QED BY <3>3, <3>5, <3>6 DEF Fit
  <2>2. CASE au # Bits
    <3>1. ClusterUse(o)' = ClusterUse(o)
      BY <2>2, <1>10 DEF ClusterUse
    <3>2. {ClusterUse(q)' : q \in Clusters'} = B
      BY <2>2, <3>1, <1>12, <1>13
    <3>. HIDE DEF A, B, C
    <3>3. Uses' = Uses
      BY <3>2, <1>19, <1>20
    <3>4. free' = free
      BY <2>2, <1>5, <1>6, <1>11
    <3>. QED BY <3>3, <3>4, <1>21 DEF Fit
  <2>. QED BY <2>1, <2>2
<1>. QED BY <1>14, <1>15, <1>17, <1>18, <1>22 DEF IInv

LEMMA NextIInv == IInv /\ [Next]_vars => IInv'
<1>. SUFFICES ASSUME IInv, [Next]_vars PROVE IInv'
  OBVIOUS
<1>1. ASSUME NEW c \in Sizes \cap Classes, Alloc(c) PROVE IInv'
  BY <1>1, AllocIInv
<1>2. ASSUME NEW s \in Sizes \ Classes, AllocLarge(s) PROVE IInv'
  BY <1>2, AllocLargeIInv
<1>3. ASSUME NEW x \in held, Free(x) PROVE IInv'
  BY <1>3, FreeIInv
<1>4. ASSUME NEW x \in held, FreeLarge(x) PROVE IInv'
  BY <1>4, FreeLargeIInv
<1>5. CASE UNCHANGED vars
  BY <1>5, PanicIInv DEF vars, IInv, Typed
<1>. QED BY <1>1, <1>2, <1>3, <1>4, <1>5 DEF Next

\* The invariant holds in every state of every behaviour.
THEOREM Invariance == Spec => []IInv
<1>. QED BY InitIInv, NextIInv, PTL DEF Spec

-----------------------------------------------------------------------------
(* What follows from the invariant                                         *)

\* An entry of a chain: the class and the position.
LEMMA EntryFacts ==
    ASSUME IInv, NEW u \in InUse
    PROVE  /\ u[1] \in Classes /\ u[2] \in DOMAIN root[u[1]]
           /\ u = <<u[1], u[2]>>
           /\ root[u[1]][u[2]] \in Frames /\ root[u[1]][u[2]] \in PagesOf(u[1])
           /\ SoundPage(cdp[root[u[1]][u[2]]])
<1>1. PICK c \in Classes : u \in {c} \X DOMAIN root[c]
  BY DEF InUse
<1> DEFINE A == DOMAIN root[c]
<1>2. u \in {c} \X A
  BY <1>1
<1>. HIDE DEF A
<1>3. u[1] = c /\ u[2] \in A /\ u = <<u[1], u[2]>>
  BY <1>2
<1>4. u[1] \in Classes /\ u[2] \in DOMAIN root[u[1]] /\ u = <<u[1], u[2]>>
  BY <1>3 DEF A
<1>5. root[u[1]][u[2]] \in PagesOf(u[1])
  BY <1>4 DEF PagesOf
<1>6. root[u[1]][u[2]] \in Frames
  BY <1>4, ElementOfSeq, LenProperties DEF IInv, Typed
<1>. QED BY <1>4, <1>5, <1>6 DEF IInv, PagesSound

LEMMA EntryOf ==
    ASSUME NEW c \in Classes, NEW p \in PagesOf(c)
    PROVE  \E u \in InUse : u[1] = c /\ root[c][u[2]] = p
<1>1. PICK k \in DOMAIN root[c] : root[c][k] = p
  BY DEF PagesOf
<1>2. <<c, k>> \in InUse
  BY DEF InUse
<1>. QED BY <1>1, <1>2

\* The hints of every descriptor page are right and the panic of alloc_au
\* ("free_desc_index points to a descriptor with no free AU") is never met.
THEOREM HintsAreSound == Spec => []HintsSound
<1>1. IInv => HintsSound
  <2>. SUFFICES ASSUME IInv PROVE HintsSound
    OBVIOUS
  <2>1. stopped # "bug"
    BY DEF IInv, Typed
  <2>2. ASSUME NEW u \in InUse
        PROVE  SoundPage(cdp[root[u[1]][u[2]]])
    BY EntryFacts
  <2>. QED BY <2>1, <2>2 DEF HintsSound, SoundPage, Usable, PageType
<1>. QED BY <1>1, Invariance, PTL

\* The descriptor with index i of the page at entry u.
Slot(u, i) == <<u[1], root[u[1]][u[2]], i>>

LEMMA SlotOf ==
    ASSUME IInv, NEW u \in InUse, NEW i \in Index
    PROVE  Slot(u, i) \in Slots /\ D(Slot(u, i)) = Desc(u, i)
<1>1. /\ u[1] \in Classes /\ root[u[1]][u[2]] \in Frames
      /\ root[u[1]][u[2]] \in PagesOf(u[1])
  BY EntryFacts
<1>. QED BY <1>1 DEF Slot, Slots, D, Desc

LEMMA OfSlot ==
    ASSUME IInv, NEW o \in Slots
    PROVE  \E u \in InUse : o[3] \in Index /\ Slot(u, o[3]) = o
<1>1. o[1] \in Classes /\ o[2] \in PagesOf(o[1]) /\ o[3] \in Index
      /\ o = <<o[1], o[2], o[3]>>
  BY SlotFacts
<1>2. PICK u \in InUse : u[1] = o[1] /\ root[o[1]][u[2]] = o[2]
  BY <1>1, EntryOf
<1>. QED BY <1>1, <1>2 DEF Slot

\* The clear bits are the small objects that callers hold.
LEMMA MarkedIsHeld ==
    ASSUME IInv
    PROVE  Marked = {x \in held : x.len \in Classes}
<1>1. ASSUME NEW x \in Marked PROVE x \in held /\ x.len \in Classes
  <2>1. PICK w \in InUse \X Index : x \in Clear(w[1], w[2])
    BY DEF Marked
  <2> DEFINE u == w[1]
             i == w[2]
             o == Slot(u, i)
  <2>2. u \in InUse /\ i \in Index
    OBVIOUS
  <2>3. o \in Slots /\ D(o) = Desc(u, i) /\ o[1] = u[1]
    BY <2>2, SlotOf DEF Slot
  <2>. HIDE DEF o, u, i
  <2>4. PICK n \in Bits \ D(o).au : x = Object(o, n)
    BY <2>1, <2>3 DEF Clear, Object, u, i
  <2>5. o \in Clusters
    BY <2>3, SlotFacts DEF Clusters
  <2>6. o[1] \in Classes /\ x.len = o[1]
    BY <2>3, <2>4, SlotFacts DEF Object
  <2>. QED BY <2>4, <2>5, <2>6 DEF IInv, ObjectsMarked
<1>2. ASSUME NEW x \in held, x.len \in Classes PROVE x \in Marked
  <2>1. PICK o \in Clusters : \E n \in Bits \ D(o).au : x = Object(o, n)
    BY <1>2 DEF IInv, ObjectsMarked, Large
  <2>2. PICK n \in Bits \ D(o).au : x = Object(o, n)
    BY <2>1
  <2>3. o \in Slots
    BY DEF Clusters
  <2>4. PICK u \in InUse : o[3] \in Index /\ Slot(u, o[3]) = o
    BY <2>3, OfSlot
  <2>5. D(o) = Desc(u, o[3]) /\ o[1] = u[1]
    BY <2>4, SlotOf DEF Slot
  <2>6. x \in Clear(u, o[3])
    BY <2>2, <2>5 DEF Clear, Object
  <2>7. <<u, o[3]>> \in InUse \X Index
    BY <2>4
  <2>. QED BY <2>6, <2>7 DEF Marked
<1>. QED BY <1>1, <1>2

\* Use w of frames is what the member u of Users says.
Serves(u, w) ==
    \/ u \in InUse /\ w = PageUse(root[u[1]][u[2]])
    \/ u \in InUse \X Index /\ w = ClusterUse(Slot(u[1], u[2]))
                            /\ Slot(u[1], u[2]) \in Clusters
    \/ u \in Large /\ w = LargeUse(u)

LEMMA ServesOne ==
    ASSUME IInv, NEW u, NEW v, NEW w, Serves(u, w), Serves(v, w)
    PROVE  u = v
<1>1. CASE w.kind = "page"
  <2>1. /\ u \in InUse /\ v \in InUse
        /\ w.id = root[u[1]][u[2]] /\ w.id = root[v[1]][v[2]]
    BY <1>1 DEF Serves, PageUse, ClusterUse, LargeUse
  <2>2. \A e \in {u, v} : /\ e[1] \in Classes /\ e[2] \in DOMAIN root[e[1]]
                          /\ e = <<e[1], e[2]>> /\ w.id \in PagesOf(e[1])
    BY <2>1, EntryFacts
  <2>. QED BY <2>1, <2>2 DEF IInv, ChainsApart
<1>2. CASE w.kind = "cluster"
  <2>1. /\ u \in InUse \X Index /\ v \in InUse \X Index
        /\ Slot(u[1], u[2]) = Slot(v[1], v[2])
    BY <1>2 DEF Serves, PageUse, ClusterUse, LargeUse
  <2>2. \A e \in {u[1], v[1]} :
            /\ e[1] \in Classes /\ e[2] \in DOMAIN root[e[1]]
            /\ e = <<e[1], e[2]>>
    BY <2>1, EntryFacts
  <2>3. /\ u[2] = v[2] /\ u[1][1] = v[1][1]
        /\ root[u[1][1]][u[1][2]] = root[v[1][1]][v[1][2]]
    BY <2>1 DEF Slot
  <2>4. u[1] = v[1]
    BY <2>2, <2>3 DEF IInv, ChainsApart
  <2>. QED BY <2>1, <2>3, <2>4
<1>3. CASE w.kind = "large"
  BY <1>3 DEF Serves, PageUse, ClusterUse, LargeUse
<1>. QED BY <1>1, <1>2, <1>3 DEF Serves, PageUse, ClusterUse, LargeUse

LEMMA ServesUses ==
    ASSUME IInv
    PROVE  /\ \A u, w : Serves(u, w) => w \in Uses
           /\ \A w \in Uses : \E u : Serves(u, w)
<1>1. ASSUME NEW u, NEW w, Serves(u, w) PROVE w \in Uses
  <2>1. u \in InUse => root[u[1]][u[2]] \in UNION {PagesOf(c) : c \in Classes}
    BY EntryFacts
  <2>. QED BY <2>1, <1>1 DEF Serves, Uses
<1>2. ASSUME NEW w \in Uses PROVE \E u : Serves(u, w)
  <2>1. CASE \E p \in UNION {PagesOf(c) : c \in Classes} : w = PageUse(p)
    <3>1. PICK c \in Classes : \E p \in PagesOf(c) : w = PageUse(p)
      BY <2>1
    <3>2. PICK p \in PagesOf(c) : w = PageUse(p)
      BY <3>1
    <3>. QED BY <3>2, EntryOf DEF Serves
  <2>2. CASE \E o \in Clusters : w = ClusterUse(o)
    <3>1. PICK o \in Clusters : w = ClusterUse(o)
      BY <2>2
    <3>2. PICK u \in InUse : o[3] \in Index /\ Slot(u, o[3]) = o
      BY OfSlot DEF Clusters
    <3>3. Serves(<<u, o[3]>>, w)
      BY <3>1, <3>2 DEF Serves
    <3>. QED BY <3>3
  <2>3. CASE \E x \in Large : w = LargeUse(x)
    BY <2>3 DEF Serves
  <2>. QED BY <2>1, <2>2, <2>3 DEF Uses
<1>. QED BY <1>1, <1>2

LEMMA UsersServe ==
    ASSUME IInv, NEW f \in Frames, NEW u
    PROVE  u \in Users(f) <=> \E w : Serves(u, w) /\ f \in Run(w.b, w.n)
<1>1. u \in InUse => (root[u[1]][u[2]] = f <=> f \in Run(root[u[1]][u[2]], 1))
  <2>. SUFFICES ASSUME u \in InUse
                PROVE  root[u[1]][u[2]] = f <=> f \in Run(root[u[1]][u[2]], 1)
    OBVIOUS
  <2>1. root[u[1]][u[2]] \in Nat
    BY EntryFacts, Numbers
  <2>. QED BY <2>1, RunOfOne
<1>2. ASSUME u \in InUse \X Index
      PROVE  /\ Slot(u[1], u[2]) \in Clusters <=> Desc(u[1], u[2]).base # 0
             /\ ClusterUse(Slot(u[1], u[2])).b = Desc(u[1], u[2]).base
             /\ ClusterUse(Slot(u[1], u[2])).n = u[1][1]
  <2>1. /\ Slot(u[1], u[2]) \in Slots /\ D(Slot(u[1], u[2])) = Desc(u[1], u[2])
        /\ Slot(u[1], u[2])[1] = u[1][1]
    BY <1>2, SlotOf DEF Slot
  <2>. QED BY <2>1 DEF Clusters, ClusterUse
<1>3. u \in Users(f) <=>
        \/ u \in InUse /\ root[u[1]][u[2]] = f
        \/ /\ u \in InUse \X Index /\ Desc(u[1], u[2]).base # 0
           /\ f \in Run(Desc(u[1], u[2]).base, u[1][1])
        \/ u \in Large /\ f \in Run(u.at \div Units, Pages(u.len))
  <2> DEFINE A == {e \in InUse : root[e[1]][e[2]] = f}
             B == {e \in InUse \X Index : LET b == Desc(e[1], e[2]).base IN
                                        b # 0 /\ f \in Run(b, e[1][1])}
             C == {x \in held : x.len \notin Classes
                               /\ f \in Run(x.at \div Units, Pages(x.len))}
  <2>1. Users(f) = A \cup B \cup C
    BY DEF Users
  <2>2. u \in A <=> u \in InUse /\ root[u[1]][u[2]] = f
    BY Zenon
  <2>3. u \in B <=> /\ u \in InUse \X Index /\ Desc(u[1], u[2]).base # 0
                   /\ f \in Run(Desc(u[1], u[2]).base, u[1][1])
    BY Zenon
  <2>4. u \in C <=> u \in Large /\ f \in Run(u.at \div Units, Pages(u.len))
    BY Zenon DEF Large
  <2>. HIDE DEF A, B, C
  <2>. QED BY <2>1, <2>2, <2>3, <2>4
<1>4. /\ PageUse(root[u[1]][u[2]]).b = root[u[1]][u[2]]
      /\ PageUse(root[u[1]][u[2]]).n = 1
      /\ LargeUse(u).b = u.at \div Units /\ LargeUse(u).n = Pages(u.len)
  BY DEF PageUse, LargeUse
<1>5. ASSUME u \in Users(f) PROVE \E w : Serves(u, w) /\ f \in Run(w.b, w.n)
  <2>1. CASE u \in InUse /\ root[u[1]][u[2]] = f
    <3>1. f \in Run(PageUse(root[u[1]][u[2]]).b, PageUse(root[u[1]][u[2]]).n)
      BY <2>1, <1>1, <1>4
    <3>. QED BY <2>1, <3>1, Zenon DEF Serves
  <2>2. CASE /\ u \in InUse \X Index /\ Desc(u[1], u[2]).base # 0
             /\ f \in Run(Desc(u[1], u[2]).base, u[1][1])
    <3> DEFINE w == ClusterUse(Slot(u[1], u[2]))
    <3>1. Slot(u[1], u[2]) \in Clusters /\ f \in Run(w.b, w.n)
      BY <2>2, <1>2
    <3>. QED BY <2>2, <3>1, Zenon DEF Serves
  <2>3. CASE u \in Large /\ f \in Run(u.at \div Units, Pages(u.len))
    <3>1. f \in Run(LargeUse(u).b, LargeUse(u).n)
      BY <2>3, <1>4
    <3>. QED BY <2>3, <3>1, Zenon DEF Serves
  <2>. QED BY <2>1, <2>2, <2>3, <1>3, <1>5
<1>6. ASSUME NEW w, Serves(u, w), f \in Run(w.b, w.n) PROVE u \in Users(f)
  <2>1. CASE u \in InUse /\ w = PageUse(root[u[1]][u[2]])
    BY <2>1, <1>1, <1>3, <1>4, <1>6
  <2>2. CASE u \in InUse \X Index /\ w = ClusterUse(Slot(u[1], u[2]))
                                 /\ Slot(u[1], u[2]) \in Clusters
    BY <2>2, <1>2, <1>3, <1>6
  <2>3. CASE u \in Large /\ w = LargeUse(u)
    BY <2>3, <1>3, <1>4, <1>6
  <2>. QED BY <2>1, <2>2, <2>3, <1>6 DEF Serves
<1>. QED BY <1>5, <1>6

\* Nothing is lost and nothing is used twice: the clear bits of the bitmaps
\* are the objects that callers hold, and a frame taken from PhysMem serves
\* one purpose until it is given back.
THEOREM MemoryIsAccounted == Spec => []MemoryAccounted
<1>1. IInv => MemoryAccounted
  <2>. SUFFICES ASSUME IInv PROVE MemoryAccounted
    OBVIOUS
  <2>1. Fit(Uses, free) /\ free \in SUBSET Frames
    BY DEF IInv, Typed
  <2>2. ASSUME NEW f \in Frames
        PROVE  f \in free <=> Users(f) = {}
    <3>1. ASSUME NEW u \in Users(f) PROVE f \notin free
      <4>1. PICK w : Serves(u, w) /\ f \in Run(w.b, w.n)
        BY UsersServe
      <4>2. w \in Uses
        BY <4>1, ServesUses
      <4>. QED BY <4>1, <4>2, <2>1 DEF Fit
    <3>2. ASSUME f \notin free PROVE Users(f) # {}
      <4>1. PICK w \in Uses : f \in Run(w.b, w.n)
        BY <3>2, <2>1 DEF Fit
      <4>2. PICK u : Serves(u, w)
        BY ServesUses
      <4>3. u \in Users(f)
        BY <4>1, <4>2, UsersServe
      <4>. QED BY <4>3
    <3>. QED BY <3>1, <3>2
  <2>3. ASSUME NEW f \in Frames, NEW u \in Users(f), NEW v \in Users(f)
        PROVE  u = v
    <3>1. PICK w : Serves(u, w) /\ f \in Run(w.b, w.n)
      BY UsersServe
    <3>2. PICK z : Serves(v, z) /\ f \in Run(z.b, z.n)
      BY UsersServe
    <3>3. w = z
      BY <3>1, <3>2, <2>1, ServesUses DEF Fit
    <3>. QED BY <3>1, <3>2, <3>3, ServesOne
  <2>. QED BY <2>2, <2>3, MarkedIsHeld DEF MemoryAccounted
<1>. QED BY <1>1, Invariance, PTL

\* Two objects that callers hold share no unit of memory.
LEMMA ObjectsDisjoint ==
    IInv => \A x, y \in held : x # y => Abstract!Apart(x, y)
<1>. SUFFICES ASSUME IInv, NEW x \in held, NEW y \in held, x # y
              PROVE  Abstract!Apart(x, y)
  OBVIOUS
<1> DEFINE In(z, w) == /\ w \in Uses /\ w.b \in Nat /\ w.n \in Nat /\ w.n > 0
                       /\ w.b * Units <= z.at
                       /\ z.at + z.len <= (w.b + w.n) * Units
<1>0. \A z \in held : z.at \in Nat /\ z.len \in Nat /\ z.len > 0
  BY DEF IInv, Typed
<1>1. ASSUME NEW o \in Clusters, NEW n \in Bits
      PROVE  In(Object(o, n), ClusterUse(o))
  BY ClusterFacts, ObjectInCluster DEF Object, ClusterUse
<1>2. ASSUME NEW z \in Large PROVE In(z, LargeUse(z))
  <2>1. PICK b \in Frames : z.at = b * Units
    BY DEF IInv, LargeAligned
  <2>2. b \in Nat /\ Units \in Nat /\ Units > 0 /\ z \in held
    BY Numbers DEF Large
  <2>3. (b * Units + 0) \div Units = b
    BY <2>2, Quotient
  <2>4. b * Units \in Nat
    BY <2>2
  <2>5. LargeUse(z).b = b /\ LargeUse(z).n = Pages(z.len)
    BY <2>1, <2>3, <2>4 DEF LargeUse
  <2> DEFINE m == Pages(z.len)
  <2>6. m \in Nat /\ m > 0 /\ z.len <= m * Units
    BY <2>2, <1>0, PagesHold
  <2>. HIDE DEF m
  <2>7. (b + m) * Units = b * Units + m * Units /\ m * Units \in Nat
    BY <2>2, <2>6
  <2>8. LargeUse(z) \in Uses
    BY DEF Uses
  <2>. QED BY <2>1, <2>2, <2>4, <2>5, <2>6, <2>7, <2>8, <1>0 DEF m
<1>3. \A z \in held \ Large : \E o \in Clusters : \E n \in Bits : z = Object(o, n)
  BY DEF IInv, ObjectsMarked
<1>4. ASSUME NEW w, NEW z, w # z, In(x, w), In(y, z)
      PROVE  Abstract!Apart(x, y)
  <2>1. Run(w.b, w.n) \cap Run(z.b, z.n) = {}
    BY <1>4 DEF IInv, Fit
  <2>2. (w.b + w.n) * Units <= z.b * Units \/ (z.b + z.n) * Units <= w.b * Units
    BY <2>1, <1>4, RunsApart
  <2>3. w.b * Units \in Nat /\ z.b * Units \in Nat
        /\ (w.b + w.n) * Units \in Nat /\ (z.b + z.n) * Units \in Nat
    BY <1>4, Numbers
  <2>4. x.at + x.len <= y.at \/ y.at + y.len <= x.at
    BY <2>2, <2>3, <1>0, <1>4
  <2>. QED BY <2>4, <1>0 DEF Abstract!Apart, Abstract!Extent
<1>5. CASE x \in Large /\ y \in Large
  <2>1. LargeUse(x) # LargeUse(y)
    BY DEF LargeUse
  <2>. QED BY <2>1, <1>2, <1>4, <1>5
<1>6. CASE x \in Large /\ y \notin Large
  <2>1. PICK o \in Clusters, n \in Bits : y = Object(o, n)
    BY <1>3, <1>6
  <2>2. LargeUse(x) # ClusterUse(o)
    BY DEF LargeUse, ClusterUse
  <2>. QED BY <2>1, <2>2, <1>1, <1>2, <1>4, <1>6
<1>7. CASE x \notin Large /\ y \in Large
  <2>1. PICK o \in Clusters, n \in Bits : x = Object(o, n)
    BY <1>3, <1>7
  <2>2. LargeUse(y) # ClusterUse(o)
    BY DEF LargeUse, ClusterUse
  <2>. QED BY <2>1, <2>2, <1>1, <1>2, <1>4, <1>7
<1>8. CASE x \notin Large /\ y \notin Large
  <2>1. PICK o \in Clusters, n \in Bits : x = Object(o, n)
    BY <1>3, <1>8
  <2>2. PICK q \in Clusters, m \in Bits : y = Object(q, m)
    BY <1>3, <1>8
  <2>3. CASE o # q
    <3>1. ClusterUse(o) # ClusterUse(q)
      BY <2>3 DEF ClusterUse
    <3>. QED BY <2>1, <2>2, <3>1, <1>1, <1>4
  <2>4. CASE o = q
    <3>1. m # n /\ m \in Int /\ n \in Int
      BY <2>1, <2>2, <2>4 DEF Bits
    <3>2. x.at + o[1] <= y.at \/ y.at + o[1] <= x.at
      BY <2>1, <2>2, <2>4, <3>1, ClusterFacts, ObjectsApart DEF Object
    <3>3. x.len = o[1] /\ y.len = o[1]
      BY <2>1, <2>2, <2>4 DEF Object
    <3>. QED BY <3>2, <3>3, <1>0 DEF Abstract!Apart, Abstract!Extent
  <2>. QED BY <2>3, <2>4
<1>. QED BY <1>5, <1>6, <1>7, <1>8

\* The heap is an arena: an object is its caller's alone until it is freed.
THEOREM Refinement == Spec => ImplementsArena
<1>1. Init => Abstract!Init
  BY DEF Init, Abstract!Init
<1>2. IInv /\ [Next]_vars => [Abstract!Next]_held
  <2>. SUFFICES ASSUME IInv, [Next]_vars PROVE [Abstract!Next]_held
    OBVIOUS
  <2>0. IInv'
    BY NextIInv
  <2>1. \A x, y \in held' : x # y => Abstract!Apart(x, y)
    <3>1. (IInv => \A x, y \in held : x # y => Abstract!Apart(x, y))'
      BY ObjectsDisjoint, PTL
    <3>. QED BY <3>1, <2>0 DEF Abstract!Apart, Abstract!Extent
  <2>2. \A x \in held' : x.len > 0
    BY <2>0 DEF IInv, Typed
  <2>3. ASSUME NEW x, held' = held \cup {x} PROVE [Abstract!Next]_held
    <3>1. CASE x \in held
      BY <2>3, <3>1
    <3>2. CASE x \notin held
      <4>1. \A y \in held : Abstract!Apart(y, x)
        BY <2>1, <2>3, <3>2
      <4>. QED BY <4>1, <2>2, <2>3, <3>2 DEF Abstract!Next, Abstract!Give
    <3>. QED BY <3>1, <3>2
  <2>4. ASSUME NEW x \in held, held' = held \ {x} PROVE [Abstract!Next]_held
    BY <2>4 DEF Abstract!Next, Abstract!TakeBack
  <2>5. ASSUME NEW c \in Sizes \cap Classes, Alloc(c) PROVE [Abstract!Next]_held
    BY <2>3, <2>5 DEF Alloc, Place, Panic
  <2>6. ASSUME NEW s \in Sizes \ Classes, AllocLarge(s) PROVE [Abstract!Next]_held
    BY <2>3, <2>6 DEF AllocLarge
  <2>7. ASSUME NEW x \in held, Free(x) \/ FreeLarge(x) PROVE [Abstract!Next]_held
    BY <2>4, <2>7 DEF Free, FreeLarge
  <2>8. CASE UNCHANGED vars
    BY <2>8 DEF vars
  <2>. QED BY <2>5, <2>6, <2>7, <2>8 DEF Next
<1>. QED BY <1>1, <1>2, Invariance, PTL DEF Spec, ImplementsArena, Abstract!Spec
=============================================================================
