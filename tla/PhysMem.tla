------------------------------ MODULE PhysMem ------------------------------
(***************************************************************************)
(* The physical frame allocator, kernel/src/mem/phys.rs: one bit per frame *)
(* (1 = free), the count of free frames, and the bounds it checks frees    *)
(* against.  Every operation runs under the BITMAP lock, so it is one step *)
(* (init runs before the other CPUs start).  Addresses are counted in      *)
(* units of which FrameSize make a frame; `base` of an entry need not be   *)
(* aligned.  Owners are the allocator's callers: heap, page tables, kernel *)
(* stacks, user memory, drivers; each frees only what it holds, or an      *)
(* address that is nobody's to free, which is_valid has to keep out.       *)
(***************************************************************************)
EXTENDS Integers, FiniteSets

CONSTANTS
    FrameSize,
    Boots,      \* what init may be called with: [mmap, kernel, kmod], where
                \* mmap is a set of [base, len, avail], kernel and kmod are
                \* [start, end], and kmod is in {} or a singleton
    Owner,
    Requests    \* bound: how many frames a call asks for

Entry   == [base : Nat, len : Nat, avail : BOOLEAN]
Range2  == [start : Nat, end : Nat]

ASSUME PhysMemAssumption ==
    /\ FrameSize \in Nat /\ FrameSize >= 2
    /\ Requests \subseteq Nat \ {0}
    /\ \A b \in Boots :
        /\ b.mmap \subseteq Entry
        /\ \E e \in b.mmap : \* the last available entry
            /\ e.avail /\ e.len > 0
            /\ \A x \in b.mmap : x.avail => x.base + x.len <= e.base + e.len
        /\ b.kernel \in Range2
        /\ b.kmod \subseteq Range2

VARIABLES
    boot,           \* the arguments of init
    bitmap,         \* the frames whose bit is 1
    free_frames,    \* the count that goes with it
    granted,        \* what each owner holds
    res             \* the last call's outcome: [call, n, out]

physVars == <<boot, bitmap, free_frames, granted, res>>

RoundDown(a) == (a \div FrameSize) * FrameSize
RoundUp(a)   == RoundDown(a + FrameSize - 1)

Avail(b)    == {e \in b.mmap : e.avail}
Reserved(b) == {e \in b.mmap : ~e.avail}

\* 1) The last address of RAM that is available.
last_phys_addr(b) ==
    (CHOOSE m \in {e.base + e.len : e \in Avail(b)} :
        \A e \in Avail(b) : e.base + e.len <= m) - 1
total_frames(b)    == (last_phys_addr(b) + 1) \div FrameSize
first_phys_addr    == 0

\* 2) and 5) The bitmap, a byte per frame, lies behind the kernel and the
\* module; the red zone is all from the kernel to the bitmap's last frame.
base(b) ==
    RoundUp(1 + IF \E m \in b.kmod : m.end > b.kernel.end
                THEN (CHOOSE m \in b.kmod : TRUE).end
                ELSE b.kernel.end)
size(b)           == 8 * ((total_frames(b) + 7) \div 8)
red_zone_start(b) == RoundDown(b.kernel.start)
red_zone_end(b)   == RoundUp(base(b) + size(b)) - 1

\* mark_continuous(start, end): every FrameSize units from start, below end.
MarkedFrames(start, end) ==
    {f \in (start \div FrameSize)..end :
        f * FrameSize + (start % FrameSize) < end}

\* 3) and 4) An entry's frames, if it starts below the end of RAM.
EntryFrames(b, e) ==
    LET start == RoundUp(e.base)
        end   == RoundDown(start + e.len) - 1
    IN  IF start < last_phys_addr(b) THEN MarkedFrames(start, end) ELSE {}

EntriesFrames(b, E) == UNION {EntryFrames(b, e) : e \in E}
RedZoneFrames(b)    == MarkedFrames(red_zone_start(b), red_zone_end(b))
ModuleFrames(b)     == UNION {MarkedFrames(m.start, m.end) : m \in b.kmod}

\* Freed first, then marked used: the reserved entries' frames, the red zone
\* and the module.
Withheld(b) ==
    EntriesFrames(b, Reserved(b)) \cup RedZoneFrames(b) \cup ModuleFrames(b)

UsableFrames(b) == EntriesFrames(b, Avail(b)) \ Withheld(b)

\* Broken variant: the red zone is not looked at.
in_range(f) == f * FrameSize <= last_phys_addr(boot)

\* is_valid of the address of frame f.
is_valid(f) ==
    LET addr == f * FrameSize IN
    /\ first_phys_addr <= addr /\ addr <= last_phys_addr(boot)
    /\ ~(red_zone_start(boot) <= addr /\ addr <= red_zone_end(boot))

PhysInit ==
    /\ boot \in Boots
    /\ bitmap = UsableFrames(boot)
    /\ free_frames = Cardinality(UsableFrames(boot))
    /\ granted = [o \in Owner |-> {}]
    /\ res = [call |-> "free", n |-> 0, out |-> "ok"]

(***************************************************************************)
(* Allocation.  Each call first compares n with the count, then scans the  *)
(* bitmap: alloc_frames and alloc_continuous up from address 0 and short   *)
(* of last_phys_addr, alloc_high_frames down from last_phys_addr's frame.  *)
(* A scan upwards that finds too few frames is rolled back and fails.  The *)
(* one downwards would go on below address 0, reading through a wild       *)
(* pointer: outcome "wild".                                                *)
(***************************************************************************)
Up   == {f \in bitmap : f * FrameSize < last_phys_addr(boot)}
Down == {f \in bitmap : f <= last_phys_addr(boot) \div FrameSize}

LowestFrames(n, S) ==
    {got \in SUBSET S : /\ Cardinality(got) = n
                        /\ \A f \in got, g \in S \ got : f < g}
HighestFrames(n, S) ==
    {got \in SUBSET S : /\ Cardinality(got) = n
                        /\ \A f \in got, g \in S \ got : f > g}
Runs(n, S) == {f \in S : f..(f + n - 1) \subseteq S}

Outcome(call, n, out) == res' = [call |-> call, n |-> n, out |-> out]

\* Broken variants: mark leaves the count alone; mark leaves the bits alone.
TakeUncounted(got) == bitmap' = bitmap \ got /\ UNCHANGED free_frames
TakeUnmarked(got)  == free_frames' = free_frames - Cardinality(got) /\ UNCHANGED bitmap

\* mark(addr, true) of free frames.
Take(got) == /\ bitmap' = bitmap \ got
             /\ free_frames' = free_frames - Cardinality(got)

Grant(o, call, n, got) ==
    /\ Take(got)
    /\ granted' = [granted EXCEPT ![o] = @ \cup got]
    /\ Outcome(call, n, "ok")

Refuse(call, n, out) ==
    /\ Outcome(call, n, out)
    /\ UNCHANGED <<bitmap, free_frames, granted>>

\* Broken variant: a request for the last free frames fails.
TooMany(n) == n >= free_frames

Short(n) == n > free_frames

\* alloc is alloc_frames with n = 1.
alloc_frames(o, n) ==
    /\ IF Short(n) \/ Cardinality(Up) < n
       THEN Refuse("up", n, "oom")
       ELSE \E got \in LowestFrames(n, Up) : Grant(o, "up", n, got)
    /\ UNCHANGED boot

alloc_high_frames(o, n) ==
    /\ IF Short(n) THEN Refuse("down", n, "oom")
       ELSE IF Cardinality(Down) < n THEN Refuse("down", n, "wild")
       ELSE \E got \in HighestFrames(n, Down) : Grant(o, "down", n, got)
    /\ UNCHANGED boot

\* The first run of n free frames.
alloc_continuous(o, n) ==
    /\ IF Short(n) \/ Runs(n, Up) = {}
       THEN Refuse("run", n, "oom")
       ELSE \E f \in Runs(n, Up) : /\ \A g \in Runs(n, Up) : f <= g
                                   /\ Grant(o, "run", n, f..(f + n - 1))
    /\ UNCHANGED boot

(***************************************************************************)
(* free, free_frames and free_continuous: mark(addr, false) of every frame *)
(* that is_valid and used.                                                 *)
(***************************************************************************)
\* Broken variant: the count goes the wrong way.
GiveMiscounted(S) ==
    /\ bitmap' = bitmap \cup {f \in S : is_valid(f)}
    /\ free_frames' = free_frames - Cardinality({f \in S : is_valid(f)} \ bitmap)
    /\ Outcome("free", 0, "ok")

Give(S) == LET given == {f \in S : is_valid(f)} IN
    /\ bitmap' = bitmap \cup given
    /\ free_frames' = free_frames + Cardinality(given \ bitmap)
    /\ Outcome("free", 0, "ok")

free_held(o, S) ==
    /\ S \subseteq granted[o] /\ S # {}
    /\ Give(S)
    /\ granted' = [granted EXCEPT ![o] = @ \ S]
    /\ UNCHANGED boot

\* A caller frees what it does not hold: a frame of the kernel's image or the
\* bitmap, an address past the end of RAM, or a frame that is free.
Foreign(f) == \/ f \in bitmap
              \/ f \in RedZoneFrames(boot)
              \/ f * FrameSize > last_phys_addr(boot)

free_foreign(f) ==
    /\ Foreign(f)
    /\ Give({f})
    /\ UNCHANGED <<boot, granted>>

MaxFrame == red_zone_end(boot) \div FrameSize
            + last_phys_addr(boot) \div FrameSize + 1

PhysNext ==
    \/ \E o \in Owner, n \in Requests :
        alloc_frames(o, n) \/ alloc_high_frames(o, n) \/ alloc_continuous(o, n)
    \/ \E o \in Owner : \E S \in SUBSET granted[o] : free_held(o, S)
    \/ \E f \in 0..MaxFrame : free_foreign(f)

PhysSpec == PhysInit /\ [][PhysNext]_physVars

-----------------------------------------------------------------------------

RedZone == RedZoneFrames(boot)

\* The bitmap, the count and the owners keep their shape.
TypeOK ==
    /\ boot \in Boots
    /\ bitmap \subseteq Nat /\ IsFiniteSet(bitmap)
    /\ free_frames \in Nat
    /\ granted \in [Owner -> SUBSET Nat]
    /\ res.out \in {"ok", "oom", "wild"}

\* The count that every allocation trusts is the number of bits set, through
\* partial allocations, double frees and frees the bounds check refuses.
CountExact == free_frames = Cardinality(bitmap)

\* No frame is handed out twice, nor handed out while free.
NoFrameShared ==
    /\ \A o \in Owner : granted[o] \cap bitmap = {}
    /\ \A o, p \in Owner : o # p => granted[o] \cap granted[p] = {}

\* The kernel's image, a module behind it and the bitmap are never free and
\* never handed out, whatever callers free.
KernelKeptOut ==
    /\ bitmap \cap RedZone = {}
    /\ \A o \in Owner : granted[o] \cap RedZone = {}

\* "Throws OutOfMemory if the requested number of free frames are not
\* available": only then, of the frames its scan covers; and the scan of
\* alloc_high_frames ends before it leaves the bitmap.
OomIsTrue ==
    /\ res.out # "wild"
    /\ res.out = "oom" =>
        \/ res.call = "up"   /\ Cardinality(Up) < res.n
        \/ res.call = "down" /\ Cardinality(bitmap) < res.n
        \/ res.call = "run"  /\ Runs(res.n, Up) = {}

\* init and the calls behave as a frame allocator that neither loses frames
\* nor makes them up.
Allocator == INSTANCE Frames WITH free <- bitmap, held <- granted
ImplementsFrames == Allocator!Spec
=============================================================================
