------------------------------- MODULE Kalloc -------------------------------
(***************************************************************************)
(* The kernel heap, kernel/src/mem/heap.rs.  Memory is counted in units of *)
(* the smallest allocation (64 bytes); a frame has Units of them (64), so  *)
(* has a cluster objects of its class, and so many entries has the root:   *)
(* class c serves objects of c units out of clusters of c frames.  Larger  *)
(* requests go to the frame allocator, here the set `free` of which it     *)
(* grants the lowest run that fits (PhysMem.tla is its detailed model).    *)
(* Every call runs under the KALLOC_ROOT lock and is one step.             *)
(***************************************************************************)
EXTENDS Integers, Sequences, FiniteSets

CONSTANTS
    Frames,     \* the frames the heap may be given
    Units,      \* units per frame: KALLOC_ROOT_ENTRIES, 64 in the code
    Descs,      \* descriptors per page: DESCRIPTOR_COUNT, 255 in the code
    Sizes       \* bound: the sizes asked for, in units

ASSUME KallocAssumption ==
    /\ Frames \subseteq Nat \ {0} \* base_addr = 0 means: no cluster
    /\ Units \in Nat /\ Units >= 2
    /\ Descs \in Nat \ {0}
    /\ Sizes \subseteq Nat \ {0}  \* GlobalAlloc is not called with size 0

VARIABLES
    root,       \* per class its descriptor pages, the head of the chain first
    cdp,        \* the descriptor page in a frame: see NewPage
    free,       \* the frames PhysMem would grant
    held,       \* the objects callers hold: [at, len]
    stopped     \* "no", or the panic that stopped the kernel: "oom", "bug"

vars == <<root, cdp, free, held, stopped>>

Classes == 1 .. (Units - 1)
Bits    == 0 .. (Units - 1)
Index   == 0 .. (Descs - 1)

Lowest(S) == CHOOSE x \in S : \A y \in S : x <= y
Run(b, n) == b .. (b + n - 1)
Pages(s)  == (s + Units - 1) \div Units \* round_up!(size, frame) / frame

\* A descriptor: base 0 as long as it has no cluster, au = its free units;
\* the page's two low bytes: first is free_desc_index, count free_desc_count.
Blank   == [base |-> 0, au |-> Bits]
NewPage == [cd |-> [i \in Index |-> Blank], first |-> 0, count |-> Descs]

Init == /\ root = [c \in Classes |-> <<>>]
        /\ cdp = [f \in Frames |-> NewPage]
        /\ free = Frames
        /\ held = {}
        /\ stopped = "no"

-----------------------------------------------------------------------------
(* tlsf_alloc and cluster_search_alloc                                     *)

\* What PhysMem answers to a call for n frames once the frames S are taken:
\* the lowest run of free frames, or no answer.
Grants(n, S) ==
    LET fit == {b \in Frames : Run(b, n) \subseteq free \ S}
    IN  {b \in fit : b = Lowest(fit)}

WithRoom(c) == {k \in DOMAIN root[c] : cdp[root[c][k]].count > 0}

\* The page to use, the chain it is in, and the frames taken for it: the
\* first of the chain that has room, else a new one put before the head.
Choices(c) ==
    IF WithRoom(c) # {}
    THEN {[chain |-> root[c], page |-> root[c][Lowest(WithRoom(c))],
           is |-> cdp[root[c][Lowest(WithRoom(c))]], took |-> {}]}
    ELSE {[chain |-> <<p>> \o root[c], page |-> p, is |-> NewPage,
           took |-> {p}] : p \in Grants(1, {})}

\* 3) to 5): the lowest free unit of descriptor d; when the cluster is full
\* now, the count falls and the index moves to the first with a free unit.
Taken(pg, d, b) ==
    LET left == pg.cd[d].au \ {Lowest(pg.cd[d].au)}
        cd   == [pg.cd EXCEPT ![d] = [base |-> b, au |-> left]]
    IN  [cd    |-> cd,
         count |-> IF left = {} THEN pg.count - 1 ELSE pg.count,
         first |-> IF left = {} /\ pg.count > 1
                   THEN Lowest({i \in Index : cd[i].au # {}})
                   ELSE pg.first]

\* Broken variant: the offset forgets the size of the class.
AtUnit(c, b, n) == b * Units + n

\* The address of object n of the cluster at b.
At(c, b, n) == b * Units + c * n

Place(c, h, b, took) ==
    /\ cdp' = [cdp EXCEPT ![h.page] = Taken(h.is, h.is.first, b)]
    /\ root' = [root EXCEPT ![c] = h.chain]
    /\ free' = free \ (h.took \cup took)
    /\ held' = held \cup
        {[at |-> At(c, b, Lowest(h.is.cd[h.is.first].au)), len |-> c]}
    /\ UNCHANGED stopped

Panic(why) == /\ stopped' = why
              /\ UNCHANGED <<root, cdp, free, held>>

\* cluster_alloc where the descriptor has no cluster yet; the two panics are
\* "free_desc_index points to a descriptor with no free AU" and "Out of
\* memory", for a page or for a cluster.
Alloc(c) ==
    /\ stopped = "no"
    /\ IF Choices(c) = {} THEN Panic("oom") ELSE
       \E h \in Choices(c) :
         LET d == h.is.cd[h.is.first] IN
         IF d.au = {} THEN Panic("bug")
         ELSE IF d.base # 0 THEN Place(c, h, d.base, {})
         ELSE IF Grants(c, h.took) = {} THEN Panic("oom")
         ELSE \E b \in Grants(c, h.took) : Place(c, h, b, Run(b, c))

\* au_index >= KALLOC_ROOT_ENTRIES: frames; none left gives a null pointer.
AllocLarge(s) ==
    /\ stopped = "no"
    /\ \E b \in Grants(Pages(s), {}) :
        /\ free' = free \ Run(b, Pages(s))
        /\ held' = held \cup {[at |-> b * Units, len |-> s]}
    /\ UNCHANGED <<root, cdp, stopped>>

-----------------------------------------------------------------------------
(* tlsf_free and cluster_search_free                                       *)

\* Broken variant: the end of the cluster counts as part of it.
Within(c, b, addr) == b * Units <= addr /\ addr <= (b + c) * Units

Covers(c, b, addr) == b * Units <= addr /\ addr < (b + c) * Units

\* The descriptors, as <<position in the chain, index>>, that hold addr.
Owners(c, addr) ==
    {o \in (DOMAIN root[c]) \X Index :
        LET b == cdp[root[c][o[1]]].cd[o[2]].base IN
        b # 0 /\ Covers(c, b, addr)}

\* The scan goes page by page down the chain, by index in a page.
FirstOwner(c, addr) ==
    CHOOSE o \in Owners(c, addr) : \A p \in Owners(c, addr) :
        o[1] < p[1] \/ (o[1] = p[1] /\ o[2] <= p[2])

\* Broken variant: the index of a page that was full is left as it was.
FreedFull(pg, i, n) ==
    LET full == pg.cd[i].au = {}
        au   == pg.cd[i].au \cup {n}
        base == IF au = Bits THEN 0 ELSE pg.cd[i].base
    IN  [cd    |-> [pg.cd EXCEPT ![i] = [base |-> base, au |-> au]],
         count |-> IF full THEN pg.count + 1 ELSE pg.count,
         first |-> IF ~full /\ i < pg.first THEN i ELSE pg.first]

\* Bit n of descriptor i is set; a cluster all free is given up.
Freed(pg, i, n) ==
    LET full == pg.cd[i].au = {}
        au   == pg.cd[i].au \cup {n}
        base == IF au = Bits THEN 0 ELSE pg.cd[i].base
    IN  [cd    |-> [pg.cd EXCEPT ![i] = [base |-> base, au |-> au]],
         count |-> IF full THEN pg.count + 1 ELSE pg.count,
         first |-> IF full THEN IF pg.count = 0 THEN i ELSE pg.first
                           ELSE IF i < pg.first THEN i ELSE pg.first]

\* An address in no cluster is only logged: "not found".
Free(x) ==
    /\ stopped = "no"
    /\ x.len \in Classes
    /\ held' = held \ {x}
    /\ IF Owners(x.len, x.at) = {} THEN UNCHANGED <<cdp, free>> ELSE
       LET o  == FirstOwner(x.len, x.at)
           p  == root[x.len][o[1]]
           b  == cdp[p].cd[o[2]].base
           pg == Freed(cdp[p], o[2], (x.at - b * Units) \div x.len)
       IN  /\ cdp' = [cdp EXCEPT ![p] = pg]
           /\ free' = IF pg.cd[o[2]].base = 0
                      THEN free \cup Run(b, x.len) ELSE free
    /\ UNCHANGED <<root, stopped>>

FreeLarge(x) ==
    /\ stopped = "no"
    /\ x.len \notin Classes
    /\ held' = held \ {x}
    /\ free' = free \cup Run(x.at \div Units, Pages(x.len))
    /\ UNCHANGED <<root, cdp, stopped>>

Next == \/ \E c \in Sizes \cap Classes : Alloc(c)
        \/ \E s \in Sizes \ Classes : AllocLarge(s)
        \/ \E x \in held : Free(x) \/ FreeLarge(x)

Spec == Init /\ [][Next]_vars

-----------------------------------------------------------------------------
(* Properties                                                              *)

InUse == UNION {{c} \X DOMAIN root[c] : c \in Classes}

\* The bookkeeping of descriptor pages (heap.rs:43-54): a page's count is the
\* number of its descriptors with a free unit; while it is positive its index
\* points to one of them (alloc panics otherwise); a descriptor has a cluster
\* exactly while one of its units is taken.
HintsSound ==
    /\ stopped # "bug"
    /\ \A u \in InUse :
        LET pg == cdp[root[u[1]][u[2]]] IN
        /\ pg.count = Cardinality({i \in Index : pg.cd[i].au # {}})
        /\ pg.first \in Index
        /\ pg.count > 0 => pg.cd[pg.first].au # {}
        /\ \A i \in Index : pg.cd[i].base = 0 <=> pg.cd[i].au = Bits

Desc(u, i) == cdp[root[u[1]][u[2]]].cd[i]

\* The objects whose bit is clear, and what uses frame f: a descriptor page,
\* a cluster, or an object of whole frames.
Clear(u, i) == {[at |-> At(u[1], Desc(u, i).base, n), len |-> u[1]] :
                    n \in Bits \ Desc(u, i).au}
Marked == UNION {Clear(o[1], o[2]) : o \in InUse \X Index}

Users(f) ==
    {u \in InUse : root[u[1]][u[2]] = f}
    \cup {o \in InUse \X Index :
            LET b == Desc(o[1], o[2]).base IN b # 0 /\ f \in Run(b, o[1][1])}
    \cup {x \in held : x.len \notin Classes
                       /\ f \in Run(x.at \div Units, Pages(x.len))}

\* Nothing is lost and nothing is used twice: the clear bits are the objects
\* callers hold, so every free finds its descriptor; and a frame taken from
\* PhysMem serves one purpose, until it is given back (heap.rs:594, 612).
MemoryAccounted ==
    /\ Marked = {x \in held : x.len \in Classes}
    /\ \A f \in Frames :
        /\ f \in free <=> Users(f) = {}
        /\ \A u, v \in Users(f) : u = v

\* Callers see an arena: each object is theirs alone until they free it.
Abstract == INSTANCE Arena
ImplementsArena == Abstract!Spec
=============================================================================
