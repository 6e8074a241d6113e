---------------------------- MODULE ProcessProofs ----------------------------
(***************************************************************************)
(* Proofs about processes and their address spaces, for any number of      *)
(* tasks, processes and frames, any sizes of programs, heaps and stacks:   *)
(* the layout of a process holds, its memory is its own, and every frame   *)
(* is accounted for.                                                       *)
(***************************************************************************)
EXTENDS Process, FiniteSetTheorems, SequenceTheorems, TLAPS

-----------------------------------------------------------------------------
(* Address spaces                                                          *)

Kid     == [tid : Task, base : Int, pages : Int]
PageMap == UNION {[D -> Frames] : D \in SUBSET Int}
Space   == [children : Seq(Kid), top : Int, base : Int, heap : Int,
            map : PageMap, tables : PageMap]

\* The frames that a space uses: pages count once there is a main task.
UsesOf(p) == FramesOf(p.tables)
             \cup IF p.children # <<>> THEN FramesOf(p.map) ELSE {}

OneToOne(f) == \A x, y \in DOMAIN f : f[x] = f[y] => x = y
Owns(p) == /\ OneToOne(p.map) /\ OneToOne(p.tables)
           /\ FramesOf(p.map) \cap FramesOf(p.tables) = {}

\* The i-th child's pages, and the range it may grow in.
Covers(c, x) == c.base - c.pages <= x /\ x < c.base
Apart(c, d)  == c.base + MaxPages <= d.base \/ d.base + MaxPages <= c.base
ChildSound(p, j) ==
    LET c == p.children[j] IN
    /\ c.pages >= 0 /\ c.pages <= MaxPages /\ p.top + MaxPages <= c.base
    /\ \A k \in DOMAIN p.children : k # j => Apart(c, p.children[k])
PageUsed(p, x) == \/ 0 <= x /\ x < p.base + p.heap
                  \/ \E j \in DOMAIN p.children : Covers(p.children[j], x)
Layout(p) ==
    /\ p.base >= 1 /\ p.heap >= 0 /\ p.base + p.heap < p.top
    /\ \A x : x \in DOMAIN p.map <=> x \in Int /\ PageUsed(p, x)
    /\ \A j \in DOMAIN p.children : ChildSound(p, j)

\* The children are the process's user tasks, each once.
Lives(t, i) == task[t].pid = i /\ task[t].st \in {User, "dead"}
KidsSound(i) ==
    LET kids == procs[i].children IN
    /\ \A j \in DOMAIN kids : Lives(kids[j].tid, i)
    /\ \A t \in Task : Lives(t, i) => \E j \in DOMAIN kids : kids[j].tid = t
    /\ \A j, k \in DOMAIN kids : kids[j].tid = kids[k].tid => j = k

\* A process that waits for its first task.
Fresh(p) == /\ p.children = <<>> /\ p.map = <<>>
            /\ p.top = Top /\ p.base = 0 /\ p.heap = 0
LauncherSound(t) ==
    /\ task[t].st = "proc_launcher" =>
        /\ task[t].pid \in DOMAIN procs /\ Fresh(procs[task[t].pid])
        /\ \A u \in Task : task[u].st = "proc_launcher" /\ u # t
                                => task[u].pid # task[t].pid
    /\ task[t].st = "task_launcher" /\ task[t].pid \in DOMAIN procs
            => procs[task[t].pid].children # <<>>

SpaceSound(i) ==
    LET p == procs[i] IN
    /\ OneToOne(p.tables)
    /\ p.children # <<>> => Owns(p) /\ Layout(p)
    /\ UsesOf(p) \cap free = {}
    /\ \A j \in DOMAIN procs : j # i => UsesOf(p) \cap UsesOf(procs[j]) = {}

States == {"unborn", "proc_launcher", "task_launcher", User, "dead", "gone"}
Typed ==
    /\ next_pid \in Nat \ {0}
    /\ DOMAIN procs \subseteq 1 .. (next_pid - 1)
    /\ procs \in [DOMAIN procs -> Space]
    /\ free \subseteq Frames
    /\ task \in [Task -> [st : States, pid : 0 .. (next_pid - 1)]]

IInv == /\ Typed
        /\ \A i \in DOMAIN procs : KidsSound(i)
        /\ \A i \in DOMAIN procs : SpaceSound(i)
        /\ \A t \in Task : LauncherSound(t)
        /\ stopped # "mapped"

-----------------------------------------------------------------------------
(* Ranks in finite sets of numbers                                         *)

LEMMA SameSize ==
    ASSUME NEW S, NEW T, NEW m \in Bijection(S, T), IsFiniteSet(T)
    PROVE  IsFiniteSet(S) /\ Cardinality(S) = Cardinality(T)
  BY FS_Injection DEF Bijection

Ranks(S, r) == /\ r \in [S -> Nat]
               /\ \A f \in S : r[f] < Cardinality(S)
               /\ \A f, g \in S : r[f] = r[g] => f = g

LEMMA RankBijection ==
    ASSUME NEW S, IsFiniteSet(S), NEW r, Ranks(S, r)
    PROVE  /\ Cardinality(S) \in Nat
           /\ r \in Bijection(S, 0 .. (Cardinality(S) - 1))
<1>. DEFINE n == Cardinality(S)
            T == 0 .. (n - 1)
<1>1. n \in Nat
  BY FS_CardinalityType
<1>2. IsFiniteSet(T) /\ Cardinality(T) = n
  <2>1. 0 \in Int /\ n - 1 \in Int
    BY <1>1
  <2>. HIDE DEF n
  <2>2. /\ IsFiniteSet(T)
        /\ Cardinality(T) = IF 0 > n - 1 THEN 0 ELSE (n - 1) - 0 + 1
    BY <2>1, FS_Interval, Zenon
  <2>. QED BY <1>1, <2>2
<1>3. r \in [S -> T] /\ \A f, g \in S : r[f] = r[g] => f = g
  BY <1>1 DEF Ranks
<1>. HIDE DEF n, T
<1>4. r \in Injection(S, T)
  BY <1>3 DEF Injection, IsInjective
<1>5. r \in Surjection(S, T)
  BY <1>2, <1>4, FS_Injection DEF n
<1>. QED BY <1>1, <1>4, <1>5 DEF Bijection, n, T

LEMMA RankedSubset ==
    ASSUME NEW S, IsFiniteSet(S), NEW r, Ranks(S, r), NEW n \in Nat,
           NEW T, T = {f \in S : r[f] < n}
    PROVE  /\ IsFiniteSet(T) /\ Cardinality(T) \in Nat /\ Cardinality(T) <= n
           /\ Cardinality(S) >= n => Cardinality(T) = n
<1>. DEFINE c == Cardinality(S)
            k == IF c >= n THEN n ELSE c
            m == [f \in T |-> r[f]]
<1>1. c \in Nat /\ r \in Bijection(S, 0 .. (c - 1))
  BY RankBijection
<1>2. m \in Bijection(T, 0 .. (k - 1))
  <2>1. /\ r \in [S -> 0 .. (c - 1)] /\ \A f, g \in S : r[f] = r[g] => f = g
        /\ \A i \in 0 .. (c - 1) : \E f \in S : r[f] = i
    BY <1>1 DEF Bijection, Injection, Surjection, Ranks
  <2>2. m \in [T -> 0 .. (k - 1)]
    BY <1>1, <2>1
  <2>3. \A f, g \in T : m[f] = m[g] => f = g
    BY <2>1
  <2>4. ASSUME NEW i \in 0 .. (k - 1) PROVE \E f \in T : m[f] = i
    <3>1. i \in 0 .. (c - 1) /\ i < n
      BY <1>1
    <3>2. PICK f \in S : r[f] = i
      BY <2>1, <3>1
    <3>. QED BY <3>1, <3>2
  <2>. HIDE DEF m
  <2>. QED BY <2>2, <2>3, <2>4 DEF Bijection, Injection, Surjection, IsInjective
<1>. HIDE DEF m
<1>0. k \in Nat
  BY <1>1
<1>. HIDE DEF k
<1>3. IsFiniteSet(0 .. (k - 1)) /\ Cardinality(0 .. (k - 1)) = k
  <2>1. 0 \in Int /\ k - 1 \in Int /\ (0 > k - 1 <=> k = 0) /\ (k - 1) - 0 + 1 = k
    BY <1>0
  <2>. QED BY <1>0, <2>1, FS_Interval
<1>4. IsFiniteSet(T) /\ Cardinality(T) = k
  BY <1>2, <1>3, SameSize
<1>. QED BY <1>1, <1>4 DEF k

\* How many elements are less, or greater, ranks the elements.
LEMMA BelowRanks ==
    ASSUME NEW S \in SUBSET Int, IsFiniteSet(S), NEW r,
           r = [f \in S |-> Cardinality({g \in S : g < f})]
    PROVE  Ranks(S, r)
<1>. DEFINE B(f) == {g \in S : g < f}
<1>1. \A f : IsFiniteSet(B(f)) /\ Cardinality(B(f)) \in Nat
  BY FS_Subset, FS_CardinalityType
<1>2. ASSUME NEW f \in S, NEW g \in S, f < g
      PROVE  Cardinality(B(f)) < Cardinality(B(g))
  <2>1. f \notin B(f) /\ B(f) \cup {f} \subseteq B(g)
    <3>1. f \in Int /\ g \in Int /\ \A h \in S : h \in Int
      OBVIOUS
    <3>2. \A h \in S : h < f => h < g
      BY <1>2, <3>1
    <3>3. ~(f < f)
      BY <3>1
    <3>. QED BY <1>2, <3>2, <3>3, Zenon
  <2>. HIDE DEF B
  <2>2. Cardinality(B(f) \cup {f}) = Cardinality(B(f)) + 1
    BY <1>1, <2>1, FS_AddElement
  <2>3. Cardinality(B(f) \cup {f}) <= Cardinality(B(g))
    BY <1>1, <2>1, FS_Subset
  <2>. QED BY <1>1, <2>2, <2>3
<1>3. ASSUME NEW f \in S PROVE Cardinality(B(f)) < Cardinality(S)
  <2>1. B(f) \subseteq S \ {f}
    OBVIOUS
  <2>. HIDE DEF B
  <2>2. IsFiniteSet(S \ {f}) /\ Cardinality(S \ {f}) = Cardinality(S) - 1
    BY FS_RemoveElement
  <2>3. Cardinality(B(f)) <= Cardinality(S \ {f})
    BY <2>1, <2>2, FS_Subset
  <2>. QED BY <1>1, <2>2, <2>3, FS_CardinalityType
<1>4. r = [f \in S |-> Cardinality(B(f))]
  OBVIOUS
<1>. HIDE DEF B
<1>5. ASSUME NEW f \in S, NEW g \in S, f # g PROVE r[f] # r[g]
  <2>1. f < g \/ g < f
    BY <1>5
  <2>. QED BY <1>1, <1>2, <1>4, <2>1
<1>. QED BY <1>1, <1>3, <1>4, <1>5 DEF Ranks

LEMMA AboveRanks ==
    ASSUME NEW S \in SUBSET Int, IsFiniteSet(S), NEW r,
           r = [f \in S |-> Cardinality({g \in S : g > f})]
    PROVE  Ranks(S, r)
<1>. DEFINE A(f) == {g \in S : g > f}
<1>1. \A f : IsFiniteSet(A(f)) /\ Cardinality(A(f)) \in Nat
  BY FS_Subset, FS_CardinalityType
<1>2. ASSUME NEW f \in S, NEW g \in S, f > g
      PROVE  Cardinality(A(f)) < Cardinality(A(g))
  <2>1. f \notin A(f) /\ A(f) \cup {f} \subseteq A(g)
    <3>1. f \in Int /\ g \in Int /\ \A h \in S : h \in Int
      OBVIOUS
    <3>2. \A h \in S : h > f => h > g
      BY <1>2, <3>1
    <3>3. ~(f > f)
      BY <3>1
    <3>. QED BY <1>2, <3>2, <3>3, Zenon
  <2>. HIDE DEF A
  <2>2. Cardinality(A(f) \cup {f}) = Cardinality(A(f)) + 1
    BY <1>1, <2>1, FS_AddElement
  <2>3. Cardinality(A(f) \cup {f}) <= Cardinality(A(g))
    BY <1>1, <2>1, FS_Subset
  <2>. QED BY <1>1, <2>2, <2>3
<1>3. ASSUME NEW f \in S PROVE Cardinality(A(f)) < Cardinality(S)
  <2>1. A(f) \subseteq S \ {f}
    OBVIOUS
  <2>. HIDE DEF A
  <2>2. IsFiniteSet(S \ {f}) /\ Cardinality(S \ {f}) = Cardinality(S) - 1
    BY FS_RemoveElement
  <2>3. Cardinality(A(f)) <= Cardinality(S \ {f})
    BY <2>1, <2>2, FS_Subset
  <2>. QED BY <1>1, <2>2, <2>3, FS_CardinalityType
<1>4. r = [f \in S |-> Cardinality(A(f))]
  OBVIOUS
<1>. HIDE DEF A
<1>5. ASSUME NEW f \in S, NEW g \in S, f # g PROVE r[f] # r[g]
  <2>1. f > g \/ g > f
    BY <1>5
  <2>. QED BY <1>1, <1>2, <1>4, <2>1
<1>. QED BY <1>1, <1>3, <1>4, <1>5 DEF Ranks

\* What the allocator grants.
Granted(S, n, T) ==
    /\ T \subseteq S /\ IsFiniteSet(T)
    /\ Cardinality(T) \in Nat /\ Cardinality(T) <= n
    /\ Cardinality(S) >= n => Cardinality(T) = n

LEMMA LowestGranted ==
    ASSUME NEW S \in SUBSET Int, IsFiniteSet(S), NEW n \in Nat
    PROVE  Granted(S, n, Lowest(S, n))
<1>. DEFINE r == [f \in S |-> Cardinality({g \in S : g < f})]
<1>1. Ranks(S, r)
  BY BelowRanks
<1>2. Lowest(S, n) = {f \in S : r[f] < n}
  BY DEF Lowest
<1>. HIDE DEF r
<1>. QED BY <1>1, <1>2, RankedSubset DEF Granted

LEMMA HighestGranted ==
    ASSUME NEW S \in SUBSET Int, IsFiniteSet(S), NEW n \in Nat
    PROVE  Granted(S, n, Highest(S, n))
<1>. DEFINE r == [f \in S |-> Cardinality({g \in S : g > f})]
<1>1. Ranks(S, r)
  BY AboveRanks
<1>2. Highest(S, n) = {f \in S : r[f] < n}
  BY DEF Highest
<1>. HIDE DEF r
<1>. QED BY <1>1, <1>2, RankedSubset DEF Granted

LEMMA KthOrders ==
    ASSUME NEW S \in SUBSET Int, IsFiniteSet(S)
    PROVE  /\ Cardinality(S) \in Nat
           /\ \A k \in 0 .. (Cardinality(S) - 1) : Kth(S, k) \in S
           /\ \A j, k \in 0 .. (Cardinality(S) - 1) : Kth(S, j) = Kth(S, k) => j = k
           /\ \A f \in S : \E k \in 0 .. (Cardinality(S) - 1) : Kth(S, k) = f
<1>. DEFINE r == [f \in S |-> Cardinality({g \in S : g < f})]
            K == 0 .. (Cardinality(S) - 1)
<1>1. Cardinality(S) \in Nat /\ r \in Bijection(S, K)
  BY BelowRanks, RankBijection
<1>2. \A k : Kth(S, k) = CHOOSE f \in S : r[f] = k
  BY DEF Kth
<1>. HIDE DEF r, K
<1>3. /\ r \in [S -> K] /\ \A k \in K : \E f \in S : r[f] = k
      /\ \A f, g \in S : r[f] = r[g] => f = g
  BY <1>1 DEF Bijection, Injection, Surjection, IsInjective
<1>4. \A k \in K : Kth(S, k) \in S /\ r[Kth(S, k)] = k
  BY <1>2, <1>3
<1>5. \A f \in S : r[f] \in K /\ Kth(S, r[f]) = f
  BY <1>3, <1>4
<1>. QED BY <1>1, <1>4, <1>5 DEF K

-----------------------------------------------------------------------------
(* Page tables                                                             *)

LEMMA ProcessFacts ==
    /\ Frames \subseteq Nat /\ Frames \subseteq Int /\ IsFiniteSet(Frames)
    /\ Top \in Nat /\ Region \in Nat \ {0} /\ Images \subseteq Nat /\ Deltas \subseteq Int
    /\ InitPages \in Nat \ {0} /\ ExpandPages \in Nat \ {0} /\ MaxPages \in Nat \ {0}
    /\ InitPages <= MaxPages
  BY ProcessAssumption

LEMMA PageMapType ==
    ASSUME NEW f PROVE f \in PageMap <=> f \in [DOMAIN f -> Frames] /\ DOMAIN f \subseteq Int
<1>1. ASSUME f \in PageMap PROVE f \in [DOMAIN f -> Frames] /\ DOMAIN f \subseteq Int
  <2>1. PICK D \in SUBSET Int : f \in [D -> Frames]
    BY <1>1 DEF PageMap
  <2>. QED BY <2>1
<1>2. ASSUME f \in [DOMAIN f -> Frames], DOMAIN f \subseteq Int PROVE f \in PageMap
  BY <1>2 DEF PageMap
<1>. QED BY <1>1, <1>2

Joined(f, g, h) ==
    /\ h \in PageMap /\ DOMAIN h = DOMAIN f \cup DOMAIN g
    /\ FramesOf(h) = FramesOf(f) \cup FramesOf(g) /\ OneToOne(h)

LEMMA Joins ==
    ASSUME NEW f \in PageMap, NEW g \in PageMap, DOMAIN f \cap DOMAIN g = {},
           OneToOne(f), OneToOne(g), FramesOf(f) \cap FramesOf(g) = {}
    PROVE  Joined(f, g, Set(f, g))
<1>. DEFINE h == Set(f, g)
<1>1. /\ f \in [DOMAIN f -> Frames] /\ DOMAIN f \subseteq Int
      /\ g \in [DOMAIN g -> Frames] /\ DOMAIN g \subseteq Int
  BY PageMapType
<1>2. /\ DOMAIN h = DOMAIN f \cup DOMAIN g
      /\ \A x \in DOMAIN f : h[x] = f[x]
      /\ \A x \in DOMAIN g : h[x] = g[x]
      /\ h = [x \in DOMAIN f \cup DOMAIN g |-> h[x]]
  BY DEF Set
<1>. HIDE DEF h
<1>3. h \in PageMap
  <2>1. h \in [DOMAIN h -> Frames] /\ DOMAIN h \subseteq Int
    BY <1>1, <1>2
  <2>. QED BY <2>1, PageMapType
<1>4. FramesOf(h) = FramesOf(f) \cup FramesOf(g)
  BY <1>2 DEF FramesOf
<1>5. ASSUME NEW x \in DOMAIN f, NEW y \in DOMAIN g PROVE f[x] # g[y]
  BY DEF FramesOf
<1>6. OneToOne(h)
  BY <1>2, <1>5 DEF OneToOne
<1>. QED BY <1>2, <1>3, <1>4, <1>6 DEF Joined, h

\* Frames dealt out to pages in order, and to the tables that are missing.
LEMMA DealtPages ==
    ASSUME NEW S \in SUBSET Frames, NEW from \in Int, NEW g,
           g = [x \in from .. (from + Cardinality(S) - 1) |-> Kth(S, x - from)]
    PROVE  g \in PageMap /\ OneToOne(g) /\ FramesOf(g) = S
<1>1. S \in SUBSET Int /\ IsFiniteSet(S)
  BY ProcessFacts, FS_Subset
<1>. DEFINE n == Cardinality(S)
<1>2. /\ n \in Nat /\ \A k \in 0 .. (n - 1) : Kth(S, k) \in S
      /\ \A j, k \in 0 .. (n - 1) : Kth(S, j) = Kth(S, k) => j = k
      /\ \A f \in S : \E k \in 0 .. (n - 1) : Kth(S, k) = f
  BY <1>1, KthOrders
<1>3. DOMAIN g = from .. (from + n - 1) /\ \A x \in DOMAIN g : g[x] = Kth(S, x - from)
  OBVIOUS
<1>. HIDE DEF n
<1>a. n \in Nat
  BY <1>2
<1>4. \A x \in DOMAIN g : x \in Int /\ x - from \in 0 .. (n - 1)
  <2>1. \A x \in from .. (from + n - 1) : x \in Int /\ x - from \in 0 .. (n - 1)
    BY <1>a
  <2>. QED BY <1>3, <2>1, Zenon
<1>5. \A k \in 0 .. (n - 1) : from + k \in DOMAIN g /\ (from + k) - from = k
  <2>1. \A k \in 0 .. (n - 1) : /\ from + k \in from .. (from + n - 1)
                                /\ (from + k) - from = k
    BY <1>a
  <2>. QED BY <1>3, <2>1, Zenon
<1>6. g \in PageMap
  <2>1. DOMAIN g \subseteq Int /\ \A x \in DOMAIN g : g[x] \in Frames
    BY <1>2, <1>3, <1>4
  <2>2. g \in [DOMAIN g -> Frames]
    BY <2>1
  <2>. QED BY <2>1, <2>2, PageMapType
<1>7. OneToOne(g)
  <2>. SUFFICES ASSUME NEW x \in DOMAIN g, NEW y \in DOMAIN g, g[x] = g[y] PROVE x = y
    BY DEF OneToOne
  <2>1. x - from = y - from
    BY <1>2, <1>3, <1>4
  <2>. QED BY <1>4, <2>1
<1>8. FramesOf(g) = S
  <2>1. ASSUME NEW f \in S PROVE \E x \in DOMAIN g : g[x] = f
    <3>1. PICK k \in 0 .. (n - 1) : Kth(S, k) = f
      BY <1>2
    <3>2. from + k \in DOMAIN g /\ g[from + k] = f
      BY <1>3, <1>5, <3>1
    <3>. QED BY <3>2
  <2>2. \A x \in DOMAIN g : g[x] \in S
    BY <1>2, <1>3, <1>4
  <2>. QED BY <2>1, <2>2 DEF FramesOf
<1>. QED BY <1>6, <1>7, <1>8

LEMMA DealtTables ==
    ASSUME NEW S \in SUBSET Frames, NEW D \in SUBSET Int, IsFiniteSet(D),
           Cardinality(S) = Cardinality(D), NEW g,
           g = [r \in D |-> Kth(S, Cardinality({y \in D : y < r}))]
    PROVE  g \in PageMap /\ OneToOne(g) /\ FramesOf(g) = S
<1>1. S \in SUBSET Int /\ IsFiniteSet(S)
  BY ProcessFacts, FS_Subset
<1>. DEFINE n == Cardinality(S)
            rank == [r \in D |-> Cardinality({y \in D : y < r})]
<1>2. /\ n \in Nat /\ \A k \in 0 .. (n - 1) : Kth(S, k) \in S
      /\ \A j, k \in 0 .. (n - 1) : Kth(S, j) = Kth(S, k) => j = k
      /\ \A f \in S : \E k \in 0 .. (n - 1) : Kth(S, k) = f
  BY <1>1, KthOrders
<1>3. rank \in Bijection(D, 0 .. (n - 1))
  BY BelowRanks, RankBijection
<1>4. DOMAIN g = D /\ \A r \in D : g[r] = Kth(S, rank[r])
  OBVIOUS
<1>. HIDE DEF n, rank
<1>5. /\ \A r \in D : rank[r] \in 0 .. (n - 1)
      /\ \A r, q \in D : rank[r] = rank[q] => r = q
      /\ \A k \in 0 .. (n - 1) : \E r \in D : rank[r] = k
  BY <1>3 DEF Bijection, Injection, Surjection, IsInjective
<1>6. g \in PageMap
  <2>1. DOMAIN g \subseteq Int /\ \A x \in DOMAIN g : g[x] \in Frames
    BY <1>2, <1>4, <1>5
  <2>2. g \in [DOMAIN g -> Frames]
    BY <2>1
  <2>. QED BY <2>1, <2>2, PageMapType
<1>7. OneToOne(g)
  BY <1>2, <1>4, <1>5 DEF OneToOne
<1>8. FramesOf(g) = S
  <2>1. ASSUME NEW f \in S PROVE \E x \in DOMAIN g : g[x] = f
    <3>1. PICK k \in 0 .. (n - 1) : Kth(S, k) = f
      BY <1>2
    <3>2. PICK x \in D : rank[x] = k
      BY <1>5
    <3>. QED BY <1>4, <3>1, <3>2
  <2>2. \A x \in DOMAIN g : g[x] \in S
    BY <1>2, <1>4, <1>5
  <2>. QED BY <2>1, <2>2 DEF FramesOf
<1>. QED BY <1>6, <1>7, <1>8

\* What map_pages does to a space.
Total(p) == FramesOf(p.map) \cup FramesOf(p.tables)
MapDone(p, from, frames, avail, m) ==
    LET pages == from .. (from + Cardinality(frames) - 1) IN
    /\ m.stop \in {"no", "oom", "mapped"}
    /\ m.stop = "mapped" => pages \cap DOMAIN p.map # {}
    /\ m.stop = "no" =>
        /\ m.as \in Space /\ Owns(m.as)
        /\ m.as.children = p.children
        /\ m.as.top = p.top /\ m.as.base = p.base /\ m.as.heap = p.heap
        /\ DOMAIN m.as.map = DOMAIN p.map \cup pages
        /\ FramesOf(m.as.map) = FramesOf(p.map) \cup frames
        /\ m.left \subseteq avail
        /\ Total(m.as) \cup m.left = Total(p) \cup frames \cup avail
        /\ Total(m.as) \cap m.left = {}

LEMMA MapMaps ==
    ASSUME NEW p \in Space, Owns(p), NEW from \in Int,
           NEW frames \in SUBSET Frames, NEW avail \in SUBSET Frames,
           frames \cap avail = {}, (frames \cup avail) \cap Total(p) = {}
    PROVE  MapDone(p, from, frames, avail, Map(p, from, frames, avail))
<1>. SUFFICES ASSUME NEW m, m = Map(p, from, frames, avail)
              PROVE  MapDone(p, from, frames, avail, m)
  OBVIOUS
<1>. DEFINE pages == from .. (from + Cardinality(frames) - 1)
            need  == {x \div Region : x \in pages} \ DOMAIN p.tables
            tabs  == Lowest(avail, Cardinality(need))
            mapped == [x \in pages |-> Kth(frames, x - from)]
            tables == [r \in need |-> Kth(tabs, Cardinality({y \in need : y < r}))]
            space  == [p EXCEPT !.map = Set(@, mapped), !.tables = Set(@, tables)]
<1>1. /\ IsFiniteSet(frames) /\ IsFiniteSet(avail) /\ avail \in SUBSET Int
      /\ Cardinality(frames) \in Nat
  BY ProcessFacts, FS_Subset, FS_CardinalityType
<1>2. pages \subseteq Int /\ IsFiniteSet(pages)
  BY <1>1, FS_Interval
<1>3. need \in SUBSET Int /\ IsFiniteSet(need) /\ Cardinality(need) \in Nat
  <2>. DEFINE d == [x \in pages |-> x \div Region]
              T == {x \div Region : x \in pages}
  <2>1. T \subseteq Int
    BY <1>2, ProcessFacts
  <2>2. d \in Surjection(pages, T)
    BY DEF Surjection
  <2>3. IsFiniteSet(T)
    <3>. HIDE DEF d, T, pages
    <3>. QED BY <1>2, <2>2, FS_Surjection
  <2>4. need \subseteq T
    OBVIOUS
  <2>. HIDE DEF T, need
  <2>. QED BY <2>1, <2>3, <2>4, FS_Subset, FS_CardinalityType
<1>4. /\ m = IF Cardinality(tabs) < Cardinality(need)
             THEN [as |-> p, left |-> avail, stop |-> "oom"]
             ELSE IF pages \cap DOMAIN p.map # {}
             THEN [as |-> p, left |-> avail, stop |-> "mapped"]
             ELSE [as |-> space, left |-> avail \ tabs, stop |-> "no"]
  BY Zenon DEF Map
<1>. HIDE DEF need, tabs, mapped, tables, space, pages
<1>5. /\ tabs \subseteq avail /\ Cardinality(tabs) \in Nat
      /\ Cardinality(tabs) <= Cardinality(need)
  <2>1. Granted(avail, Cardinality(need), tabs)
    BY <1>1, <1>3, LowestGranted DEF tabs
  <2>. QED BY <2>1 DEF Granted
<1>6. m.stop \in {"no", "oom", "mapped"}
      /\ (m.stop = "mapped" => pages \cap DOMAIN p.map # {})
  BY <1>4
<1>7. ASSUME m.stop = "no"
      PROVE  /\ m.as \in Space /\ Owns(m.as)
             /\ m.as.children = p.children
             /\ m.as.top = p.top /\ m.as.base = p.base /\ m.as.heap = p.heap
             /\ DOMAIN m.as.map = DOMAIN p.map \cup pages
             /\ FramesOf(m.as.map) = FramesOf(p.map) \cup frames
             /\ m.left \subseteq avail
             /\ Total(m.as) \cup m.left = Total(p) \cup frames \cup avail
             /\ Total(m.as) \cap m.left = {}
  <2>1. /\ m.as = space /\ m.left = avail \ tabs /\ pages \cap DOMAIN p.map = {}
        /\ Cardinality(tabs) = Cardinality(need)
    BY <1>3, <1>4, <1>5, <1>7
  <2>2. mapped \in PageMap /\ OneToOne(mapped) /\ FramesOf(mapped) = frames
        /\ DOMAIN mapped = pages
    BY DealtPages DEF mapped, pages
  <2>3. tables \in PageMap /\ OneToOne(tables) /\ FramesOf(tables) = tabs
        /\ DOMAIN tables = need
    BY <1>3, <1>5, <2>1, DealtTables DEF tables
  <2>4. p.map \in PageMap /\ p.tables \in PageMap
    BY DEF Space
  <2>5. /\ space \in [children : Seq(Kid), top : Int, base : Int, heap : Int,
                      map : {Set(p.map, mapped)}, tables : {Set(p.tables, tables)}]
        /\ space.children = p.children /\ space.top = p.top /\ space.base = p.base
        /\ space.heap = p.heap
        /\ space.map = Set(p.map, mapped) /\ space.tables = Set(p.tables, tables)
    BY DEF Space, space
  <2>6. Joined(p.map, mapped, space.map)
    BY <2>1, <2>2, <2>4, <2>5, Joins DEF Owns, Total
  <2>7. Joined(p.tables, tables, space.tables)
    BY <1>5, <2>3, <2>4, <2>5, Joins DEF Owns, Total, need
  <2>8. space \in Space
    BY <2>5, <2>6, <2>7 DEF Space, Joined
  <2>9. Owns(space)
    BY <1>5, <2>2, <2>3, <2>6, <2>7 DEF Joined, Owns, Total
  <2>10. /\ Total(space) \cup m.left = Total(p) \cup frames \cup avail
         /\ Total(space) \cap m.left = {}
    BY <1>5, <2>1, <2>2, <2>3, <2>6, <2>7 DEF Joined, Total
  <2>. QED BY <1>5, <2>1, <2>2, <2>5, <2>6, <2>8, <2>9, <2>10 DEF Joined
<1>. QED BY <1>6, <1>7 DEF MapDone, pages

Answer(m) == m = [as |-> m.as, left |-> m.left, stop |-> m.stop]
LEMMA MapRecord ==
    ASSUME NEW p, NEW from, NEW frames, NEW avail
    PROVE  Answer(Map(p, from, frames, avail))
  BY DEF Map, Answer

\* Every caller maps the highest frames that are free.
MapHighest(p, from, n, avail) ==
    LET frames == Highest(avail, n) IN
    /\ Granted(avail, n, frames)
    /\ MapDone(p, from, frames, avail \ frames, Map(p, from, frames, avail \ frames))

LEMMA MapsHighest ==
    ASSUME NEW p \in Space, Owns(p), NEW from \in Int, NEW n \in Nat,
           NEW avail \in SUBSET Frames, avail \cap Total(p) = {}
    PROVE  MapHighest(p, from, n, avail)
<1>. DEFINE frames == Highest(avail, n)
<1>1. IsFiniteSet(avail) /\ avail \in SUBSET Int
  BY ProcessFacts, FS_Subset
<1>2. Granted(avail, n, frames)
  BY <1>1, HighestGranted
<1>. HIDE DEF frames
<1>3. frames \subseteq avail
  BY <1>2 DEF Granted
<1>4. /\ frames \in SUBSET Frames /\ avail \ frames \in SUBSET Frames
      /\ frames \cap (avail \ frames) = {}
      /\ (frames \cup (avail \ frames)) \cap Total(p) = {}
  BY <1>3
<1>5. MapDone(p, from, frames, avail \ frames, Map(p, from, frames, avail \ frames))
  BY <1>4, MapMaps
<1>. QED BY <1>2, <1>5 DEF MapHighest, frames

-----------------------------------------------------------------------------
(* Steps: what holds again, and where every frame went                     *)

PutDone(i, q) ==
    /\ DOMAIN procs' = DOMAIN procs \cup {i} /\ procs'[i] = q
    /\ \A j \in DOMAIN procs \ {i} : procs'[j] = procs[j]
    /\ procs' = [j \in DOMAIN procs \cup {i} |-> procs'[j]]

LEMMA PutFacts == ASSUME NEW i, NEW q, Put(i, q) PROVE PutDone(i, q)
  BY DEF Put, Set, PutDone

LEMMA UsesFacts ==
    /\ \A i \in DOMAIN procs : Uses(i) = UsesOf(procs[i])
    /\ \A f : f \in Lost <=> /\ f \in Frames /\ f \notin free
                             /\ \A i \in DOMAIN procs : f \notin UsesOf(procs[i])
<1>1. \A i \in DOMAIN procs : Uses(i) = UsesOf(procs[i])
  BY DEF Uses, UsesOf, Launched
<1>. QED BY <1>1 DEF Lost, Used

\* What a step takes from the frames that are free or used: of a process that
\* ends the frame of its image's first page, which the drop skips
\* (mmu.rs:715), and the image of one that is read but gets no stack.
FramesAccounted ==
    LET ended  == DOMAIN procs \ DOMAIN procs'
        failed == {i \in DOMAIN procs \cap DOMAIN procs' :
                        /\ procs'[i].children = <<>>
                        /\ procs'[i].map # procs[i].map}
    IN  Lost' = Lost \cup {procs[i].map[0] : i \in ended}
                     \cup UNION {FramesOf(procs'[i].map) \ free' : i \in failed}

LEMMA LostNext ==
    \A f : f \in Lost' <=> /\ f \in Frames /\ f \notin free'
                           /\ \A i \in DOMAIN procs' : f \notin UsesOf(procs'[i])
<1>1. \A i \in DOMAIN procs' : Uses(i)' = UsesOf(procs'[i])
  BY DEF Uses, UsesOf, Launched
<1>2. (\A f : f \in Lost <=> /\ f \in Frames /\ f \notin free
                             /\ \A i \in DOMAIN procs : f \notin UsesOf(procs[i]))'
  BY <1>1 DEF Lost, Used
<1>. QED BY <1>2

LEMMA NothingMoves == ASSUME UNCHANGED <<procs, free>> PROVE FramesAccounted
<1>1. Lost' = Lost
  BY DEF Lost, Used, Uses, Launched
<1>2. {i \in DOMAIN procs \cap DOMAIN procs' : /\ procs'[i].children = <<>>
                                              /\ procs'[i].map # procs[i].map} = {}
  OBVIOUS
<1>3. DOMAIN procs \ DOMAIN procs' = {}
  OBVIOUS
<1>. QED BY <1>1, <1>2, <1>3, Zenon DEF FramesAccounted

LEMMA PanicStep ==
    ASSUME IInv, NEW why, why # "mapped", Panic(why) PROVE IInv' /\ FramesAccounted
<1>1. UNCHANGED <<procs, next_pid, free, task>> /\ stopped' # "mapped"
  BY DEF Panic
<1>2. Typed' /\ \A i \in DOMAIN procs : KidsSound(i)'
  BY <1>1 DEF IInv, Typed, KidsSound, Lives
<1>3. \A i \in DOMAIN procs : SpaceSound(i)'
  BY <1>1 DEF IInv, SpaceSound
<1>4. \A t \in Task : LauncherSound(t)'
  BY <1>1 DEF IInv, LauncherSound
<1>. QED BY <1>1, <1>2, <1>3, <1>4, NothingMoves DEF IInv

LEMMA StutterStep == ASSUME IInv, UNCHANGED vars PROVE IInv'
<1>1. UNCHANGED <<procs, next_pid, free, task>> /\ stopped' # "mapped"
  BY DEF vars, IInv
<1>2. Typed' /\ \A i \in DOMAIN procs : KidsSound(i)'
  BY <1>1 DEF IInv, Typed, KidsSound, Lives
<1>3. \A i \in DOMAIN procs : SpaceSound(i)'
  BY <1>1 DEF IInv, SpaceSound
<1>4. \A t \in Task : LauncherSound(t)'
  BY <1>1 DEF IInv, LauncherSound
<1>. QED BY <1>1, <1>2, <1>3, <1>4 DEF IInv

LEMMA BecomesFacts ==
    ASSUME Typed, NEW t \in Task, NEW st, NEW pid, Becomes(t, st, pid)
    PROVE  /\ task'[t].st = st /\ task'[t].pid = pid
           /\ \A u \in Task : u # t => task'[u] = task[u]
           /\ task' = [task EXCEPT ![t] = [st |-> st, pid |-> pid]]
  BY DEF Becomes, Typed

\* Only a task changes.
LEMMA TaskStep ==
    ASSUME IInv, UNCHANGED <<procs, next_pid, free, stopped>>, NEW t \in Task,
           NEW st \in States, NEW pid \in 0 .. (next_pid - 1), Becomes(t, st, pid),
           \A i \in DOMAIN procs : Lives(t, i)' <=> Lives(t, i),
           st # "proc_launcher",
           st = "task_launcher" /\ pid \in DOMAIN procs => procs[pid].children # <<>>
    PROVE  IInv' /\ FramesAccounted
<1>0. Typed
  BY DEF IInv
<1>1. /\ task'[t].st = st /\ task'[t].pid = pid
      /\ \A u \in Task : u # t => task'[u] = task[u]
      /\ task' = [task EXCEPT ![t] = [st |-> st, pid |-> pid]]
  BY <1>0, BecomesFacts
<1>2. Typed'
  BY <1>0, <1>1 DEF Typed
<1>3. \A u \in Task, i \in DOMAIN procs : Lives(u, i)' <=> Lives(u, i)
  BY <1>1 DEF Lives
<1>4. ASSUME NEW i \in DOMAIN procs PROVE KidsSound(i)'
  <2>1. KidsSound(i) /\ \A j \in DOMAIN procs[i].children : procs[i].children[j].tid \in Task
    <3>1. procs[i] \in Space
      BY <1>0 DEF Typed
    <3>2. procs[i].children \in Seq(Kid)
      BY <3>1 DEF Space
    <3>3. \A j \in DOMAIN procs[i].children : procs[i].children[j] \in Kid
      BY <3>2
    <3>. QED BY <3>3 DEF IInv, Kid
  <2>. QED BY <1>3, <2>1 DEF KidsSound
<1>5. \A i \in DOMAIN procs : SpaceSound(i)'
  BY DEF IInv, SpaceSound
<1>6. \A u \in Task : LauncherSound(u)'
  BY <1>1 DEF IInv, LauncherSound
<1>. QED BY <1>2, <1>4, <1>5, <1>6, NothingMoves DEF IInv

\* Process i becomes q; left is free then, and the frames of X are lost.
Exchange(i, q, left, X) ==
    /\ UsesOf(q) \cup left \cup X =
            (IF i \in DOMAIN procs THEN UsesOf(procs[i]) ELSE {}) \cup free
    /\ UsesOf(q) \cap left = {} /\ X \cap (UsesOf(q) \cup left) = {}
    /\ left \subseteq Frames /\ X \subseteq Frames
    /\ OneToOne(q.tables) /\ (q.children # <<>> => Owns(q) /\ Layout(q))

Exchanged(X) == /\ \A j \in DOMAIN procs' : SpaceSound(j)'
                /\ Lost' = Lost \cup X

LEMMA ExchangeStep ==
    ASSUME IInv, NEW i, NEW q, Put(i, q), NEW left, free' = left, NEW X,
           Exchange(i, q, left, X)
    PROVE  Exchanged(X)
<1>. DEFINE u == IF i \in DOMAIN procs THEN UsesOf(procs[i]) ELSE {}
<1>1. /\ DOMAIN procs' = DOMAIN procs \cup {i} /\ procs'[i] = q
      /\ \A j \in DOMAIN procs \ {i} : procs'[j] = procs[j]
  BY PutFacts DEF PutDone
<1>2. /\ UsesOf(q) \cup left \cup X = u \cup free
      /\ UsesOf(q) \cap left = {} /\ X \cap (UsesOf(q) \cup left) = {}
      /\ left \subseteq Frames /\ X \subseteq Frames
      /\ OneToOne(q.tables) /\ (q.children # <<>> => Owns(q) /\ Layout(q))
  BY DEF Exchange
<1>3. \A j \in DOMAIN procs : SpaceSound(j)
  BY DEF IInv
<1>4. \A j \in DOMAIN procs \ {i} : /\ UsesOf(procs[j]) \cap u = {}
                                    /\ UsesOf(procs[j]) \cap free = {}
  BY <1>3 DEF SpaceSound
<1>. HIDE DEF u
<1>5. \A j \in DOMAIN procs \ {i} : UsesOf(procs[j]) \cap (UsesOf(q) \cup left \cup X) = {}
  BY <1>2, <1>4
<1>6. ASSUME NEW j \in DOMAIN procs' PROVE SpaceSound(j)'
  <2>1. CASE j = i
    <3>1. \A k \in DOMAIN procs' : k # i => UsesOf(q) \cap UsesOf(procs'[k]) = {}
      BY <1>1, <1>5
    <3>. QED BY <1>1, <1>2, <2>1, <3>1 DEF SpaceSound
  <2>2. CASE j # i
    <3>1. j \in DOMAIN procs \ {i} /\ procs'[j] = procs[j] /\ SpaceSound(j)
      BY <1>1, <1>3, <2>2
    <3>2. UsesOf(procs[j]) \cap left = {} /\ UsesOf(procs[j]) \cap UsesOf(q) = {}
      BY <1>5, <3>1
    <3>3. \A k \in DOMAIN procs' : k # j => UsesOf(procs[j]) \cap UsesOf(procs'[k]) = {}
      BY <1>1, <3>1, <3>2 DEF SpaceSound
    <3>. QED BY <3>1, <3>2, <3>3 DEF SpaceSound
  <2>. QED BY <2>1, <2>2
<1>7. \A f : f \in Lost' <=> /\ f \in Frames /\ f \notin left
                            /\ \A k \in DOMAIN procs' : f \notin UsesOf(procs'[k])
  <2>1. (\A f : f \in Lost <=> /\ f \in Frames /\ f \notin free
                 /\ \A k \in DOMAIN procs : f \notin UsesOf(procs[k]))'
    <3>1. \A k \in DOMAIN procs' : Uses(k)' = UsesOf(procs'[k])
      BY DEF Uses, UsesOf, Launched
    <3>. QED BY <3>1 DEF Lost, Used
  <2>. QED BY <2>1
<1>8. \A f : f \in Lost' <=> /\ f \in Frames /\ f \notin left /\ f \notin UsesOf(q)
                            /\ \A k \in DOMAIN procs \ {i} : f \notin UsesOf(procs[k])
  BY <1>1, <1>7
<1>9. \A f : f \in Lost <=> /\ f \in Frames /\ f \notin free /\ f \notin u
                           /\ \A k \in DOMAIN procs \ {i} : f \notin UsesOf(procs[k])
  BY UsesFacts DEF u
<1>10. Lost' = Lost \cup X
  <2>1. ASSUME NEW f, f \in Lost' PROVE f \in Lost \cup X
    BY <1>2, <1>8, <1>9, <2>1
  <2>2. ASSUME NEW f, f \in Lost PROVE f \in Lost'
    BY <1>2, <1>8, <1>9, <2>2
  <2>3. ASSUME NEW f, f \in X PROVE f \in Lost'
    BY <1>2, <1>5, <1>8, <2>3
  <2>. QED BY <2>1, <2>2, <2>3
<1>. QED BY <1>6, <1>10 DEF Exchanged

\* ... and nothing is lost, of a process that runs.
LEMMA RunningAccounted ==
    ASSUME NEW i, NEW q, Put(i, q), Lost' = Lost, i \in DOMAIN procs => q.children # <<>>
    PROVE  FramesAccounted
<1>1. /\ DOMAIN procs' = DOMAIN procs \cup {i} /\ procs'[i] = q
      /\ \A j \in DOMAIN procs \ {i} : procs'[j] = procs[j]
  BY PutFacts DEF PutDone
<1>2. {j \in DOMAIN procs \cap DOMAIN procs' : /\ procs'[j].children = <<>>
                                              /\ procs'[j].map # procs[j].map} = {}
  BY <1>1
<1>3. DOMAIN procs \ DOMAIN procs' = {}
  BY <1>1
<1>. QED BY <1>2, <1>3 DEF FramesAccounted

\* The memory of a running process changes.
SameKids(v, w) == DOMAIN v = DOMAIN w /\ \A j \in DOMAIN v : v[j].tid = w[j].tid
LEMMA MemoryStep ==
    ASSUME IInv, NEW i \in DOMAIN procs, NEW q \in Space, Put(i, q),
           NEW left, free' = left, UNCHANGED <<next_pid, task, stopped>>,
           Exchange(i, q, left, {}), q.children # <<>>, procs[i].children # <<>>,
           SameKids(procs[i].children, q.children)
    PROVE  IInv' /\ FramesAccounted
<1>0. Typed
  BY DEF IInv
<1>1. /\ DOMAIN procs' = DOMAIN procs /\ procs'[i] = q
      /\ \A j \in DOMAIN procs \ {i} : procs'[j] = procs[j]
      /\ procs' = [j \in DOMAIN procs |-> procs'[j]]
  <2>1. PutDone(i, q) /\ DOMAIN procs \cup {i} = DOMAIN procs
    BY PutFacts
  <2>. QED BY <2>1 DEF PutDone
<1>2. (\A j \in DOMAIN procs' : SpaceSound(j)') /\ Lost' = Lost
  <2>1. Exchanged({})
    BY ExchangeStep
  <2>. QED BY <2>1 DEF Exchanged
<1>3. Typed'
  <2>1. procs' \in [DOMAIN procs' -> Space]
    BY <1>0, <1>1 DEF Typed
  <2>2. free' \subseteq Frames
    BY DEF Exchange
  <2>. QED BY <1>0, <1>1, <2>1, <2>2 DEF Typed
<1>4. ASSUME NEW j \in DOMAIN procs' PROVE KidsSound(j)'
  <2>1. KidsSound(j) /\ j \in DOMAIN procs
    BY <1>1 DEF IInv
  <2>2. CASE j = i
    BY <1>1, <2>1, <2>2 DEF KidsSound, SameKids, Lives
  <2>3. CASE j # i
    BY <1>1, <2>1, <2>3 DEF KidsSound, Lives
  <2>. QED BY <2>2, <2>3
<1>5. \A t \in Task : LauncherSound(t)'
  BY <1>1 DEF IInv, LauncherSound, Fresh
<1>. QED BY <1>2, <1>3, <1>4, <1>5, RunningAccounted DEF IInv

\* A launcher becomes a task of process i.
LEMMA EnterStep ==
    ASSUME IInv, NEW i \in DOMAIN procs, NEW q \in Space, Put(i, q),
           NEW left, free' = left, UNCHANGED <<next_pid, stopped>>,
           Exchange(i, q, left, {}), NEW t \in Task, Becomes(t, User, i),
           task[t].st \in {"proc_launcher", "task_launcher"}, task[t].pid = i,
           NEW c \in Kid, c.tid = t, q.children = Append(procs[i].children, c)
    PROVE  IInv' /\ FramesAccounted
<1>0. Typed /\ procs[i].children \in Seq(Kid) /\ LauncherSound(t) /\ KidsSound(i)
  BY DEF IInv, Typed, Space
<1>1. /\ DOMAIN procs' = DOMAIN procs /\ procs'[i] = q
      /\ \A j \in DOMAIN procs \ {i} : procs'[j] = procs[j]
      /\ procs' = [j \in DOMAIN procs |-> procs'[j]]
  <2>1. PutDone(i, q) /\ DOMAIN procs \cup {i} = DOMAIN procs
    BY PutFacts
  <2>. QED BY <2>1 DEF PutDone
<1>2. /\ task'[t].st = User /\ task'[t].pid = i
      /\ \A u \in Task : u # t => task'[u] = task[u]
      /\ task' = [task EXCEPT ![t] = [st |-> User, pid |-> i]]
  BY <1>0, BecomesFacts
<1>3. (\A j \in DOMAIN procs' : SpaceSound(j)') /\ Lost' = Lost
  <2>1. Exchanged({})
    BY ExchangeStep
  <2>. QED BY <2>1 DEF Exchanged
<1>. DEFINE k == Len(procs[i].children) + 1
<1>4. /\ DOMAIN q.children = DOMAIN procs[i].children \cup {k}
      /\ k \notin DOMAIN procs[i].children /\ q.children[k] = c
      /\ \A j \in DOMAIN procs[i].children : q.children[j] = procs[i].children[j]
      /\ q.children # <<>>
  BY <1>0
<1>. HIDE DEF k
<1>5. Typed'
  <2>1. procs' \in [DOMAIN procs' -> Space]
    BY <1>0, <1>1 DEF Typed
  <2>2. free' \subseteq Frames
    BY DEF Exchange
  <2>3. i \in 0 .. (next_pid - 1) /\ User \in States
    BY <1>0 DEF Typed, States
  <2>. QED BY <1>0, <1>1, <1>2, <2>1, <2>2, <2>3 DEF Typed
<1>6. /\ ~\E j \in DOMAIN procs : Lives(t, j)
      /\ Lives(t, i)' /\ \A j \in DOMAIN procs : Lives(t, j)' => j = i
      /\ \A u \in Task, j \in DOMAIN procs : u # t => (Lives(u, j)' <=> Lives(u, j))
  BY <1>2 DEF Lives, User
<1>7. ASSUME NEW j \in DOMAIN procs' PROVE KidsSound(j)'
  <2>0. KidsSound(j) /\ j \in DOMAIN procs
    BY <1>1 DEF IInv
  <2>1. \A l \in DOMAIN procs[j].children :
            procs[j].children[l].tid \in Task /\ procs[j].children[l].tid # t
    <3>1. procs[j].children \in Seq(Kid)
      BY <1>0, <2>0 DEF Typed, Space
    <3>2. \A l \in DOMAIN procs[j].children : procs[j].children[l] \in Kid
      BY <3>1
    <3>. QED BY <1>6, <2>0, <3>2 DEF KidsSound, Kid
  <2>2. CASE j = i
    <3>. SUFFICES ASSUME NEW w, w = procs[i].children, NEW v, v = q.children
                  PROVE  KidsSound(i)'
      BY <2>2
    <3>1. \A l \in DOMAIN v : Lives(v[l].tid, i)'
      BY <1>4, <1>6, <2>0, <2>1, <2>2 DEF KidsSound
    <3>2. \A u \in Task : Lives(u, i)' => \E l \in DOMAIN v : v[l].tid = u
      BY <1>4, <1>6, <2>0, <2>2 DEF KidsSound
    <3>3. \A l, n \in DOMAIN v : v[l].tid = v[n].tid => l = n
      BY <1>4, <2>0, <2>1, <2>2 DEF KidsSound
    <3>4. procs'[i].children = v
      BY <1>1
    <3>. QED BY <3>1, <3>2, <3>3, <3>4 DEF KidsSound
  <2>3. CASE j # i
    BY <1>1, <1>6, <2>0, <2>1, <2>3 DEF KidsSound
  <2>. QED BY <2>2, <2>3
<1>8. ASSUME NEW u \in Task PROVE LauncherSound(u)'
  <2>1. CASE u = t
    BY <1>2, <2>1 DEF LauncherSound, User
  <2>2. CASE u # t
    <3>1. LauncherSound(u) /\ task'[u] = task[u]
      BY <1>2, <2>2 DEF IInv
    <3>2. ASSUME task[u].st = "proc_launcher" PROVE task[u].pid # i
      <4>1. CASE task[t].st = "proc_launcher"
        BY <1>0, <2>2, <3>2, <4>1 DEF LauncherSound
      <4>2. CASE task[t].st = "task_launcher"
        BY <1>0, <3>1, <3>2, <4>2 DEF LauncherSound, Fresh
      <4>. QED BY <4>1, <4>2
    <3>3. ASSUME task[u].st = "proc_launcher"
          PROVE  /\ task[u].pid \in DOMAIN procs' /\ Fresh(procs'[task[u].pid])
                 /\ \A w \in Task : task'[w].st = "proc_launcher" /\ w # u
                                        => task'[w].pid # task[u].pid
      BY <1>1, <1>2, <3>1, <3>2, <3>3 DEF LauncherSound, User
    <3>4. ASSUME task[u].st = "task_launcher", task[u].pid \in DOMAIN procs'
          PROVE  procs'[task[u].pid].children # <<>>
      BY <1>1, <1>4, <3>1, <3>4 DEF LauncherSound
    <3>. QED BY <3>1, <3>3, <3>4 DEF LauncherSound
  <2>. QED BY <2>1, <2>2
<1>. QED BY <1>1, <1>3, <1>4, <1>5, <1>7, <1>8, RunningAccounted DEF IInv

-----------------------------------------------------------------------------
(* Attaching a task to a space                                             *)

NewKid(t, p) == [tid |-> t, base |-> p.top, pages |-> InitPages]
AttachDone(t, p, avail, m) ==
    /\ m.stop \in {"no", "oom"}
    /\ m.stop = "no" =>
        /\ m.as \in Space /\ Owns(m.as) /\ Layout(m.as)
        /\ m.as.children = Append(p.children, NewKid(t, p))
        /\ m.left \subseteq avail
        /\ Total(m.as) \cup m.left = Total(p) \cup avail
        /\ Total(m.as) \cap m.left = {}

\* The stack that attach_task adds lies between the heap and the others.
LEMMA StackFits ==
    ASSUME NEW p \in Space, Layout(p), p.top - MaxPages > p.base + p.heap,
           NEW t \in Task, NEW q, q.children = Append(p.children, NewKid(t, p)),
           q.base = p.base, q.heap = p.heap, q.top = p.top - MaxPages,
           DOMAIN q.map = DOMAIN p.map \cup (p.top - InitPages) .. (p.top - 1)
    PROVE  Layout(q)
<1>. DEFINE c == NewKid(t, p)
            k == Len(p.children) + 1
<1>0. /\ p.top \in Int /\ p.base \in Int /\ p.heap \in Int /\ p.children \in Seq(Kid)
      /\ MaxPages \in Int /\ InitPages \in Int /\ 0 < InitPages /\ InitPages <= MaxPages
  BY ProcessFacts DEF Space
<1>1. c.base = p.top /\ c.pages = InitPages /\ c \in Kid
  BY <1>0 DEF NewKid, Kid
<1>. HIDE DEF c
<1>2. /\ DOMAIN q.children = DOMAIN p.children \cup {k}
      /\ k \notin DOMAIN p.children /\ q.children[k] = c
      /\ \A j \in DOMAIN p.children : q.children[j] = p.children[j]
      /\ \A j \in DOMAIN p.children : p.children[j] \in Kid
  BY <1>0, <1>1 DEF c
<1>. HIDE DEF k
<1>3. \A j \in DOMAIN p.children : /\ p.children[j].base \in Int
                                   /\ p.children[j].pages \in Int
  BY <1>2 DEF Kid
<1>4. p.base >= 1 /\ p.heap >= 0 /\ p.base + p.heap < p.top
      /\ (\A x : x \in DOMAIN p.map <=> x \in Int /\ PageUsed(p, x))
      /\ \A j \in DOMAIN p.children : ChildSound(p, j)
  BY DEF Layout
<1>5. ASSUME NEW j \in DOMAIN p.children
      PROVE  p.top + MaxPages <= p.children[j].base /\ Apart(p.children[j], c)
             /\ Apart(c, p.children[j])
  BY <1>0, <1>1, <1>3, <1>4 DEF ChildSound, Apart
<1>6. ASSUME NEW x PROVE x \in DOMAIN q.map <=> x \in Int /\ PageUsed(q, x)
  <2>1. x \in (p.top - InitPages) .. (p.top - 1) <=> x \in Int /\ Covers(c, x)
    BY <1>0, <1>1 DEF Covers
  <2>2. PageUsed(q, x) <=> PageUsed(p, x) \/ Covers(c, x)
    BY <1>2 DEF PageUsed
  <2>. QED BY <1>4, <2>1, <2>2
<1>7. ASSUME NEW j \in DOMAIN q.children PROVE ChildSound(q, j)
  <2>1. CASE j = k
    <3>1. \A l \in DOMAIN q.children : l # k => Apart(c, q.children[l])
      BY <1>2, <1>5
    <3>2. q.top + MaxPages <= c.base /\ c.pages >= 0 /\ c.pages <= MaxPages
      BY <1>0, <1>1
    <3>. QED BY <1>2, <2>1, <3>1, <3>2 DEF ChildSound
  <2>2. CASE j \in DOMAIN p.children
    <3>1. ChildSound(p, j) /\ q.children[j] = p.children[j]
      BY <1>2, <1>4, <2>2
    <3>2. q.top + MaxPages <= p.children[j].base
      BY <1>0, <1>3, <1>5, <2>2
    <3>3. \A l \in DOMAIN q.children : l # j => Apart(p.children[j], q.children[l])
      BY <1>2, <1>5, <2>2, <3>1 DEF ChildSound
    <3>. QED BY <3>1, <3>2, <3>3 DEF ChildSound
  <2>. QED BY <1>2, <2>1, <2>2
<1>8. q.base >= 1 /\ q.heap >= 0 /\ q.base + q.heap < q.top
  BY <1>4
<1>. QED BY <1>6, <1>7, <1>8 DEF Layout

LEMMA FarBelow ==
    ASSUME NEW top \in Int, NEW m \in Int, NEW b \in Int, NEW g \in Int, NEW x \in Int,
           x < top, g <= m, top + m <= b, b - g <= x
    PROVE  FALSE
  OBVIOUS

LEMMA RangeJoin ==
    ASSUME NEW s \in Nat, NEW n \in Nat, NEW x \in Int
    PROVE  0 <= x /\ x < s + n <=> (0 <= x /\ x < s) \/ (s <= x /\ x < s + n)
  OBVIOUS


LEMMA Attaches ==
    ASSUME NEW p \in Space, Owns(p), Layout(p), NEW t \in Task,
           NEW avail \in SUBSET Frames, avail \cap Total(p) = {}, ~Refused(p, avail)
    PROVE  AttachDone(t, p, avail, Attach(t, p, avail))
<1>. DEFINE stack == Highest(avail, InitPages)
            m == Map(p, p.top - InitPages, stack, avail \ stack)
<1>. SUFFICES ASSUME NEW r, r = Attach(t, p, avail) PROVE AttachDone(t, p, avail, r)
  OBVIOUS
<1>0. /\ p.top \in Int /\ p.base \in Int /\ p.heap \in Int /\ p.children \in Seq(Kid)
      /\ MaxPages \in Nat /\ InitPages \in Nat /\ 0 < InitPages /\ InitPages <= MaxPages
      /\ IsFiniteSet(avail) /\ avail \in SUBSET Int /\ Cardinality(avail) \in Nat
  <2>1. /\ p.top \in Int /\ p.base \in Int /\ p.heap \in Int /\ p.children \in Seq(Kid)
    BY DEF Space
  <2>2. IsFiniteSet(avail) /\ avail \in SUBSET Int /\ Cardinality(avail) \in Nat
    BY ProcessFacts, FS_Subset, FS_CardinalityType
  <2>. QED BY ProcessFacts, <2>1, <2>2
<1>1. p.top - MaxPages > p.base + p.heap /\ Cardinality(avail) >= InitPages
  BY <1>0 DEF Refused
<1>2. MapHighest(p, p.top - InitPages, InitPages, avail)
  <2>1. p.top - InitPages \in Int
    BY <1>0
  <2>. QED BY <1>0, <2>1, MapsHighest
<1>3. r = [m EXCEPT !.as = [m.as EXCEPT !.top = p.top - MaxPages,
                                        !.children = Append(p.children, NewKid(t, p))]]
  BY Zenon DEF Attach, NewKid
<1>5. Granted(avail, InitPages, stack)
      /\ MapDone(p, p.top - InitPages, stack, avail \ stack, m)
  BY <1>2, Zenon DEF MapHighest
<1>. HIDE DEF stack
<1>4. stack \subseteq avail /\ Cardinality(stack) = InitPages
  BY <1>1, <1>5 DEF Granted
<1>. HIDE DEF m
<1>. DEFINE pages == (p.top - InitPages) .. (p.top - 1)
<1>6. (p.top - InitPages) .. (p.top - InitPages + Cardinality(stack) - 1) = pages
  <2>1. p.top - InitPages + Cardinality(stack) - 1 = p.top - 1
    BY <1>0, <1>4
  <2>. QED BY <2>1
<1>7. pages \cap DOMAIN p.map = {}
  <2>. SUFFICES ASSUME NEW x \in pages, x \in DOMAIN p.map PROVE FALSE
    OBVIOUS
  <2>1. PageUsed(p, x) /\ x \in Int /\ p.top - InitPages <= x /\ x < p.top
    BY <1>0 DEF Layout
  <2>2. ~(x < p.base + p.heap)
    BY <1>0, <1>1, <2>1
  <2>3. PICK j \in DOMAIN p.children : Covers(p.children[j], x)
    BY <2>1, <2>2 DEF PageUsed
  <2>4. p.children[j] \in Kid /\ ChildSound(p, j)
    BY <1>0 DEF Layout
  <2>5. p.children[j].base \in Int /\ p.children[j].pages \in Int
    BY <2>4 DEF Kid
  <2>6. p.children[j].pages <= MaxPages /\ p.top + MaxPages <= p.children[j].base
    BY <2>4 DEF ChildSound
  <2>7. p.children[j].base - p.children[j].pages <= x
    BY <2>3 DEF Covers
  <2>8. p.top \in Int /\ MaxPages \in Int /\ x \in Int /\ x < p.top
    BY <1>0, <2>1
  <2>. QED BY <2>5, <2>6, <2>7, <2>8, FarBelow, Zenon
<1>. HIDE DEF pages
<1>8. m.stop \in {"no", "oom"}
  BY <1>5, <1>6, <1>7 DEF MapDone
<1>9. m.stop = "no" =>
        /\ m.as \in Space /\ Owns(m.as)
        /\ m.as.top = p.top /\ m.as.base = p.base /\ m.as.heap = p.heap
        /\ DOMAIN m.as.map = DOMAIN p.map \cup pages
        /\ m.left \subseteq avail
        /\ Total(m.as) \cup m.left = Total(p) \cup avail
        /\ Total(m.as) \cap m.left = {}
  BY <1>4, <1>5, <1>6 DEF MapDone
<1>10. m = [as |-> m.as, left |-> m.left, stop |-> m.stop]
  <2>1. m = Map(p, p.top - InitPages, stack, avail \ stack)
    BY DEF m
  <2>. QED BY <2>1 DEF Map
<1>11. r.stop = m.stop /\ r.left = m.left
       /\ r.as = [m.as EXCEPT !.top = p.top - MaxPages,
                              !.children = Append(p.children, NewKid(t, p))]
  BY <1>3, <1>10
<1>12. ASSUME m.stop = "no"
       PROVE  /\ r.as \in Space /\ Owns(r.as) /\ Layout(r.as) /\ Total(r.as) = Total(m.as)
              /\ r.as.children = Append(p.children, NewKid(t, p))
  <2>1. NewKid(t, p) \in Kid
    BY <1>0 DEF NewKid, Kid
  <2>2. m.as \in Space
    BY <1>9, <1>12
  <2>3. Append(p.children, NewKid(t, p)) \in Seq(Kid) /\ p.top - MaxPages \in Int
    BY <1>0, <2>1
  <2>4. /\ r.as \in Space /\ r.as.map = m.as.map /\ r.as.tables = m.as.tables
        /\ r.as.base = m.as.base /\ r.as.heap = m.as.heap
        /\ r.as.top = p.top - MaxPages
        /\ r.as.children = Append(p.children, NewKid(t, p))
    BY <1>11, <2>2, <2>3 DEF Space
  <2>5. Layout(r.as)
    BY <1>1, <1>9, <1>12, <2>4, StackFits DEF pages
  <2>. QED BY <1>9, <1>12, <2>4, <2>5 DEF Owns, Total
<1>. QED BY <1>8, <1>9, <1>11, <1>12 DEF AttachDone

LEMMA AppendedKids ==
    ASSUME NEW v \in Seq(Kid), NEW c \in Kid PROVE Append(v, c) # <<>>
<1>. DEFINE w == Append(v, c)
<1>1. Len(w) = Len(v) + 1 /\ Len(v) \in Nat
  OBVIOUS
<1>2. Len(<<>>) = 0
  OBVIOUS
<1>. HIDE DEF w
<1>3. w # <<>>
  BY <1>1, <1>2
<1>. QED BY <1>3 DEF w

\* move_to_process: the process may be gone, full, or take the task.
LEMMA MoveToProcessStep ==
    ASSUME IInv, NEW t \in Task, MoveToProcess(t) PROVE IInv' /\ FramesAccounted
<1>. SUFFICES ASSUME NEW i, i = task[t].pid, NEW p, p = procs[i]
              PROVE  IInv' /\ FramesAccounted
  OBVIOUS
<1>0. Typed /\ task[t].st = "task_launcher"
  BY DEF IInv, MoveToProcess
<1>1. CASE i \notin DOMAIN procs \/ Refused(p, free)
  <2>1. Becomes(t, "gone", 0) /\ UNCHANGED <<procs, next_pid, free, stopped>>
    BY <1>1 DEF MoveToProcess, LauncherFails
  <2>2. task'[t].st = "gone"
    BY <1>0, <2>1, BecomesFacts
  <2>3. \A j \in DOMAIN procs : Lives(t, j)' <=> Lives(t, j)
    BY <1>0, <2>2 DEF Lives, User
  <2>4. "gone" \in States /\ 0 \in 0 .. (next_pid - 1)
    BY <1>0 DEF States, Typed
  <2>. QED BY <2>1, <2>3, <2>4, TaskStep
<1>2. CASE i \in DOMAIN procs /\ ~Refused(p, free)
  <2>1. /\ p \in Space /\ p.children # <<>> /\ Owns(p) /\ Layout(p) /\ UsesOf(p) = Total(p)
        /\ Total(p) \cap free = {} /\ free \in SUBSET Frames
    BY <1>0, <1>2 DEF IInv, Typed, LauncherSound, SpaceSound, UsesOf, Total
  <2>. SUFFICES ASSUME NEW m, m = Attach(t, p, free), Enters(t, i, m)
                PROVE  IInv' /\ FramesAccounted
    BY <1>2 DEF MoveToProcess
  <2>2. AttachDone(t, p, free, m)
    BY <1>2, <2>1, Attaches
  <2>3. CASE m.stop # "no"
    BY <2>2, <2>3, PanicStep DEF Enters, AttachDone
  <2>4. CASE m.stop = "no"
    <3>1. /\ m.as \in Space /\ Owns(m.as) /\ Layout(m.as)
          /\ m.as.children = Append(p.children, NewKid(t, p))
          /\ m.left \subseteq free
          /\ Total(m.as) \cup m.left = Total(p) \cup free
          /\ Total(m.as) \cap m.left = {}
      BY <2>2, <2>4 DEF AttachDone
    <3>2. /\ Put(i, m.as) /\ free' = m.left /\ Becomes(t, User, i)
          /\ UNCHANGED <<next_pid, stopped>>
      BY <2>4 DEF Enters
    <3>3. NewKid(t, p) \in Kid /\ NewKid(t, p).tid = t
      BY <2>1, ProcessFacts DEF NewKid, Kid, Space
    <3>4. m.as.children # <<>>
      <4>1. p.children \in Seq(Kid)
        BY <2>1 DEF Space
      <4>. QED BY <3>1, <3>3, <4>1, AppendedKids
    <3>5. Exchange(i, m.as, m.left, {})
      <4>1. UsesOf(m.as) = Total(m.as) /\ OneToOne(m.as.tables)
        BY <3>1, <3>4 DEF UsesOf, Total, Owns
      <4>2. UsesOf(p) = Total(p) /\ free \subseteq Frames
        BY <1>2, <2>1 DEF UsesOf, Total
      <4>. QED BY <1>2, <3>1, <4>1, <4>2 DEF Exchange
    <3>. QED BY <1>0, <1>2, <3>1, <3>2, <3>3, <3>5, EnterStep
  <2>. QED BY <2>3, <2>4
<1>. QED BY <1>1, <1>2

-----------------------------------------------------------------------------
(* Spawning, and the steps that change only a task                         *)

LEMMA SpawnTaskStep ==
    ASSUME IInv, NEW t \in Task, NEW u \in Task, SpawnTask(t, u)
    PROVE  IInv' /\ FramesAccounted
<1>. SUFFICES ASSUME NEW i, i = task[t].pid PROVE IInv' /\ FramesAccounted
  OBVIOUS
<1>0. Typed /\ task[t].st = User /\ task[u].st = "unborn" /\ i \in 0 .. (next_pid - 1)
  BY DEF IInv, Typed, SpawnTask, Running
<1>1. Becomes(u, "task_launcher", i) /\ UNCHANGED <<procs, next_pid, free, stopped>>
  BY DEF SpawnTask
<1>2. task'[u].st = "task_launcher"
  BY <1>0, <1>1, BecomesFacts
<1>3. \A j \in DOMAIN procs : Lives(u, j)' <=> Lives(u, j)
  BY <1>0, <1>2 DEF Lives, User
<1>4. i \in DOMAIN procs => procs[i].children # <<>>
  <2>. SUFFICES ASSUME i \in DOMAIN procs, procs[i].children = <<>> PROVE FALSE
    OBVIOUS
  <2>1. Lives(t, i) /\ KidsSound(i)
    BY <1>0 DEF Lives, IInv
  <2>2. PICK j \in DOMAIN procs[i].children : procs[i].children[j].tid = t
    BY <2>1 DEF KidsSound
  <2>. QED BY <2>2
<1>5. "task_launcher" \in States
  BY DEF States
<1>. QED BY <1>0, <1>1, <1>3, <1>4, <1>5, TaskStep

LEMMA ExitStep ==
    ASSUME IInv, NEW t \in Task, Running(t), Becomes(t, "dead", task[t].pid),
           UNCHANGED <<procs, next_pid, free, stopped>>
    PROVE  IInv' /\ FramesAccounted
<1>. SUFFICES ASSUME NEW i, i = task[t].pid PROVE IInv' /\ FramesAccounted
  OBVIOUS
<1>0. Typed /\ task[t].st = User /\ i \in 0 .. (next_pid - 1)
  BY DEF IInv, Typed, Running
<1>1. Becomes(t, "dead", i)
  OBVIOUS
<1>2. task'[t].st = "dead" /\ task'[t].pid = i
  BY <1>0, <1>1, BecomesFacts
<1>3. \A j \in DOMAIN procs : Lives(t, j)' <=> Lives(t, j)
  BY <1>0, <1>2 DEF Lives, User
<1>4. "dead" \in States
  BY DEF States
<1>. QED BY <1>0, <1>1, <1>3, <1>4, TaskStep

LEMMA EmptyMap == <<>> \in [DOMAIN <<>> -> Frames] /\ DOMAIN <<>> = {}
<1>1. <<>> \in Seq(Frames) /\ Len(<<>>) = 0
  OBVIOUS
<1>2. DOMAIN <<>> = 1 .. 0
  BY <1>1
<1>. QED BY <1>1, <1>2

\* Spawn: the new space has one frame, and its launcher no rival.
LEMMA SpawnStep == ASSUME IInv, Spawn PROVE IInv' /\ FramesAccounted
<1>. SUFFICES ASSUME NEW i, i = next_pid, NEW root, root = Lowest(free, 1),
                     NEW f, f = Kth(root, 0), NEW q, q = NewSpace(f)
              PROVE  IInv' /\ FramesAccounted
  OBVIOUS
<1>0. Typed /\ i \in Nat \ {0} /\ i \notin DOMAIN procs /\ free \in SUBSET Frames
  BY DEF IInv, Typed
<1>1. CASE free = {}
  <2>1. Panic("oom") /\ "oom" # "mapped"
    BY <1>1 DEF Spawn
  <2>. QED BY <2>1, PanicStep
<1>2. CASE free # {}
  <2>1. /\ Put(i, q) /\ free' = free \ root /\ next_pid' = i + 1 /\ UNCHANGED stopped
        /\ \/ \E t \in Task : task[t].st = "unborn" /\ Becomes(t, "proc_launcher", i)
           \/ UNCHANGED task
    BY <1>2, Zenon DEF Spawn
  <2>2. IsFiniteSet(free) /\ free \in SUBSET Int /\ Cardinality(free) \in Nat
        /\ Cardinality(free) # 0
    BY <1>0, <1>2, ProcessFacts, FS_Subset, FS_CardinalityType, FS_EmptySet
  <2>3. Granted(free, 1, root)
    BY <2>2, LowestGranted
  <2>4. root \subseteq free /\ IsFiniteSet(root) /\ root \in SUBSET Int
        /\ Cardinality(root) = 1
    <3>1. Cardinality(free) >= 1
      BY <2>2
    <3>2. root \subseteq free /\ IsFiniteSet(root) /\ Cardinality(root) = 1
      BY <2>3, <3>1 DEF Granted
    <3>. QED BY <2>2, <3>2
  <2>5. f \in root /\ root = {f}
    <3>1. /\ \A k \in 0 .. (1 - 1) : Kth(root, k) \in root
          /\ \A g \in root : \E k \in 0 .. (1 - 1) : Kth(root, k) = g
      BY <2>4, KthOrders
    <3>2. \A k : k \in 0 .. (1 - 1) <=> k = 0
      OBVIOUS
    <3>. QED BY <3>1, <3>2
  <2>6. /\ q.children = <<>> /\ q.top = Top /\ q.base = 0 /\ q.heap = 0
        /\ q.map = <<>> /\ q.tables = [r \in {-1} |-> f]
        /\ q = [children |-> <<>>, top |-> Top, base |-> 0, heap |-> 0,
                map |-> q.map, tables |-> q.tables]
    BY DEF NewSpace
  <2>7. q.map \in PageMap /\ q.tables \in PageMap /\ OneToOne(q.tables)
        /\ FramesOf(q.tables) = {f}
    <3>1. q.map \in [DOMAIN q.map -> Frames] /\ DOMAIN q.map \subseteq Int
      BY <2>6, EmptyMap
    <3>2. DOMAIN q.tables = {-1} /\ q.tables[-1] = f /\ f \in Frames
          /\ q.tables \in [{-1} -> Frames] /\ {-1} \subseteq Int
      BY <1>0, <2>4, <2>5, <2>6
    <3>. QED BY <3>1, <3>2, PageMapType DEF OneToOne, FramesOf
  <2>8. q \in Space
    <3>1. <<>> \in Seq(Kid) /\ Top \in Int
      BY ProcessFacts
    <3>2. q = [children |-> <<>>, top |-> Top, base |-> 0, heap |-> 0,
               map |-> <<>>, tables |-> [r \in {-1} |-> f]]
      BY DEF NewSpace
    <3>3. <<>> \in PageMap /\ [r \in {-1} |-> f] \in PageMap
      BY <2>6, <2>7
    <3>4. ASSUME NEW m \in PageMap, NEW g \in PageMap
          PROVE  [children |-> <<>>, top |-> Top, base |-> 0, heap |-> 0,
                  map |-> m, tables |-> g] \in Space
      BY <3>1 DEF Space
    <3>. QED BY <3>2, <3>3, <3>4, Zenon
  <2>9. Exchange(i, q, free \ root, {})
    <3>1. UsesOf(q) = {f}
      BY <2>6, <2>7 DEF UsesOf
    <3>. QED BY <1>0, <2>4, <2>5, <2>6, <2>7, <3>1 DEF Exchange
  <2>10. (\A j \in DOMAIN procs' : SpaceSound(j)') /\ Lost' = Lost
    <3>1. Exchanged({})
      BY <2>1, <2>9, ExchangeStep
    <3>. QED BY <3>1 DEF Exchanged
  <2>11. FramesAccounted
    BY <1>0, <2>1, <2>10, RunningAccounted
  <2>12. /\ DOMAIN procs' = DOMAIN procs \cup {i} /\ procs'[i] = q
         /\ \A j \in DOMAIN procs : procs'[j] = procs[j]
         /\ procs' = [j \in DOMAIN procs \cup {i} |-> procs'[j]]
    <3>1. PutDone(i, q)
      BY <2>1, PutFacts
    <3>. QED BY <1>0, <3>1 DEF PutDone
  <2>13. \/ task' = task
         \/ \E t \in Task : /\ task[t].st = "unborn"
                            /\ task'[t] = [st |-> "proc_launcher", pid |-> i]
                            /\ \A u \in Task : u # t => task'[u] = task[u]
    BY <1>0, <2>1 DEF Becomes, Typed
  <2>14. \A t \in Task : task[t].pid \in Nat /\ task[t].pid < i
    BY <1>0 DEF Typed
  <2>15. Typed'
    <3>1. procs' \in [DOMAIN procs' -> Space]
      BY <1>0, <2>8, <2>12 DEF Typed
    <3>2. next_pid' \in Nat \ {0} /\ (next_pid' - 1) = i
      BY <1>0, <2>1
    <3>3. DOMAIN procs' \subseteq 1 .. i
      BY <1>0, <2>12 DEF Typed
    <3>4. task' \in [Task -> [st : States, pid : 0 .. i]]
      <4>1. \A k \in 0 .. (next_pid - 1) : k \in 0 .. i
        BY <1>0
      <4>2. task \in [Task -> [st : States, pid : 0 .. i]]
        BY <1>0, <4>1 DEF Typed
      <4>3. CASE task' = task
        BY <4>2, <4>3
      <4>4. CASE \E t \in Task : Becomes(t, "proc_launcher", i)
        <5>1. PICK t \in Task : task' = [task EXCEPT ![t] = [st |-> "proc_launcher", pid |-> i]]
          BY <4>4 DEF Becomes
        <5>2. "proc_launcher" \in States /\ i \in 0 .. i
          BY <1>0 DEF States
        <5>. QED BY <4>2, <5>1, <5>2
      <4>. QED BY <2>1, <4>3, <4>4
    <3>5. free' \subseteq Frames
      BY <1>0, <2>1
    <3>. QED BY <3>1, <3>2, <3>3, <3>4, <3>5 DEF Typed
  <2>16. ASSUME NEW j \in DOMAIN procs' PROVE KidsSound(j)'
    <3>1. \A u \in Task, k \in DOMAIN procs : Lives(u, k)' <=> Lives(u, k)
      BY <2>13 DEF Lives, User
    <3>2. CASE j = i
      <4>1. \A u \in Task : ~Lives(u, i)'
        BY <2>13, <2>14 DEF Lives, User
      <4>. QED BY <2>6, <2>12, <3>2, <4>1 DEF KidsSound
    <3>3. CASE j # i
      <4>1. KidsSound(j) /\ j \in DOMAIN procs /\ procs'[j] = procs[j]
        BY <2>12, <3>3 DEF IInv
      <4>2. procs[j].children \in Seq(Kid)
        BY <1>0, <4>1 DEF Typed, Space
      <4>3. \A l \in DOMAIN procs[j].children : procs[j].children[l] \in Kid
        BY <4>2
      <4>4. \A l \in DOMAIN procs[j].children : procs[j].children[l].tid \in Task
        BY <4>3 DEF Kid
      <4>. QED BY <3>1, <4>1, <4>4 DEF KidsSound
    <3>. QED BY <3>2, <3>3
  <2>17. ASSUME NEW u \in Task PROVE LauncherSound(u)'
    <3>1. LauncherSound(u)
      BY DEF IInv
    <3>2. CASE task'[u] = task[u]
      BY <1>0, <2>12, <2>13, <2>14, <3>1, <3>2 DEF LauncherSound
    <3>3. CASE /\ task'[u] = [st |-> "proc_launcher", pid |-> i]
               /\ \A w \in Task : w # u => task'[w] = task[w]
      BY <2>6, <2>12, <2>14, <3>3 DEF LauncherSound, Fresh
    <3>. QED BY <2>13, <3>2, <3>3
  <2>. QED BY <2>1, <2>10, <2>11, <2>15, <2>16, <2>17 DEF IInv
<1>. QED BY <1>1, <1>2

-----------------------------------------------------------------------------
(* Memory of a running process                                             *)

\* A task that lives in a process of the table runs in a sound space.
Hosts(i, t) ==
    LET p == procs[i] IN
    /\ p \in Space /\ p.children # <<>> /\ Owns(p) /\ Layout(p)
    /\ UsesOf(p) = Total(p) /\ Total(p) \cap free = {} /\ free \in SUBSET Frames
    /\ Child(p, t) \in DOMAIN p.children /\ p.children[Child(p, t)].tid = t

LEMMA LivesIn ==
    ASSUME IInv, NEW t \in Task, NEW i \in DOMAIN procs, Lives(t, i)
    PROVE  Hosts(i, t)
<1>. SUFFICES ASSUME NEW p, p = procs[i] PROVE Hosts(i, t)
  OBVIOUS
<1>1. Typed /\ KidsSound(i) /\ SpaceSound(i)
  BY DEF IInv
<1>2. p \in Space /\ free \in SUBSET Frames
  BY <1>1 DEF Typed
<1>3. \E j \in DOMAIN p.children : p.children[j].tid = t
  BY <1>1 DEF KidsSound
<1>4. Child(p, t) \in DOMAIN p.children /\ p.children[Child(p, t)].tid = t
  BY <1>3, Zenon DEF Child
<1>5. p.children # <<>>
  BY <1>3
<1>6. Owns(p) /\ Layout(p) /\ UsesOf(p) \cap free = {}
  BY <1>1, <1>5 DEF SpaceSound
<1>7. UsesOf(p) = Total(p)
  BY <1>5 DEF UsesOf, Total
<1>. QED BY <1>2, <1>4, <1>5, <1>6, <1>7 DEF Hosts

\* A stack lies above the place for the next one.
StackAbove(p, c) ==
    /\ c \in Kid /\ c.base \in Int /\ c.pages \in Int
    /\ 0 <= c.pages /\ c.pages <= MaxPages /\ p.top + MaxPages <= c.base
    /\ p.top <= c.base - c.pages
LEMMA StacksAbove ==
    ASSUME NEW p \in Space, Layout(p), NEW j \in DOMAIN p.children
    PROVE  StackAbove(p, p.children[j])
<1>. SUFFICES ASSUME NEW c, c = p.children[j] PROVE StackAbove(p, c)
  OBVIOUS
<1>1. p.children \in Seq(Kid) /\ p.top \in Int
  BY DEF Space
<1>2. c \in Kid
  BY <1>1
<1>3. c.base \in Int /\ c.pages \in Int
  BY <1>2 DEF Kid
<1>4. 0 <= c.pages /\ c.pages <= MaxPages /\ p.top + MaxPages <= c.base
  BY DEF Layout, ChildSound
<1>5. MaxPages \in Int
  BY ProcessFacts
<1>6. p.top <= c.base - c.pages
  BY <1>1, <1>3, <1>4, <1>5
<1>. QED BY <1>2, <1>3, <1>4, <1>6 DEF StackAbove

LEMMA CoversAbove ==
    ASSUME NEW p \in Space, NEW c, StackAbove(p, c), NEW x \in Int, Covers(c, x)
    PROVE  p.top <= x
<1>1. p.top \in Int
  BY DEF Space
<1>2. c.base \in Int /\ c.pages \in Int /\ p.top <= c.base - c.pages
  BY DEF StackAbove
<1>3. c.base - c.pages <= x
  BY DEF Covers
<1>. QED BY <1>1, <1>2, <1>3

\* What unmap_page does to a space.
UnmapDone(p, pages, q) ==
    /\ q \in Space /\ Owns(q)
    /\ q.children = p.children /\ q.top = p.top /\ q.base = p.base /\ q.heap = p.heap
    /\ q.tables = p.tables /\ DOMAIN q.map = DOMAIN p.map \ pages
    /\ Freed(p, pages) \subseteq FramesOf(p.map)
    /\ Total(q) \cup Freed(p, pages) = Total(p)
    /\ Total(q) \cap Freed(p, pages) = {}
LEMMA Unmaps ==
    ASSUME NEW p \in Space, Owns(p), NEW pages
    PROVE  UnmapDone(p, pages, Unmap(p, pages))
<1>. SUFFICES ASSUME NEW q, q = Unmap(p, pages), NEW m, m = Without(p.map, pages)
              PROVE  UnmapDone(p, pages, q)
  OBVIOUS
<1>1. p.map \in PageMap
  BY DEF Space
<1>2. p.map \in [DOMAIN p.map -> Frames] /\ DOMAIN p.map \subseteq Int
  BY <1>1, PageMapType
<1>3. DOMAIN m = DOMAIN p.map \ pages /\ (\A x \in DOMAIN m : m[x] = p.map[x])
      /\ m \in [DOMAIN m -> Frames] /\ DOMAIN m \subseteq Int
  BY <1>2 DEF Without
<1>4. m \in PageMap
  BY <1>3, PageMapType
<1>5. /\ q \in Space /\ q.map = m /\ q.tables = p.tables
      /\ q.children = p.children /\ q.top = p.top /\ q.base = p.base /\ q.heap = p.heap
  BY <1>4 DEF Unmap, Space
<1>6. Freed(p, pages) \subseteq FramesOf(p.map)
  BY DEF Freed, FramesOf
<1>7. FramesOf(m) \cup Freed(p, pages) = FramesOf(p.map)
  BY <1>3 DEF Freed, FramesOf
<1>8. OneToOne(p.map) /\ OneToOne(p.tables) /\ FramesOf(p.map) \cap FramesOf(p.tables) = {}
  BY DEF Owns
<1>9. FramesOf(m) \cap Freed(p, pages) = {}
  BY <1>3, <1>8 DEF Freed, FramesOf, OneToOne
<1>10. OneToOne(m)
  BY <1>3, <1>8 DEF OneToOne
<1>11. Owns(q)
  BY <1>5, <1>7, <1>8, <1>10 DEF Owns
<1>12. Total(q) \cup Freed(p, pages) = Total(p) /\ Total(q) \cap Freed(p, pages) = {}
  BY <1>5, <1>6, <1>7, <1>8, <1>9 DEF Total
<1>. QED BY <1>3, <1>5, <1>6, <1>11, <1>12 DEF UnmapDone

\* resize_heap upwards: the new pages lie between the heap and the stacks.
LEMMA GrowStep ==
    ASSUME IInv, NEW t \in Task, Running(t), Mine(t), NEW n \in Nat \ {0}, Grow(t, n)
    PROVE  IInv' /\ FramesAccounted
<1>. SUFFICES ASSUME NEW i, i = task[t].pid, NEW p, p = procs[i]
              PROVE  IInv' /\ FramesAccounted
  OBVIOUS
<1>. DEFINE frames == Highest(free, n)
            m == Map(p, p.base + p.heap, frames, free \ frames)
            pages == (p.base + p.heap) .. (p.base + p.heap + n - 1)
            q == [m.as EXCEPT !.heap = p.heap + n]
<1>0. i \in DOMAIN procs /\ Lives(t, i)
  BY DEF Mine, Running, Lives
<1>1. Hosts(i, t)
  BY <1>0, LivesIn
<1>2. /\ p \in Space /\ p.children # <<>> /\ Owns(p) /\ Layout(p)
      /\ UsesOf(p) = Total(p) /\ Total(p) \cap free = {} /\ free \in SUBSET Frames
  BY <1>1 DEF Hosts
<1>3. p.top \in Int /\ p.base \in Int /\ p.heap \in Int /\ p.base + p.heap \in Int
      /\ p.children \in Seq(Kid)
  BY <1>2 DEF Space
<1>4. /\ p.base + p.heap + n < p.top /\ Cardinality(frames) = n
      /\ IF m.stop # "no" THEN Panic(m.stop)
         ELSE /\ Put(i, q) /\ free' = m.left /\ UNCHANGED <<next_pid, task, stopped>>
  <2>1. /\ p.base + p.heap + n < p.top /\ Cardinality(frames) = n
        /\ Changed(t, [m EXCEPT !.as = [m.as EXCEPT !.heap = p.heap + n]])
    BY Zenon DEF Grow
  <2>2. Answer(m)
    BY MapRecord, Zenon
  <2>. HIDE DEF m
  <2>. QED BY <2>1, <2>2 DEF Changed, Answer
<1>5. MapHighest(p, p.base + p.heap, n, free)
  BY <1>2, <1>3, MapsHighest
<1>6. Granted(free, n, frames) /\ MapDone(p, p.base + p.heap, frames, free \ frames, m)
  BY <1>5, Zenon DEF MapHighest
<1>. HIDE DEF m, frames
<1>7. (p.base + p.heap) .. (p.base + p.heap + Cardinality(frames) - 1) = pages
  BY <1>4
<1>8. p.base >= 1 /\ p.heap >= 0
      /\ (\A x : x \in DOMAIN p.map <=> x \in Int /\ PageUsed(p, x))
      /\ \A j \in DOMAIN p.children : ChildSound(p, j)
  BY <1>2 DEF Layout
<1>9. pages \cap DOMAIN p.map = {}
  <2>. SUFFICES ASSUME NEW x \in pages, x \in DOMAIN p.map PROVE FALSE
    OBVIOUS
  <2>1. x \in Int /\ p.base + p.heap <= x /\ x < p.base + p.heap + n
    BY <1>3
  <2>2. PageUsed(p, x)
    BY <1>8
  <2>3. PICK j \in DOMAIN p.children : Covers(p.children[j], x)
    BY <1>3, <2>1, <2>2 DEF PageUsed
  <2>4. StackAbove(p, p.children[j])
    BY <1>2, StacksAbove
  <2>5. p.top <= x
    BY <1>2, <2>1, <2>3, <2>4, CoversAbove
  <2>. QED BY <1>3, <1>4, <2>1, <2>5
<1>. HIDE DEF pages
<1>10. CASE m.stop # "no"
  <2>1. m.stop # "mapped" /\ Panic(m.stop)
    BY <1>4, <1>6, <1>7, <1>9, <1>10 DEF MapDone
  <2>. QED BY <2>1, PanicStep
<1>11. CASE m.stop = "no"
  <2>1. /\ m.as \in Space /\ Owns(m.as)
        /\ m.as.children = p.children
        /\ m.as.top = p.top /\ m.as.base = p.base /\ m.as.heap = p.heap
        /\ DOMAIN m.as.map = DOMAIN p.map \cup pages
        /\ m.left \subseteq free
        /\ Total(m.as) \cup m.left = Total(p) \cup free
        /\ Total(m.as) \cap m.left = {}
    <3>1. frames \subseteq free
      BY <1>6 DEF Granted
    <3>. QED BY <1>6, <1>7, <1>11, <3>1 DEF MapDone
  <2>2. /\ q \in Space /\ q.children = p.children /\ q.map = m.as.map
        /\ q.tables = m.as.tables /\ q.top = p.top /\ q.base = p.base
        /\ q.heap = p.heap + n
    <3>1. p.heap + n \in Int
      BY <1>3
    <3>. QED BY <2>1, <3>1 DEF Space
  <2>3. Put(i, q) /\ free' = m.left /\ UNCHANGED <<next_pid, task, stopped>>
    BY <1>4, <1>11
  <2>. HIDE DEF q
  <2>4. Layout(q)
    <3>1. q.base >= 1 /\ q.heap >= 0 /\ q.base + q.heap < q.top
      <4>1. p.base + (p.heap + n) < p.top
        BY <1>3, <1>4
      <4>2. p.heap + n >= 0
        BY <1>3, <1>8
      <4>. QED BY <4>1, <4>2, <1>8, <2>2
    <3>2. ASSUME NEW x PROVE x \in DOMAIN q.map <=> x \in Int /\ PageUsed(q, x)
      <4>1. x \in pages <=> x \in Int /\ p.base + p.heap <= x /\ x < p.base + p.heap + n
        BY <1>3 DEF pages
      <4>2. x \in Int => (PageUsed(q, x) <=> PageUsed(p, x) \/ x \in pages)
        <5>1. x \in Int => (0 <= x /\ x < q.base + q.heap
                        <=> (0 <= x /\ x < p.base + p.heap) \/ x \in pages)
          <6>1. q.base + q.heap = p.base + p.heap + n
                /\ p.base + p.heap \in Nat /\ n \in Nat
            BY <1>3, <1>8, <2>2
          <6>. QED BY <4>1, <6>1, RangeJoin
        <5>. QED BY <2>2, <5>1 DEF PageUsed
      <4>. QED BY <1>8, <2>1, <2>2, <4>1, <4>2
    <3>3. \A j \in DOMAIN q.children : ChildSound(q, j)
      BY <1>8, <2>2 DEF ChildSound
    <3>. QED BY <3>1, <3>2, <3>3 DEF Layout
  <2>5. Exchange(i, q, m.left, {})
    <3>1. Owns(q) /\ Total(q) = Total(m.as)
      BY <2>1, <2>2 DEF Owns, Total
    <3>2. UsesOf(q) = Total(q)
      BY <1>2, <2>2 DEF UsesOf, Total
    <3>3. OneToOne(q.tables)
      BY <3>1 DEF Owns
    <3>. QED BY <1>0, <1>2, <2>1, <2>4, <3>1, <3>2, <3>3 DEF Exchange
  <2>6. SameKids(p.children, q.children)
    BY <2>2 DEF SameKids
  <2>7. q.children # <<>>
    BY <1>2, <2>2
  <2>. QED BY <1>0, <1>2, <2>2, <2>3, <2>5, <2>6, <2>7, MemoryStep
<1>. QED BY <1>10, <1>11

LEMMA HeapEnd ==
    ASSUME NEW base \in Int, NEW heap \in Int, NEW n \in Nat, n <= heap, base >= 1, NEW x
    PROVE  /\ x \in (base + heap - n) .. (base + heap - 1)
                <=> x \in Int /\ base + heap - n <= x /\ x < base + heap
           /\ x \in Int => (0 <= x /\ x < base + (heap - n)
                <=> /\ 0 <= x /\ x < base + heap
                    /\ x \notin (base + heap - n) .. (base + heap - 1))
  OBVIOUS

\* ... and downwards: the pages at the heap's end are given back.
LEMMA ShrinkStep ==
    ASSUME IInv, NEW t \in Task, Running(t), Mine(t), NEW n \in Nat, Shrink(t, n)
    PROVE  IInv' /\ FramesAccounted
<1>. SUFFICES ASSUME NEW i, i = task[t].pid, NEW p, p = procs[i]
              PROVE  IInv' /\ FramesAccounted
  OBVIOUS
<1>. DEFINE pages == (p.base + p.heap - n) .. (p.base + p.heap - 1)
            u == Unmap(p, pages)
            q == [u EXCEPT !.heap = p.heap - n]
            g == Freed(p, pages)
<1>0. i \in DOMAIN procs /\ Lives(t, i)
  BY DEF Mine, Running, Lives
<1>1. Hosts(i, t)
  BY <1>0, LivesIn
<1>2. /\ p \in Space /\ p.children # <<>> /\ Owns(p) /\ Layout(p)
      /\ UsesOf(p) = Total(p) /\ Total(p) \cap free = {} /\ free \in SUBSET Frames
  BY <1>1 DEF Hosts
<1>3. p.top \in Int /\ p.base \in Int /\ p.heap \in Int /\ p.base + p.heap \in Int
  BY <1>2 DEF Space
<1>4. /\ n <= p.heap /\ Put(i, q) /\ free' = free \cup g
      /\ UNCHANGED <<next_pid, task, stopped>>
  <2>1. /\ n <= p.heap
        /\ Changed(t, [as |-> q, left |-> free \cup g, stop |-> "no"])
    BY Zenon DEF Shrink
  <2>. HIDE DEF q, g
  <2>. QED BY <2>1 DEF Changed
<1>5. UnmapDone(p, pages, u)
  BY <1>2, Unmaps
<1>. HIDE DEF u
<1>6. /\ u \in Space /\ Owns(u) /\ u.children = p.children /\ u.top = p.top
      /\ u.base = p.base /\ DOMAIN u.map = DOMAIN p.map \ pages
      /\ g \subseteq Total(p)
      /\ Total(u) \cup g = Total(p) /\ Total(u) \cap g = {}
  BY <1>5 DEF UnmapDone
<1>7. /\ q \in Space /\ q.children = p.children /\ q.map = u.map /\ q.tables = u.tables
      /\ q.top = p.top /\ q.base = p.base /\ q.heap = p.heap - n
  <2>1. p.heap - n \in Int
    BY <1>3
  <2>. QED BY <1>6, <2>1 DEF Space
<1>. HIDE DEF q, pages
<1>8. p.base >= 1 /\ p.heap >= 0 /\ p.base + p.heap < p.top
      /\ (\A x : x \in DOMAIN p.map <=> x \in Int /\ PageUsed(p, x))
      /\ \A j \in DOMAIN p.children : ChildSound(p, j)
  BY <1>2 DEF Layout
<1>9. Layout(q)
  <2>1. q.base >= 1 /\ q.heap >= 0 /\ q.base + q.heap < q.top
    <3>1. p.heap - n >= 0 /\ p.base + (p.heap - n) < p.top
      BY <1>3, <1>4, <1>8
    <3>. QED BY <1>7, <1>8, <3>1
  <2>2. ASSUME NEW x PROVE x \in DOMAIN q.map <=> x \in Int /\ PageUsed(q, x)
    <3>0. /\ x \in pages <=> /\ x \in Int /\ p.base + p.heap - n <= x
                             /\ x < p.base + p.heap
          /\ x \in Int => (0 <= x /\ x < p.base + (p.heap - n)
                            <=> 0 <= x /\ x < p.base + p.heap /\ x \notin pages)
      BY <1>3, <1>4, <1>8, HeapEnd DEF pages
    <3>1. x \in pages => x < p.base + p.heap
      BY <3>0
    <3>2. ASSUME NEW j \in DOMAIN p.children, x \in Int, Covers(p.children[j], x)
          PROVE  x \notin pages
      <4>1. StackAbove(p, p.children[j])
        BY <1>2, StacksAbove
      <4>2. p.top <= x
        BY <1>2, <3>2, <4>1, CoversAbove
      <4>. QED BY <1>3, <1>8, <3>1, <3>2, <4>2
    <3>3. x \in Int => (0 <= x /\ x < q.base + q.heap
                        <=> 0 <= x /\ x < p.base + p.heap /\ x \notin pages)
      BY <1>7, <3>0
    <3>4. x \in Int => (PageUsed(q, x) <=> PageUsed(p, x) /\ x \notin pages)
      BY <1>7, <3>2, <3>3 DEF PageUsed
    <3>. QED BY <1>6, <1>7, <1>8, <3>4
  <2>3. \A j \in DOMAIN q.children : ChildSound(q, j)
    BY <1>7, <1>8 DEF ChildSound
  <2>. QED BY <2>1, <2>2, <2>3 DEF Layout
<1>10. Exchange(i, q, free \cup g, {})
  <2>1. Owns(q) /\ Total(q) = Total(u)
    BY <1>6, <1>7 DEF Owns, Total
  <2>2. UsesOf(q) = Total(q)
    BY <1>2, <1>7 DEF UsesOf, Total
  <2>3. OneToOne(q.tables)
    BY <2>1 DEF Owns
  <2>4. g \subseteq Frames
    <3>1. p.map \in PageMap
      BY <1>2 DEF Space
    <3>2. p.map \in [DOMAIN p.map -> Frames]
      BY <3>1, PageMapType
    <3>. QED BY <3>2 DEF Freed, g
  <2>. HIDE DEF g
  <2>. QED BY <1>0, <1>2, <1>6, <1>9, <2>1, <2>2, <2>3, <2>4 DEF Exchange
<1>11. SameKids(p.children, q.children) /\ q.children # <<>>
  BY <1>2, <1>7 DEF SameKids
<1>12. free' = free \cup g /\ p.children # <<>>
  BY <1>2, <1>4
<1>. QED BY <1>0, <1>4, <1>7, <1>10, <1>11, <1>12, MemoryStep

LEMMA ResizeHeapStep ==
    ASSUME IInv, NEW t \in Task, NEW d \in Deltas, ResizeHeap(t, d)
    PROVE  IInv' /\ FramesAccounted
<1>0. d \in Int /\ Running(t) /\ Mine(t)
  BY ProcessFacts DEF ResizeHeap
<1>1. CASE d > 0
  <2>1. Grow(t, d) /\ d \in Nat \ {0}
    BY <1>0, <1>1 DEF ResizeHeap
  <2>. QED BY <1>0, <2>1, GrowStep
<1>2. CASE ~(d > 0)
  <2>1. Shrink(t, -d) /\ -d \in Nat
    BY <1>0, <1>2 DEF ResizeHeap
  <2>. QED BY <1>0, <2>1, ShrinkStep
<1>. QED BY <1>1, <1>2

LEMMA GrowthBounds ==
    ASSUME NEW b \in Int, NEW g \in Int, NEW n \in Int, NEW m \in Int, NEW top \in Int,
           NEW x \in Int, g + n <= m, b - g - n <= x, top + m <= b
    PROVE  b - m <= x /\ top <= x
  OBVIOUS

LEMMA RangeBounds ==
    ASSUME NEW b \in Int, NEW m \in Int, NEW d \in Int, NEW g \in Int, b + m <= d, g <= m
    PROVE  b <= d - g
  OBVIOUS

LEMMA OrderBounds ==
    ASSUME NEW b \in Int, NEW g \in Int, NEW d \in Int, NEW h \in Int, NEW x \in Int,
           x < b - g, 0 <= g, b <= d - h, d - h <= x
    PROVE  FALSE
  OBVIOUS

LEMMA RangeOrder ==
    ASSUME NEW b \in Int, NEW m \in Int, NEW d \in Int, NEW x \in Int,
           b - m <= x, d + m <= b, x < d
    PROVE  FALSE
  OBVIOUS

\* The pages a stack c takes as it grows by n, and the space q that p becomes
\* when child j takes them.
NewPages(c, n) == (c.base - c.pages - n) .. (c.base - c.pages - 1)
GrowsTo(p, j, n, q) ==
    /\ DOMAIN q.children = DOMAIN p.children
    /\ q.children[j].base = p.children[j].base
    /\ q.children[j].pages = p.children[j].pages + n
    /\ \A k \in DOMAIN p.children : k # j => q.children[k] = p.children[k]
    /\ q.top = p.top /\ q.base = p.base /\ q.heap = p.heap
    /\ DOMAIN q.map = DOMAIN p.map \cup NewPages(p.children[j], n)

\* A stack that grows stays in its range: above the heap and its successors,
\* below the range of its predecessor.
LEMMA StackGrows ==
    ASSUME NEW p \in Space, Layout(p), NEW j \in DOMAIN p.children,
           NEW c, c = p.children[j], NEW n \in Nat, c.pages + n <= MaxPages,
           p.top - (c.pages + n) > p.base + p.heap
    PROVE  /\ NewPages(c, n) \cap DOMAIN p.map = {}
           /\ \A q : GrowsTo(p, j, n, q) => Layout(q)
<1>. DEFINE pages == NewPages(c, n)
            kids == p.children
<1>1. p.top \in Int /\ p.base \in Int /\ p.heap \in Int /\ MaxPages \in Int
      /\ kids \in Seq(Kid)
  BY ProcessFacts DEF Space
<1>2. /\ c \in Kid /\ c.base \in Int /\ c.pages \in Int
      /\ 0 <= c.pages /\ c.pages <= MaxPages /\ p.top + MaxPages <= c.base
  BY StacksAbove DEF StackAbove
<1>3. p.base >= 1 /\ p.heap >= 0 /\ p.base + p.heap < p.top
      /\ (\A x : x \in DOMAIN p.map <=> x \in Int /\ PageUsed(p, x))
      /\ \A k \in DOMAIN kids : ChildSound(p, k)
  BY DEF Layout
<1>4. \A x : x \in pages <=> /\ x \in Int /\ c.base - c.pages - n <= x
                             /\ x < c.base - c.pages
  BY <1>2 DEF NewPages
<1>. HIDE DEF pages
<1>5. ASSUME NEW x \in pages, x \in DOMAIN p.map PROVE FALSE
  <2>1. x \in Int /\ PageUsed(p, x) /\ c.base - c.pages - n <= x /\ x < c.base - c.pages
    BY <1>3, <1>4, <1>5
  <2>2. c.base - MaxPages <= x /\ p.top <= x
    <3>1. n \in Int /\ p.top \in Int /\ MaxPages \in Int /\ c.base \in Int
          /\ c.pages \in Int /\ x \in Int /\ c.pages + n <= MaxPages
          /\ c.base - c.pages - n <= x /\ p.top + MaxPages <= c.base
      BY <1>1, <1>2, <2>1
    <3>. QED BY <3>1, GrowthBounds, Zenon
  <2>3. ~(x < p.base + p.heap)
    BY <1>1, <1>3, <2>1, <2>2
  <2>4. PICK k \in DOMAIN kids : Covers(kids[k], x)
    BY <2>1, <2>3 DEF PageUsed
  <2>. SUFFICES ASSUME NEW e, e = kids[k] PROVE FALSE
    OBVIOUS
  <2>5. e.base \in Int /\ e.pages \in Int /\ 0 <= e.pages /\ e.pages <= MaxPages
    BY StacksAbove DEF StackAbove
  <2>6. e.base - e.pages <= x /\ x < e.base
    BY <2>4 DEF Covers
  <2>7. k # j
    <3>1. c.base - c.pages \in Int /\ ~(c.base - c.pages <= x)
      BY <1>2, <2>1
    <3>. QED BY <2>6, <3>1
  <2>8. Apart(c, e)
    BY <1>3, <2>7 DEF ChildSound
  <2>9. CASE c.base + MaxPages <= e.base
    <3>1. c.base <= e.base - e.pages
      BY <1>1, <1>2, <2>5, <2>9, RangeBounds
    <3>. QED BY <1>2, <2>1, <2>5, <2>6, <3>1, OrderBounds
  <2>10. CASE e.base + MaxPages <= c.base
    BY <1>1, <1>2, <2>1, <2>2, <2>5, <2>6, <2>10, RangeOrder
  <2>. QED BY <2>8, <2>9, <2>10 DEF Apart
<1>6. ASSUME NEW q, GrowsTo(p, j, n, q) PROVE Layout(q)
  <2>0. /\ q.top = p.top /\ q.base = p.base /\ q.heap = p.heap
        /\ DOMAIN q.map = DOMAIN p.map \cup pages
    BY <1>6 DEF GrowsTo, pages
  <2>1. /\ DOMAIN q.children = DOMAIN kids
        /\ q.children[j].base = c.base /\ q.children[j].pages = c.pages + n
        /\ \A k \in DOMAIN kids : k # j => q.children[k] = kids[k]
        /\ \A k \in DOMAIN kids : q.children[k].base = kids[k].base
    BY <1>6 DEF GrowsTo
  <2>2. ASSUME NEW x \in Int PROVE Covers(q.children[j], x) <=> Covers(c, x) \/ x \in pages
    BY <1>2, <1>4, <2>1 DEF Covers
  <2>3. ASSUME NEW x PROVE x \in DOMAIN q.map <=> x \in Int /\ PageUsed(q, x)
    <3>1. x \in pages => x \in Int
      BY <1>4
    <3>2. x \in Int => (PageUsed(q, x) <=> PageUsed(p, x) \/ x \in pages)
      BY <2>0, <2>1, <2>2 DEF PageUsed
    <3>. QED BY <1>3, <2>0, <3>1, <3>2
  <2>4. ASSUME NEW k \in DOMAIN kids PROVE ChildSound(q, k)
    <3>1. ChildSound(p, k)
      BY <1>3
    <3>2. q.children[k].pages >= 0 /\ q.children[k].pages <= MaxPages
      <4>1. CASE k = j
        BY <1>2, <2>1, <4>1
      <4>2. CASE k # j
        BY <2>1, <3>1, <4>2 DEF ChildSound
      <4>. QED BY <4>1, <4>2
    <3>3. q.top + MaxPages <= q.children[k].base
      BY <2>0, <2>1, <3>1 DEF ChildSound
    <3>4. \A l \in DOMAIN kids : l # k => Apart(q.children[k], q.children[l])
      BY <2>1, <3>1 DEF ChildSound, Apart
    <3>. QED BY <2>1, <3>2, <3>3, <3>4 DEF ChildSound
  <2>5. q.base >= 1 /\ q.heap >= 0 /\ q.base + q.heap < q.top
    BY <1>3, <2>0
  <2>. QED BY <2>1, <2>3, <2>4, <2>5 DEF Layout
<1>. QED BY <1>5, <1>6 DEF pages

LEMMA ExtraType ==
    ASSUME NEW c, c.base \in Int, c.pages \in Int, NEW x \in Int, x < c.base - c.pages
    PROVE  Extra(c, x) \in Nat
<1>. DEFINE k == c.base - c.pages - x + ExpandPages - 1
<1>1. ExpandPages \in Nat /\ ExpandPages > 0
  BY ProcessFacts
<1>2. k \in Nat
  BY <1>1
<1>. HIDE DEF k
<1>3. k \div ExpandPages \in Nat
  BY <1>1, <1>2
<1>. DEFINE d == k \div ExpandPages
<1>. HIDE DEF d
<1>4. d * ExpandPages \in Nat
  BY <1>1, <1>3 DEF d
<1>. QED BY <1>4, Zenon DEF Extra, d, k

\* handle_page_fault: the stack grows, or the task ends.
LEMMA PageFaultStep ==
    ASSUME IInv, NEW t \in Task, NEW x \in 0 .. (Top - 1), PageFault(t, x)
    PROVE  IInv' /\ FramesAccounted
<1>. SUFFICES ASSUME NEW i, i = task[t].pid, NEW p, p = procs[i]
              PROVE  IInv' /\ FramesAccounted
  OBVIOUS
<1>. DEFINE j == Child(p, t)
            c == p.children[j]
            n == Extra(c, x)
            frames == Highest(free, n)
            from == c.base - c.pages - n
            m == Map(p, from, frames, free \ frames)
            kids == [p.children EXCEPT ![j] = [c EXCEPT !.pages = c.pages + n]]
            q == [m.as EXCEPT !.children[j] = [c EXCEPT !.pages = c.pages + n]]
            ok == /\ x \in (c.base - MaxPages) .. (c.base - c.pages - 1)
                  /\ c.pages + n <= MaxPages
                  /\ p.top - (c.pages + n) > p.base + p.heap
                  /\ Cardinality(frames) = n
<1>0. i \in DOMAIN procs /\ Lives(t, i) /\ Running(t)
  BY DEF PageFault, Mine, Running, Lives
<1>1. IF ok THEN Changed(t, [m EXCEPT !.as = q])
      ELSE Becomes(t, "dead", i) /\ UNCHANGED <<procs, next_pid, free, stopped>>
  BY Zenon DEF PageFault
<1>2. CASE ~ok
  <2>1. Becomes(t, "dead", task[t].pid) /\ UNCHANGED <<procs, next_pid, free, stopped>>
    BY <1>1, <1>2, Zenon
  <2>. QED BY <1>0, <2>1, ExitStep
<1>3. CASE ok
  <2>1. Answer(m) /\ Changed(t, [m EXCEPT !.as = q])
    <3>1. Answer(m)
      BY MapRecord, Zenon
    <3>2. Changed(t, [m EXCEPT !.as = q])
      <4>. HIDE DEF ok, m, q
      <4>. QED BY <1>1, <1>3, Zenon
    <3>. QED BY <3>1, <3>2, Zenon
  <2>2. Hosts(i, t)
    BY <1>0, LivesIn
  <2>3. /\ p \in Space /\ p.children # <<>> /\ Owns(p) /\ Layout(p)
        /\ UsesOf(p) = Total(p) /\ Total(p) \cap free = {} /\ free \in SUBSET Frames
        /\ j \in DOMAIN p.children
    BY <2>2, Zenon DEF Hosts
  <2>4. StackAbove(p, c)
    BY <2>3, StacksAbove
  <2>5. c \in Kid /\ c.base \in Int /\ c.pages \in Int
    BY <2>4 DEF StackAbove
  <2>6. x \in Int /\ x < c.base - c.pages
    <3>1. x \in (c.base - MaxPages) .. (c.base - c.pages - 1)
      BY <1>3, Zenon
    <3>2. MaxPages \in Int
      BY ProcessFacts
    <3>. HIDE DEF c
    <3>. QED BY <2>5, <3>1, <3>2
  <2>7. n \in Nat
    BY <2>5, <2>6, ExtraType
  <2>8. c.pages + n <= MaxPages /\ p.top - (c.pages + n) > p.base + p.heap
        /\ Cardinality(frames) = n
    BY <1>3
  <2>. HIDE DEF j, n, ok
  <2>9. from \in Int
    BY <2>5, <2>7
  <2>10. MapHighest(p, from, n, free)
    BY <2>3, <2>7, <2>9, MapsHighest
  <2>11. Granted(free, n, frames) /\ MapDone(p, from, frames, free \ frames, m)
    BY <2>10, Zenon DEF MapHighest
  <2>. HIDE DEF m, frames
  <2>. DEFINE pages == NewPages(c, n)
  <2>12. (from .. (from + Cardinality(frames) - 1)) = pages
    <3>1. from + Cardinality(frames) - 1 = c.base - c.pages - 1
      BY <2>5, <2>7, <2>8
    <3>. QED BY <3>1 DEF NewPages
  <2>. HIDE DEF from
  <2>13. /\ pages \cap DOMAIN p.map = {}
         /\ \A s : GrowsTo(p, j, n, s) => Layout(s)
    <3>. DEFINE e == p.children[j]
    <3>1. e = c
      OBVIOUS
    <3>. HIDE DEF c, kids, q
    <3>2. c = p.children[j]
      BY <3>1
    <3>. QED BY <2>3, <2>7, <2>8, <3>2, StackGrows
  <2>. HIDE DEF c, from, pages
  <2>14. CASE m.stop # "no"
    <3>1. Panic(m.stop)
      BY <2>1, <2>14 DEF Changed, Answer
    <3>2. m.stop # "mapped"
      BY <2>11, <2>12, <2>13 DEF MapDone
    <3>. QED BY <3>1, <3>2, PanicStep
  <2>15. CASE m.stop = "no"
    <3>1. /\ m.as \in Space /\ Owns(m.as)
          /\ m.as.children = p.children
          /\ m.as.top = p.top /\ m.as.base = p.base /\ m.as.heap = p.heap
          /\ DOMAIN m.as.map = DOMAIN p.map \cup pages
          /\ m.left \subseteq free
          /\ Total(m.as) \cup m.left = Total(p) \cup free
          /\ Total(m.as) \cap m.left = {}
      <4>1. frames \subseteq free
        BY <2>11 DEF Granted
      <4>. QED BY <2>11, <2>12, <2>15, <4>1 DEF MapDone
    <3>2. kids \in Seq(Kid) /\ SameKids(p.children, kids) /\ kids # <<>>
      <4>1. p.children \in Seq(Kid)
        BY <2>3 DEF Space
      <4>2. [c EXCEPT !.pages = c.pages + n] \in Kid
            /\ [c EXCEPT !.pages = c.pages + n].tid = c.tid
        BY <2>5, <2>7 DEF Kid
      <4>3. kids \in Seq(Kid) /\ DOMAIN kids = DOMAIN p.children
            /\ kids[j] = [c EXCEPT !.pages = c.pages + n]
            /\ \A k \in DOMAIN kids : k # j => kids[k] = p.children[k]
        BY <2>3, <4>1, <4>2
      <4>4. c = p.children[j]
        BY DEF c
      <4>. HIDE DEF kids
      <4>5. kids # <<>>
        BY <2>3, <4>3
      <4>. QED BY <4>2, <4>3, <4>4, <4>5 DEF SameKids
    <3>3. /\ q \in Space /\ q.children = kids /\ q.map = m.as.map
          /\ q.tables = m.as.tables /\ q.top = p.top /\ q.base = p.base
          /\ q.heap = p.heap
      BY <3>1, <3>2 DEF Space
    <3>4. Put(i, q) /\ free' = m.left /\ UNCHANGED <<next_pid, task, stopped>>
      BY <2>1, <2>15 DEF Changed, Answer
    <3>a. /\ DOMAIN kids = DOMAIN p.children /\ c = p.children[j]
          /\ kids[j].base = c.base /\ kids[j].pages = c.pages + n
          /\ \A k \in DOMAIN p.children : k # j => kids[k] = p.children[k]
      <4>1. p.children \in Seq(Kid) /\ c = p.children[j]
        BY <2>3 DEF Space, c
      <4>2. c \in Kid
        BY <2>5
      <4>. QED BY <2>3, <4>1, <4>2 DEF Kid
    <3>. HIDE DEF q, kids
    <3>5. Layout(q)
      <4>1. GrowsTo(p, j, n, q)
        BY <3>1, <3>3, <3>a DEF GrowsTo, pages
      <4>. QED BY <2>13, <4>1
    <3>6. Exchange(i, q, m.left, {})
      <4>1. Owns(q) /\ Total(q) = Total(m.as)
        BY <3>1, <3>3 DEF Owns, Total
      <4>2. UsesOf(q) = Total(q)
        BY <3>2, <3>3 DEF UsesOf, Total
      <4>3. OneToOne(q.tables)
        BY <4>1 DEF Owns
      <4>. QED BY <1>0, <2>3, <3>1, <3>5, <4>1, <4>2, <4>3 DEF Exchange
    <3>. QED BY <1>0, <2>3, <3>2, <3>3, <3>4, <3>6, MemoryStep
  <2>. QED BY <2>14, <2>15
<1>. QED BY <1>2, <1>3

-----------------------------------------------------------------------------
(* Launching                                                               *)

\* What map_pages of an image leaves, in a space that was fresh.
ImageMapped(i, n, m) ==
    LET p == [procs[i] EXCEPT !.base = n]
        img == Highest(free, n)
    IN  /\ m.stop \in {"no", "oom"}
        /\ m.stop = "no" =>
            /\ m.as \in Space /\ Owns(m.as) /\ m.as.children = <<>>
            /\ m.as.top = Top /\ m.as.base = n /\ m.as.heap = 0
            /\ DOMAIN m.as.map = 0 .. (n - 1) /\ FramesOf(m.as.map) = img
            /\ m.left \subseteq free \ img /\ img \subseteq free
            /\ Total(m.as) \cup m.left = UsesOf(procs[i]) \cup free
            /\ Total(m.as) \cap m.left = {}

LEMMA ImageMaps ==
    ASSUME IInv, NEW i \in DOMAIN procs, Fresh(procs[i]), NEW n \in Nat,
           Cardinality(Highest(free, n)) = n, NEW m,
           m = Map([procs[i] EXCEPT !.base = n], 0, Highest(free, n),
                   free \ Highest(free, n))
    PROVE  ImageMapped(i, n, m)
<1>. SUFFICES ASSUME NEW o, o = procs[i] PROVE ImageMapped(i, n, m)
  OBVIOUS
<1>. DEFINE p == [o EXCEPT !.base = n]
            img == Highest(free, n)
<1>1. o \in Space /\ free \in SUBSET Frames
  BY DEF IInv, Typed
<1>2. /\ p \in Space /\ p.children = <<>> /\ p.top = Top /\ p.base = n /\ p.heap = 0
      /\ p.map = <<>> /\ p.tables = o.tables
  <2>1. n \in Int
    OBVIOUS
  <2>. QED BY <1>1, <2>1 DEF Space, Fresh
<1>3. SpaceSound(i) /\ o.children = <<>>
  BY DEF IInv, Fresh
<1>4. OneToOne(o.tables) /\ UsesOf(o) = FramesOf(o.tables) /\ UsesOf(o) \cap free = {}
  BY <1>3 DEF SpaceSound, UsesOf
<1>. HIDE DEF p
<1>5. DOMAIN p.map = {} /\ FramesOf(p.map) = {} /\ OneToOne(p.map)
  BY <1>2, EmptyMap DEF FramesOf, OneToOne
<1>6. Owns(p) /\ Total(p) = UsesOf(o)
  BY <1>2, <1>4, <1>5 DEF Owns, Total
<1>7. MapHighest(p, 0, n, free)
  <2>1. p \in Space /\ Owns(p) /\ 0 \in Int /\ free \cap Total(p) = {}
    BY <1>2, <1>4, <1>6
  <2>. QED BY <1>1, <2>1, MapsHighest
<1>8. Granted(free, n, img) /\ MapDone(p, 0, img, free \ img, m)
  BY <1>7, Zenon DEF MapHighest, p
<1>9. 0 .. (0 + Cardinality(img) - 1) = 0 .. (n - 1)
  OBVIOUS
<1>. HIDE DEF img
<1>10. m.stop \in {"no", "oom"}
  BY <1>5, <1>8 DEF MapDone
<1>11. m.stop = "no" =>
            /\ m.as \in Space /\ Owns(m.as) /\ m.as.children = <<>>
            /\ m.as.top = Top /\ m.as.base = n /\ m.as.heap = 0
            /\ DOMAIN m.as.map = 0 .. (n - 1) /\ FramesOf(m.as.map) = img
            /\ m.left \subseteq free \ img /\ img \subseteq free
            /\ Total(m.as) \cup m.left = UsesOf(o) \cup free
            /\ Total(m.as) \cap m.left = {}
  <2>1. img \subseteq free
    BY <1>8 DEF Granted
  <2>. SUFFICES ASSUME m.stop = "no"
                PROVE  /\ m.as \in Space /\ Owns(m.as) /\ m.as.children = <<>>
                       /\ m.as.top = Top /\ m.as.base = n /\ m.as.heap = 0
                       /\ DOMAIN m.as.map = 0 .. (n - 1) /\ FramesOf(m.as.map) = img
                       /\ m.left \subseteq free \ img /\ img \subseteq free
                       /\ Total(m.as) \cup m.left = UsesOf(o) \cup free
                       /\ Total(m.as) \cap m.left = {}
    OBVIOUS
  <2>2. /\ m.as \in Space /\ Owns(m.as) /\ m.as.children = p.children
        /\ m.as.top = p.top /\ m.as.base = p.base /\ m.as.heap = p.heap
        /\ DOMAIN m.as.map = DOMAIN p.map \cup 0 .. (0 + Cardinality(img) - 1)
        /\ FramesOf(m.as.map) = FramesOf(p.map) \cup img
        /\ m.left \subseteq free \ img
        /\ Total(m.as) \cup m.left = Total(p) \cup img \cup (free \ img)
        /\ Total(m.as) \cap m.left = {}
    BY <1>8, Zenon DEF MapDone
  <2>3. DOMAIN m.as.map = 0 .. (n - 1) /\ FramesOf(m.as.map) = img
    BY <1>5, <1>9, <2>2, Zenon
  <2>4. Total(m.as) \cup m.left = UsesOf(o) \cup free
    BY <1>6, <2>1, <2>2
  <2>. QED BY <1>2, <2>1, <2>2, <2>3, <2>4, Zenon
<1>. QED BY <1>10, <1>11 DEF ImageMapped, img

\* A launch that fails keeps the process without a task.
LEMMA LaunchFailsStep ==
    ASSUME IInv, NEW i \in DOMAIN procs, NEW t \in Task, task[t].st = "proc_launcher",
           task[t].pid = i, NEW n \in Nat, n >= 1, NEW m, ImageMapped(i, n, m),
           m.stop = "no", Put(i, m.as), NEW loaded \in BOOLEAN,
           NEW img, img = FramesOf(m.as.map),
           free' = IF loaded THEN m.left ELSE m.left \cup img,
           LauncherFails(t), UNCHANGED <<next_pid, stopped>>
    PROVE  IInv' /\ FramesAccounted
<1>. SUFFICES ASSUME NEW o, o = procs[i], NEW q, q = m.as,
                     NEW left, left = IF loaded THEN m.left ELSE m.left \cup img,
                     NEW X, X = IF loaded THEN img ELSE {}
              PROVE  IInv' /\ FramesAccounted
  OBVIOUS
<1>0. Typed /\ LauncherSound(t) /\ SpaceSound(i)
  BY DEF IInv
<1>1. Fresh(o) /\ \A u \in Task : task[u].st = "proc_launcher" /\ u # t => task[u].pid # i
  BY <1>0 DEF LauncherSound
<1>2. /\ q \in Space /\ Owns(q) /\ q.children = <<>>
      /\ DOMAIN q.map = 0 .. (n - 1) /\ m.left \subseteq free \ img /\ img \subseteq free
      /\ Total(q) \cup m.left = UsesOf(o) \cup free /\ Total(q) \cap m.left = {}
  BY DEF ImageMapped
<1>3. free \subseteq Frames
  BY <1>0 DEF Typed
<1>4. /\ UsesOf(q) = FramesOf(q.tables) /\ FramesOf(q.map) \cap FramesOf(q.tables) = {}
      /\ OneToOne(q.tables) /\ Total(q) = img \cup FramesOf(q.tables)
  BY <1>2 DEF UsesOf, Owns, Total
<1>5. left \subseteq Frames /\ free' = left /\ X \subseteq Frames
  BY <1>2, <1>3
<1>6. Exchange(i, q, left, X)
  <2>1. UsesOf(q) \cup left \cup X = UsesOf(o) \cup free
    BY <1>2, <1>4
  <2>2. UsesOf(q) \cap left = {} /\ X \cap (UsesOf(q) \cup left) = {}
    BY <1>2, <1>4
  <2>. QED BY <1>2, <1>4, <1>5, <2>1, <2>2 DEF Exchange
<1>7. (\A j \in DOMAIN procs' : SpaceSound(j)') /\ Lost' = Lost \cup X
  <2>1. Exchanged(X)
    BY <1>5, <1>6, ExchangeStep
  <2>. QED BY <2>1 DEF Exchanged
<1>8. /\ DOMAIN procs' = DOMAIN procs /\ procs'[i] = q
      /\ \A j \in DOMAIN procs \ {i} : procs'[j] = procs[j]
      /\ procs' = [j \in DOMAIN procs |-> procs'[j]]
  <2>1. PutDone(i, q) /\ DOMAIN procs \cup {i} = DOMAIN procs
    BY PutFacts
  <2>. QED BY <2>1 DEF PutDone
<1>9. /\ task'[t].st = "gone" /\ task'[t].pid = 0
      /\ \A u \in Task : u # t => task'[u] = task[u]
      /\ task' = [task EXCEPT ![t] = [st |-> "gone", pid |-> 0]]
  BY <1>0, BecomesFacts DEF LauncherFails
<1>10. Typed'
  <2>1. procs' \in [DOMAIN procs' -> Space]
    BY <1>0, <1>2, <1>8 DEF Typed
  <2>2. 0 \in 0 .. (next_pid - 1) /\ "gone" \in States
    BY <1>0 DEF Typed, States
  <2>. QED BY <1>0, <1>5, <1>8, <1>9, <2>1, <2>2 DEF Typed
<1>11. \A u \in Task, j \in DOMAIN procs : Lives(u, j)' <=> Lives(u, j)
  BY <1>9 DEF Lives, User
<1>12. ASSUME NEW j \in DOMAIN procs' PROVE KidsSound(j)'
  <2>1. KidsSound(j) /\ j \in DOMAIN procs
    BY <1>8 DEF IInv
  <2>2. procs'[j].children = procs[j].children
    BY <1>1, <1>2, <1>8, <2>1 DEF Fresh
  <2>3. procs[j].children \in Seq(Kid)
    BY <1>0, <2>1 DEF Typed, Space
  <2>4. \A l \in DOMAIN procs[j].children : procs[j].children[l] \in Kid
    BY <2>3
  <2>5. \A l \in DOMAIN procs[j].children : procs[j].children[l].tid \in Task
    BY <2>4 DEF Kid
  <2>. QED BY <1>11, <2>1, <2>2, <2>5 DEF KidsSound
<1>13. ASSUME NEW u \in Task PROVE LauncherSound(u)'
  <2>1. CASE u = t
    BY <1>9, <2>1 DEF LauncherSound
  <2>2. CASE u # t
    <3>1. LauncherSound(u) /\ task'[u] = task[u]
      BY <1>9, <2>2 DEF IInv
    <3>2. ASSUME task[u].st = "proc_launcher"
          PROVE  /\ task[u].pid \in DOMAIN procs' /\ Fresh(procs'[task[u].pid])
                 /\ \A w \in Task : task'[w].st = "proc_launcher" /\ w # u
                                        => task'[w].pid # task[u].pid
      BY <1>1, <1>8, <1>9, <2>2, <3>1, <3>2 DEF LauncherSound
    <3>3. ASSUME task[u].st = "task_launcher", task[u].pid \in DOMAIN procs'
          PROVE  procs'[task[u].pid].children # <<>>
      BY <1>1, <1>8, <3>1, <3>3 DEF LauncherSound, Fresh
    <3>. QED BY <3>1, <3>2, <3>3 DEF LauncherSound
  <2>. QED BY <2>1, <2>2
<1>14. FramesAccounted
  <2>1. q.map # procs[i].map
    <3>1. 0 \in DOMAIN q.map
      BY <1>2
    <3>2. DOMAIN procs[i].map = {}
      BY <1>1, EmptyMap DEF Fresh
    <3>. QED BY <3>1, <3>2
  <2>2. {j \in DOMAIN procs \cap DOMAIN procs' : /\ procs'[j].children = <<>>
                                                /\ procs'[j].map # procs[j].map} = {i}
    BY <1>2, <1>8, <2>1
  <2>3. DOMAIN procs \ DOMAIN procs' = {}
    BY <1>8
  <2>4. UNION {FramesOf(procs'[j].map) \ free' : j \in {i}} = X
    <3>1. FramesOf(procs'[i].map) \ free' = X
      BY <1>2, <1>5, <1>8
    <3>. QED BY <3>1
  <2>. QED BY <1>7, <2>2, <2>3, <2>4 DEF FramesAccounted
<1>. QED BY <1>7, <1>10, <1>12, <1>13, <1>14 DEF IInv

\* launch_elf: out of frames, unreadable, without room for a stack, or entered.
LEMMA LaunchElfStep ==
    ASSUME IInv, NEW t \in Task, NEW n \in Images, NEW loaded \in BOOLEAN,
           LaunchElf(t, n, loaded)
    PROVE  IInv' /\ FramesAccounted
<1>. SUFFICES ASSUME NEW i, i = task[t].pid PROVE IInv' /\ FramesAccounted
  OBVIOUS
<1>. DEFINE img == Highest(free, n)
            m == Map([procs[i] EXCEPT !.base = n], 0, img, free \ img)
            r == Attach(t, m.as, m.left)
<1>0. Typed /\ LauncherSound(t) /\ task[t].st = "proc_launcher" /\ n \in Nat
  BY ProcessFacts DEF IInv, LaunchElf
<1>1. i \in DOMAIN procs /\ Fresh(procs[i])
  BY <1>0 DEF LauncherSound
<1>2. IF n < 1 \/ Cardinality(img) < n
      THEN LauncherFails(t) /\ UNCHANGED <<procs, next_pid, free, stopped>>
      ELSE IF m.stop # "no" THEN Panic(m.stop)
      ELSE IF ~loaded \/ Refused(m.as, m.left)
      THEN /\ Put(i, m.as)
           /\ free' = IF loaded THEN m.left ELSE m.left \cup img
           /\ LauncherFails(t)
           /\ UNCHANGED <<next_pid, stopped>>
      ELSE Enters(t, i, r)
  BY Zenon DEF LaunchElf
<1>3. CASE n < 1 \/ Cardinality(img) < n
  <2>1. Becomes(t, "gone", 0) /\ UNCHANGED <<procs, next_pid, free, stopped>>
    BY <1>2, <1>3, Zenon DEF LauncherFails
  <2>2. task'[t].st = "gone"
    BY <1>0, <2>1, BecomesFacts
  <2>3. \A j \in DOMAIN procs : Lives(t, j)' <=> Lives(t, j)
    BY <1>0, <2>2 DEF Lives, User
  <2>4. "gone" \in States /\ 0 \in 0 .. (next_pid - 1)
    BY <1>0 DEF States, Typed
  <2>. QED BY <2>1, <2>3, <2>4, TaskStep
<1>4. CASE ~(n < 1 \/ Cardinality(img) < n)
  <2>0. n >= 1 /\ free \in SUBSET Frames
    BY <1>0, <1>4 DEF Typed
  <2>1. Cardinality(img) = n
    <3>1. IsFiniteSet(free) /\ free \in SUBSET Int
      BY <2>0, ProcessFacts, FS_Subset
    <3>2. Granted(free, n, img)
      BY <1>0, <3>1, HighestGranted
    <3>3. Cardinality(img) \in Nat /\ Cardinality(img) <= n
      BY <3>2 DEF Granted
    <3>. QED BY <1>0, <1>4, <3>3
  <2>2. ImageMapped(i, n, m)
    BY <1>0, <1>1, <2>1, ImageMaps
  <2>3. IF m.stop # "no" THEN Panic(m.stop)
        ELSE IF ~loaded \/ Refused(m.as, m.left)
        THEN /\ Put(i, m.as)
             /\ free' = IF loaded THEN m.left ELSE m.left \cup img
             /\ LauncherFails(t)
             /\ UNCHANGED <<next_pid, stopped>>
        ELSE Enters(t, i, r)
    BY <1>2, <1>4, Zenon
  <2>. HIDE DEF m
  <2>4. CASE m.stop # "no"
    <3>1. m.stop # "mapped" /\ Panic(m.stop)
      BY <2>2, <2>3, <2>4 DEF ImageMapped
    <3>. QED BY <3>1, PanicStep
  <2>5. CASE m.stop = "no" /\ (~loaded \/ Refused(m.as, m.left))
    <3>1. /\ Put(i, m.as) /\ free' = IF loaded THEN m.left ELSE m.left \cup img
          /\ LauncherFails(t) /\ UNCHANGED <<next_pid, stopped>>
      BY <2>3, <2>5, Zenon
    <3>2. img = FramesOf(m.as.map)
      BY <2>2, <2>5 DEF ImageMapped
    <3>. HIDE DEF img
    <3>. QED BY <1>0, <1>1, <2>0, <2>2, <2>5, <3>1, <3>2, LaunchFailsStep
  <2>6. CASE m.stop = "no" /\ loaded /\ ~Refused(m.as, m.left)
    <3>. SUFFICES ASSUME NEW p, p = m.as, NEW left, left = m.left
                  PROVE  IInv' /\ FramesAccounted
      OBVIOUS
    <3>1. /\ p \in Space /\ Owns(p) /\ p.children = <<>>
          /\ p.top = Top /\ p.base = n /\ p.heap = 0
          /\ DOMAIN p.map = 0 .. (n - 1) /\ left \subseteq free
          /\ Total(p) \cup left = UsesOf(procs[i]) \cup free
          /\ Total(p) \cap left = {}
      BY <2>2, <2>6 DEF ImageMapped
    <3>2. Layout(p)
      <4>1. Top - MaxPages > n + 0
        BY <1>0, <2>6, <3>1, ProcessFacts DEF Refused
      <4>2. p.base >= 1 /\ p.heap >= 0 /\ p.base + p.heap < p.top
        BY <1>0, <2>0, <3>1, <4>1, ProcessFacts
      <4>3. DOMAIN p.children = {}
        BY <3>1, EmptyMap
      <4>4. ASSUME NEW x PROVE x \in DOMAIN p.map <=> x \in Int /\ PageUsed(p, x)
        <5>1. x \in 0 .. (n - 1) <=> x \in Int /\ 0 <= x /\ x < n + 0
          BY <1>0
        <5>. QED BY <3>1, <4>3, <5>1 DEF PageUsed
      <4>. QED BY <4>2, <4>3, <4>4 DEF Layout
    <3>3. AttachDone(t, p, left, r)
      <4>1. left \in SUBSET Frames /\ left \cap Total(p) = {} /\ ~Refused(p, left)
        BY <2>0, <2>6, <3>1
      <4>. QED BY <3>1, <3>2, <4>1, Attaches
    <3>4. Enters(t, i, r)
      BY <2>3, <2>6, Zenon
    <3>. HIDE DEF r
    <3>5. CASE r.stop # "no"
      BY <3>3, <3>4, <3>5, PanicStep DEF Enters, AttachDone
    <3>6. CASE r.stop = "no"
      <4>. SUFFICES ASSUME NEW q, q = r.as, NEW rest, rest = r.left
                    PROVE  IInv' /\ FramesAccounted
        OBVIOUS
      <4>1. /\ q \in Space /\ Owns(q) /\ Layout(q)
            /\ q.children = Append(procs[i].children, NewKid(t, p))
            /\ rest \subseteq free
            /\ Total(q) \cup rest = UsesOf(procs[i]) \cup free
            /\ Total(q) \cap rest = {}
        BY <1>1, <3>1, <3>3, <3>6 DEF AttachDone, Fresh
      <4>2. /\ Put(i, q) /\ free' = rest /\ Becomes(t, User, i)
            /\ UNCHANGED <<next_pid, stopped>>
        BY <3>4, <3>6 DEF Enters
      <4>3. NewKid(t, p) \in Kid /\ NewKid(t, p).tid = t
        BY <3>1, ProcessFacts DEF NewKid, Kid, Space
      <4>4. q.children # <<>>
        <5>1. procs[i].children \in Seq(Kid)
          BY <1>1 DEF Fresh
        <5>. QED BY <4>1, <4>3, <5>1, AppendedKids
      <4>5. Exchange(i, q, rest, {})
        BY <1>1, <2>0, <4>1, <4>4 DEF Exchange, UsesOf, Total, Owns
      <4>. QED BY <1>0, <1>1, <4>1, <4>2, <4>3, <4>5, EnterStep
    <3>. QED BY <3>5, <3>6
  <2>. QED BY <2>4, <2>5, <2>6
<1>. QED BY <1>3, <1>4

-----------------------------------------------------------------------------
(* The end of tasks and processes                                          *)

LEMMA GoneFacts ==
    ASSUME IInv, NEW t \in Task, NEW i, i = task[t].pid, task[t].st = "dead",
           Becomes(t, "gone", i)
    PROVE  /\ task' \in [Task -> [st : States, pid : 0 .. (next_pid - 1)]]
           /\ \A j : Lives(t, j) <=> j = i
           /\ \A j : ~Lives(t, j)'
           /\ \A u \in Task : u # t => task'[u] = task[u]
           /\ \A u \in Task, j \in DOMAIN procs : u # t => (Lives(u, j)' <=> Lives(u, j))
           /\ task'[t].st = "gone"
<1>0. Typed
  BY DEF IInv
<1>1. /\ task'[t].st = "gone" /\ task'[t].pid = i
      /\ \A u \in Task : u # t => task'[u] = task[u]
      /\ task' = [task EXCEPT ![t] = [st |-> "gone", pid |-> i]]
  BY <1>0, BecomesFacts
<1>2. i \in 0 .. (next_pid - 1) /\ "gone" \in States
  BY <1>0 DEF Typed, States
<1>3. task' \in [Task -> [st : States, pid : 0 .. (next_pid - 1)]]
  BY <1>0, <1>1, <1>2 DEF Typed
<1>. QED BY <1>1, <1>3 DEF Lives, User

\* With its main task a process goes, but for the frame of its first page.
LEMMA MainDroppedStep ==
    ASSUME IInv, NEW t \in Task, NEW i \in DOMAIN procs, i = task[t].pid,
           task[t].st = "dead", Becomes(t, "gone", i), UNCHANGED <<next_pid, stopped>>,
           NEW p, p = procs[i], procs' = Without(procs, {i}),
           free' = free \cup Released(p)
    PROVE  IInv' /\ FramesAccounted
<1>0. Typed
  BY DEF IInv
<1>1. /\ task' \in [Task -> [st : States, pid : 0 .. (next_pid - 1)]]
      /\ \A j : Lives(t, j) <=> j = i
      /\ \A j : ~Lives(t, j)'
      /\ \A u \in Task : u # t => task'[u] = task[u]
      /\ \A u \in Task, j \in DOMAIN procs : u # t => (Lives(u, j)' <=> Lives(u, j))
      /\ task'[t].st = "gone"
  BY GoneFacts
<1>2. Hosts(i, t)
  BY <1>1, LivesIn
<1>3. /\ p \in Space /\ p.children # <<>> /\ Owns(p) /\ Layout(p)
      /\ UsesOf(p) = Total(p) /\ Total(p) \cap free = {} /\ free \subseteq Frames
  BY <1>2 DEF Hosts
<1>4. /\ DOMAIN procs' = DOMAIN procs \ {i}
      /\ \A j \in DOMAIN procs' : procs'[j] = procs[j]
      /\ procs' = [j \in DOMAIN procs' |-> procs'[j]]
  BY DEF Without
<1>5. 0 \in DOMAIN p.map
  <2>1. p.base \in Int /\ p.heap \in Int
    BY <1>3 DEF Space
  <2>2. p.base >= 1 /\ p.heap >= 0 /\ \A x : x \in DOMAIN p.map <=> x \in Int /\ PageUsed(p, x)
    BY <1>3 DEF Layout
  <2>3. 0 < p.base + p.heap
    BY <2>1, <2>2
  <2>4. PageUsed(p, 0)
    BY <2>3 DEF PageUsed
  <2>. QED BY <2>2, <2>4
<1>6. Released(p) = Total(p) \ {p.map[0]} /\ p.map[0] \in Total(p)
  <2>1. \A x, y \in DOMAIN p.map : p.map[x] = p.map[y] => x = y
    BY <1>3 DEF Owns, OneToOne
  <2>2. Freed(p, DOMAIN p.map \ {0}) = FramesOf(p.map) \ {p.map[0]}
    BY <1>5, <2>1 DEF Freed, FramesOf
  <2>3. p.map[0] \in FramesOf(p.map)
    BY <1>5 DEF FramesOf
  <2>4. FramesOf(p.map) \cap FramesOf(p.tables) = {}
    BY <1>3 DEF Owns
  <2>. QED BY <2>2, <2>3, <2>4 DEF Released, Total
<1>7. Total(p) \subseteq Frames
  <2>1. p.map \in PageMap /\ p.tables \in PageMap
    BY <1>3 DEF Space
  <2>2. p.map \in [DOMAIN p.map -> Frames] /\ p.tables \in [DOMAIN p.tables -> Frames]
    BY <2>1, PageMapType
  <2>. QED BY <2>2 DEF Total, FramesOf
<1>8. SpaceSound(i) /\ \A j \in DOMAIN procs : SpaceSound(j)
  BY DEF IInv
<1>9. \A j \in DOMAIN procs' : SpaceSound(j)'
  <2>. SUFFICES ASSUME NEW j \in DOMAIN procs' PROVE SpaceSound(j)'
    OBVIOUS
  <2>1. j \in DOMAIN procs /\ j # i /\ procs'[j] = procs[j] /\ SpaceSound(j)
    BY <1>4, <1>8
  <2>2. UsesOf(procs[j]) \cap Total(p) = {} /\ UsesOf(procs[j]) \cap free = {}
    BY <1>3, <2>1 DEF SpaceSound
  <2>3. UsesOf(procs[j]) \cap free' = {}
    BY <1>6, <2>2
  <2>. QED BY <1>4, <2>1, <2>3 DEF SpaceSound
<1>10. Lost' = Lost \cup {p.map[0]}
  <2>1. \A f : f \in Lost <=> /\ f \in Frames /\ f \notin free
                              /\ \A j \in DOMAIN procs : f \notin UsesOf(procs[j])
    BY UsesFacts
  <2>2. \A f : f \in Lost' <=> /\ f \in Frames /\ f \notin free'
                               /\ \A j \in DOMAIN procs' : f \notin UsesOf(procs'[j])
    BY LostNext
  <2>3. \A j \in DOMAIN procs \ {i} : UsesOf(procs[j]) \cap Total(p) = {}
    BY <1>3, <1>8 DEF SpaceSound
  <2>4. \A f : f \in Lost' <=> /\ f \in Frames /\ f \notin free'
                               /\ \A j \in DOMAIN procs \ {i} : f \notin UsesOf(procs[j])
    BY <1>4, <2>2
  <2>5. ASSUME NEW f PROVE f \in Lost' <=> f \in Lost \/ f = p.map[0]
    <3>1. CASE f = p.map[0]
      BY <1>3, <1>6, <1>7, <2>3, <2>4, <3>1
    <3>2. CASE f # p.map[0]
      <4>1. f \in free' <=> f \in free \/ f \in Total(p)
        BY <1>6, <3>2
      <4>. QED BY <1>3, <2>1, <2>4, <3>2, <4>1
    <3>. QED BY <3>1, <3>2
  <2>. QED BY <2>5
<1>11. FramesAccounted
  <2>1. DOMAIN procs \ DOMAIN procs' = {i}
    BY <1>4
  <2>2. {j \in DOMAIN procs \cap DOMAIN procs' : /\ procs'[j].children = <<>>
                                                /\ procs'[j].map # procs[j].map} = {}
    BY <1>4
  <2>3. {procs[j].map[0] : j \in {i}} = {p.map[0]}
    OBVIOUS
  <2>4. UNION {FramesOf(procs'[j].map) \ free' : j \in {}} = {}
    OBVIOUS
  <2>5. Lost' = Lost \cup {procs[j].map[0] : j \in {i}}
                    \cup UNION {FramesOf(procs'[j].map) \ free' : j \in {}}
    BY <1>10, <2>3, <2>4
  <2>. QED BY <2>1, <2>2, <2>5, Zenon DEF FramesAccounted
<1>12. Typed'
  <2>1. procs' \in [DOMAIN procs' -> Space]
    BY <1>0, <1>4 DEF Typed
  <2>2. free' \subseteq Frames
    BY <1>3, <1>6, <1>7
  <2>. QED BY <1>0, <1>1, <1>4, <2>1, <2>2 DEF Typed
<1>13. ASSUME NEW j \in DOMAIN procs' PROVE KidsSound(j)'
  <2>1. KidsSound(j) /\ j \in DOMAIN procs /\ j # i /\ procs'[j] = procs[j]
    BY <1>4 DEF IInv
  <2>2. procs[j].children \in Seq(Kid)
    BY <1>0, <2>1 DEF Typed, Space
  <2>3. \A l \in DOMAIN procs[j].children : procs[j].children[l] \in Kid
    BY <2>2
  <2>4. \A l \in DOMAIN procs[j].children : /\ procs[j].children[l].tid \in Task
                                            /\ procs[j].children[l].tid # t
    BY <1>1, <2>1, <2>3 DEF Kid, KidsSound
  <2>5. \A l \in DOMAIN procs[j].children : Lives(procs[j].children[l].tid, j)'
    BY <1>1, <2>1, <2>4 DEF KidsSound
  <2>6. \A u \in Task : Lives(u, j)' => \E l \in DOMAIN procs[j].children :
                                            procs[j].children[l].tid = u
    BY <1>1, <2>1 DEF KidsSound
  <2>7. \A l, k \in DOMAIN procs[j].children :
            procs[j].children[l].tid = procs[j].children[k].tid => l = k
    BY <2>1 DEF KidsSound
  <2>8. procs'[j].children = procs[j].children
    BY <2>1
  <2>. QED BY <2>5, <2>6, <2>7, <2>8 DEF KidsSound
<1>14. ASSUME NEW u \in Task PROVE LauncherSound(u)'
  <2>1. CASE u = t
    BY <1>1, <2>1 DEF LauncherSound
  <2>2. CASE u # t
    <3>1. LauncherSound(u) /\ task'[u] = task[u]
      BY <1>1, <2>2 DEF IInv
    <3>2. ASSUME task[u].st = "proc_launcher"
          PROVE  /\ task[u].pid \in DOMAIN procs' /\ Fresh(procs'[task[u].pid])
                 /\ \A w \in Task : task'[w].st = "proc_launcher" /\ w # u
                                        => task'[w].pid # task[u].pid
      <4>1. task[u].pid # i
        BY <1>3, <3>1, <3>2 DEF LauncherSound, Fresh
      <4>2. /\ task[u].pid \in DOMAIN procs /\ Fresh(procs[task[u].pid])
            /\ \A w \in Task : task[w].st = "proc_launcher" /\ w # u
                                  => task[w].pid # task[u].pid
        BY <3>1, <3>2 DEF LauncherSound
      <4>3. task[u].pid \in DOMAIN procs' /\ procs'[task[u].pid] = procs[task[u].pid]
        BY <4>1, <4>2, <1>4
      <4>4. \A w \in Task : task'[w].st = "proc_launcher" => task'[w] = task[w]
        BY <1>1
      <4>. QED BY <4>2, <4>3, <4>4
    <3>3. ASSUME task[u].st = "task_launcher", task[u].pid \in DOMAIN procs'
          PROVE  procs'[task[u].pid].children # <<>>
      BY <1>4, <3>1, <3>3 DEF LauncherSound
    <3>. QED BY <3>1, <3>2, <3>3 DEF LauncherSound
  <2>. QED BY <2>1, <2>2
<1>15. stopped' # "mapped"
  BY DEF IInv
<1>. QED BY <1>9, <1>11, <1>12, <1>13, <1>14, <1>15 DEF IInv

\* What retain leaves of the children, and where they were.
Retained(v, k, w, s) ==
    /\ s \in [DOMAIN w -> DOMAIN v \ {k}] /\ \A j \in DOMAIN w : w[j] = v[s[j]]
    /\ \A j, l \in DOMAIN w : s[j] = s[l] => j = l
    /\ \A l \in DOMAIN v \ {k} : \E j \in DOMAIN w : s[j] = l

LEMMA RemovedRetains ==
    ASSUME NEW S, NEW v \in Seq(S), NEW k \in DOMAIN v
    PROVE  /\ Removed(v, k) \in Seq(S)
           /\ \E s : Retained(v, k, Removed(v, k), s)
<1>. DEFINE a == SubSeq(v, 1, k - 1)
            b == SubSeq(v, k + 1, Len(v))
            w == a \o b
            s == [j \in DOMAIN w |-> IF j < k THEN j ELSE j + 1]
<1>0. Len(v) \in Nat /\ DOMAIN v = 1 .. Len(v) /\ k \in Nat /\ 1 <= k /\ k <= Len(v)
  OBVIOUS
<1>1. a \in Seq(S) /\ Len(a) = k - 1 /\ \A j \in 1 .. (k - 1) : a[j] = v[j]
  BY <1>0
<1>2. b \in Seq(S) /\ Len(b) = Len(v) - k /\ \A j \in 1 .. (Len(v) - k) : b[j] = v[j + k]
  <2>1. \A j \in (k + 1) .. Len(v) : v[j] \in S
    BY <1>0
  <2>2. /\ b \in Seq(S)
        /\ Len(b) = IF k + 1 <= Len(v) THEN Len(v) - (k + 1) + 1 ELSE 0
        /\ \A j \in 1 .. Len(v) - (k + 1) + 1 : b[j] = v[(k + 1) + j - 1]
    BY <1>0, <2>1, SubSeqProperties
  <2>3. Len(v) - (k + 1) + 1 = Len(v) - k /\ \A j \in Int : (k + 1) + j - 1 = j + k
    BY <1>0
  <2>4. ASSUME NEW j \in 1 .. (Len(v) - k) PROVE b[j] = v[j + k]
    <3>1. j \in 1 .. Len(v) - (k + 1) + 1 /\ (k + 1) + j - 1 = j + k
      BY <2>3
    <3>. QED BY <2>2, <3>1
  <2>5. Len(b) = Len(v) - k
    BY <1>0, <2>2
  <2>. QED BY <2>2, <2>4, <2>5
<1>. HIDE DEF a, b
<1>3. w \in Seq(S) /\ Len(w) = Len(v) - 1 /\ DOMAIN w = 1 .. (Len(v) - 1)
  <2>1. w \in Seq(S) /\ Len(w) = Len(a) + Len(b)
    BY <1>1, <1>2, ConcatProperties
  <2>2. Len(w) = Len(v) - 1
    BY <1>0, <1>1, <1>2, <2>1
  <2>. HIDE DEF w
  <2>. QED BY <2>1, <2>2
<1>a. ASSUME NEW j \in 1 .. (Len(v) - 1)
      PROVE  w[j] = IF j < k THEN v[j] ELSE v[j + 1]
  <2>0. j \in 1 .. (Len(a) + Len(b)) /\ Len(a) = k - 1
    BY <1>0, <1>1, <1>2
  <2>1. w[j] = IF j <= Len(a) THEN a[j] ELSE b[j - Len(a)]
    BY <1>1, <1>2, <2>0, ConcatProperties
  <2>2. w[j] = IF j < k THEN a[j] ELSE b[j - (k - 1)]
    BY <1>0, <2>0, <2>1
  <2>. HIDE DEF w
  <2>3. CASE j < k
    BY <1>0, <1>1, <2>2, <2>3
  <2>4. CASE ~(j < k)
    <3>1. j - (k - 1) \in 1 .. (Len(v) - k) /\ (j - (k - 1)) + k = j + 1
      BY <1>0, <2>4
    <3>. QED BY <1>2, <2>2, <2>4, <3>1
  <2>. QED BY <2>3, <2>4
<1>. HIDE DEF w
<1>8. /\ \A j \in DOMAIN w : s[j] = IF j < k THEN j ELSE j + 1
      /\ s \in [DOMAIN w -> DOMAIN v \ {k}]
  BY <1>0, <1>3
<1>6. ASSUME NEW l \in DOMAIN v \ {k} PROVE \E j \in DOMAIN w : s[j] = l
  <2>. DEFINE j == IF l < k THEN l ELSE l - 1
  <2>1. j \in DOMAIN w /\ s[j] = l
    BY <1>0, <1>3
  <2>. QED BY <2>1
<1>. HIDE DEF s
<1>5. \A j, l \in DOMAIN w : s[j] = s[l] => j = l
  BY <1>0, <1>3, <1>8
<1>4. \A j \in DOMAIN w : w[j] = v[s[j]]
  BY <1>3, <1>8, <1>a
<1>7. w = Removed(v, k)
  BY DEF Removed, a, b, w
<1>9. Retained(v, k, w, s)
  BY <1>4, <1>5, <1>6, <1>8 DEF Retained
<1>. QED BY <1>3, <1>7, <1>9

LEMMA ApartBounds ==
    ASSUME NEW b \in Int, NEW d \in Int, NEW h \in Int, NEW m \in Int, NEW x \in Int,
           b + m <= d, h <= m, d - h <= x, x < b
    PROVE  FALSE
  OBVIOUS

LEMMA ApartCovers ==
    ASSUME NEW c, NEW e, c.base \in Int, c.pages \in Int, e.base \in Int, e.pages \in Int,
           c.pages <= MaxPages, e.pages <= MaxPages, Apart(c, e),
           NEW x \in Int, Covers(c, x), Covers(e, x)
    PROVE  FALSE
<1>0. MaxPages \in Int
  BY ProcessFacts
<1>1. c.base - c.pages <= x /\ x < c.base /\ e.base - e.pages <= x /\ x < e.base
  BY DEF Covers
<1>2. CASE c.base + MaxPages <= e.base
  BY <1>0, <1>1, <1>2, ApartBounds, Zenon
<1>3. CASE e.base + MaxPages <= c.base
  BY <1>0, <1>1, <1>3, ApartBounds, Zenon
<1>. QED BY <1>2, <1>3 DEF Apart

\* Without one of its stacks the layout is as sound.
LEMMA StackGoes ==
    ASSUME NEW p \in Space, Layout(p), NEW k \in DOMAIN p.children,
           NEW c, c = p.children[k], NEW w, NEW s, Retained(p.children, k, w, s),
           NEW q, q.children = w, q.top = p.top, q.base = p.base, q.heap = p.heap,
           DOMAIN q.map = DOMAIN p.map \ ((c.base - c.pages) .. (c.base - 1))
    PROVE  Layout(q)
<1>. DEFINE kids == p.children
<1>1. p.top \in Int /\ p.base \in Int /\ p.heap \in Int
  BY DEF Space
<1>2. StackAbove(p, c) /\ c.base \in Int /\ c.pages \in Int /\ c.pages <= MaxPages
  BY StacksAbove DEF StackAbove
<1>3. p.base >= 1 /\ p.heap >= 0 /\ p.base + p.heap < p.top
      /\ (\A x : x \in DOMAIN p.map <=> x \in Int /\ PageUsed(p, x))
      /\ \A j \in DOMAIN kids : ChildSound(p, j)
  BY DEF Layout
<1>4. /\ s \in [DOMAIN w -> DOMAIN kids \ {k}] /\ \A j \in DOMAIN w : w[j] = kids[s[j]]
      /\ \A j, l \in DOMAIN w : s[j] = s[l] => j = l
      /\ \A l \in DOMAIN kids \ {k} : \E j \in DOMAIN w : s[j] = l
  BY DEF Retained
<1>5. ASSUME NEW x PROVE x \in (c.base - c.pages) .. (c.base - 1) <=> x \in Int /\ Covers(c, x)
  BY <1>2 DEF Covers
<1>6. ASSUME NEW x PROVE x \in DOMAIN q.map <=> x \in Int /\ PageUsed(q, x)
  <2>1. ASSUME NEW l \in DOMAIN kids \ {k}, x \in Int, Covers(kids[l], x)
        PROVE  ~Covers(c, x)
    <3>1. StackAbove(p, kids[l])
      BY StacksAbove
    <3>2. kids[l].base \in Int /\ kids[l].pages \in Int /\ kids[l].pages <= MaxPages
      BY <3>1 DEF StackAbove
    <3>3. Apart(c, kids[l])
      BY <1>3 DEF ChildSound
    <3>. QED BY <1>2, <2>1, <3>2, <3>3, ApartCovers
  <2>2. x \in Int /\ Covers(c, x) => ~(x < p.base + p.heap)
    <3>. SUFFICES ASSUME x \in Int, Covers(c, x) PROVE ~(x < p.base + p.heap)
      OBVIOUS
    <3>1. p.top <= x
      BY <1>2, CoversAbove
    <3>. QED BY <1>1, <1>3, <3>1
  <2>3. (\E j \in DOMAIN w : Covers(w[j], x))
            <=> \E l \in DOMAIN kids \ {k} : Covers(kids[l], x)
    BY <1>4
  <2>4. PageUsed(q, x) <=> \/ 0 <= x /\ x < p.base + p.heap
                           \/ \E l \in DOMAIN kids \ {k} : Covers(kids[l], x)
    BY <2>3 DEF PageUsed
  <2>5. PageUsed(p, x) <=> \/ 0 <= x /\ x < p.base + p.heap
                           \/ \E l \in DOMAIN kids \ {k} : Covers(kids[l], x)
                           \/ Covers(c, x)
    BY DEF PageUsed
  <2>6. x \in DOMAIN q.map <=> x \in Int /\ PageUsed(p, x) /\ ~Covers(c, x)
    BY <1>3, <1>5
  <2>. QED BY <2>1, <2>2, <2>4, <2>5, <2>6
<1>7. ASSUME NEW j \in DOMAIN w PROVE ChildSound(q, j)
  <2>1. s[j] \in DOMAIN kids /\ w[j] = kids[s[j]] /\ ChildSound(p, s[j])
    BY <1>3, <1>4
  <2>2. \A l \in DOMAIN w : l # j => Apart(w[j], w[l])
    BY <1>4, <2>1 DEF ChildSound
  <2>. QED BY <2>1, <2>2 DEF ChildSound
<1>8. q.base >= 1 /\ q.heap >= 0 /\ q.base + q.heap < q.top
  BY <1>3
<1>. QED BY <1>6, <1>7, <1>8 DEF Layout

\* Another task's stack is given back.
Shed(p, k, stack) == [Unmap(p, stack) EXCEPT !.children = Removed(p.children, k)]

Unstacked(p, t, q, g) ==
    /\ q \in Space /\ q.children # <<>> /\ Owns(q) /\ Layout(q)
    /\ Total(q) \cup g = Total(p) /\ Total(q) \cap g = {} /\ g \subseteq Frames
    /\ \E s : Retained(p.children, Child(p, t), q.children, s)

LEMMA Unstacks ==
    ASSUME NEW p \in Space, NEW t, Owns(p), Layout(p), NEW k, k = Child(p, t),
           k \in DOMAIN p.children, k # 1, NEW stack,
           stack = (p.children[k].base - p.children[k].pages) .. (p.children[k].base - 1)
    PROVE  Unstacked(p, t, Shed(p, k, stack), Freed(p, stack))
<1>. DEFINE u == Unmap(p, stack)
            w == Removed(p.children, k)
            q == Shed(p, k, stack)
            g == Freed(p, stack)
<1>1. p.children \in Seq(Kid) /\ p.map \in PageMap
  BY DEF Space
<1>2. w \in Seq(Kid) /\ \E s : Retained(p.children, k, w, s)
  BY <1>1, RemovedRetains
<1>3. UnmapDone(p, stack, u)
  BY Unmaps
<1>4. g \subseteq Frames
  <2>1. p.map \in [DOMAIN p.map -> Frames]
    BY <1>1, PageMapType
  <2>. QED BY <2>1 DEF Freed
<1>4a. q = [u EXCEPT !.children = w]
  BY DEF Shed
<1>. HIDE DEF u, w, q
<1>5. /\ u \in Space /\ Owns(u) /\ u.top = p.top /\ u.base = p.base /\ u.heap = p.heap
      /\ DOMAIN u.map = DOMAIN p.map \ stack
      /\ Total(u) \cup g = Total(p) /\ Total(u) \cap g = {}
  BY <1>3, Zenon DEF UnmapDone
<1>6. /\ q \in Space /\ q.children = w /\ q.top = u.top /\ q.base = u.base
      /\ q.heap = u.heap /\ q.map = u.map /\ q.tables = u.tables
  BY <1>2, <1>4a, <1>5 DEF Space
<1>. HIDE DEF g
<1>7. Owns(q) /\ Total(q) = Total(u)
  BY <1>5, <1>6, Zenon DEF Owns, Total
<1>8. w # <<>>
  <2>1. PICK s : Retained(p.children, k, w, s)
    BY <1>2
  <2>2. 1 \in DOMAIN p.children \ {k}
    BY <1>1
  <2>3. \E j \in DOMAIN w : s[j] = 1
    BY <2>1, <2>2, Zenon DEF Retained
  <2>. QED BY <2>3, EmptyMap, Zenon
<1>9. Layout(q)
  <2>1. PICK s : Retained(p.children, k, w, s)
    BY <1>2
  <2>2. /\ q.children = w /\ q.top = p.top /\ q.base = p.base /\ q.heap = p.heap
        /\ DOMAIN q.map = DOMAIN p.map
             \ ((p.children[k].base - p.children[k].pages) .. (p.children[k].base - 1))
    BY <1>5, <1>6, Zenon
  <2>. QED BY <2>1, <2>2, StackGoes, Zenon
<1>10. Unstacked(p, t, q, g)
  BY <1>2, <1>4, <1>5, <1>6, <1>7, <1>8, <1>9, Zenon DEF Unstacked
<1>. QED BY <1>10 DEF q, u, w, g

LEMMA ChildDroppedStep ==
    ASSUME IInv, NEW t \in Task, NEW i \in DOMAIN procs, i = task[t].pid,
           task[t].st = "dead", Becomes(t, "gone", i), UNCHANGED <<next_pid, stopped>>,
           NEW q, Put(i, q), NEW g, Unstacked(procs[i], t, q, g), free' = free \cup g
    PROVE  IInv' /\ FramesAccounted
<1>. SUFFICES ASSUME NEW p, p = procs[i], NEW k, k = Child(p, t),
                     NEW left, left = free \cup g
              PROVE  IInv' /\ FramesAccounted
  OBVIOUS
<1>0. Typed
  BY DEF IInv
<1>1. /\ task' \in [Task -> [st : States, pid : 0 .. (next_pid - 1)]]
      /\ \A j : Lives(t, j) <=> j = i
      /\ \A j : ~Lives(t, j)'
      /\ \A u \in Task : u # t => task'[u] = task[u]
      /\ \A u \in Task, j \in DOMAIN procs : u # t => (Lives(u, j)' <=> Lives(u, j))
      /\ task'[t].st = "gone"
  BY GoneFacts
<1>2. Hosts(i, t)
  BY <1>1, LivesIn
<1>3. /\ p.children # <<>> /\ UsesOf(p) = Total(p) /\ Total(p) \cap free = {}
      /\ free \subseteq Frames /\ k \in DOMAIN p.children /\ p.children[k].tid = t
  BY <1>2 DEF Hosts
<1>4. /\ q \in Space /\ q.children # <<>> /\ Owns(q) /\ Layout(q)
      /\ Total(q) \cup g = Total(p) /\ Total(q) \cap g = {} /\ g \subseteq Frames
      /\ \E s : Retained(p.children, k, q.children, s)
  BY DEF Unstacked
<1>5. left \subseteq Frames /\ free' = left
  BY <1>3, <1>4
<1>6. Exchange(i, q, left, {})
  <2>1. UsesOf(q) = Total(q) /\ OneToOne(q.tables)
    BY <1>4 DEF UsesOf, Total, Owns
  <2>2. UsesOf(q) \cup left \cup {} = UsesOf(p) \cup free
    BY <1>3, <1>4, <2>1
  <2>3. UsesOf(q) \cap left = {}
    BY <1>3, <1>4, <2>1
  <2>. QED BY <1>4, <1>5, <2>1, <2>2, <2>3 DEF Exchange
<1>7. (\A j \in DOMAIN procs' : SpaceSound(j)') /\ Lost' = Lost
  <2>1. Exchanged({})
    BY <1>5, <1>6, ExchangeStep
  <2>. QED BY <2>1 DEF Exchanged
<1>8. FramesAccounted
  BY <1>4, <1>7, RunningAccounted
<1>9. /\ DOMAIN procs' = DOMAIN procs /\ procs'[i] = q
      /\ \A j \in DOMAIN procs \ {i} : procs'[j] = procs[j]
      /\ procs' = [j \in DOMAIN procs |-> procs'[j]]
  <2>1. PutDone(i, q) /\ DOMAIN procs \cup {i} = DOMAIN procs
    BY PutFacts
  <2>. QED BY <2>1 DEF PutDone
<1>10. Typed'
  <2>1. procs' \in [DOMAIN procs' -> Space]
    BY <1>0, <1>4, <1>9 DEF Typed
  <2>. QED BY <1>0, <1>1, <1>5, <1>9, <2>1 DEF Typed
<1>11. ASSUME NEW j \in DOMAIN procs' PROVE KidsSound(j)'
  <2>. SUFFICES ASSUME NEW v, v = procs[j].children, NEW n, n = procs'[j].children
                PROVE  KidsSound(j)'
    OBVIOUS
  <2>0. j \in DOMAIN procs
    BY <1>9
  <2>1. /\ \A l \in DOMAIN v : Lives(v[l].tid, j)
        /\ \A u \in Task : Lives(u, j) => \E l \in DOMAIN v : v[l].tid = u
        /\ \A l, m \in DOMAIN v : v[l].tid = v[m].tid => l = m
    BY <2>0 DEF IInv, KidsSound
  <2>2. \A l \in DOMAIN v : v[l].tid \in Task
    <3>1. v \in Seq(Kid)
      BY <1>0, <2>0 DEF Typed, Space
    <3>2. \A l \in DOMAIN v : v[l] \in Kid
      BY <3>1
    <3>. QED BY <3>2 DEF Kid
  <2>3. CASE j = i
    <3>0. PICK s : Retained(p.children, k, q.children, s)
      BY <1>4
    <3>1. v = p.children /\ n = q.children
      BY <1>9, <2>3
    <3>2. /\ \A l \in DOMAIN n : s[l] \in DOMAIN v \ {k} /\ n[l] = v[s[l]]
          /\ \A l, m \in DOMAIN n : s[l] = s[m] => l = m
          /\ \A l \in DOMAIN v \ {k} : \E m \in DOMAIN n : s[m] = l
      BY <3>0, <3>1 DEF Retained
    <3>3. k \in DOMAIN v /\ v[k].tid = t
      BY <1>3, <3>1
    <3>4. \A l \in DOMAIN n : n[l].tid \in Task /\ n[l].tid # t /\ Lives(n[l].tid, j)
      BY <2>1, <2>2, <3>2, <3>3
    <3>5. \A l \in DOMAIN n : Lives(n[l].tid, j)'
      BY <1>1, <2>0, <3>4
    <3>6. \A u \in Task : Lives(u, j)' => \E l \in DOMAIN n : n[l].tid = u
      <4>. SUFFICES ASSUME NEW u \in Task, Lives(u, j)' PROVE \E l \in DOMAIN n : n[l].tid = u
        OBVIOUS
      <4>1. u # t /\ Lives(u, j)
        BY <1>1, <2>0
      <4>2. PICK l \in DOMAIN v : v[l].tid = u
        BY <2>1, <4>1
      <4>3. l # k
        BY <3>3, <4>1, <4>2
      <4>. QED BY <3>2, <4>2, <4>3
    <3>7. \A l, m \in DOMAIN n : n[l].tid = n[m].tid => l = m
      BY <2>1, <3>2
    <3>. QED BY <3>5, <3>6, <3>7 DEF KidsSound
  <2>4. CASE j # i
    <3>1. n = v
      BY <1>9, <2>0, <2>4
    <3>2. \A l \in DOMAIN v : v[l].tid # t
      BY <1>1, <2>1, <2>4
    <3>3. \A l \in DOMAIN n : Lives(n[l].tid, j)'
      BY <1>1, <2>0, <2>1, <2>2, <3>1, <3>2
    <3>4. \A u \in Task : Lives(u, j)' => \E l \in DOMAIN n : n[l].tid = u
      BY <1>1, <2>0, <2>1, <3>1
    <3>5. \A l, m \in DOMAIN n : n[l].tid = n[m].tid => l = m
      BY <2>1, <3>1
    <3>. QED BY <3>3, <3>4, <3>5 DEF KidsSound
  <2>. QED BY <2>3, <2>4
<1>12. ASSUME NEW u \in Task PROVE LauncherSound(u)'
  <2>1. CASE u = t
    BY <1>1, <2>1 DEF LauncherSound
  <2>2. CASE u # t
    <3>1. LauncherSound(u) /\ task'[u] = task[u]
      BY <1>1, <2>2 DEF IInv
    <3>2. ASSUME task[u].st = "proc_launcher"
          PROVE  /\ task[u].pid \in DOMAIN procs' /\ Fresh(procs'[task[u].pid])
                 /\ \A z \in Task : task'[z].st = "proc_launcher" /\ z # u
                                        => task'[z].pid # task[u].pid
      <4>1. task[u].pid # i
        BY <1>3, <3>1, <3>2 DEF LauncherSound, Fresh
      <4>. QED BY <1>1, <1>9, <3>1, <3>2, <4>1 DEF LauncherSound
    <3>3. ASSUME task[u].st = "task_launcher", task[u].pid \in DOMAIN procs'
          PROVE  procs'[task[u].pid].children # <<>>
      BY <1>4, <1>9, <3>1, <3>3 DEF LauncherSound
    <3>. QED BY <3>1, <3>2, <3>3 DEF LauncherSound
  <2>. QED BY <2>1, <2>2
<1>13. stopped' # "mapped"
  BY DEF IInv
<1>. QED BY <1>7, <1>8, <1>10, <1>11, <1>12, <1>13 DEF IInv

LEMMA TaskDroppedStep ==
    ASSUME IInv, NEW t \in Task, TaskDropped(t) PROVE IInv' /\ FramesAccounted
<1>. SUFFICES ASSUME NEW i, i = task[t].pid, NEW p, p = procs[i]
              PROVE  IInv' /\ FramesAccounted
  OBVIOUS
<1>. DEFINE k == Child(p, t)
            c == p.children[k]
            stack == (c.base - c.pages) .. (c.base - 1)
            q == Shed(p, k, stack)
<1>0. /\ Typed /\ task[t].st = "dead" /\ Becomes(t, "gone", i)
      /\ UNCHANGED <<next_pid, stopped>>
      /\ IF i \notin DOMAIN procs THEN UNCHANGED <<procs, free>>
         ELSE IF p.children[1].tid = t
         THEN procs' = Without(procs, {i}) /\ free' = free \cup Released(p)
         ELSE Put(i, [Unmap(p, stack) EXCEPT !.children = Removed(@, Child(p, t))])
              /\ free' = free \cup Freed(p, stack)
  BY Zenon DEF TaskDropped, Mine, IInv
<1>1. CASE i \notin DOMAIN procs
  <2>1. UNCHANGED <<procs, next_pid, free, stopped>>
    BY <1>0, <1>1
  <2>2. \A j \in DOMAIN procs : Lives(t, j)' <=> Lives(t, j)
    <3>1. \A j : ~Lives(t, j)'
      BY <1>0, GoneFacts DEF IInv
    <3>. QED BY <1>1, <3>1 DEF Lives
  <2>3. "gone" \in States /\ i \in 0 .. (next_pid - 1)
    BY <1>0 DEF Typed, States
  <2>. QED BY <1>0, <2>1, <2>2, <2>3, TaskStep
<1>2. CASE i \in DOMAIN procs /\ p.children[1].tid = t
  BY <1>0, <1>2, MainDroppedStep
<1>3. CASE i \in DOMAIN procs /\ p.children[1].tid # t
  <2>1. Put(i, q) /\ free' = free \cup Freed(p, stack)
    <3>. DEFINE v == [Unmap(p, stack) EXCEPT !.children = Removed(@, Child(p, t))]
    <3>1. v = q
      BY DEF Unmap, Shed
    <3>. HIDE DEF v, q
    <3>2. Put(i, v) /\ free' = free \cup Freed(p, stack)
      BY <1>0, <1>3, Zenon DEF v
    <3>. QED BY <3>1, <3>2, Zenon
  <2>2. Lives(t, i)
    <3>1. i = task[t].pid /\ task[t].st = "dead"
      BY <1>0
    <3>. QED BY <3>1 DEF Lives
  <2>3. Hosts(i, t)
    BY <1>3, <2>2, LivesIn
  <2>4. /\ p \in Space /\ Owns(p) /\ Layout(p) /\ k \in DOMAIN p.children
        /\ p.children[k].tid = t
    BY <2>3, Zenon DEF Hosts
  <2>5. k # 1
    BY <1>3, <2>4, Zenon
  <2>6. Unstacked(p, t, q, Freed(p, stack))
    BY <2>4, <2>5, Unstacks, Zenon
  <2>. HIDE DEF q, stack
  <2>. QED BY <1>0, <1>3, <2>1, <2>6, ChildDroppedStep
<1>. QED BY <1>1, <1>2, <1>3

-----------------------------------------------------------------------------
(* The inductive invariant                                                 *)

LEMMA InitIInv == ASSUME Init PROVE IInv
<1>1. DOMAIN procs = {} /\ next_pid = 1 /\ free = Frames /\ stopped = "no"
      /\ task = [t \in Task |-> [st |-> "unborn", pid |-> 0]]
  BY EmptyMap DEF Init
<1>2. Typed
  <2>1. "unborn" \in States /\ 0 \in 0 .. (1 - 1)
    BY DEF States
  <2>2. task \in [Task -> [st : States, pid : 0 .. (next_pid - 1)]]
    BY <1>1, <2>1
  <2>3. procs = [j \in DOMAIN procs |-> procs[j]] /\ \A j \in DOMAIN procs : procs[j] \in Space
    BY <1>1, EmptyMap DEF Init
  <2>4. procs \in [DOMAIN procs -> Space]
    BY <2>3
  <2>. QED BY <1>1, <2>2, <2>4 DEF Typed
<1>3. \A t \in Task : LauncherSound(t)
  BY <1>1 DEF LauncherSound
<1>. QED BY <1>1, <1>2, <1>3 DEF IInv

\* Every step keeps the invariant and accounts for every frame.
LEMMA NextStep == ASSUME IInv, Next PROVE IInv' /\ FramesAccounted
<1>1. CASE Spawn
  BY <1>1, SpawnStep
<1>2. ASSUME NEW t \in Task, \E n \in Images, ok \in BOOLEAN : LaunchElf(t, n, ok)
      PROVE  IInv' /\ FramesAccounted
  BY <1>2, LaunchElfStep
<1>3. ASSUME NEW t \in Task, \E u \in Task : SpawnTask(t, u) PROVE IInv' /\ FramesAccounted
  BY <1>3, SpawnTaskStep
<1>4. ASSUME NEW t \in Task, MoveToProcess(t) PROVE IInv' /\ FramesAccounted
  BY <1>4, MoveToProcessStep
<1>5. ASSUME NEW t \in Task, \E d \in Deltas : ResizeHeap(t, d) PROVE IInv' /\ FramesAccounted
  BY <1>5, ResizeHeapStep
<1>6. ASSUME NEW t \in Task, \E x \in 0 .. (Top - 1) : PageFault(t, x)
      PROVE  IInv' /\ FramesAccounted
  BY <1>6, PageFaultStep
<1>7. ASSUME NEW t \in Task, Exit(t) PROVE IInv' /\ FramesAccounted
  BY <1>7, ExitStep DEF Exit
<1>8. ASSUME NEW t \in Task, TaskDropped(t) PROVE IInv' /\ FramesAccounted
  BY <1>8, TaskDroppedStep
<1>. QED BY <1>1, <1>2, <1>3, <1>4, <1>5, <1>6, <1>7, <1>8 DEF Next

\* The table, the scheduler's tasks and the allocator agree in every state that
\* is reached: typed, every process with sound children and a sound space.
THEOREM Invariance == Spec => []IInv
<1>1. Init => IInv
  BY InitIInv
<1>2. IInv /\ [Next]_vars => IInv'
  BY NextStep, StutterStep
<1>. QED BY <1>1, <1>2, PTL DEF Spec

\* No call of a process that lives loses a frame, nor does a new process or a
\* dropped task, for any sizes and any number of processes and tasks.
THEOREM MemoryIsConserved == Spec => FramesConserved
<1>1. FramesAccounted =>
          ((/\ DOMAIN procs \subseteq DOMAIN procs'
            /\ \A i \in DOMAIN procs : ~FailedLaunch(i)) => Lost' = Lost)
  BY DEF FramesAccounted, FailedLaunch
<1>2. IInv /\ [Next]_vars =>
          [(/\ DOMAIN procs \subseteq DOMAIN procs'
            /\ \A i \in DOMAIN procs : ~FailedLaunch(i)) => Lost' = Lost]_vars
  BY <1>1, NextStep
<1>. QED BY <1>2, Invariance, PTL DEF Spec, FramesConserved

-----------------------------------------------------------------------------
(* Layout and memory                                                       *)

LEMMA LayoutFollows == ASSUME IInv PROVE LayoutSound
<1>1. ASSUME NEW i \in DOMAIN procs
      PROVE  /\ {c.tid : c \in Kids(procs[i])} =
                    {t \in Task : task[t].pid = i /\ task[t].st \in {User, "dead"}}
             /\ Cardinality(Kids(procs[i])) = Len(procs[i].children)
  <2>. SUFFICES ASSUME NEW v, v = procs[i].children, NEW K, K = Kids(procs[i])
                PROVE  /\ {c.tid : c \in K} =
                            {t \in Task : task[t].pid = i /\ task[t].st \in {User, "dead"}}
                       /\ Cardinality(K) = Len(v)
    BY Zenon
  <2>1. procs[i] \in Space /\ KidsSound(i)
    BY DEF IInv, Typed
  <2>2. v \in Seq(Kid)
    BY <2>1 DEF Space
  <2>3. K = {v[j] : j \in DOMAIN v} /\ \A j \in DOMAIN v : v[j].tid \in Task
    <3>1. \A j \in DOMAIN v : v[j] \in Kid
      BY <2>2
    <3>. QED BY <3>1 DEF Kids, Kid
  <2>4. /\ \A j \in DOMAIN v : Lives(v[j].tid, i)
        /\ \A t \in Task : Lives(t, i) => \E j \in DOMAIN v : v[j].tid = t
        /\ \A j, k \in DOMAIN v : v[j].tid = v[k].tid => j = k
    BY <2>1 DEF KidsSound
  <2>5. {c.tid : c \in K} = {t \in Task : Lives(t, i)}
    BY <2>3, <2>4
  <2>6. Len(v) \in Nat /\ v \in [1 .. Len(v) -> K] /\ DOMAIN v = 1 .. Len(v)
    BY <2>2, <2>3
  <2>7. v \in Bijection(1 .. Len(v), K)
    <3>1. \A j, k \in 1 .. Len(v) : v[j] = v[k] => j = k
      BY <2>4, <2>6
    <3>2. \A c \in K : \E j \in 1 .. Len(v) : v[j] = c
      BY <2>3, <2>6
    <3>. QED BY <2>6, <3>1, <3>2, Zenon DEF Bijection, Injection, Surjection, IsInjective
  <2>8. IsFiniteSet(1 .. Len(v)) /\ Cardinality(1 .. Len(v)) = Len(v)
    BY <2>6, FS_Interval
  <2>9. Cardinality(K) = Len(v)
    BY <2>7, <2>8, FS_Bijection DEF ExistsBijection
  <2>. QED BY <2>5, <2>9 DEF Lives
<1>2. ASSUME NEW i \in Launched
      PROVE  LET p == procs[i] IN
             /\ DOMAIN p.map = 0 .. (p.base + p.heap - 1)
                               \cup UNION {Stack(c) : c \in Kids(p)}
             /\ p.base + p.heap < p.top
             /\ \A c \in Kids(p) :
                 /\ c.pages <= MaxPages /\ p.top + MaxPages <= c.base
                 /\ \A e \in Kids(p) \ {c} :
                     c.base + MaxPages <= e.base \/ e.base + MaxPages <= c.base
  <2>. SUFFICES ASSUME NEW p, p = procs[i]
                PROVE  /\ DOMAIN p.map = 0 .. (p.base + p.heap - 1)
                                         \cup UNION {Stack(c) : c \in Kids(p)}
                       /\ p.base + p.heap < p.top
                       /\ \A c \in Kids(p) :
                           /\ c.pages <= MaxPages /\ p.top + MaxPages <= c.base
                           /\ \A e \in Kids(p) \ {c} : Apart(c, e)
    BY Zenon DEF Apart
  <2>1. p \in Space /\ p.children # <<>> /\ Layout(p)
    BY DEF Launched, IInv, Typed, SpaceSound
  <2>2. p.base \in Int /\ p.heap \in Int /\ p.children \in Seq(Kid)
    BY <2>1 DEF Space
  <2>3. /\ p.base + p.heap < p.top
        /\ \A x : x \in DOMAIN p.map <=> x \in Int /\ PageUsed(p, x)
        /\ \A j \in DOMAIN p.children : ChildSound(p, j)
    BY <2>1 DEF Layout
  <2>4. \A c : c \in Kids(p) <=> \E j \in DOMAIN p.children : c = p.children[j]
    BY DEF Kids
  <2>5. \A c \in Kids(p) : c.base \in Int /\ c.pages \in Int
    BY <2>1, <2>4, StacksAbove DEF StackAbove
  <2>6. \A c \in Kids(p) : \A x : x \in Stack(c) <=> x \in Int /\ Covers(c, x)
    BY <2>5 DEF Stack, Covers
  <2>7. ASSUME NEW x
        PROVE  x \in DOMAIN p.map
                <=> x \in 0 .. (p.base + p.heap - 1) \cup UNION {Stack(c) : c \in Kids(p)}
    <3>1. x \in 0 .. (p.base + p.heap - 1) <=> x \in Int /\ 0 <= x /\ x < p.base + p.heap
      BY <2>2
    <3>2. x \in UNION {Stack(c) : c \in Kids(p)}
            <=> x \in Int /\ \E j \in DOMAIN p.children : Covers(p.children[j], x)
      BY <2>4, <2>6
    <3>. QED BY <2>3, <3>1, <3>2 DEF PageUsed
  <2>8. \A c \in Kids(p) :
            /\ c.pages <= MaxPages /\ p.top + MaxPages <= c.base
            /\ \A e \in Kids(p) \ {c} : Apart(c, e)
    BY <2>3, <2>4 DEF ChildSound
  <2>. QED BY <2>3, <2>7, <2>8
<1>3. stopped # "mapped"
  BY DEF IInv
<1>. QED BY <1>1, <1>2, <1>3 DEF LayoutSound, KidsAreTasks

LEMMA MemoryFollows == ASSUME IInv PROVE OwnMemory
<1>1. ASSUME NEW f \in PageMap, OneToOne(f)
      PROVE  Cardinality(FramesOf(f)) = Cardinality(DOMAIN f)
  <2>1. f \in [DOMAIN f -> Frames]
    BY <1>1, PageMapType
  <2>2. f \in [DOMAIN f -> FramesOf(f)] /\ FramesOf(f) \subseteq Frames
    BY <2>1 DEF FramesOf
  <2>3. f \in Bijection(DOMAIN f, FramesOf(f))
    BY <1>1, <2>2 DEF Bijection, Injection, Surjection, IsInjective, OneToOne, FramesOf
  <2>4. IsFiniteSet(FramesOf(f))
    BY <2>2, ProcessFacts, FS_Subset
  <2>. QED BY <2>3, <2>4, SameSize
<1>2. \A i \in DOMAIN procs : Uses(i) = UsesOf(procs[i])
  BY UsesFacts
<1>3. ASSUME NEW i \in DOMAIN procs
      PROVE  /\ Uses(i) \cap free = {}
             /\ \A j \in DOMAIN procs \ {i} : Uses(i) \cap Uses(j) = {}
  BY <1>2 DEF IInv, SpaceSound
<1>4. ASSUME NEW i \in DOMAIN procs
      PROVE  LET p == procs[i] IN
             /\ Cardinality(FramesOf(p.tables)) = Cardinality(DOMAIN p.tables)
             /\ i \in Launched =>
                 /\ Cardinality(FramesOf(p.map)) = Cardinality(DOMAIN p.map)
                 /\ FramesOf(p.map) \cap FramesOf(p.tables) = {}
  <2>. SUFFICES ASSUME NEW p, p = procs[i]
                PROVE  /\ Cardinality(FramesOf(p.tables)) = Cardinality(DOMAIN p.tables)
                       /\ i \in Launched =>
                           /\ Cardinality(FramesOf(p.map)) = Cardinality(DOMAIN p.map)
                           /\ FramesOf(p.map) \cap FramesOf(p.tables) = {}
    BY Zenon
  <2>1. p \in Space /\ OneToOne(p.tables) /\ (p.children # <<>> => Owns(p))
    BY DEF IInv, Typed, SpaceSound
  <2>2. p.map \in PageMap /\ p.tables \in PageMap
    BY <2>1 DEF Space
  <2>3. i \in Launched => Owns(p)
    BY <2>1 DEF Launched
  <2>. QED BY <1>1, <2>1, <2>2, <2>3 DEF Owns
<1>. QED BY <1>3, <1>4 DEF OwnMemory

\* In every launched process exactly the image, the heap and the stacks are
\* mapped, they never meet, and the children are the scheduler's tasks: the
\* layout of virt.rs:69-83, through every growth, refusal, exit and drop.
THEOREM LayoutHolds == Spec => []LayoutSound
<1>1. IInv => LayoutSound
  BY LayoutFollows
<1>. QED BY <1>1, Invariance, PTL

\* No frame is mapped twice, shared by two processes, page and table at once,
\* or granted while a process uses it.
THEOREM MemoryIsOwn == Spec => []OwnMemory
<1>1. IInv => OwnMemory
  BY MemoryFollows
<1>. QED BY <1>1, Invariance, PTL

=============================================================================
