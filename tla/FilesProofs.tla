---------------------------- MODULE FilesProofs ----------------------------
(***************************************************************************)
(* Proofs about open files, for any number of processes, tasks, files and  *)
(* windows: the shared count of a File is the number of its instances, the *)
(* drivers hold exactly what is open, and every block of window memory is  *)
(* free or belongs to one window.                                          *)
(***************************************************************************)
EXTENDS Files, FiniteSetTheorems, SequenceTheorems, TLAPS

FileType == [dev : {"fat", "gui"}, hnd : Nat, count : Nat]

Typed ==
    /\ DOMAIN procs \subseteq Pid /\ procs \in [DOMAIN procs -> Seq(Nat)]
    /\ file \in Seq(FileType)
    /\ open_files \subseteq Nat /\ next_fat \in Nat \ {0}
    /\ DOMAIN wins \subseteq Nat /\ wins \in [DOMAIN wins -> Blocks]
    /\ next_whnd \in Nat /\ next_whnd >= HND_WINDOW0
    /\ free \subseteq Blocks
    /\ dmap \in [Pid -> SUBSET Blocks]
    /\ wlock \in Actor \cup {None}
    /\ DOMAIN pc = Actor

\* What an actor has in its hands at each place.
Known(l, files) == l \in Seq(Nat) /\ \A i \in DOMAIN l : l[i] \in files
Reserves == {"win_lock", "win_map"}
Drops    == {"dropping", "closing", "drawing"}
ActorSound(a) ==
    LET at == pc[a].at
        l  == pc[a].todo
    IN
    /\ at \in {"idle", "dead", "fat_open", "opened", "using"} \cup Reserves \cup Drops
    /\ at \in {"idle", "dead", "fat_open"} => l = <<>>
    /\ at = "win_lock" => l = <<l[1]>>
    /\ at = "win_map"  => l = <<l[1], l[2]>> /\ wlock = a
    /\ at \in {"opened", "using"} => Known(l, DOMAIN file) /\ Len(l) = 1
    /\ at \in Drops => Known(l, DOMAIN file) /\ Len(l) > 0
    /\ at \in {"opened", "win_lock", "win_map"} => a \in Task

\* The count of a File is exact, and its entries are finitely many.
Hands == [a \in Actor |-> Waiting(a)]
Counted(f) == /\ IsFiniteSet(Entries(f, procs)) /\ IsFiniteSet(Entries(f, Hands))
              /\ file[f].count = Instances(f)

\* Handles are handed out once, in order.
Reserved(a, h) == pc[a].at \in Reserves /\ pc[a].todo[1] = h
HandleSound(f) ==
    /\ file[f].dev = "fat" => file[f].hnd > 0 /\ file[f].hnd < next_fat
    /\ file[f].dev = "gui" =>
        /\ file[f].hnd >= HND_WINDOW0 /\ file[f].hnd < next_whnd
        /\ \A a \in Actor : ~Reserved(a, file[f].hnd)
    /\ \A g \in DOMAIN file : g # f /\ file[f].dev = file[g].dev
                                => file[f].hnd # file[g].hnd

Closes(a, f) == pc[a].at = "closing" /\ pc[a].todo[1] = f
ClosesOnce(a) ==
    pc[a].at = "closing" =>
        /\ file[pc[a].todo[1]].count = 0
        /\ \A b \in Actor : b # a => ~Closes(b, pc[a].todo[1])
ReservesOnce(a) ==
    pc[a].at \in Reserves =>
        /\ pc[a].todo[1] \in Nat /\ pc[a].todo[1] >= HND_WINDOW0
        /\ pc[a].todo[1] < next_whnd
        /\ \A b \in Actor : b # a => ~Reserved(b, pc[a].todo[1])

\* What the drivers have open is what lives.
Live(f) == file[f].count > 0 \/ \E a \in Actor : Closes(a, f)
Denotes(f, dev, h) == file[f].dev = dev /\ file[f].hnd = h /\ Live(f)
DriversSound ==
    /\ \A h : h \in open_files <=> \E f \in DOMAIN file : Denotes(f, "fat", h)
    /\ \A h : h \in DOMAIN wins <=> \E f \in DOMAIN file : Denotes(f, "gui", h)

\* Whose a block of memory is.
Makes(a, b) == pc[a].at = "win_map" /\ pc[a].todo[2] = b
Shows(b)    == \E h \in DOMAIN wins : wins[h] = b
BlockSound(b) ==
    /\ b \in free \/ Shows(b) \/ \E a \in Actor : Makes(a, b)
    /\ b \in free => ~Shows(b) /\ \A a \in Actor : ~Makes(a, b)
    /\ Shows(b) => \A a \in Actor : ~Makes(a, b)
WinsDiffer == \A g, h \in DOMAIN wins : wins[g] = wins[h] => g = h
MakesBlocks == \A a \in Actor : pc[a].at = "win_map" => pc[a].todo[2] \in Blocks

\* A window that a process can get at is mapped into it.
Mapped(f, p) == file[f].dev = "gui" => wins[file[f].hnd] \in dmap[p]
Owns(p, f) == \E i \in DOMAIN procs[p] : procs[p][i] = f
MapsSound ==
    /\ \A p \in DOMAIN procs, f \in DOMAIN file : Owns(p, f) => Mapped(f, p)
    /\ \A t \in Task, f \in DOMAIN file, p \in DOMAIN procs :
            pc[t].at = "opened" /\ pc[t].todo[1] = f /\ Home[t] = p => Mapped(f, p)

ListsSound == /\ \A p \in DOMAIN procs : Known(procs[p], DOMAIN file)
              /\ \A a \in Actor : ActorSound(a)
HandlesSound == /\ \A f \in DOMAIN file : HandleSound(f)
                /\ \A a \in Actor : ReservesOnce(a)
BlocksSound == /\ \A b \in Blocks : BlockSound(b)
               /\ WinsDiffer /\ MakesBlocks

IInv == /\ Typed
        /\ ListsSound
        /\ \A f \in DOMAIN file : Counted(f)
        /\ HandlesSound
        /\ \A a \in Actor : ClosesOnce(a)
        /\ DriversSound
        /\ BlocksSound
        /\ MapsSound

-----------------------------------------------------------------------------
(* Counting the entries of lists                                           *)

Places(f, s) == {i \in DOMAIN s : s[i] = f}
Tally(f, s)  == Cardinality(Places(f, s))

LEMMA TallyType ==
    ASSUME NEW f, NEW s \in Seq(Nat)
    PROVE  IsFiniteSet(Places(f, s)) /\ Tally(f, s) \in Nat
<1>1. Places(f, s) \subseteq 1..Len(s) /\ Len(s) \in Nat
  BY DEF Places
<1>2. IsFiniteSet(Places(f, s))
  <2>1. IsFiniteSet(1..Len(s))
    BY <1>1, FS_Interval
  <2>. QED BY <1>1, <2>1, FS_Subset
<1>. QED BY <1>2, FS_CardinalityType DEF Tally

LEMMA SameTally ==
    ASSUME NEW S, NEW T, NEW m \in Bijection(S, T), IsFiniteSet(T)
    PROVE  IsFiniteSet(S) /\ Cardinality(S) = Cardinality(T)
  BY FS_Injection DEF Bijection

LEMMA TallyNone == ASSUME NEW f PROVE Tally(f, <<>>) = 0
<1>1. Places(f, <<>>) = {}
  BY DEF Places
<1>. QED BY <1>1, FS_EmptySet DEF Tally

LEMMA TallyPositive ==
    ASSUME NEW s \in Seq(Nat), NEW i \in DOMAIN s
    PROVE  Tally(s[i], s) > 0
<1>1. Places(s[i], s) # {}
  BY DEF Places
<1>. QED BY <1>1, TallyType, FS_EmptySet DEF Tally

LEMMA TallyAppend ==
    ASSUME NEW f, NEW s \in Seq(Nat), NEW g \in Nat
    PROVE  Tally(f, Append(s, g)) = Tally(f, s) + (IF f = g THEN 1 ELSE 0)
<1>. DEFINE n == Len(s) + 1
<1>1. /\ Append(s, g) \in Seq(Nat) /\ DOMAIN Append(s, g) = DOMAIN s \cup {n}
      /\ n \notin DOMAIN s /\ Append(s, g)[n] = g
      /\ \A i \in DOMAIN s : Append(s, g)[i] = s[i]
  OBVIOUS
<1>. HIDE DEF n
<1>2. n \notin Places(f, s)
  BY <1>1 DEF Places
<1>3. CASE f = g
  <2>1. Places(f, Append(s, g)) = Places(f, s) \cup {n}
    BY <1>1, <1>3 DEF Places
  <2>. QED BY <2>1, <1>2, <1>3, TallyType, FS_AddElement DEF Tally
<1>4. CASE f # g
  <2>1. Places(f, Append(s, g)) = Places(f, s)
    BY <1>1, <1>4 DEF Places
  <2>. QED BY <2>1, <1>4, TallyType DEF Tally
<1>. QED BY <1>3, <1>4

LEMMA TallyOne ==
    ASSUME NEW f, NEW n \in Nat
    PROVE  <<n>> \in Seq(Nat) /\ Tally(f, <<n>>) = IF f = n THEN 1 ELSE 0
<1>1. <<n>> = Append(<<>>, n) /\ <<>> \in Seq(Nat) /\ <<n>> \in Seq(Nat)
  OBVIOUS
<1>2. Tally(f, Append(<<>>, n)) = Tally(f, <<>>) + (IF f = n THEN 1 ELSE 0)
  BY <1>1, TallyAppend
<1>. QED BY <1>1, <1>2, TallyNone

\* A list without its j-th entry, whose others are found at Old(i).
Renumbers(Old, s, j, r) ==
    /\ Old \in [DOMAIN r -> DOMAIN s \ {j}]
    /\ \A i, k \in DOMAIN r : Old[i] = Old[k] => i = k
    /\ \A l \in DOMAIN s \ {j} : \E i \in DOMAIN r : Old[i] = l
    /\ \A i \in DOMAIN r : r[i] = s[Old[i]]

LEMMA TallyWithout ==
    ASSUME NEW f, NEW s \in Seq(Nat), NEW j \in DOMAIN s, NEW r \in Seq(Nat),
           NEW Old, Renumbers(Old, s, j, r)
    PROVE  Tally(f, r) = Tally(f, s) - (IF s[j] = f THEN 1 ELSE 0)
<1>. DEFINE m == [i \in Places(f, r) |-> Old[i]]
            T == Places(f, s) \ {j}
<1>0. /\ Old \in [DOMAIN r -> DOMAIN s \ {j}]
      /\ \A i, k \in DOMAIN r : Old[i] = Old[k] => i = k
      /\ \A l \in DOMAIN s \ {j} : \E i \in DOMAIN r : Old[i] = l
      /\ \A i \in DOMAIN r : r[i] = s[Old[i]]
  BY DEF Renumbers
<1>1. m \in Bijection(Places(f, r), T)
  <2>1. m \in [Places(f, r) -> T]
    BY <1>0 DEF Places
  <2>2. \A i, k \in Places(f, r) : m[i] = m[k] => i = k
    BY <1>0 DEF Places
  <2>3. ASSUME NEW l \in T PROVE \E i \in Places(f, r) : m[i] = l
    <3>1. l \in DOMAIN s \ {j} /\ s[l] = f
      BY DEF Places
    <3>2. PICK i \in DOMAIN r : Old[i] = l
      BY <1>0, <3>1
    <3>3. i \in Places(f, r)
      BY <1>0, <3>1, <3>2 DEF Places
    <3>. QED BY <3>2, <3>3
  <2>. HIDE DEF m, T
  <2>. QED BY <2>1, <2>2, <2>3 DEF Bijection, Injection, Surjection, IsInjective
<1>. HIDE DEF m
<1>2. /\ IsFiniteSet(T)
      /\ Cardinality(T) = Tally(f, s) - (IF j \in Places(f, s) THEN 1 ELSE 0)
  <2>1. IsFiniteSet(Places(f, s)) /\ Tally(f, s) = Cardinality(Places(f, s))
        /\ Tally(f, s) \in Nat
    BY TallyType DEF Tally
  <2>2. /\ IsFiniteSet(T)
        /\ Cardinality(T) = IF j \in Places(f, s) THEN Tally(f, s) - 1 ELSE Tally(f, s)
    BY <2>1, FS_RemoveElement, Zenon
  <2>. HIDE DEF T
  <2>. QED BY <2>1, <2>2
<1>. HIDE DEF T
<1>3. Tally(f, r) = Cardinality(T)
  BY <1>1, <1>2, SameTally DEF Tally
<1>. QED BY <1>2, <1>3 DEF Places

\* The renumbering that leaves entry j of a list of n entries out.
LEMMA Renumbering ==
    ASSUME NEW s, NEW r, NEW n \in Nat, NEW j \in 1..n,
           DOMAIN s = 1..n, DOMAIN r = 1..(n - 1),
           \A i \in 1..(n - 1) : r[i] = s[IF i < j THEN i ELSE i + 1]
    PROVE  \E Old : Renumbers(Old, s, j, r)
<1>. DEFINE Old == [i \in DOMAIN r |-> IF i < j THEN i ELSE i + 1]
<1>1. \A i \in DOMAIN r : Old[i] = IF i < j THEN i ELSE i + 1
  OBVIOUS
<1>2. Old \in [DOMAIN r -> DOMAIN s \ {j}]
  <2>1. ASSUME NEW i \in DOMAIN r
        PROVE  (IF i < j THEN i ELSE i + 1) \in DOMAIN s \ {j}
    OBVIOUS
  <2>. QED BY <2>1, Zenon
<1>. HIDE DEF Old
<1>3. ASSUME NEW i \in DOMAIN r, NEW k \in DOMAIN r, Old[i] = Old[k]
      PROVE  i = k
  <2>1. i \in Int /\ k \in Int
    OBVIOUS
  <2>. QED BY <1>1, <1>3, <2>1
<1>4. ASSUME NEW l \in DOMAIN s \ {j} PROVE \E i \in DOMAIN r : Old[i] = l
  <2>. DEFINE i == IF l < j THEN l ELSE l - 1
  <2>1. i \in DOMAIN r /\ (IF i < j THEN i ELSE i + 1) = l
    OBVIOUS
  <2>. HIDE DEF i
  <2>2. Old[i] = l
    BY <1>1, <2>1
  <2>. QED BY <2>1, <2>2
<1>5. ASSUME NEW i \in DOMAIN r PROVE r[i] = s[Old[i]]
  BY <1>1
<1>6. Renumbers(Old, s, j, r)
  BY <1>2, <1>3, <1>4, <1>5, Zenon DEF Renumbers
<1>. QED BY <1>6

LEMMA TallyTail ==
    ASSUME NEW f, NEW s \in Seq(Nat), Len(s) > 0
    PROVE  /\ Tail(s) \in Seq(Nat)
           /\ Tally(f, Tail(s)) = Tally(f, s) - (IF s[1] = f THEN 1 ELSE 0)
<1>. DEFINE r == Tail(s)
            n == Len(s)
<1>1. /\ r \in Seq(Nat) /\ DOMAIN r = 1..(n - 1)
      /\ n \in Nat /\ DOMAIN s = 1..n /\ 1 \in 1..n
      /\ \A i \in 1..(n - 1) : r[i] = s[i + 1]
  OBVIOUS
<1>. HIDE DEF r, n
<1>2. \A i \in 1..(n - 1) : r[i] = s[IF i < 1 THEN i ELSE i + 1]
  BY <1>1
<1>3. PICK Old : Renumbers(Old, s, 1, r)
  BY <1>1, <1>2, Renumbering
<1>4. Tally(f, r) = Tally(f, s) - (IF s[1] = f THEN 1 ELSE 0)
  <2>1. 1 \in DOMAIN s /\ r \in Seq(Nat)
    BY <1>1
  <2>. QED BY <1>3, <2>1, TallyWithout
<1>. QED BY <1>1, <1>4 DEF r

\* The two parts of a list of n entries around its entry j.
PartsOf(u, v, s, n, j) ==
    /\ n \in Nat /\ j \in 1..n /\ u \in Seq(Nat) /\ v \in Seq(Nat)
    /\ Len(u) = j - 1 /\ (\A i \in 1..(j - 1) : u[i] = s[i])
    /\ Len(v) = n - j /\ (\A i \in 1..(n - j) : v[i] = s[i + j])

\* The two parts, one after the other.
LEMMA Joined ==
    ASSUME NEW s, NEW u, NEW v, NEW n, NEW j, PartsOf(u, v, s, n, j)
    PROVE  /\ u \o v \in Seq(Nat) /\ Len(u \o v) = n - 1 /\ DOMAIN (u \o v) = 1..(n - 1)
           /\ \A i \in 1..(n - 1) : (u \o v)[i] = s[IF i < j THEN i ELSE i + 1]
<1>0. /\ n \in Nat /\ j \in 1..n /\ u \in Seq(Nat) /\ v \in Seq(Nat)
      /\ Len(u) = j - 1 /\ (\A i \in 1..(j - 1) : u[i] = s[i])
      /\ Len(v) = n - j /\ (\A i \in 1..(n - j) : v[i] = s[i + j])
  BY DEF PartsOf
<1>1. /\ u \o v \in Seq(Nat) /\ Len(u \o v) = Len(u) + Len(v)
      /\ \A i \in 1..(Len(u) + Len(v)) :
            (u \o v)[i] = IF i <= Len(u) THEN u[i] ELSE v[i - Len(u)]
  BY <1>0, ConcatProperties
<1>. DEFINE r == u \o v
<1>. HIDE DEF r
<1>2. r \in Seq(Nat) /\ Len(r) = n - 1
  <2>1. (j - 1) + (n - j) = n - 1
    BY <1>0
  <2>. QED BY <1>0, <1>1, <2>1, Zenon DEF r
<1>3. DOMAIN r = 1..(n - 1)
  BY <1>2, LenProperties
<1>4. ASSUME NEW i \in 1..(n - 1) PROVE r[i] = s[IF i < j THEN i ELSE i + 1]
  <2>1. i \in 1..((j - 1) + (n - j))
    BY <1>0
  <2>2. r[i] = IF i <= j - 1 THEN u[i] ELSE v[i - (j - 1)]
    BY <1>0, <1>1, <2>1, Zenon DEF r
  <2>3. CASE i < j
    <3>1. i <= j - 1 /\ i \in 1..(j - 1)
      BY <1>0, <2>3
    <3>. QED BY <1>0, <2>2, <2>3, <3>1, Zenon
  <2>4. CASE ~(i < j)
    <3>1. ~(i <= j - 1) /\ i - (j - 1) \in 1..(n - j) /\ (i - (j - 1)) + j = i + 1
      BY <1>0, <2>4
    <3>. QED BY <1>0, <2>2, <2>4, <3>1, Zenon
  <2>. QED BY <2>3, <2>4
<1>. QED BY <1>2, <1>3, <1>4, Zenon DEF r

LEMMA TallyRemoved ==
    ASSUME NEW f, NEW s \in Seq(Nat), NEW j \in DOMAIN s
    PROVE  /\ Removed(s, j) \in Seq(Nat)
           /\ Tally(f, Removed(s, j)) = Tally(f, s) - (IF s[j] = f THEN 1 ELSE 0)
           /\ \A i \in DOMAIN Removed(s, j) : \E k \in DOMAIN s : Removed(s, j)[i] = s[k]
<1>. DEFINE r == Removed(s, j)
            n == Len(s)
            u == SubSeq(s, 1, j - 1)
            v == SubSeq(s, j + 1, n)
<1>1. n \in Nat /\ DOMAIN s = 1..n /\ j \in 1..n
  OBVIOUS
<1>2. /\ u \in Seq(Nat) /\ Len(u) = j - 1
      /\ \A i \in 1..(j - 1) : u[i] = s[i]
  BY <1>1
<1>3. /\ v \in Seq(Nat) /\ Len(v) = n - j
      /\ \A i \in 1..(n - j) : v[i] = s[i + j]
  <2>. DEFINE m == j + 1
              w == SubSeq(s, m, n)
  <2>1. /\ \A i \in m .. n : s[i] \in Nat
        /\ m \in Int /\ n \in Int
    BY <1>1
  <2>2. /\ w \in Seq(Nat)
        /\ Len(w) = IF m <= n THEN n - m + 1 ELSE 0
        /\ \A i \in 1 .. n - m + 1 : w[i] = s[m + i - 1]
    <3>. HIDE DEF m, n
    <3>. QED BY <2>1, SubSeqProperties
  <2>3. n - m + 1 = n - j /\ \A i \in Int : m + i - 1 = i + j
    BY <1>1
  <2>4. v = w
    OBVIOUS
  <2>5. Len(w) = n - j
    BY <1>1, <2>2
  <2>. HIDE DEF m, n, v, w
  <2>6. ASSUME NEW i \in 1..(n - j) PROVE w[i] = s[i + j]
    <3>1. i \in 1 .. n - m + 1 /\ m + i - 1 = i + j
      BY <2>3
    <3>. QED BY <2>2, <3>1, Zenon
  <2>. QED BY <2>2, <2>4, <2>5, <2>6
<1>4. r = u \o v
  BY DEF Removed
<1>. HIDE DEF r, n, u, v
<1>5. /\ r \in Seq(Nat) /\ DOMAIN r = 1..(n - 1)
      /\ \A i \in 1..(n - 1) : r[i] = s[IF i < j THEN i ELSE i + 1]
  <2>1. PartsOf(u, v, s, n, j)
    BY <1>1, <1>2, <1>3, Zenon DEF PartsOf
  <2>. QED BY <1>4, <2>1, Joined
<1>6. PICK Old : Renumbers(Old, s, j, r)
  BY <1>1, <1>5, Renumbering
<1>7. Tally(f, r) = Tally(f, s) - (IF s[j] = f THEN 1 ELSE 0)
  BY <1>5, <1>6, TallyWithout
<1>8. \A i \in DOMAIN r : \E k \in DOMAIN s : r[i] = s[k]
  BY <1>6, Zenon DEF Renumbers
<1>. QED BY <1>5, <1>7, <1>8 DEF r

\* The entries of one row, and of the others.
Beside(f, S, x) == {e \in Entries(f, S) : e[1] # x}

LEMMA RowSplit ==
    ASSUME NEW f, NEW S, NEW x \in DOMAIN S, S[x] \in Seq(Nat),
           NEW others, IsFiniteSet(others), others = Beside(f, S, x)
    PROVE  /\ IsFiniteSet(Entries(f, S)) /\ Cardinality(others) \in Nat
           /\ Cardinality(Entries(f, S)) = Cardinality(others) + Tally(f, S[x])
<1>. DEFINE P == Places(f, S[x])
            row == {x} \X P
            m == [e \in row |-> e[2]]
<1>1. m \in Bijection(row, P)
  <2>1. \A e \in row : e = <<x, e[2]>> /\ e[2] \in P
    OBVIOUS
  <2>2. \A i \in P : <<x, i>> \in row /\ <<x, i>>[2] = i
    OBVIOUS
  <2>. HIDE DEF P, row
  <2>3. m \in [row -> P]
    BY <2>1
  <2>4. \A d, e \in row : m[d] = m[e] => d = e
    BY <2>1
  <2>5. \A i \in P : \E e \in row : m[e] = i
    BY <2>2
  <2>. HIDE DEF m
  <2>. QED BY <2>3, <2>4, <2>5 DEF Bijection, Injection, Surjection, IsInjective
<1>2. IsFiniteSet(P) /\ Cardinality(P) = Tally(f, S[x]) /\ Tally(f, S[x]) \in Nat
  BY TallyType DEF Tally
<1>. HIDE DEF m, P
<1>3. IsFiniteSet(row) /\ Cardinality(row) = Tally(f, S[x])
  BY <1>1, <1>2, SameTally
<1>4. Entries(f, S) = others \cup row /\ others \cap row = {}
  BY DEF Beside, Entries, P, Places
<1>. HIDE DEF row
<1>5. /\ IsFiniteSet(others \cup row)
      /\ Cardinality(others \cup row) =
            Cardinality(others) + Cardinality(row) - Cardinality(others \cap row)
  BY <1>3, FS_Union
<1>6. Cardinality(others \cap row) = 0
  BY <1>4, FS_EmptySet
<1>7. Cardinality(others) \in Nat
  BY FS_CardinalityType
<1>8. IsFiniteSet(Entries(f, S)) /\ Cardinality(Entries(f, S)) = Cardinality(others \cup row)
  BY <1>4, <1>5
<1>. DEFINE n == Cardinality(Entries(f, S))
            k == Cardinality(others)
<1>9. n = k + Tally(f, S[x]) - 0
  BY <1>3, <1>5, <1>6, <1>8
<1>. QED BY <1>2, <1>7, <1>8, <1>9

LEMMA EntryIn ==
    ASSUME NEW S, NEW x \in DOMAIN S, NEW i \in DOMAIN S[x]
    PROVE  Entries(S[x][i], S) # {}
<1>1. <<x, i>> \in Entries(S[x][i], S)
  BY DEF Entries
<1>. QED BY <1>1

\* One row changes.
RowShift(f, S, R, x) ==
    /\ IsFiniteSet(Entries(f, R))
    /\ Cardinality(Entries(f, S)) \in Nat /\ Cardinality(Entries(f, R)) \in Nat
    /\ Tally(f, S[x]) \in Nat /\ Tally(f, R[x]) \in Nat
    /\ Cardinality(Entries(f, R)) =
            Cardinality(Entries(f, S)) - Tally(f, S[x]) + Tally(f, R[x])

LEMMA RowChanged ==
    ASSUME NEW f, NEW S, NEW R, NEW x \in DOMAIN S, DOMAIN R = DOMAIN S,
           S[x] \in Seq(Nat), R[x] \in Seq(Nat), IsFiniteSet(Entries(f, S)),
           \A y \in DOMAIN S \ {x} : R[y] = S[y]
    PROVE  RowShift(f, S, R, x)
<1>. DEFINE others == Beside(f, S, x)
<1>1. others = Beside(f, R, x)
  BY DEF Beside, Entries
<1>2. IsFiniteSet(others)
  BY FS_Subset DEF Beside
<1>3. /\ Cardinality(Entries(f, S)) = Cardinality(others) + Tally(f, S[x])
      /\ Cardinality(others) \in Nat
  BY <1>2, RowSplit
<1>4. /\ IsFiniteSet(Entries(f, R))
      /\ Cardinality(Entries(f, R)) = Cardinality(others) + Tally(f, R[x])
  BY <1>1, <1>2, RowSplit
<1>5. Tally(f, S[x]) \in Nat /\ Tally(f, R[x]) \in Nat
  BY TallyType
<1>. QED BY <1>3, <1>4, <1>5 DEF RowShift

\* One row goes.
RowLost(f, S, R, x) ==
    /\ IsFiniteSet(Entries(f, R))
    /\ Cardinality(Entries(f, S)) \in Nat /\ Cardinality(Entries(f, R)) \in Nat
    /\ Tally(f, S[x]) \in Nat
    /\ Cardinality(Entries(f, R)) = Cardinality(Entries(f, S)) - Tally(f, S[x])

LEMMA RowGone ==
    ASSUME NEW f, NEW S, NEW R, NEW x \in DOMAIN S, DOMAIN R = DOMAIN S \ {x},
           S[x] \in Seq(Nat), IsFiniteSet(Entries(f, S)),
           \A y \in DOMAIN S \ {x} : R[y] = S[y]
    PROVE  RowLost(f, S, R, x)
<1>. DEFINE others == Beside(f, S, x)
<1>1. others = Entries(f, R)
  BY DEF Beside, Entries
<1>2. IsFiniteSet(others)
  BY FS_Subset DEF Beside
<1>3. /\ Cardinality(Entries(f, S)) = Cardinality(others) + Tally(f, S[x])
      /\ Cardinality(others) \in Nat
  BY <1>2, RowSplit
<1>4. Tally(f, S[x]) \in Nat
  BY TallyType
<1>. QED BY <1>1, <1>2, <1>3, <1>4 DEF RowLost

-----------------------------------------------------------------------------
(* What the invariant says of one actor or one File                        *)

LEMMA FilesFacts == /\ Main \in [Pid -> Task] /\ Home \in [Task -> Pid]
                    /\ Worker \notin Task /\ None \notin Actor /\ Task \subseteq Actor
                    /\ Worker \in Actor /\ IsFiniteSet(Blocks)
  BY FilesAssumption DEF Actor

LEMMA WaitingKnown ==
    ASSUME Typed, NEW a \in Actor, ActorSound(a) PROVE Known(Waiting(a), DOMAIN file)
<1>. DEFINE l == pc[a].todo
<1>1. CASE pc[a].at \in {"opened", "using", "dropping"}
  <2>1. Waiting(a) = l /\ Known(l, DOMAIN file)
    BY <1>1 DEF ActorSound, Waiting, Drops
  <2>. QED BY <2>1
<1>2. CASE pc[a].at \in {"closing", "drawing"}
  <2>1. Waiting(a) = Tail(l) /\ Known(l, DOMAIN file) /\ Len(l) > 0
    BY <1>2 DEF ActorSound, Waiting, Drops
  <2>. HIDE DEF l
  <2>2. /\ Tail(l) \in Seq(Nat) /\ DOMAIN Tail(l) = 1..(Len(l) - 1)
        /\ \A i \in DOMAIN Tail(l) : i + 1 \in DOMAIN l /\ Tail(l)[i] = l[i + 1]
    BY <2>1 DEF Known
  <2>. QED BY <2>1, <2>2 DEF Known
<1>3. CASE pc[a].at \notin {"opened", "using", "dropping", "closing", "drawing"}
  BY <1>3 DEF Waiting, Known
<1>. QED BY <1>1, <1>2, <1>3

\* The first of several Files to drop.
LEMMA FirstKnown ==
    ASSUME IInv, NEW a \in Actor, pc[a].at \in {"opened", "using"} \cup Drops
    PROVE  /\ pc[a].todo \in Seq(Nat) /\ Len(pc[a].todo) > 0 /\ 1 \in DOMAIN pc[a].todo
           /\ pc[a].todo[1] \in DOMAIN file /\ file[pc[a].todo[1]] \in FileType
<1>0. ActorSound(a)
  BY DEF IInv, ListsSound
<1>1. Known(pc[a].todo, DOMAIN file) /\ Len(pc[a].todo) > 0
  <2>1. CASE pc[a].at \in {"opened", "using"}
    <3>1. Known(pc[a].todo, DOMAIN file) /\ Len(pc[a].todo) = 1
      BY <1>0, <2>1, Zenon DEF ActorSound
    <3>. QED BY <3>1
  <2>2. CASE pc[a].at \in Drops
    BY <1>0, <2>2 DEF ActorSound
  <2>. QED BY <2>1, <2>2
<1>2. 1 \in DOMAIN pc[a].todo
  BY <1>1 DEF Known
<1>. QED BY <1>1, <1>2 DEF Known, IInv, Typed

\* A File that is in a list lives: somebody's clone or descriptor counts it.
LEMMA Alive ==
    ASSUME IInv, NEW f \in DOMAIN file,
           \/ \E a \in Actor : \E i \in DOMAIN Waiting(a) : Waiting(a)[i] = f
           \/ \E p \in DOMAIN procs : \E i \in DOMAIN procs[p] : procs[p][i] = f
    PROVE  file[f].count > 0 /\ file[f].count \in Nat
<1>1. IsFiniteSet(Entries(f, procs)) /\ IsFiniteSet(Entries(f, Hands))
  BY DEF IInv, Counted
<1>2. Cardinality(Entries(f, procs)) \in Nat /\ Cardinality(Entries(f, Hands)) \in Nat
  BY <1>1, FS_CardinalityType
<1>3. Entries(f, procs) # {} \/ Entries(f, Hands) # {}
  <2>1. CASE \E a \in Actor : \E i \in DOMAIN Waiting(a) : Waiting(a)[i] = f
    <3>1. PICK a \in Actor : \E i \in DOMAIN Waiting(a) : Waiting(a)[i] = f
      BY <2>1
    <3>2. PICK i \in DOMAIN Waiting(a) : Waiting(a)[i] = f
      BY <3>1
    <3>3. a \in DOMAIN Hands /\ Hands[a] = Waiting(a)
      BY DEF Hands
    <3>. QED BY <3>2, <3>3, EntryIn
  <2>2. CASE \E p \in DOMAIN procs : \E i \in DOMAIN procs[p] : procs[p][i] = f
    BY <2>2, EntryIn
  <2>. QED BY <2>1, <2>2
<1>4. Cardinality(Entries(f, procs)) # 0 \/ Cardinality(Entries(f, Hands)) # 0
  BY <1>1, <1>3, FS_EmptySet
<1>5. file[f].count = Cardinality(Entries(f, procs)) + Cardinality(Entries(f, Hands))
  BY DEF IInv, Counted, Instances, Hands
<1>. QED BY <1>2, <1>4, <1>5

-----------------------------------------------------------------------------
(* Steps that change the place of one actor                                *)

PcStep(a) == DOMAIN pc' = Actor /\ \A b \in Actor \ {a} : pc'[b] = pc[b]

LEMMA OthersWait ==
    ASSUME NEW a \in Actor, PcStep(a), NEW b \in Actor \ {a}
    PROVE  Waiting(b)' = Waiting(b)
  BY DEF PcStep, Waiting

HandsShift(f, a) ==
    /\ IsFiniteSet(Entries(f, Hands'))
    /\ Cardinality(Entries(f, Hands)) \in Nat
    /\ Cardinality(Entries(f, Hands')) \in Nat
    /\ Tally(f, Waiting(a)) \in Nat /\ Tally(f, Waiting(a)') \in Nat
    /\ Cardinality(Entries(f, Hands')) = Cardinality(Entries(f, Hands))
            - Tally(f, Waiting(a)) + Tally(f, Waiting(a)')

LEMMA HandsStep ==
    ASSUME NEW f, IsFiniteSet(Entries(f, Hands)), NEW a \in Actor, PcStep(a),
           Waiting(a) \in Seq(Nat), Waiting(a)' \in Seq(Nat)
    PROVE  HandsShift(f, a)
<1>1. /\ DOMAIN Hands = Actor /\ DOMAIN Hands' = Actor
      /\ Hands[a] = Waiting(a) /\ Hands'[a] = Waiting(a)'
      /\ \A b \in Actor \ {a} : Hands'[b] = Hands[b]
  BY OthersWait DEF Hands
<1>2. RowShift(f, Hands, Hands', a)
  BY <1>1, RowChanged
<1>. QED BY <1>1, <1>2 DEF RowShift, HandsShift

LEMMA CountSame ==
    ASSUME IInv, UNCHANGED <<procs, file>>, NEW a \in Actor, PcStep(a),
           Waiting(a)' = Waiting(a), NEW f \in DOMAIN file
    PROVE  Counted(f)'
<1>1. Hands' = Hands
  BY OthersWait DEF Hands
<1>2. Counted(f)
  BY DEF IInv
<1>. QED BY <1>1, <1>2 DEF Counted, Instances, Hands

\* Each part of the invariant, when nothing happens that concerns it.
LEMMA KnownStays ==
    ASSUME NEW l, NEW F, NEW G, Known(l, F), F \subseteq G PROVE Known(l, G)
  BY DEF Known

LEMMA ListsStep ==
    ASSUME Typed, ListsSound, NEW a \in Actor, PcStep(a), ActorSound(a)',
           DOMAIN file \subseteq DOMAIN file',
           wlock' = wlock \/ wlock \in {None, a},
           \A p \in DOMAIN procs' : Known(procs'[p], DOMAIN file')
    PROVE  ListsSound'
<1>1. ASSUME NEW b \in Actor, b # a PROVE ActorSound(b)'
  <2>1. ActorSound(b) /\ pc'[b] = pc[b]
    BY <1>1 DEF ListsSound, PcStep
  <2>2. Known(pc[b].todo, DOMAIN file) => Known(pc[b].todo, DOMAIN file')
    BY KnownStays
  <2>3. wlock = b => wlock' = b
    BY <1>1, FilesFacts
  <2>. QED BY <2>1, <2>2, <2>3 DEF ActorSound
<1>. QED BY <1>1 DEF ListsSound

SameFiles == /\ DOMAIN file' = DOMAIN file
             /\ \A f \in DOMAIN file : /\ file'[f].dev = file[f].dev
                                       /\ file'[f].hnd = file[f].hnd

LEMMA HandlesStep ==
    ASSUME Typed, HandlesSound, NEW a \in Actor, PcStep(a), SameFiles,
           UNCHANGED <<next_fat, next_whnd>>,
           pc'[a].at \in Reserves => /\ pc[a].at \in Reserves
                                     /\ pc'[a].todo[1] = pc[a].todo[1]
    PROVE  HandlesSound'
<1>1. \A b \in Actor, h \in Nat : Reserved(b, h)' => Reserved(b, h)
  BY DEF PcStep, Reserved
<1>2. ASSUME NEW f \in DOMAIN file' PROVE HandleSound(f)'
  <2>0. f \in DOMAIN file /\ HandleSound(f)
    BY DEF SameFiles, HandlesSound
  <2>1. file[f] \in FileType
    BY <2>0 DEF Typed
  <2>. QED BY <1>1, <2>0, <2>1 DEF SameFiles, HandleSound, FileType
<1>3. ASSUME NEW b \in Actor PROVE ReservesOnce(b)'
  <2>1. ReservesOnce(b)
    BY DEF HandlesSound
  <2>2. pc'[b].at \in Reserves => /\ pc[b].at \in Reserves
                                  /\ pc'[b].todo[1] = pc[b].todo[1]
    BY DEF PcStep
  <2>. QED BY <1>1, <2>1, <2>2 DEF ReservesOnce
<1>. QED BY <1>2, <1>3 DEF HandlesSound

LEMMA DriversStep ==
    ASSUME DriversSound, SameFiles, UNCHANGED <<open_files, DOMAIN wins>>,
           \A f \in DOMAIN file : Live(f)' <=> Live(f)
    PROVE  DriversSound'
<1>1. \A f \in DOMAIN file : \A dev, h : Denotes(f, dev, h)' <=> Denotes(f, dev, h)
  BY DEF Denotes, SameFiles
<1>. QED BY <1>1 DEF DriversSound, SameFiles

LEMMA ClosesStep ==
    ASSUME IInv, NEW a \in Actor, PcStep(a),
           pc[a].at # "closing", pc'[a].at # "closing",
           \A f \in DOMAIN file : file[f].count = 0 => file'[f].count = 0
    PROVE  \A b \in Actor : ClosesOnce(b)'
<1>. SUFFICES ASSUME NEW b \in Actor, pc'[b].at = "closing" PROVE ClosesOnce(b)'
  BY DEF ClosesOnce
<1>1. b # a /\ pc'[b] = pc[b] /\ ClosesOnce(b)
  BY DEF PcStep, IInv
<1>2. pc[b].todo[1] \in DOMAIN file
  BY <1>1, FirstKnown DEF Drops
<1>3. \A c \in Actor, f \in DOMAIN file : Closes(c, f)' => Closes(c, f)
  BY DEF PcStep, Closes
<1>. QED BY <1>1, <1>2, <1>3 DEF ClosesOnce

LEMMA SameClosers ==
    ASSUME NEW a \in Actor, PcStep(a), pc[a].at # "closing", pc'[a].at # "closing",
           NEW f
    PROVE  (\E b \in Actor : Closes(b, f))' <=> \E b \in Actor : Closes(b, f)
  BY DEF PcStep, Closes

LEMMA BlocksStep ==
    ASSUME BlocksSound, NEW a \in Actor, PcStep(a), UNCHANGED <<free, wins>>,
           pc[a].at # "win_map", pc'[a].at # "win_map"
    PROVE  BlocksSound'
<1>1. \A b \in Actor : \A k : Makes(b, k)' <=> Makes(b, k)
  BY DEF PcStep, Makes
<1>2. \A k \in Blocks : BlockSound(k)'
  BY <1>1 DEF BlocksSound, BlockSound, Shows
<1>. QED BY <1>2 DEF BlocksSound, PcStep, WinsDiffer, MakesBlocks

LEMMA MapsStep ==
    ASSUME IInv, SameFiles, UNCHANGED <<wins, dmap>>, DOMAIN procs' \subseteq DOMAIN procs,
           NEW a \in Actor, PcStep(a), pc'[a].at # "opened",
           \A p \in DOMAIN procs', f \in DOMAIN file : Owns(p, f)' => Owns(p, f)
    PROVE  MapsSound'
<1>1. \A f \in DOMAIN file, p \in DOMAIN procs' : Mapped(f, p) => Mapped(f, p)'
  BY DEF Mapped, SameFiles
<1>2. ASSUME NEW p \in DOMAIN procs', NEW f \in DOMAIN file', Owns(p, f)'
      PROVE  Mapped(f, p)'
  BY <1>1, <1>2 DEF SameFiles, IInv, MapsSound
<1>3. ASSUME NEW t \in Task, NEW f \in DOMAIN file', NEW p \in DOMAIN procs',
             pc'[t].at = "opened", pc'[t].todo[1] = f, Home[t] = p
      PROVE  Mapped(f, p)'
  <2>1. pc'[t] = pc[t]
    BY <1>3, FilesFacts DEF PcStep
  <2>. QED BY <1>1, <1>3, <2>1 DEF SameFiles, IInv, MapsSound
<1>. QED BY <1>2, <1>3 DEF MapsSound

\* Nothing but the place of an actor changes, and no place that matters.
Quiet(a) ==
    /\ PcStep(a)
    /\ UNCHANGED <<procs, file, open_files, next_fat, wins, next_whnd, free, dmap>>
    /\ wlock' \in Actor \cup {None} /\ (wlock' = wlock \/ wlock \in {None, a})
    /\ ActorSound(a)' /\ Waiting(a)' = Waiting(a)
    /\ pc[a].at \notin {"win_map", "closing"}
    /\ pc'[a].at \notin Reserves \cup {"closing", "opened"}

LEMMA QuietIInv == ASSUME IInv, NEW a \in Actor, Quiet(a) PROVE IInv'
<1>1. Typed'
  BY DEF IInv, Typed, Quiet, PcStep
<1>2. ListsSound'
  <2>1. \A p \in DOMAIN procs' : Known(procs'[p], DOMAIN file')
    BY DEF IInv, ListsSound, Quiet
  <2>. QED BY <2>1, ListsStep DEF IInv, Quiet
<1>3. \A f \in DOMAIN file : Counted(f)'
  BY CountSame DEF Quiet
<1>4. SameFiles /\ file' = file
  BY DEF Quiet, SameFiles
<1>5. HandlesSound'
  BY <1>4, HandlesStep DEF IInv, Quiet
<1>6. \A b \in Actor : ClosesOnce(b)'
  BY <1>4, ClosesStep DEF Quiet
<1>7. \A f \in DOMAIN file : Live(f)' <=> Live(f)
  BY <1>4, SameClosers DEF Quiet, Live
<1>8. DriversSound'
  BY <1>4, <1>7, DriversStep DEF IInv, Quiet
<1>9. BlocksSound'
  BY BlocksStep DEF IInv, Quiet, Reserves
<1>10. MapsSound'
  <2>1. \A p \in DOMAIN procs', f \in DOMAIN file : Owns(p, f)' => Owns(p, f)
    BY DEF Quiet, Owns
  <2>. QED BY <2>1, <1>4, MapsStep DEF Quiet
<1>. QED BY <1>1, <1>2, <1>3, <1>4, <1>5, <1>6, <1>8, <1>9, <1>10 DEF IInv

-----------------------------------------------------------------------------
(* The actions, one by one                                                 *)

\* What At says of the actor that moves, and of the others.
LEMMA AtStep ==
    ASSUME Typed, NEW a \in Actor, NEW where, NEW todo, At(a, where, todo)
    PROVE  PcStep(a) /\ pc'[a].at = where /\ pc'[a].todo = todo
  BY DEF Typed, At, PcStep

LEMMA QuietActions ==
    ASSUME IInv, NEW t \in Task,
           OpenFat(t) \/ Use(t) \/ Exit(t) \/ (CreateWindow(t) /\ free = {})
    PROVE  IInv'
<1>0. t \in Actor /\ Typed /\ ActorSound(t) /\ wlock \in Actor \cup {None}
  BY FilesFacts DEF IInv, ListsSound, Typed
<1>1. CASE OpenFat(t)
  <2>1. PcStep(t) /\ pc'[t].at = "fat_open" /\ pc'[t].todo = <<>>
    BY <1>0, <1>1, AtStep DEF OpenFat
  <2>2. Quiet(t)
    BY <1>0, <1>1, <2>1 DEF OpenFat, Quiet, Is, fat, windows, locks, Waiting, ActorSound,
                            Reserves, Drops
  <2>. QED BY <1>0, <2>2, QuietIInv
<1>2. CASE Use(t)
  <2>1. PcStep(t) /\ pc'[t].at = "dropping" /\ pc'[t].todo = pc[t].todo
    BY <1>0, <1>2, AtStep DEF Use
  <2>2. Known(pc'[t].todo, DOMAIN file') /\ Len(pc'[t].todo) > 0
    BY <1>0, <1>2, <2>1, FirstKnown DEF Use, Is, ActorSound
  <2>3. Quiet(t)
    BY <1>0, <1>2, <2>1, <2>2 DEF Use, Quiet, Is, fat, windows, locks, Waiting,
                                  ActorSound, Reserves, Drops
  <2>. QED BY <1>0, <2>3, QuietIInv
<1>3. CASE Exit(t)
  <2>1. PcStep(t) /\ pc'[t].at = "dead" /\ pc'[t].todo = <<>>
    BY <1>0, <1>3, AtStep DEF Exit
  <2>2. Quiet(t)
    BY <1>0, <1>3, <2>1 DEF Exit, Quiet, Is, fat, windows, locks, Waiting, ActorSound,
                            Reserves, Drops
  <2>. QED BY <1>0, <2>2, QuietIInv
<1>4. CASE CreateWindow(t) /\ free = {}
  <2>1. PcStep(t) /\ pc'[t].at = "idle" /\ pc'[t].todo = <<>>
    BY <1>0, <1>4, AtStep DEF CreateWindow
  <2>2. Quiet(t)
    BY <1>0, <1>4, <2>1 DEF CreateWindow, Quiet, Is, fat, Waiting, ActorSound,
                            Reserves, Drops
  <2>. QED BY <1>0, <2>2, QuietIInv
<1>. QED BY <1>1, <1>2, <1>3, <1>4

\* On to the next File to drop, if there is one.
LEMMA DroppedStep ==
    ASSUME IInv, NEW a \in Actor, pc[a].at \in Drops, Dropped(a),
           DOMAIN file' = DOMAIN file
    PROVE  /\ PcStep(a) /\ pc'[a].at \in {"dropping", "idle"}
           /\ ActorSound(a)' /\ Waiting(a)' = Tail(pc[a].todo)
<1>. SUFFICES ASSUME NEW l, l = pc[a].todo
              PROVE  /\ PcStep(a) /\ pc'[a].at \in {"dropping", "idle"}
                     /\ ActorSound(a)' /\ Waiting(a)' = Tail(l)
  OBVIOUS
<1>0. Typed /\ ActorSound(a) /\ Known(l, DOMAIN file) /\ Len(l) > 0
  BY DEF IInv, ListsSound, ActorSound
<1>1. /\ Tail(l) \in Seq(Nat) /\ DOMAIN Tail(l) = 1..(Len(l) - 1)
      /\ \A i \in DOMAIN Tail(l) : i + 1 \in DOMAIN l /\ Tail(l)[i] = l[i + 1]
  BY <1>0 DEF Known
<1>2. Known(Tail(l), DOMAIN file')
  BY <1>0, <1>1 DEF Known
<1>3. CASE Tail(l) # <<>>
  <2>1. PcStep(a) /\ pc'[a].at = "dropping" /\ pc'[a].todo = Tail(l)
    BY <1>0, <1>3, AtStep DEF Dropped
  <2>2. Len(Tail(l)) > 0
    BY <1>1, <1>3
  <2>3. ActorSound(a)'
    BY <1>2, <2>1, <2>2 DEF ActorSound, Drops, Reserves
  <2>. QED BY <2>1, <2>3 DEF Waiting
<1>4. CASE Tail(l) = <<>>
  <2>1. PcStep(a) /\ pc'[a].at = "idle" /\ pc'[a].todo = <<>>
    BY <1>0, <1>4, AtStep DEF Dropped
  <2>2. ActorSound(a)'
    BY <2>1 DEF ActorSound, Drops, Reserves
  <2>. QED BY <1>4, <2>1, <2>2 DEF Waiting
<1>. QED BY <1>3, <1>4

LEMMA UpdateScreenIInv == ASSUME IInv, NEW a \in Actor, UpdateScreen(a) PROVE IInv'
<1>0. wlock \in Actor \cup {None} /\ pc[a].at = "drawing" /\ pc[a].at \in Drops
  BY DEF IInv, Typed, UpdateScreen, Is, Drops
<1>1. UNCHANGED <<procs, file, open_files, next_fat, wins, next_whnd, free, dmap, wlock>>
      /\ Dropped(a)
  BY DEF UpdateScreen, fat, windows
<1>2. /\ PcStep(a) /\ pc'[a].at \in {"dropping", "idle"}
      /\ ActorSound(a)' /\ Waiting(a)' = Tail(pc[a].todo)
  BY <1>0, <1>1, DroppedStep
<1>3. Waiting(a)' = Waiting(a)
  BY <1>0, <1>2 DEF Waiting
<1>4. Quiet(a)
  BY <1>0, <1>1, <1>2, <1>3 DEF Quiet, Reserves
<1>. QED BY <1>4, QuietIInv

LEMMA OpenWindowIInv == ASSUME IInv, NEW t \in Task, OpenWindow(t) PROVE IInv'
<1>0. t \in Actor /\ Typed /\ ActorSound(t) /\ pc[t].at = "idle"
  BY FilesFacts DEF IInv, ListsSound, OpenWindow, Is
<1>1. /\ PcStep(t) /\ pc'[t].at = "win_lock" /\ pc'[t].todo = <<next_whnd>>
      /\ next_whnd' = next_whnd + 1
      /\ UNCHANGED <<procs, file, open_files, next_fat, wins, free, dmap, wlock>>
  BY <1>0, AtStep DEF OpenWindow, fat, locks
<1>2. Typed'
  BY <1>0, <1>1 DEF Typed, PcStep, HND_WINDOW0
<1>3. ActorSound(t)' /\ Waiting(t)' = Waiting(t)
  BY <1>0, <1>1 DEF ActorSound, Reserves, Drops, Waiting
<1>4. ListsSound'
  <2>1. \A p \in DOMAIN procs' : Known(procs'[p], DOMAIN file')
    BY <1>1 DEF IInv, ListsSound
  <2>. QED BY <1>0, <1>1, <1>3, <2>1, ListsStep DEF IInv
<1>5. SameFiles
  BY <1>1 DEF SameFiles
<1>6. HandlesSound'
  <2>1. next_whnd \in Nat /\ next_whnd >= HND_WINDOW0
    BY <1>0 DEF Typed
  <2>2. ASSUME NEW f \in DOMAIN file PROVE HandleSound(f)'
    <3>1. HandleSound(f) /\ file[f] \in FileType
      BY <1>0 DEF IInv, HandlesSound, Typed
    <3>2. \A b \in Actor : Reserved(b, file[f].hnd)' =>
                 Reserved(b, file[f].hnd) \/ file[f].hnd = next_whnd
      BY <1>1 DEF Reserved, PcStep
    <3>. QED BY <1>1, <2>1, <3>1, <3>2 DEF HandleSound, FileType
  <2>3. \A b \in Actor : ReservesOnce(b)
    BY DEF IInv, HandlesSound
  <2>4. ASSUME NEW b \in Actor PROVE ReservesOnce(b)'
    BY <1>0, <1>1, <2>1, <2>3, <2>4 DEF ReservesOnce, Reserved, PcStep, Reserves
  <2>. QED BY <1>1, <2>2, <2>4 DEF HandlesSound
<1>7. \A b \in Actor : ClosesOnce(b)'
  BY <1>0, <1>1, ClosesStep
<1>8. DriversSound'
  <2>1. \A f \in DOMAIN file : Live(f)' <=> Live(f)
    BY <1>0, <1>1, SameClosers DEF Live
  <2>. QED BY <1>1, <1>5, <2>1, DriversStep DEF IInv
<1>9. BlocksSound' /\ MapsSound'
  <2>1. BlocksSound'
    BY <1>0, <1>1, BlocksStep DEF IInv
  <2>2. \A p \in DOMAIN procs', f \in DOMAIN file : Owns(p, f)' => Owns(p, f)
    BY <1>1 DEF Owns
  <2>. QED BY <1>0, <1>1, <1>5, <2>1, <2>2, MapsStep
<1>10. \A f \in DOMAIN file : Counted(f)'
  BY <1>0, <1>1, <1>3, CountSame
<1>. QED BY <1>1, <1>2, <1>4, <1>6, <1>7, <1>8, <1>9, <1>10 DEF IInv

\* A File is made, by an actor that has none yet.
NewFile(t, r) ==
    /\ PcStep(t) /\ pc'[t].at = "opened" /\ pc'[t].todo = <<Len(file) + 1>>
    /\ file' = Append(file, r) /\ r \in FileType /\ r.count = 1
    /\ procs' = procs /\ Waiting(t) = <<>> /\ pc[t].at # "closing"

Added(t, r, n) ==
    /\ n \in Nat /\ n \notin DOMAIN file /\ DOMAIN file' = DOMAIN file \cup {n}
    /\ file' \in Seq(FileType) /\ file'[n] = r
    /\ \A f \in DOMAIN file : file'[f] = file[f]
    /\ Waiting(t)' = <<n>> /\ <<n>> \in Seq(Nat)
    /\ pc'[t].todo[1] = n

LEMMA NewFileFacts ==
    ASSUME Typed, NEW t, NEW r, NewFile(t, r), NEW n, n = Len(file) + 1
    PROVE  Added(t, r, n)
<1>1. file \in Seq(FileType) /\ r \in FileType /\ file' = Append(file, r)
  BY DEF Typed, NewFile
<1>. HIDE DEF FileType
<1>2. n \in Nat /\ n \notin DOMAIN file /\ DOMAIN file' = DOMAIN file \cup {n}
      /\ file' \in Seq(FileType) /\ file'[n] = r
  BY <1>1
<1>3. \A f \in DOMAIN file : file'[f] = file[f]
  BY <1>1
<1>4. Waiting(t)' = <<n>> /\ pc'[t].todo[1] = n
  BY DEF NewFile, Waiting
<1>5. <<n>> \in Seq(Nat)
  BY <1>2
<1>. QED BY <1>2, <1>3, <1>4, <1>5 DEF Added

\* Nobody has what was not opened.
LEMMA Fresh ==
    ASSUME IInv, NEW n, n \notin DOMAIN file
    PROVE  Entries(n, procs) = {} /\ Entries(n, Hands) = {}
<1>1. \A p \in DOMAIN procs : \A i \in DOMAIN procs[p] : procs[p][i] # n
  BY DEF IInv, ListsSound, Known
<1>2. \A a \in Actor : \A i \in DOMAIN Waiting(a) : Waiting(a)[i] # n
  BY WaitingKnown DEF IInv, ListsSound, Known
<1>3. Entries(n, procs) = {}
  BY <1>1 DEF Entries
<1>4. \A a \in DOMAIN Hands : \A i \in DOMAIN Hands[a] : Hands[a][i] # n
  BY <1>2 DEF Hands
<1>5. Entries(n, Hands) = {}
  BY <1>4 DEF Entries
<1>. QED BY <1>3, <1>5

LEMMA NewFileCounts ==
    ASSUME IInv, NEW t \in Actor, NEW r, NewFile(t, r)
    PROVE  \A f \in DOMAIN file' : Counted(f)'
<1>. SUFFICES ASSUME NEW n, n = Len(file) + 1, NEW f \in DOMAIN file' PROVE Counted(f)'
  OBVIOUS
<1>1. Typed /\ PcStep(t) /\ procs' = procs /\ r.count = 1 /\ Waiting(t) = <<>>
  BY DEF IInv, NewFile
<1>2. /\ n \in Nat /\ n \notin DOMAIN file /\ DOMAIN file' = DOMAIN file \cup {n}
      /\ file'[n] = r /\ \A g \in DOMAIN file : file'[g] = file[g]
      /\ Waiting(t)' = <<n>> /\ <<n>> \in Seq(Nat)
  <2>1. Added(t, r, n)
    BY <1>1, NewFileFacts
  <2>. QED BY <2>1 DEF Added
<1>3. Tally(f, <<>>) = 0
  BY TallyNone
<1>4. Tally(f, <<n>>) = IF f = n THEN 1 ELSE 0
  BY <1>2, TallyOne
<1>5. Waiting(t) \in Seq(Nat) /\ Waiting(t)' \in Seq(Nat)
  BY <1>1, <1>2
<1>6. /\ IsFiniteSet(Entries(f, procs)) /\ IsFiniteSet(Entries(f, Hands))
      /\ f = n => Cardinality(Entries(f, procs)) = 0 /\ Cardinality(Entries(f, Hands)) = 0
      /\ f # n => file[f].count = Cardinality(Entries(f, procs)) + Cardinality(Entries(f, Hands))
  <2>1. CASE f = n
    BY <1>2, <2>1, Fresh, FS_EmptySet
  <2>2. CASE f # n
    <3>1. f \in DOMAIN file
      BY <1>2, <2>2
    <3>. QED BY <2>2, <3>1 DEF IInv, Counted, Instances, Hands
  <2>. QED BY <2>1, <2>2
<1>7. Cardinality(Entries(f, procs)) \in Nat
  BY <1>6, FS_CardinalityType
<1>8. /\ IsFiniteSet(Entries(f, Hands')) /\ Cardinality(Entries(f, Hands)) \in Nat
      /\ Cardinality(Entries(f, Hands')) = Cardinality(Entries(f, Hands))
                + (IF f = n THEN 1 ELSE 0)
  <2>1. HandsShift(f, t)
    BY <1>1, <1>5, <1>6, HandsStep
  <2>. QED BY <1>1, <1>2, <1>3, <1>4, <2>1 DEF HandsShift
<1>9. file'[f].count = Cardinality(Entries(f, procs)) + Cardinality(Entries(f, Hands'))
  BY <1>1, <1>2, <1>6, <1>7, <1>8
<1>. QED BY <1>1, <1>6, <1>8, <1>9 DEF Counted, Instances, Hands

LEMMA FatOpenedIInv == ASSUME IInv, NEW t \in Task, FatOpened(t) PROVE IInv'
<1>0. t \in Actor /\ Typed /\ ActorSound(t) /\ pc[t].at = "fat_open"
      /\ wlock \in Actor \cup {None}
  BY FilesFacts DEF IInv, ListsSound, FatOpened, Is, Typed
<1>1. UNCHANGED <<procs, wins, next_whnd, free, dmap, wlock>>
  BY DEF FatOpened, windows, locks
<1>2. CASE At(t, "idle", <<>>) /\ Closed(0) /\ UNCHANGED <<file, next_fat>>
  <2>1. PcStep(t) /\ pc'[t].at = "idle" /\ pc'[t].todo = <<>>
    BY <1>0, <1>2, AtStep
  <2>2. 0 \notin open_files
    <3>1. ASSUME NEW f \in DOMAIN file, Denotes(f, "fat", 0) PROVE FALSE
      <4>1. HandleSound(f)
        BY DEF IInv, HandlesSound
      <4>. QED BY <3>1, <4>1 DEF Denotes, HandleSound
    <3>. QED BY <3>1 DEF IInv, DriversSound
  <2>3. Quiet(t)
    BY <1>0, <1>1, <1>2, <2>1, <2>2 DEF Closed, Quiet, Waiting, ActorSound, Reserves, Drops
  <2>. QED BY <1>0, <2>3, QuietIInv
<1>3. CASE /\ Opened(t, "fat", next_fat)
           /\ open_files' = open_files \cup {next_fat} /\ next_fat' = next_fat + 1
  <2>. SUFFICES ASSUME NEW n, n = Len(file) + 1, NEW h, h = next_fat,
                       NEW r, r = [dev |-> "fat", hnd |-> h, count |-> 1]
                PROVE  IInv'
    OBVIOUS
  <2>0. h \in Nat /\ h > 0 /\ r \in FileType /\ r.dev = "fat" /\ r.hnd = h /\ r.count = 1
    BY <1>0 DEF Typed, FileType
  <2>1. /\ PcStep(t) /\ pc'[t].at = "opened" /\ pc'[t].todo = <<n>>
        /\ file' = Append(file, r)
    BY <1>0, <1>3, AtStep DEF Opened
  <2>2. NewFile(t, r)
    BY <1>0, <1>1, <2>0, <2>1 DEF NewFile, Waiting
  <2>3. /\ n \in Nat /\ n \notin DOMAIN file /\ DOMAIN file' = DOMAIN file \cup {n}
        /\ file' \in Seq(FileType) /\ file'[n] = r
        /\ \A f \in DOMAIN file : file'[f] = file[f]
        /\ pc'[t].todo[1] = n
    <3>1. Added(t, r, n)
      BY <1>0, <2>2, NewFileFacts
    <3>. QED BY <3>1 DEF Added
  <2>4. Typed'
    BY <1>0, <1>1, <1>3, <2>0, <2>1, <2>3 DEF Typed, PcStep
  <2>5. ListsSound'
    <3>1. \A p \in DOMAIN procs' : Known(procs'[p], DOMAIN file')
      BY <1>1, <2>3 DEF IInv, ListsSound, Known
    <3>2. Known(<<n>>, DOMAIN file')
      BY <2>3 DEF Known
    <3>3. ActorSound(t)'
      BY <2>1, <3>2 DEF ActorSound, Drops, Reserves
    <3>. QED BY <1>0, <1>1, <2>1, <2>3, <3>1, <3>3, ListsStep DEF IInv
  <2>6. \A f \in DOMAIN file' : Counted(f)'
    BY <1>0, <2>2, NewFileCounts
  <2>7. HandlesSound'
    <3>1. \A b \in Actor : \A k : Reserved(b, k)' => Reserved(b, k)
      BY <2>1 DEF Reserved, PcStep, Reserves
    <3>2. ASSUME NEW f \in DOMAIN file, HandleSound(f) PROVE HandleSound(f)'
      <4>1. file[f] \in FileType
        BY <1>0 DEF Typed
      <4>. QED BY <1>1, <1>3, <2>0, <2>3, <3>1, <3>2, <4>1 DEF HandleSound, FileType
    <3>3. HandleSound(n)'
      <4>1. \A f \in DOMAIN file : HandleSound(f) /\ file[f] \in FileType
        BY <1>0 DEF Typed, IInv, HandlesSound
      <4>. QED BY <1>3, <2>0, <2>3, <4>1 DEF HandleSound, FileType
    <3>4. \A b \in Actor : ReservesOnce(b) => ReservesOnce(b)'
      BY <1>1, <2>1, <3>1 DEF ReservesOnce, PcStep, Reserves
    <3>. QED BY <2>3, <3>2, <3>3, <3>4 DEF IInv, HandlesSound
  <2>8. \A b \in Actor : ClosesOnce(b)'
    BY <1>0, <2>1, <2>3, ClosesStep
  <2>9. DriversSound'
    <3>1. \A f \in DOMAIN file : Live(f)' <=> Live(f)
      BY <1>0, <2>1, <2>3, SameClosers DEF Live
    <3>2. \A f \in DOMAIN file : \A dev, k : Denotes(f, dev, k)' <=> Denotes(f, dev, k)
      BY <2>3, <3>1 DEF Denotes
    <3>3. \A dev, k : Denotes(n, dev, k)' <=> dev = "fat" /\ k = h
      BY <2>0, <2>3 DEF Denotes, Live
    <3>. QED BY <1>1, <1>3, <2>3, <3>2, <3>3 DEF IInv, DriversSound
  <2>10. BlocksSound'
    BY <1>0, <1>1, <2>1, BlocksStep DEF IInv
  <2>11. MapsSound'
    <3>1. \A f \in DOMAIN file, p \in DOMAIN procs : Mapped(f, p) => Mapped(f, p)'
      BY <1>1, <2>3 DEF Mapped
    <3>2. \A p \in DOMAIN procs : Mapped(n, p)'
      BY <2>0, <2>3 DEF Mapped
    <3>3. \A p \in DOMAIN procs, f \in DOMAIN file' : Owns(p, f)' => Owns(p, f)
      BY <1>1 DEF Owns
    <3>4. \A u \in Task : u # t => pc'[u] = pc[u]
      BY <2>1, FilesFacts DEF PcStep
    <3>. QED BY <1>1, <2>3, <3>1, <3>2, <3>3, <3>4 DEF IInv, MapsSound
  <2>. QED BY <2>4, <2>5, <2>6, <2>7, <2>8, <2>9, <2>10, <2>11 DEF IInv
<1>. QED BY <1>2, <1>3 DEF FatOpened

LEMMA CreateWindowIInv == ASSUME IInv, NEW t \in Task, CreateWindow(t) PROVE IInv'
<1>0. /\ t \in Actor /\ Typed /\ ActorSound(t) /\ pc[t].at = "win_lock"
      /\ ReservesOnce(t) /\ wlock = None
  BY FilesFacts DEF IInv, ListsSound, HandlesSound, CreateWindow, Is
<1>1. CASE free = {}
  BY <1>1, QuietActions
<1>2. CASE free # {}
  <2>. SUFFICES ASSUME NEW h, pc[t].todo = <<h>>, NEW b \in free, free' = free \ {b},
                       wlock' = t, At(t, "win_map", Append(pc[t].todo, b))
                PROVE  IInv'
    BY <1>0, <1>2 DEF CreateWindow, ActorSound
  <2>1. /\ PcStep(t) /\ pc'[t].at = "win_map" /\ pc'[t].todo = <<h, b>>
        /\ UNCHANGED <<procs, file, open_files, next_fat, wins, next_whnd, dmap>>
    <3>1. Append(<<h>>, b) = <<h, b>>
      <4>1. <<h>> \in Seq({h, b}) /\ <<h, b>> \in Seq({h, b})
        OBVIOUS
      <4>2. /\ Append(<<h>>, b) \in Seq({h, b}) /\ Len(Append(<<h>>, b)) = 2
            /\ Append(<<h>>, b)[1] = h /\ Append(<<h>>, b)[2] = b
        BY <4>1, AppendProperties
      <4>3. \A i \in 1..2 : Append(<<h>>, b)[i] = <<h, b>>[i]
        BY <4>2
      <4>. QED BY <4>1, <4>2, <4>3, SeqEqual
    <3>. QED BY <1>0, <3>1, AtStep DEF CreateWindow, fat
  <2>2. h \in Nat /\ h >= HND_WINDOW0 /\ h < next_whnd
        /\ pc[t].todo[1] = h /\ pc'[t].todo[1] = h /\ pc'[t].todo[2] = b
    BY <1>0, <2>1 DEF ReservesOnce, Reserves
  <2>3. b \in Blocks /\ BlockSound(b)
    BY DEF IInv, Typed, BlocksSound
  <2>4. Typed'
    BY <1>0, <2>1 DEF Typed, PcStep
  <2>5. ActorSound(t)' /\ Waiting(t)' = Waiting(t)
    BY <1>0, <2>1, <2>2 DEF ActorSound, Reserves, Drops, Waiting
  <2>6. ListsSound'
    <3>1. \A p \in DOMAIN procs' : Known(procs'[p], DOMAIN file')
      BY <2>1 DEF IInv, ListsSound
    <3>. QED BY <1>0, <2>1, <2>5, <3>1, ListsStep DEF IInv
  <2>7. SameFiles
    BY <2>1 DEF SameFiles
  <2>8. HandlesSound'
    BY <1>0, <2>1, <2>2, <2>7, HandlesStep DEF IInv, Reserves
  <2>9. \A c \in Actor : ClosesOnce(c)'
    BY <1>0, <2>1, ClosesStep
  <2>10. DriversSound'
    <3>1. \A f \in DOMAIN file : Live(f)' <=> Live(f)
      BY <1>0, <2>1, SameClosers DEF Live
    <3>. QED BY <2>1, <2>7, <3>1, DriversStep DEF IInv
  <2>11. BlocksSound'
    <3>1. \A k : Shows(k)' <=> Shows(k)
      BY <2>1 DEF Shows
    <3>2. \A a \in Actor : \A k : Makes(a, k)' <=> Makes(a, k) \/ (a = t /\ k = b)
      BY <1>0, <2>1, <2>2 DEF Makes, PcStep
    <3>3. ASSUME NEW k \in Blocks PROVE BlockSound(k)'
      <4>1. BlockSound(k)
        BY DEF IInv, BlocksSound
      <4>. QED BY <1>0, <2>3, <3>1, <3>2, <4>1 DEF BlockSound
    <3>4. WinsDiffer' /\ MakesBlocks'
      BY <2>1, <2>2, <2>3 DEF IInv, BlocksSound, WinsDiffer, MakesBlocks, PcStep
    <3>. QED BY <3>3, <3>4 DEF BlocksSound
  <2>12. MapsSound'
    <3>1. \A p \in DOMAIN procs', f \in DOMAIN file : Owns(p, f)' => Owns(p, f)
      BY <2>1 DEF Owns
    <3>. QED BY <1>0, <2>1, <2>7, <3>1, MapsStep
  <2>13. \A f \in DOMAIN file : Counted(f)'
    BY <1>0, <2>1, <2>5, CountSame
  <2>. QED BY <2>1, <2>4, <2>6, <2>8, <2>9, <2>10, <2>11, <2>12, <2>13 DEF IInv
<1>. QED BY <1>1, <1>2

\* A panic stops everything where it is.
LEMMA PanicIInv == ASSUME IInv, Panic PROVE IInv'
<1>1. /\ UNCHANGED <<procs, file, open_files, next_fat, wins, next_whnd, free, dmap>>
      /\ UNCHANGED <<wlock, pc>>
  BY DEF Panic, fat, windows, locks
<1>2. Typed' /\ ListsSound' /\ \A f \in DOMAIN file : Counted(f)'
  BY <1>1 DEF IInv, Typed, ListsSound, ActorSound, Counted, Instances, Hands, Waiting
<1>3. HandlesSound' /\ (\A a \in Actor : ClosesOnce(a)')
  BY <1>1 DEF IInv, HandlesSound, HandleSound, ReservesOnce, Reserved, ClosesOnce, Closes
<1>4. DriversSound'
  BY <1>1 DEF IInv, DriversSound, Denotes, Live, Closes
<1>5. BlocksSound' /\ MapsSound'
  BY <1>1 DEF IInv, BlocksSound, BlockSound, WinsDiffer, MakesBlocks, Makes, Shows,
              MapsSound, Mapped, Owns
<1>. QED BY <1>1, <1>2, <1>3, <1>4, <1>5 DEF IInv

LEMMA MapWindowIInv == ASSUME IInv, NEW t \in Task, MapWindow(t) PROVE IInv'
<1>0. /\ t \in Actor /\ Typed /\ ActorSound(t) /\ pc[t].at = "win_map"
      /\ ReservesOnce(t) /\ wlock = t /\ Home[t] \in Pid
  BY FilesFacts DEF IInv, ListsSound, HandlesSound, MapWindow, Is, ActorSound
<1>1. CASE Home[t] \notin DOMAIN procs
  BY <1>1, PanicIInv DEF MapWindow
<1>2. CASE Home[t] \in DOMAIN procs
  <2>. SUFFICES ASSUME NEW q \in DOMAIN procs, q = Home[t], NEW h, NEW b,
                       h = pc[t].todo[1], b = pc[t].todo[2],
                       NEW n, n = Len(file) + 1,
                       NEW r, r = [dev |-> "gui", hnd |-> h, count |-> 1]
                PROVE  IInv'
    BY <1>2
  <2>0. /\ h \in Nat /\ h >= HND_WINDOW0 /\ h < next_whnd /\ b \in Blocks
        /\ r \in FileType /\ r.dev = "gui" /\ r.hnd = h /\ r.count = 1
        /\ BlockSound(b) /\ q \in Pid
    BY <1>0 DEF IInv, BlocksSound, MakesBlocks, ReservesOnce, Reserves, FileType
  <2>1. /\ PcStep(t) /\ pc'[t].at = "opened" /\ pc'[t].todo = <<n>>
        /\ file' = Append(file, r)
        /\ dmap' = [dmap EXCEPT ![q] = @ \cup {b}] /\ wlock' = None
        /\ wins' = [k \in DOMAIN wins \cup {h} |-> IF k = h THEN b ELSE wins[k]]
        /\ UNCHANGED <<procs, open_files, next_fat, next_whnd, free>>
    BY <1>0, <1>2, AtStep DEF MapWindow, Opened, fat
  <2>2. NewFile(t, r)
    BY <1>0, <2>0, <2>1 DEF NewFile, Waiting
  <2>3. /\ n \in Nat /\ n \notin DOMAIN file /\ DOMAIN file' = DOMAIN file \cup {n}
        /\ file' \in Seq(FileType) /\ file'[n] = r
        /\ \A f \in DOMAIN file : file'[f] = file[f]
        /\ pc'[t].todo[1] = n
    <3>1. Added(t, r, n)
      BY <1>0, <2>2, NewFileFacts
    <3>. QED BY <3>1 DEF Added
  <2>a. \A f \in DOMAIN file : HandleSound(f) /\ file[f] \in FileType
    BY <1>0 DEF Typed, IInv, HandlesSound
  <2>b. \A f \in DOMAIN file : file[f].dev = "gui" => file[f].hnd # h
    BY <1>0, <2>a DEF HandleSound, Reserved, Reserves
  <2>c. h \notin DOMAIN wins
    BY <2>b DEF IInv, DriversSound, Denotes
  <2>4. Typed'
    BY <1>0, <2>0, <2>1, <2>3 DEF Typed, PcStep
  <2>5. ListsSound'
    <3>1. \A p \in DOMAIN procs' : Known(procs'[p], DOMAIN file')
      BY <2>1, <2>3 DEF IInv, ListsSound, Known
    <3>2. Known(<<n>>, DOMAIN file')
      BY <2>3 DEF Known
    <3>3. ActorSound(t)'
      BY <2>1, <3>2 DEF ActorSound, Drops, Reserves
    <3>. QED BY <1>0, <2>1, <2>3, <3>1, <3>3, ListsStep DEF IInv
  <2>6. \A f \in DOMAIN file' : Counted(f)'
    BY <1>0, <2>2, NewFileCounts
  <2>7. HandlesSound'
    <3>1. \A a \in Actor : \A k : Reserved(a, k)' <=> a # t /\ Reserved(a, k)
      BY <1>0, <2>1 DEF Reserved, PcStep, Reserves
    <3>2. ASSUME NEW f \in DOMAIN file PROVE HandleSound(f)'
      BY <2>0, <2>1, <2>3, <2>a, <2>b, <3>1 DEF HandleSound
    <3>3. \A a \in Actor : ~Reserved(a, h)'
      BY <1>0, <3>1 DEF ReservesOnce, Reserves
    <3>4. HandleSound(n)'
      BY <2>0, <2>1, <2>3, <2>b, <3>3 DEF HandleSound
    <3>5. \A a \in Actor : ReservesOnce(a) => ReservesOnce(a)'
      BY <2>1, <3>1 DEF ReservesOnce, PcStep, Reserves
    <3>. QED BY <2>3, <3>2, <3>4, <3>5 DEF IInv, HandlesSound
  <2>8. \A a \in Actor : ClosesOnce(a)'
    BY <1>0, <2>1, <2>3, ClosesStep
  <2>9. DriversSound'
    <3>1. \A f \in DOMAIN file : Live(f)' <=> Live(f)
      BY <1>0, <2>1, <2>3, SameClosers DEF Live
    <3>2. \A f \in DOMAIN file : \A dev, k : Denotes(f, dev, k)' <=> Denotes(f, dev, k)
      BY <2>3, <3>1 DEF Denotes
    <3>3. \A dev, k : Denotes(n, dev, k)' <=> dev = "gui" /\ k = h
      BY <2>0, <2>3 DEF Denotes, Live
    <3>4. DOMAIN wins' = DOMAIN wins \cup {h} /\ open_files' = open_files
      BY <2>1
    <3>5. DOMAIN file' = DOMAIN file \cup {n}
      BY <2>3
    <3>6. ASSUME NEW k
          PROVE  k \in open_files' <=> \E f \in DOMAIN file' : Denotes(f, "fat", k)'
      <4>1. k \in open_files <=> \E f \in DOMAIN file : Denotes(f, "fat", k)
        BY DEF IInv, DriversSound
      <4>2. ~Denotes(n, "fat", k)'
        BY <3>3
      <4>. QED BY <3>2, <3>4, <3>5, <4>1, <4>2, Zenon
    <3>7. ASSUME NEW k
          PROVE  k \in DOMAIN wins' <=> \E f \in DOMAIN file' : Denotes(f, "gui", k)'
      <4>1. k \in DOMAIN wins <=> \E f \in DOMAIN file : Denotes(f, "gui", k)
        BY DEF IInv, DriversSound
      <4>2. Denotes(n, "gui", k)' <=> k = h
        BY <3>3
      <4>. QED BY <3>2, <3>4, <3>5, <4>1, <4>2, Zenon
    <3>. QED BY <3>6, <3>7 DEF DriversSound
  <2>10. BlocksSound'
    <3>1. \A k : Shows(k)' <=> Shows(k) \/ k = b
      BY <2>1, <2>c DEF Shows
    <3>2. \A a \in Actor : \A k : Makes(a, k)' <=> a # t /\ Makes(a, k)
      BY <1>0, <2>1 DEF Makes, PcStep
    <3>3. \A a \in Actor : pc[a].at = "win_map" => a = t
      BY <1>0 DEF IInv, ListsSound, ActorSound
    <3>4. \A a \in Actor : \A k : Makes(a, k) <=> a = t /\ k = b
      BY <1>0, <3>3 DEF Makes
    <3>5. ASSUME NEW k \in Blocks PROVE BlockSound(k)'
      <4>1. BlockSound(k)
        BY DEF IInv, BlocksSound
      <4>. QED BY <1>0, <2>0, <2>1, <3>1, <3>2, <3>4, <4>1 DEF BlockSound
    <3>6. ~Shows(b)
      BY <1>0, <2>0, <3>4 DEF BlockSound
    <3>7. WinsDiffer'
      BY <2>1, <2>c, <3>6 DEF IInv, BlocksSound, WinsDiffer, Shows
    <3>8. MakesBlocks'
      BY <2>1, <3>3 DEF MakesBlocks, PcStep
    <3>. QED BY <3>5, <3>7, <3>8 DEF BlocksSound
  <2>11. MapsSound'
    <3>1. \A k \in DOMAIN wins : wins'[k] = wins[k]
      BY <2>1, <2>c
    <3>2. wins'[h] = b /\ b \in dmap'[q] /\ \A p \in Pid : dmap[p] \subseteq dmap'[p]
      BY <1>0, <2>0, <2>1 DEF Typed
    <3>3. ASSUME NEW f \in DOMAIN file, NEW p \in DOMAIN procs, Mapped(f, p), Live(f)
          PROVE  Mapped(f, p)'
      <4>1. file[f].dev = "gui" => file[f].hnd \in DOMAIN wins
        BY <3>3 DEF IInv, DriversSound, Denotes
      <4>. QED BY <1>0, <2>3, <3>1, <3>2, <3>3, <4>1 DEF Mapped, Typed
    <3>4. Mapped(n, q)'
      BY <2>0, <2>3, <3>2 DEF Mapped
    <3>5. ASSUME NEW p \in DOMAIN procs, NEW f \in DOMAIN file', Owns(p, f)'
          PROVE  Mapped(f, p)'
      <4>1. Owns(p, f)
        BY <2>1, <3>5 DEF Owns
      <4>2. f \in DOMAIN file
        BY <4>1 DEF Owns, IInv, ListsSound, Known
      <4>3. Live(f)
        BY <4>1, <4>2, Alive DEF Owns, Live
      <4>. QED BY <3>3, <4>1, <4>2, <4>3 DEF IInv, MapsSound
    <3>6. ASSUME NEW u \in Task, u # t, NEW f \in DOMAIN file', NEW p \in DOMAIN procs,
                 pc'[u].at = "opened", pc'[u].todo[1] = f, Home[u] = p
          PROVE  Mapped(f, p)'
      <4>1. u \in Actor /\ pc'[u] = pc[u] /\ ActorSound(u)
        BY <2>1, <3>6, FilesFacts DEF PcStep, IInv, ListsSound
      <4>2. f \in DOMAIN file /\ 1 \in DOMAIN Waiting(u) /\ Waiting(u)[1] = f
        BY <3>6, <4>1, FirstKnown DEF Waiting
      <4>3. Live(f)
        BY <4>1, <4>2, Alive DEF Live
      <4>. QED BY <3>3, <3>6, <4>1, <4>2, <4>3 DEF IInv, MapsSound
    <3>. QED BY <2>1, <2>3, <3>4, <3>5, <3>6 DEF MapsSound
  <2>. QED BY <2>4, <2>5, <2>6, <2>7, <2>8, <2>9, <2>10, <2>11 DEF IInv
<1>. QED BY <1>1, <1>2

LEMMA OneEntry == ASSUME NEW s \in Seq(Nat), Len(s) = 1 PROVE s = <<s[1]>>
<1>. SUFFICES ASSUME NEW n, n = s[1] PROVE s = <<n>>
  OBVIOUS
<1>0. n \in Nat /\ DOMAIN s = {1}
  OBVIOUS
<1>1. <<n>> \in Seq(Nat) /\ Len(<<n>>) = 1 /\ <<n>>[1] = n
  BY <1>0
<1>2. \A i \in 1..Len(s) : s[i] = <<n>>[i]
  BY <1>0, <1>1
<1>. QED BY <1>1, <1>2, SeqEqual

\* The count of f is right again when it changes by as much as the entries.
CountShift(f, d) ==
    /\ DOMAIN file' = DOMAIN file /\ file'[f].count = file[f].count + d
    /\ IsFiniteSet(Entries(f, procs')) /\ IsFiniteSet(Entries(f, Hands'))
    /\ Cardinality(Entries(f, procs')) + Cardinality(Entries(f, Hands')) =
            Cardinality(Entries(f, procs)) + Cardinality(Entries(f, Hands)) + d

LEMMA CountShifts ==
    ASSUME IInv, NEW f \in DOMAIN file, NEW d \in Int, CountShift(f, d)
    PROVE  Counted(f)'
<1>1. file[f].count = Cardinality(Entries(f, procs)) + Cardinality(Entries(f, Hands))
  BY DEF IInv, Counted, Instances, Hands
<1>2. file'[f].count = Cardinality(Entries(f, procs')) + Cardinality(Entries(f, Hands'))
  BY <1>1 DEF CountShift
<1>. QED BY <1>2 DEF CountShift, Counted, Instances, Hands

LEMMA EntriesFinite ==
    ASSUME IInv, NEW f \in DOMAIN file
    PROVE  /\ IsFiniteSet(Entries(f, procs)) /\ IsFiniteSet(Entries(f, Hands))
           /\ Cardinality(Entries(f, procs)) \in Nat
           /\ Cardinality(Entries(f, Hands)) \in Nat
  BY FS_CardinalityType DEF IInv, Counted

LEMMA AddFileIInv == ASSUME IInv, NEW t \in Task, AddFile(t) PROVE IInv'
<1>0. /\ t \in Actor /\ Typed /\ ActorSound(t) /\ pc[t].at = "opened"
      /\ Home[t] \in Pid /\ wlock \in Actor \cup {None}
  BY FilesFacts DEF IInv, ListsSound, AddFile, Is, Typed
<1>1. CASE Home[t] \notin DOMAIN procs
  BY <1>1, PanicIInv DEF AddFile
<1>2. CASE Home[t] \in DOMAIN procs
  <2>. SUFFICES ASSUME NEW q \in DOMAIN procs, q = Home[t], NEW f, f = pc[t].todo[1]
                PROVE  IInv'
    BY <1>2
  <2>0. /\ pc[t].todo = <<f>> /\ f \in DOMAIN file /\ f \in Nat
        /\ Known(procs[q], DOMAIN file) /\ q \in Pid
    <3>1. Known(pc[t].todo, DOMAIN file) /\ Len(pc[t].todo) = 1
      BY <1>0 DEF ActorSound
    <3>2. pc[t].todo = <<f>>
      BY <3>1, OneEntry DEF Known
    <3>. QED BY <1>0, <3>1, <3>2, FirstKnown DEF IInv, ListsSound, Known
  <2>1. /\ PcStep(t) /\ pc'[t].at = "idle" /\ pc'[t].todo = <<>>
        /\ procs' = [procs EXCEPT ![q] = Append(@, f)]
        /\ UNCHANGED <<file, open_files, next_fat, wins, next_whnd, free, dmap, wlock>>
    BY <1>0, <1>2, AtStep DEF AddFile, fat, windows, locks
  <2>2. /\ procs[q] \in Seq(Nat) /\ procs'[q] = Append(procs[q], f)
        /\ procs'[q] \in Seq(Nat) /\ DOMAIN procs' = DOMAIN procs
        /\ \A p \in DOMAIN procs \ {q} : procs'[p] = procs[p]
    BY <2>0, <2>1 DEF Known
  <2>3. Typed'
    BY <1>0, <2>1, <2>2 DEF Typed, PcStep
  <2>4. ListsSound'
    <3>1. \A p \in DOMAIN procs \ {q} : Known(procs'[p], DOMAIN file')
      BY <2>1, <2>2 DEF IInv, ListsSound
    <3>2. Known(procs'[q], DOMAIN file')
      <4>1. \A i \in DOMAIN Append(procs[q], f) :
                Append(procs[q], f)[i] = f \/ \E k \in DOMAIN procs[q] :
                            Append(procs[q], f)[i] = procs[q][k]
        BY <2>0, <2>2
      <4>. QED BY <2>0, <2>1, <2>2, <4>1 DEF Known
    <3>3. ActorSound(t)'
      BY <2>1 DEF ActorSound, Drops, Reserves
    <3>. QED BY <1>0, <2>1, <2>2, <3>1, <3>2, <3>3, ListsStep DEF IInv
  <2>5. SameFiles
    BY <2>1 DEF SameFiles
  <2>6. HandlesSound' /\ \A a \in Actor : ClosesOnce(a)'
    <3>1. HandlesSound'
      BY <1>0, <2>1, <2>5, HandlesStep DEF IInv, Reserves
    <3>. QED BY <1>0, <2>1, <3>1, ClosesStep
  <2>7. DriversSound'
    <3>1. \A g \in DOMAIN file : Live(g)' <=> Live(g)
      BY <1>0, <2>1, SameClosers DEF Live
    <3>. QED BY <2>1, <2>5, <3>1, DriversStep DEF IInv
  <2>8. BlocksSound'
    BY <1>0, <2>1, BlocksStep DEF IInv
  <2>9. MapsSound'
    <3>1. \A g \in DOMAIN file, p \in DOMAIN procs : Mapped(g, p) => Mapped(g, p)'
      BY <2>1 DEF Mapped
    <3>2. Mapped(f, q)
      BY <1>0, <2>0 DEF IInv, MapsSound
    <3>3. ASSUME NEW p \in DOMAIN procs, NEW g \in DOMAIN file, Owns(p, g)'
          PROVE  Owns(p, g) \/ (p = q /\ g = f)
      <4>1. CASE p # q
        BY <2>2, <3>3, <4>1 DEF Owns
      <4>2. CASE p = q
        <5>1. \A i \in DOMAIN Append(procs[q], f) :
                  Append(procs[q], f)[i] = f \/ \E k \in DOMAIN procs[q] :
                              Append(procs[q], f)[i] = procs[q][k]
          BY <2>0, <2>2
        <5>2. PICK i \in DOMAIN procs'[q] : procs'[q][i] = g
          BY <3>3, <4>2 DEF Owns
        <5>3. g = f \/ \E k \in DOMAIN procs[q] : procs[q][k] = g
          BY <2>2, <5>1, <5>2
        <5>. QED BY <4>2, <5>3 DEF Owns
      <4>. QED BY <4>1, <4>2
    <3>4. \A u \in Task : pc'[u].at = "opened" => pc'[u] = pc[u]
      BY <2>1, FilesFacts DEF PcStep
    <3>5. ASSUME NEW p \in DOMAIN procs', NEW g \in DOMAIN file', Owns(p, g)'
          PROVE  Mapped(g, p)'
      <4>1. p \in DOMAIN procs /\ g \in DOMAIN file
        BY <2>1, <2>2, <3>5
      <4>2. Owns(p, g) => Mapped(g, p)
        BY <4>1 DEF IInv, MapsSound
      <4>. QED BY <3>1, <3>2, <3>3, <3>5, <4>1, <4>2
    <3>6. ASSUME NEW u \in Task, NEW g \in DOMAIN file', NEW p \in DOMAIN procs',
                 pc'[u].at = "opened", pc'[u].todo[1] = g, Home[u] = p
          PROVE  Mapped(g, p)'
      <4>1. p \in DOMAIN procs /\ g \in DOMAIN file /\ pc'[u] = pc[u]
        BY <2>1, <2>2, <3>4, <3>6
      <4>2. Mapped(g, p)
        BY <3>6, <4>1 DEF IInv, MapsSound
      <4>. QED BY <3>1, <4>1, <4>2
    <3>. QED BY <3>5, <3>6 DEF MapsSound
  <2>10. ASSUME NEW g \in DOMAIN file PROVE Counted(g)'
    <3>1. /\ Waiting(t) = <<f>> /\ Waiting(t)' = <<>> /\ <<f>> \in Seq(Nat)
          /\ <<>> \in Seq(Nat)
      BY <1>0, <2>0, <2>1 DEF Waiting
    <3>2. HandsShift(g, t)
      BY <1>0, <2>1, <3>1, EntriesFinite, HandsStep
    <3>3. RowShift(g, procs, procs', q)
      BY <2>2, EntriesFinite, RowChanged
    <3>4. /\ Tally(g, <<>>) = 0 /\ Tally(g, <<f>>) = IF g = f THEN 1 ELSE 0
          /\ Tally(g, procs'[q]) = Tally(g, procs[q]) + (IF g = f THEN 1 ELSE 0)
      BY <2>0, <2>2, TallyNone, TallyOne, TallyAppend
    <3>5. CountShift(g, 0)
      <4>1. file'[g].count = file[g].count + 0
        <5>1. file[g] \in FileType
          BY <1>0 DEF Typed
        <5>2. file[g].count \in Nat
          BY <5>1 DEF FileType
        <5>. QED BY <2>1, <5>2
      <4>. DEFINE one == IF g = f THEN 1 ELSE 0
      <4>2. one \in Nat /\ Tally(g, Waiting(t)) = one /\ Tally(g, Waiting(t)') = 0
            /\ Tally(g, procs'[q]) = Tally(g, procs[q]) + one
        BY <3>1, <3>4
      <4>. HIDE DEF one
      <4>3. /\ IsFiniteSet(Entries(g, Hands')) /\ IsFiniteSet(Entries(g, procs'))
            /\ DOMAIN file' = DOMAIN file
        BY <2>1, <3>2, <3>3 DEF HandsShift, RowShift
      <4>4. Cardinality(Entries(g, procs')) + Cardinality(Entries(g, Hands')) =
                Cardinality(Entries(g, procs)) + Cardinality(Entries(g, Hands)) + 0
        BY <3>2, <3>3, <4>2 DEF HandsShift, RowShift
      <4>. QED BY <4>1, <4>3, <4>4 DEF CountShift
    <3>. QED BY <3>5, CountShifts
  <2>. QED BY <2>1, <2>3, <2>4, <2>6, <2>7, <2>8, <2>9, <2>10 DEF IInv
<1>. QED BY <1>1, <1>2

\* A step that sets the count of one File.
Recounted(f, n) ==
    /\ SameFiles /\ file' \in Seq(FileType) /\ file'[f].count = n
    /\ \A g \in DOMAIN file \ {f} : file'[g] = file[g]

LEMMA Recount ==
    ASSUME Typed, NEW f \in DOMAIN file, NEW n \in Nat,
           file' = [file EXCEPT ![f].count = n]
    PROVE  Recounted(f, n)
<1>1. file \in Seq(FileType) /\ file[f] \in FileType
  BY DEF Typed
<1>2. file' = [file EXCEPT ![f] = [file[f] EXCEPT !.count = n]]
  BY <1>1
<1>. DEFINE r == [file[f] EXCEPT !.count = n]
<1>3. r \in FileType /\ r.count = n /\ r.dev = file[f].dev /\ r.hnd = file[f].hnd
  BY <1>1 DEF FileType
<1>. HIDE DEF r
<1>4. file' = [file EXCEPT ![f] = r]
  BY <1>2 DEF r
<1>5. file' \in Seq(FileType)
  BY <1>1, <1>3, <1>4
<1>6. /\ DOMAIN file' = DOMAIN file /\ file'[f] = r
      /\ \A g \in DOMAIN file \ {f} : file'[g] = file[g]
  BY <1>1, <1>4
<1>. QED BY <1>3, <1>5, <1>6 DEF Recounted, SameFiles

LEMMA GetFileIInv ==
    ASSUME IInv, NEW t \in Task, NEW fd \in 1..MaxOpens, GetFile(t, fd) PROVE IInv'
<1>0. /\ t \in Actor /\ Typed /\ pc[t].at = "idle" /\ Home[t] \in DOMAIN procs
      /\ fd \in DOMAIN procs[Home[t]] /\ wlock \in Actor \cup {None}
  BY FilesFacts DEF IInv, GetFile, Is, Has, Typed
<1>. SUFFICES ASSUME NEW q \in DOMAIN procs, q = Home[t], NEW f, f = procs[q][fd],
                     NEW n, n = file[f].count + 1
              PROVE  IInv'
  BY <1>0
<1>1. f \in DOMAIN file /\ f \in Nat /\ fd \in DOMAIN procs[q]
  BY <1>0 DEF IInv, ListsSound, Known
<1>2. file[f].count > 0 /\ file[f].count \in Nat /\ n \in Nat
  BY <1>1, Alive
<1>3. /\ PcStep(t) /\ pc'[t].at = "using" /\ pc'[t].todo = <<f>>
      /\ file' = [file EXCEPT ![f].count = n]
      /\ UNCHANGED <<procs, open_files, next_fat, wins, next_whnd, free, dmap, wlock>>
  BY <1>0, AtStep DEF GetFile, fat, windows, locks
<1>4. /\ SameFiles /\ file' \in Seq(FileType) /\ file'[f].count = n
      /\ \A g \in DOMAIN file \ {f} : file'[g] = file[g]
  <2>1. Recounted(f, n)
    BY <1>0, <1>1, <1>2, <1>3, Recount
  <2>. QED BY <2>1 DEF Recounted
<1>5. Typed'
  BY <1>0, <1>3, <1>4 DEF Typed, PcStep
<1>6. ListsSound'
  <2>1. \A p \in DOMAIN procs' : Known(procs'[p], DOMAIN file')
    BY <1>3, <1>4 DEF IInv, ListsSound, SameFiles
  <2>2. Known(<<f>>, DOMAIN file')
    BY <1>1, <1>4 DEF Known, SameFiles
  <2>3. ActorSound(t)'
    <3>1. Len(<<f>>) = 1 /\ Known(pc'[t].todo, DOMAIN file') /\ Len(pc'[t].todo) = 1
      BY <1>3, <2>2
    <3>. QED BY <1>3, <3>1 DEF ActorSound, Drops, Reserves
  <2>4. Typed /\ ListsSound /\ t \in Actor /\ PcStep(t) /\ wlock' = wlock
    BY <1>0, <1>3 DEF IInv
  <2>5. DOMAIN file \subseteq DOMAIN file'
    BY <1>4 DEF SameFiles
  <2>. QED BY <2>1, <2>3, <2>4, <2>5, ListsStep
<1>7. HandlesSound'
  BY <1>0, <1>3, <1>4, HandlesStep DEF IInv, Reserves
<1>8. \A a \in Actor : ClosesOnce(a)'
  <2>1. \A g \in DOMAIN file : file[g].count = 0 => file'[g].count = 0
    BY <1>2, <1>4
  <2>. QED BY <1>0, <1>3, <2>1, ClosesStep
<1>9. DriversSound'
  <2>1. \A g : (\E b \in Actor : Closes(b, g)') <=> \E b \in Actor : Closes(b, g)
    BY <1>0, <1>3, SameClosers
  <2>2. \A g \in DOMAIN file : file'[g].count > 0 <=> file[g].count > 0
    <3>1. file'[f].count > 0
      BY <1>2, <1>4
    <3>. QED BY <1>2, <1>4, <3>1
  <2>3. \A g \in DOMAIN file : Live(g)' <=> Live(g)
    BY <2>1, <2>2 DEF Live
  <2>. QED BY <1>3, <1>4, <2>3, DriversStep DEF IInv
<1>10. BlocksSound'
  BY <1>0, <1>3, BlocksStep DEF IInv
<1>11. MapsSound'
  <2>1. \A p \in DOMAIN procs', g \in DOMAIN file : Owns(p, g)' => Owns(p, g)
    BY <1>3 DEF Owns
  <2>. QED BY <1>0, <1>3, <1>4, <2>1, MapsStep
<1>12. ASSUME NEW g \in DOMAIN file PROVE Counted(g)'
  <2>. DEFINE d == IF g = f THEN 1 ELSE 0
  <2>1. Waiting(t) = <<>> /\ Waiting(t)' = <<f>> /\ <<f>> \in Seq(Nat) /\ <<>> \in Seq(Nat)
    BY <1>0, <1>1, <1>3 DEF Waiting
  <2>2. HandsShift(g, t)
    BY <1>0, <1>3, <2>1, EntriesFinite, HandsStep
  <2>3. Tally(g, <<>>) = 0 /\ Tally(g, <<f>>) = d
    BY <1>1, TallyNone, TallyOne
  <2>4. file[g].count \in Nat
    <3>1. file[g] \in FileType
      BY <1>0 DEF Typed
    <3>. QED BY <3>1 DEF FileType
  <2>5. file'[g].count = file[g].count + d
    BY <1>2, <1>4, <2>4
  <2>. HIDE DEF d
  <2>6. d \in Int
    BY DEF d
  <2>7. CountShift(g, d)
    <3>1. /\ IsFiniteSet(Entries(g, procs')) /\ procs' = procs
          /\ Cardinality(Entries(g, procs)) \in Nat
      BY <1>3, EntriesFinite
    <3>2. DOMAIN file' = DOMAIN file
      BY <1>4 DEF SameFiles
    <3>. QED BY <2>1, <2>2, <2>3, <2>5, <2>6, <3>1, <3>2 DEF HandsShift, CountShift
  <2>. QED BY <2>6, <2>7, CountShifts
<1>. QED BY <1>4, <1>5, <1>6, <1>7, <1>8, <1>9, <1>10, <1>11, <1>12 DEF IInv, SameFiles

LEMMA CloseIInv ==
    ASSUME IInv, NEW t \in Task, NEW fd \in 1..MaxOpens, Close(t, fd) PROVE IInv'
<1>0. /\ t \in Actor /\ Typed /\ pc[t].at = "idle" /\ Home[t] \in DOMAIN procs
      /\ fd \in DOMAIN procs[Home[t]] /\ wlock \in Actor \cup {None}
  BY FilesFacts DEF IInv, Close, Is, Has, Typed
<1>. SUFFICES ASSUME NEW q \in DOMAIN procs, q = Home[t], NEW f, f = procs[q][fd]
              PROVE  IInv'
  BY <1>0
<1>1. /\ f \in DOMAIN file /\ f \in Nat /\ procs[q] \in Seq(Nat)
      /\ fd \in DOMAIN procs[q]
  BY <1>0 DEF IInv, ListsSound, Known
<1>3. /\ PcStep(t) /\ pc'[t].at = "dropping" /\ pc'[t].todo = <<f>>
      /\ procs' = [procs EXCEPT ![q] = Removed(@, fd)]
      /\ UNCHANGED <<file, open_files, next_fat, wins, next_whnd, free, dmap, wlock>>
  BY <1>0, AtStep DEF Close, fat, windows
<1>4. /\ procs'[q] = Removed(procs[q], fd) /\ DOMAIN procs' = DOMAIN procs
      /\ \A p \in DOMAIN procs \ {q} : procs'[p] = procs[p]
      /\ procs'[q] \in Seq(Nat)
      /\ \A i \in DOMAIN procs'[q] : \E k \in DOMAIN procs[q] : procs'[q][i] = procs[q][k]
  <2>1. /\ procs'[q] = Removed(procs[q], fd) /\ DOMAIN procs' = DOMAIN procs
        /\ \A p \in DOMAIN procs \ {q} : procs'[p] = procs[p]
    BY <1>0, <1>3 DEF Typed
  <2>2. /\ Removed(procs[q], fd) \in Seq(Nat)
        /\ \A i \in DOMAIN Removed(procs[q], fd) :
                \E k \in DOMAIN procs[q] : Removed(procs[q], fd)[i] = procs[q][k]
    BY <1>1, TallyRemoved
  <2>. QED BY <2>1, <2>2
<1>5. Typed'
  BY <1>0, <1>3, <1>4 DEF Typed, PcStep
<1>6. ListsSound'
  <2>1. \A p \in DOMAIN procs \ {q} : Known(procs'[p], DOMAIN file')
    BY <1>3, <1>4 DEF IInv, ListsSound
  <2>2. Known(procs'[q], DOMAIN file')
    BY <1>3, <1>4 DEF IInv, ListsSound, Known
  <2>3. Known(<<f>>, DOMAIN file')
    BY <1>1, <1>3 DEF Known
  <2>4. ActorSound(t)'
    BY <1>3, <2>3 DEF ActorSound, Drops, Reserves
  <2>. QED BY <1>0, <1>3, <1>4, <2>1, <2>2, <2>4, ListsStep DEF IInv
<1>7. SameFiles
  BY <1>3 DEF SameFiles
<1>8. HandlesSound' /\ \A a \in Actor : ClosesOnce(a)'
  <2>1. HandlesSound'
    BY <1>0, <1>3, <1>7, HandlesStep DEF IInv, Reserves
  <2>. QED BY <1>0, <1>3, <2>1, ClosesStep
<1>9. DriversSound'
  <2>1. \A g \in DOMAIN file : Live(g)' <=> Live(g)
    BY <1>0, <1>3, SameClosers DEF Live
  <2>. QED BY <1>3, <1>7, <2>1, DriversStep DEF IInv
<1>10. BlocksSound'
  BY <1>0, <1>3, BlocksStep DEF IInv
<1>11. MapsSound'
  <2>1. ASSUME NEW p \in DOMAIN procs', NEW g \in DOMAIN file, Owns(p, g)' PROVE Owns(p, g)
    <3>1. PICK i \in DOMAIN procs'[p] : procs'[p][i] = g
      BY <2>1 DEF Owns
    <3>2. \E k \in DOMAIN procs[p] : procs[p][k] = g
      <4>1. CASE p = q
        BY <1>4, <3>1, <4>1
      <4>2. CASE p # q
        BY <1>4, <3>1, <4>2
      <4>. QED BY <4>1, <4>2
    <3>. QED BY <3>2 DEF Owns
  <2>. QED BY <1>0, <1>3, <1>4, <1>7, <2>1, MapsStep
<1>12. ASSUME NEW g \in DOMAIN file PROVE Counted(g)'
  <2>1. Waiting(t) = <<>> /\ Waiting(t)' = <<f>> /\ <<f>> \in Seq(Nat) /\ <<>> \in Seq(Nat)
    BY <1>0, <1>1, <1>3 DEF Waiting
  <2>2. HandsShift(g, t)
    BY <1>0, <1>3, <2>1, EntriesFinite, HandsStep
  <2>3. RowShift(g, procs, procs', q)
    BY <1>1, <1>4, EntriesFinite, RowChanged
  <2>4. /\ Tally(g, <<>>) = 0 /\ Tally(g, <<f>>) = IF g = f THEN 1 ELSE 0
        /\ Tally(g, procs'[q]) = Tally(g, procs[q]) - (IF g = f THEN 1 ELSE 0)
    BY <1>1, <1>4, TallyNone, TallyOne, TallyRemoved
  <2>5. CountShift(g, 0)
    <3>1. file'[g].count = file[g].count + 0
      <4>1. file[g] \in FileType
        BY <1>0 DEF Typed
      <4>2. file[g].count \in Nat
        BY <4>1 DEF FileType
      <4>. QED BY <1>3, <4>2
    <3>2. /\ Tally(g, Waiting(t)') = Tally(g, Waiting(t)) + (IF g = f THEN 1 ELSE 0)
          /\ Tally(g, procs'[q]) = Tally(g, procs[q]) - (IF g = f THEN 1 ELSE 0)
      BY <2>1, <2>4
    <3>3. Cardinality(Entries(g, procs')) + Cardinality(Entries(g, Hands')) =
            Cardinality(Entries(g, procs)) + Cardinality(Entries(g, Hands)) + 0
      <4>1. CASE g = f
        BY <2>2, <2>3, <3>2, <4>1 DEF HandsShift, RowShift
      <4>2. CASE g # f
        BY <2>2, <2>3, <3>2, <4>2 DEF HandsShift, RowShift
      <4>. QED BY <4>1, <4>2
    <3>. QED BY <1>3, <2>2, <2>3, <3>1, <3>3 DEF HandsShift, RowShift, CountShift
  <2>. QED BY <2>5, CountShifts
<1>. QED BY <1>3, <1>5, <1>6, <1>8, <1>9, <1>10, <1>11, <1>12 DEF IInv

LEMMA DropFileIInv == ASSUME IInv, NEW a \in Actor, DropFile(a) PROVE IInv'
<1>. SUFFICES ASSUME NEW l, l = pc[a].todo, NEW f, f = l[1],
                     NEW n, n = file[f].count - 1
              PROVE  IInv'
  OBVIOUS
<1>0. /\ Typed /\ pc[a].at = "dropping" /\ pc[a].at \in Drops
      /\ Waiting(a) = l /\ wlock \in Actor \cup {None}
  BY DEF IInv, DropFile, Is, Typed, Drops, Waiting
<1>1. /\ l \in Seq(Nat) /\ Len(l) > 0 /\ 1 \in DOMAIN l /\ f \in DOMAIN file
      /\ Known(l, DOMAIN file)
  BY <1>0, FirstKnown DEF IInv, ListsSound, ActorSound
<1>2. file[f].count > 0 /\ file[f].count \in Nat /\ n \in Nat
  BY <1>0, <1>1, Alive
<1>3. /\ file' = [file EXCEPT ![f].count = n]
      /\ UNCHANGED <<procs, open_files, next_fat, wins, next_whnd, free, dmap, wlock>>
  BY DEF DropFile, fat, windows
<1>4. /\ SameFiles /\ file' \in Seq(FileType) /\ file'[f].count = n
      /\ \A g \in DOMAIN file \ {f} : file'[g] = file[g]
  <2>1. Recounted(f, n)
    BY <1>0, <1>1, <1>2, <1>3, Recount
  <2>. QED BY <2>1 DEF Recounted
<1>5. /\ PcStep(a) /\ pc'[a].at \in {"dropping", "idle", "closing"}
      /\ ActorSound(a)' /\ Waiting(a)' = Tail(l)
      /\ \A g : Closes(a, g)' <=> n = 0 /\ g = f
  <2>1. CASE n > 0
    <3>0. DOMAIN file' = DOMAIN file /\ file[f].count > 1
      BY <1>2, <1>4, <2>1 DEF SameFiles
    <3>1. Dropped(a) /\ DOMAIN file' = DOMAIN file
      BY <3>0 DEF DropFile
    <3>2. /\ PcStep(a) /\ pc'[a].at \in {"dropping", "idle"}
          /\ ActorSound(a)' /\ Waiting(a)' = Tail(l)
      BY <1>0, <3>1, DroppedStep
    <3>. QED BY <2>1, <3>2 DEF Closes
  <2>2. CASE n = 0
    <3>1. PcStep(a) /\ pc'[a].at = "closing" /\ pc'[a].todo = l
      BY <1>0, <1>2, <2>2, AtStep DEF DropFile
    <3>2. Known(l, DOMAIN file')
      BY <1>1, <1>4 DEF SameFiles
    <3>3. ActorSound(a)'
      BY <1>1, <3>1, <3>2 DEF ActorSound, Drops, Reserves
    <3>. QED BY <2>2, <3>1, <3>3 DEF Closes, Waiting
  <2>. QED BY <1>2, <2>1, <2>2
<1>6. Typed'
  BY <1>0, <1>3, <1>4, <1>5 DEF Typed, PcStep
<1>7. ListsSound'
  <2>1. \A p \in DOMAIN procs' : Known(procs'[p], DOMAIN file')
    BY <1>3, <1>4 DEF IInv, ListsSound, SameFiles
  <2>. QED BY <1>0, <1>3, <1>4, <1>5, <2>1, ListsStep DEF IInv, SameFiles
<1>8. HandlesSound'
  BY <1>0, <1>3, <1>4, <1>5, HandlesStep DEF IInv, Reserves
<1>9. ~\E b \in Actor : Closes(b, f)
  <2>1. \A b \in Actor : ClosesOnce(b)
    BY DEF IInv
  <2>. QED BY <1>2, <2>1 DEF Closes, ClosesOnce
<1>10. \A b \in Actor : \A g : Closes(b, g)' <=> Closes(b, g) \/ (b = a /\ n = 0 /\ g = f)
  BY <1>0, <1>5 DEF PcStep, Closes
<1>11. \A b \in Actor : ClosesOnce(b)'
  <2>. SUFFICES ASSUME NEW b \in Actor, NEW g, Closes(b, g)'
                PROVE  /\ file'[g].count = 0
                       /\ \A c \in Actor : c # b => ~Closes(c, g)'
    BY DEF Closes, ClosesOnce
  <2>1. CASE Closes(b, g)
    <3>1. /\ g \in DOMAIN file /\ file[g].count = 0 /\ g # f
          /\ \A c \in Actor : c # b => ~Closes(c, g)
      BY <1>9, <2>1, FirstKnown DEF IInv, Closes, ClosesOnce, Drops
    <3>. QED BY <1>4, <1>10, <3>1
  <2>2. CASE b = a /\ n = 0 /\ g = f
    BY <1>4, <1>9, <1>10, <2>2
  <2>. QED BY <1>10, <2>1, <2>2
<1>12. DriversSound'
  <2>1. ASSUME NEW g \in DOMAIN file PROVE Live(g)' <=> Live(g)
    <3>1. CASE g = f
      <4>1. Live(f)
        BY <1>2 DEF Live
      <4>2. Live(f)'
        BY <1>2, <1>4, <1>10 DEF Live
      <4>. QED BY <3>1, <4>1, <4>2
    <3>2. CASE g # f
      BY <1>4, <1>10, <3>2 DEF Live
    <3>. QED BY <3>1, <3>2
  <2>. QED BY <1>3, <1>4, <2>1, DriversStep DEF IInv
<1>13. BlocksSound'
  BY <1>0, <1>3, <1>5, BlocksStep DEF IInv
<1>14. MapsSound'
  <2>1. \A p \in DOMAIN procs', g \in DOMAIN file : Owns(p, g)' => Owns(p, g)
    BY <1>3 DEF Owns
  <2>. QED BY <1>3, <1>4, <1>5, <2>1, MapsStep
<1>15. ASSUME NEW g \in DOMAIN file PROVE Counted(g)'
  <2>. DEFINE d == IF g = f THEN -1 ELSE 0
  <2>1. Tail(l) \in Seq(Nat) /\ Tally(g, Tail(l)) = Tally(g, l) - (IF f = g THEN 1 ELSE 0)
    BY <1>1, TallyTail
  <2>2. HandsShift(g, a)
    BY <1>0, <1>1, <1>5, <2>1, EntriesFinite, HandsStep
  <2>3. file[g].count \in Nat
    <3>1. file[g] \in FileType
      BY <1>0 DEF Typed
    <3>. QED BY <3>1 DEF FileType
  <2>4. file'[g].count = file[g].count + d
    BY <1>2, <1>4, <2>3
  <2>5. Tally(g, l) \in Nat /\ Tally(g, Tail(l)) = Tally(g, l) + d
    <3>1. Tally(g, l) \in Nat
      BY <1>0, <2>2, Zenon DEF HandsShift
    <3>. QED BY <3>1, <2>1
  <2>. HIDE DEF d
  <2>6. d \in Int
    BY DEF d
  <2>7. CountShift(g, d)
    <3>1. /\ IsFiniteSet(Entries(g, procs')) /\ procs' = procs
          /\ Cardinality(Entries(g, procs)) \in Nat
      BY <1>3, EntriesFinite
    <3>2. DOMAIN file' = DOMAIN file
      BY <1>4 DEF SameFiles
    <3>. QED BY <1>0, <1>5, <2>2, <2>4, <2>5, <2>6, <3>1, <3>2 DEF HandsShift, CountShift
  <2>. QED BY <2>6, <2>7, CountShifts
<1>. QED BY <1>4, <1>6, <1>7, <1>8, <1>11, <1>12, <1>13, <1>14, <1>15 DEF IInv, SameFiles

LEMMA CloseFatIInv == ASSUME IInv, NEW a \in Actor, CloseFat(a) PROVE IInv'
<1>. SUFFICES ASSUME NEW l, l = pc[a].todo, NEW f, f = l[1], NEW h, h = file[f].hnd
              PROVE  IInv'
  OBVIOUS
<1>0. /\ Typed /\ pc[a].at = "closing" /\ pc[a].at \in Drops /\ file[f].dev = "fat"
      /\ Waiting(a) = Tail(l) /\ wlock \in Actor \cup {None}
  BY DEF IInv, CloseFat, Is, Typed, Drops, Waiting
<1>1. /\ f \in DOMAIN file /\ file[f].count = 0
      /\ \A b \in Actor : b # a => ~Closes(b, f)
  BY <1>0, FirstKnown DEF IInv, ClosesOnce
<1>2. /\ Dropped(a) /\ open_files' = open_files \ {h}
      /\ UNCHANGED <<procs, file, next_fat, wins, next_whnd, free, dmap, wlock>>
  BY DEF CloseFat, Closed, windows
<1>3. /\ PcStep(a) /\ pc'[a].at \in {"dropping", "idle"}
      /\ ActorSound(a)' /\ Waiting(a)' = Waiting(a)
  BY <1>0, <1>2, DroppedStep
<1>4. SameFiles
  BY <1>2 DEF SameFiles
<1>5. Typed'
  BY <1>0, <1>2, <1>3 DEF Typed, PcStep
<1>6. ListsSound'
  <2>1. \A p \in DOMAIN procs' : Known(procs'[p], DOMAIN file')
    BY <1>2 DEF IInv, ListsSound
  <2>. QED BY <1>0, <1>2, <1>3, <2>1, ListsStep DEF IInv
<1>7. HandlesSound'
  BY <1>0, <1>2, <1>3, <1>4, HandlesStep DEF IInv, Reserves
<1>8. \A b \in Actor : \A g : Closes(b, g)' <=> b # a /\ Closes(b, g)
  BY <1>3 DEF PcStep, Closes
<1>9. \A b \in Actor : ClosesOnce(b)'
  <2>. SUFFICES ASSUME NEW b \in Actor, NEW g, Closes(b, g)'
                PROVE  /\ file'[g].count = 0
                       /\ \A c \in Actor : c # b => ~Closes(c, g)'
    BY DEF Closes, ClosesOnce
  <2>. QED BY <1>2, <1>8 DEF IInv, Closes, ClosesOnce
<1>10. \A g \in DOMAIN file : Live(g)' <=> g # f /\ Live(g)
  <2>2. ~(\E b \in Actor : Closes(b, f)') /\ ~(file[f].count > 0)
    BY <1>1, <1>8
  <2>3. ~Live(f)'
    BY <1>2, <2>2 DEF Live
  <2>4. ASSUME NEW g \in DOMAIN file, g # f PROVE Live(g)' <=> Live(g)
    <3>1. ~Closes(a, g)
      BY <2>4 DEF Closes
    <3>2. \A b \in Actor : Closes(b, g)' <=> Closes(b, g)
      BY <1>8, <3>1
    <3>. QED BY <1>2, <3>2 DEF Live
  <2>. QED BY <1>1, <2>3, <2>4
<1>11. DriversSound'
  <2>1. \A g \in DOMAIN file : \A dev, k : Denotes(g, dev, k)' <=> g # f /\ Denotes(g, dev, k)
    BY <1>2, <1>10 DEF Denotes
  <2>2. \A g \in DOMAIN file : g # f /\ file[g].dev = "fat" => file[g].hnd # h
    BY <1>0, <1>1 DEF IInv, HandlesSound, HandleSound
  <2>3. ASSUME NEW k
        PROVE  k \in open_files' <=> \E g \in DOMAIN file : Denotes(g, "fat", k)'
    <3>1. k \in open_files <=> \E g \in DOMAIN file : Denotes(g, "fat", k)
      BY DEF IInv, DriversSound
    <3>2. \A g \in DOMAIN file : Denotes(g, "fat", h) => g = f
      BY <2>2 DEF Denotes
    <3>3. Denotes(f, "fat", k) => k = h
      BY DEF Denotes
    <3>. QED BY <1>2, <2>1, <3>1, <3>2, <3>3
  <2>4. ASSUME NEW k
        PROVE  k \in DOMAIN wins <=> \E g \in DOMAIN file : Denotes(g, "gui", k)'
    <3>1. k \in DOMAIN wins <=> \E g \in DOMAIN file : Denotes(g, "gui", k)
      BY DEF IInv, DriversSound
    <3>2. ~Denotes(f, "gui", k)
      BY <1>0 DEF Denotes
    <3>. QED BY <2>1, <3>1, <3>2
  <2>. QED BY <1>2, <2>3, <2>4 DEF DriversSound
<1>12. BlocksSound'
  BY <1>0, <1>2, <1>3, BlocksStep DEF IInv
<1>13. MapsSound'
  <2>1. \A p \in DOMAIN procs', g \in DOMAIN file : Owns(p, g)' => Owns(p, g)
    BY <1>2 DEF Owns
  <2>. QED BY <1>2, <1>3, <1>4, <2>1, MapsStep
<1>14. \A g \in DOMAIN file : Counted(g)'
  BY <1>2, <1>3, CountSame
<1>. QED BY <1>2, <1>5, <1>6, <1>7, <1>9, <1>11, <1>12, <1>13, <1>14 DEF IInv

LEMMA DestroyWindowIInv == ASSUME IInv, NEW a \in Actor, DestroyWindow(a) PROVE IInv'
<1>. SUFFICES ASSUME NEW l, l = pc[a].todo, NEW f, f = l[1], NEW h, h = file[f].hnd,
                     NEW b, b = wins[h]
              PROVE  IInv'
  OBVIOUS
<1>0. /\ Typed /\ pc[a].at = "closing" /\ pc[a].at \in Drops /\ file[f].dev = "gui"
      /\ Waiting(a) = Tail(l) /\ wlock \in Actor \cup {None} /\ ActorSound(a)
  BY DEF IInv, DestroyWindow, Is, Typed, Drops, Waiting, ListsSound
<1>1. /\ f \in DOMAIN file /\ file[f].count = 0
      /\ \A c \in Actor : c # a => ~Closes(c, f)
  BY <1>0, FirstKnown DEF IInv, ClosesOnce
<1>2. /\ PcStep(a) /\ pc'[a].at = "drawing" /\ pc'[a].todo = l
      /\ free' = free \cup {b} /\ wins' = [w \in DOMAIN wins \ {h} |-> wins[w]]
      /\ UNCHANGED <<procs, file, open_files, next_fat, next_whnd, dmap, wlock>>
  BY <1>0, AtStep DEF DestroyWindow, fat, locks
<1>3. /\ SameFiles /\ Waiting(a)' = Waiting(a)
      /\ \A g \in DOMAIN file : g # f /\ file[g].dev = "gui" => file[g].hnd # h
  BY <1>0, <1>1, <1>2 DEF SameFiles, Waiting, IInv, HandlesSound, HandleSound
<1>4. ActorSound(a)'
  BY <1>0, <1>2 DEF ActorSound, Drops, Reserves
<1>5. h \in DOMAIN wins /\ b \in Blocks /\ Shows(b)
  <2>1. Denotes(f, "gui", h)
    BY <1>0 DEF Denotes, Live, Closes
  <2>2. h \in DOMAIN wins
    BY <1>1, <2>1 DEF IInv, DriversSound
  <2>. QED BY <1>0, <2>2 DEF Typed, Shows
<1>6. /\ DOMAIN wins' = DOMAIN wins \ {h}
      /\ \A w \in DOMAIN wins' : wins'[w] = wins[w]
  BY <1>2
<1>7. Typed'
  BY <1>0, <1>2, <1>5, <1>6 DEF Typed, PcStep
<1>8. ListsSound'
  <2>1. \A p \in DOMAIN procs' : Known(procs'[p], DOMAIN file')
    BY <1>2 DEF IInv, ListsSound
  <2>. QED BY <1>0, <1>2, <1>4, <2>1, ListsStep DEF IInv
<1>9. HandlesSound'
  BY <1>0, <1>2, <1>3, HandlesStep DEF IInv, Reserves
<1>10. \A c \in Actor : \A g : Closes(c, g)' <=> c # a /\ Closes(c, g)
  BY <1>2 DEF PcStep, Closes
<1>11. \A c \in Actor : ClosesOnce(c)'
  <2>. SUFFICES ASSUME NEW c \in Actor, NEW g, Closes(c, g)'
                PROVE  /\ file'[g].count = 0
                       /\ \A d \in Actor : d # c => ~Closes(d, g)'
    BY DEF Closes, ClosesOnce
  <2>. QED BY <1>2, <1>10 DEF IInv, Closes, ClosesOnce
<1>12. \A g \in DOMAIN file : Live(g)' <=> g # f /\ Live(g)
  <2>1. ~(\E c \in Actor : Closes(c, f)') /\ ~(file[f].count > 0)
    BY <1>1, <1>10
  <2>2. ~Live(f)'
    BY <1>2, <2>1 DEF Live
  <2>3. ASSUME NEW g \in DOMAIN file, g # f PROVE Live(g)' <=> Live(g)
    <3>1. ~Closes(a, g)
      BY <2>3 DEF Closes
    <3>2. \A c \in Actor : Closes(c, g)' <=> Closes(c, g)
      BY <1>10, <3>1
    <3>. QED BY <1>2, <3>2 DEF Live
  <2>. QED BY <1>1, <2>2, <2>3
<1>13. DriversSound'
  <2>1. \A g \in DOMAIN file : \A dev, k : Denotes(g, dev, k)' <=> g # f /\ Denotes(g, dev, k)
    BY <1>2, <1>12 DEF Denotes
  <2>2. ASSUME NEW k
        PROVE  k \in open_files <=> \E g \in DOMAIN file : Denotes(g, "fat", k)'
    <3>1. k \in open_files <=> \E g \in DOMAIN file : Denotes(g, "fat", k)
      BY DEF IInv, DriversSound
    <3>2. ~Denotes(f, "fat", k)
      BY <1>0 DEF Denotes
    <3>. QED BY <2>1, <3>1, <3>2
  <2>3. ASSUME NEW k
        PROVE  k \in DOMAIN wins' <=> \E g \in DOMAIN file : Denotes(g, "gui", k)'
    <3>1. k \in DOMAIN wins <=> \E g \in DOMAIN file : Denotes(g, "gui", k)
      BY DEF IInv, DriversSound
    <3>2. \A g \in DOMAIN file : Denotes(g, "gui", h) => g = f
      BY <1>3 DEF Denotes
    <3>3. Denotes(f, "gui", k) => k = h
      BY DEF Denotes
    <3>. QED BY <1>6, <2>1, <3>1, <3>2, <3>3
  <2>. QED BY <1>2, <2>2, <2>3 DEF DriversSound
<1>14. BlocksSound'
  <2>1. \A k : Shows(k)' <=> Shows(k) /\ k # b
    BY <1>5, <1>6 DEF IInv, BlocksSound, WinsDiffer, Shows
  <2>2. \A c \in Actor : \A k : Makes(c, k)' <=> Makes(c, k)
    BY <1>0, <1>2 DEF Makes, PcStep
  <2>3. \A k \in Blocks : BlockSound(k)
    BY DEF IInv, BlocksSound
  <2>4. ~\E c \in Actor : Makes(c, b)
    BY <1>5, <2>3 DEF BlockSound
  <2>5. \A k \in Blocks : BlockSound(k)'
    BY <1>2, <2>1, <2>2, <2>3, <2>4 DEF BlockSound
  <2>6. WinsDiffer'
    BY <1>6 DEF IInv, BlocksSound, WinsDiffer
  <2>7. MakesBlocks'
    BY <1>2 DEF IInv, BlocksSound, MakesBlocks, PcStep
  <2>. QED BY <2>5, <2>6, <2>7 DEF BlocksSound
<1>15. MapsSound'
  <2>1. ASSUME NEW g \in DOMAIN file, NEW p \in DOMAIN procs, Mapped(g, p),
               file[g].count > 0
        PROVE  Mapped(g, p)'
    <3>1. Live(g) /\ g # f
      BY <1>1, <2>1 DEF Live
    <3>2. file[g].dev = "gui" => file[g].hnd \in DOMAIN wins'
      BY <1>3, <1>6, <2>1, <3>1 DEF IInv, DriversSound, Denotes
    <3>. QED BY <1>2, <1>6, <2>1, <3>2 DEF Mapped
  <2>2. ASSUME NEW p \in DOMAIN procs, NEW g \in DOMAIN file, Owns(p, g)'
        PROVE  Mapped(g, p)'
    <3>1. Owns(p, g)
      BY <1>2, <2>2 DEF Owns
    <3>2. file[g].count > 0
      BY <3>1, Alive DEF Owns
    <3>. QED BY <2>1, <3>1, <3>2 DEF IInv, MapsSound
  <2>3. ASSUME NEW u \in Task, NEW g \in DOMAIN file, NEW p \in DOMAIN procs,
               pc'[u].at = "opened", pc'[u].todo[1] = g, Home[u] = p
        PROVE  Mapped(g, p)'
    <3>1. u \in Actor /\ pc'[u] = pc[u]
      BY <1>2, <2>3, FilesFacts DEF PcStep
    <3>2. 1 \in DOMAIN Waiting(u) /\ Waiting(u)[1] = g
      BY <2>3, <3>1, FirstKnown DEF Waiting
    <3>3. file[g].count > 0
      BY <3>1, <3>2, Alive
    <3>. QED BY <2>1, <2>3, <3>1, <3>3 DEF IInv, MapsSound
  <2>. QED BY <1>2, <2>2, <2>3 DEF MapsSound
<1>16. \A g \in DOMAIN file : Counted(g)'
  BY <1>2, <1>3, CountSame
<1>. QED BY <1>2, <1>7, <1>8, <1>9, <1>11, <1>13, <1>14, <1>15, <1>16 DEF IInv

LEMMA DropProcessIInv == ASSUME IInv, NEW q \in Pid, DropProcess(q) PROVE IInv'
<1>. SUFFICES ASSUME NEW l, l = procs[q] PROVE IInv'
  OBVIOUS
<1>0. /\ Worker \in Actor /\ Typed /\ pc[Worker].at = "idle" /\ q \in DOMAIN procs
      /\ wlock \in Actor \cup {None} /\ ActorSound(Worker) /\ Known(l, DOMAIN file)
      /\ DOMAIN pc = Actor
  BY FilesFacts DEF IInv, DropProcess, Is, Typed, ListsSound
<1>1. l \in Seq(Nat) /\ Waiting(Worker) = <<>>
  BY <1>0 DEF Known, Waiting
<1>2. /\ procs' = [p \in DOMAIN procs \ {q} |-> procs[p]]
      /\ dmap' = [dmap EXCEPT ![q] = {}]
      /\ UNCHANGED <<file, open_files, next_fat, wins, next_whnd, free, wlock>>
  BY DEF DropProcess, fat
<1>3. /\ PcStep(Worker) /\ pc'[Worker].at \in {"idle", "dropping"}
      /\ ActorSound(Worker)' /\ Waiting(Worker)' = l
  <2>1. CASE l = <<>>
    <3>1. pc' = pc
      BY <2>1 DEF DropProcess
    <3>2. PcStep(Worker)
      BY <1>0, <3>1 DEF PcStep
    <3>3. ActorSound(Worker)'
      BY <1>0, <3>1 DEF ActorSound, Drops, Reserves
    <3>. QED BY <1>0, <2>1, <3>1, <3>2, <3>3 DEF Waiting
  <2>2. CASE l # <<>>
    <3>1. PcStep(Worker) /\ pc'[Worker].at = "dropping" /\ pc'[Worker].todo = l
      BY <1>0, <2>2, AtStep DEF DropProcess
    <3>2. Len(l) > 0
      BY <1>1, <2>2
    <3>3. ActorSound(Worker)'
      BY <1>0, <1>2, <3>1, <3>2 DEF ActorSound, Drops, Reserves
    <3>. QED BY <3>1, <3>3 DEF Waiting
  <2>. QED BY <2>1, <2>2
<1>4. /\ DOMAIN procs' = DOMAIN procs \ {q}
      /\ \A p \in DOMAIN procs' : procs'[p] = procs[p] /\ dmap'[p] = dmap[p]
  BY <1>0, <1>2 DEF Typed
<1>5. SameFiles
  BY <1>2 DEF SameFiles
<1>6. Typed'
  BY <1>0, <1>2, <1>3, <1>4 DEF Typed, PcStep
<1>7. ListsSound'
  <2>1. \A p \in DOMAIN procs' : Known(procs'[p], DOMAIN file')
    BY <1>2, <1>4 DEF IInv, ListsSound
  <2>. QED BY <1>0, <1>2, <1>3, <2>1, ListsStep DEF IInv
<1>8. HandlesSound' /\ \A a \in Actor : ClosesOnce(a)'
  <2>1. HandlesSound'
    BY <1>0, <1>2, <1>3, <1>5, HandlesStep DEF IInv, Reserves
  <2>. QED BY <1>0, <1>2, <1>3, <2>1, ClosesStep
<1>9. DriversSound'
  <2>1. \A g \in DOMAIN file : Live(g)' <=> Live(g)
    BY <1>0, <1>2, <1>3, SameClosers DEF Live
  <2>. QED BY <1>2, <1>5, <2>1, DriversStep DEF IInv
<1>10. BlocksSound'
  BY <1>0, <1>2, <1>3, BlocksStep DEF IInv
<1>11. MapsSound'
  <2>1. \A g \in DOMAIN file, p \in DOMAIN procs' : Mapped(g, p)' <=> Mapped(g, p)
    BY <1>2, <1>4 DEF Mapped
  <2>2. \A p \in DOMAIN procs', g \in DOMAIN file : Owns(p, g)' <=> Owns(p, g)
    BY <1>4 DEF Owns
  <2>3. \A u \in Task : pc'[u] = pc[u]
    BY <1>3, FilesFacts DEF PcStep
  <2>. QED BY <1>2, <1>4, <2>1, <2>2, <2>3 DEF IInv, MapsSound
<1>12. ASSUME NEW g \in DOMAIN file PROVE Counted(g)'
  <2>1. HandsShift(g, Worker)
    <3>1. IsFiniteSet(Entries(g, Hands)) /\ <<>> \in Seq(Nat)
      BY EntriesFinite
    <3>. QED BY <1>0, <1>1, <1>3, <3>1, HandsStep
  <2>2. RowLost(g, procs, procs', q)
    <3>1. IsFiniteSet(Entries(g, procs))
      BY EntriesFinite
    <3>2. \A p \in DOMAIN procs \ {q} : procs'[p] = procs[p]
      BY <1>4
    <3>3. q \in DOMAIN procs /\ procs[q] \in Seq(Nat)
      BY <1>0, <1>1
    <3>. QED BY <1>4, <3>1, <3>2, <3>3, RowGone
  <2>3. /\ Tally(g, Waiting(Worker)) = 0 /\ Tally(g, Waiting(Worker)') = Tally(g, l)
    BY <1>1, <1>3, TallyNone
  <2>4. CountShift(g, 0)
    <3>1. file'[g].count = file[g].count + 0
      <4>1. file[g] \in FileType
        BY <1>0 DEF Typed
      <4>2. file[g].count \in Nat
        BY <4>1 DEF FileType
      <4>. QED BY <1>2, <4>2
    <3>. QED BY <1>2, <2>1, <2>2, <2>3, <3>1 DEF HandsShift, RowLost, CountShift
  <2>. QED BY <2>4, CountShifts
<1>. QED BY <1>2, <1>6, <1>7, <1>8, <1>9, <1>10, <1>11, <1>12 DEF IInv

LEMMA InitIInv == Init => IInv
<1>. SUFFICES ASSUME Init PROVE IInv
  OBVIOUS
<1>0. /\ file = <<>> /\ DOMAIN file = {} /\ wins = <<>> /\ DOMAIN wins = {}
      /\ DOMAIN procs = Pid /\ \A p \in Pid : procs[p] = <<>>
      /\ DOMAIN pc = Actor /\ \A a \in Actor : pc[a].at = "idle" /\ pc[a].todo = <<>>
      /\ dmap \in [Pid -> SUBSET Blocks]
  BY DEF Init, Actor
<1>1. Typed
  <2>1. /\ procs \in [DOMAIN procs -> Seq(Nat)] /\ wins \in [DOMAIN wins -> Blocks]
        /\ file \in Seq(FileType)
    BY <1>0 DEF Init
  <2>. QED BY <1>0, <2>1, FilesFacts DEF Init, Typed, HND_WINDOW0
<1>2. ListsSound
  <2>1. \A p \in DOMAIN procs : Known(procs[p], DOMAIN file)
    <3>1. Known(<<>>, DOMAIN file)
      BY DEF Known
    <3>2. \A p \in DOMAIN procs : procs[p] = <<>>
      BY <1>0
    <3>. QED BY <3>1, <3>2, Zenon
  <2>2. \A a \in Actor : ActorSound(a)
    BY <1>0 DEF ActorSound, Reserves, Drops
  <2>. QED BY <2>1, <2>2 DEF ListsSound
<1>3. HandlesSound /\ \A a \in Actor : ClosesOnce(a)
  BY <1>0 DEF HandlesSound, ReservesOnce, ClosesOnce, Reserves
<1>4. DriversSound
  BY <1>0 DEF Init, DriversSound
<1>5. BlocksSound
  BY <1>0 DEF Init, BlocksSound, BlockSound, Shows, Makes, WinsDiffer, MakesBlocks
<1>6. MapsSound
  BY <1>0 DEF MapsSound
<1>. QED BY <1>0, <1>1, <1>2, <1>3, <1>4, <1>5, <1>6 DEF IInv

LEMMA NextIInv == IInv /\ [Next]_vars => IInv'
<1>. SUFFICES ASSUME IInv, [Next]_vars PROVE IInv'
  OBVIOUS
<1>1. ASSUME NEW t \in Task, OpenFat(t) \/ Use(t) \/ Exit(t) PROVE IInv'
  BY <1>1, QuietActions
<1>2. ASSUME NEW t \in Task, OpenWindow(t) PROVE IInv'
  BY <1>2, OpenWindowIInv
<1>3. ASSUME NEW t \in Task, FatOpened(t) PROVE IInv'
  BY <1>3, FatOpenedIInv
<1>4. ASSUME NEW t \in Task, CreateWindow(t) PROVE IInv'
  BY <1>4, CreateWindowIInv
<1>5. ASSUME NEW t \in Task, MapWindow(t) PROVE IInv'
  BY <1>5, MapWindowIInv
<1>6. ASSUME NEW t \in Task, AddFile(t) PROVE IInv'
  BY <1>6, AddFileIInv
<1>7. ASSUME NEW t \in Task, NEW fd \in 1..MaxOpens, GetFile(t, fd) PROVE IInv'
  BY <1>7, GetFileIInv
<1>8. ASSUME NEW t \in Task, NEW fd \in 1..MaxOpens, Close(t, fd) PROVE IInv'
  BY <1>8, CloseIInv
<1>9. ASSUME NEW a \in Actor, DropFile(a) PROVE IInv'
  BY <1>9, DropFileIInv
<1>10. ASSUME NEW a \in Actor, CloseFat(a) PROVE IInv'
  BY <1>10, CloseFatIInv
<1>11. ASSUME NEW a \in Actor, DestroyWindow(a) PROVE IInv'
  BY <1>11, DestroyWindowIInv
<1>12. ASSUME NEW a \in Actor, UpdateScreen(a) PROVE IInv'
  BY <1>12, UpdateScreenIInv
<1>13. ASSUME NEW p \in Pid, DropProcess(p) PROVE IInv'
  BY <1>13, DropProcessIInv
<1>14. CASE UNCHANGED vars
  <2>1. /\ UNCHANGED <<procs, file, open_files, next_fat, wins, next_whnd, free, dmap>>
        /\ UNCHANGED <<wlock, pc>>
    BY <1>14 DEF vars
  <2>2. Typed' /\ ListsSound' /\ \A f \in DOMAIN file : Counted(f)'
    BY <2>1 DEF IInv, Typed, ListsSound, ActorSound, Counted, Instances, Hands, Waiting
  <2>3. HandlesSound' /\ (\A a \in Actor : ClosesOnce(a)')
    BY <2>1 DEF IInv, HandlesSound, HandleSound, ReservesOnce, Reserved, ClosesOnce, Closes
  <2>4. DriversSound'
    BY <2>1 DEF IInv, DriversSound, Denotes, Live, Closes
  <2>5. BlocksSound' /\ MapsSound'
    BY <2>1 DEF IInv, BlocksSound, BlockSound, WinsDiffer, MakesBlocks, Makes, Shows,
                MapsSound, Mapped, Owns
  <2>. QED BY <2>1, <2>2, <2>3, <2>4, <2>5 DEF IInv
<1>. QED BY <1>1, <1>2, <1>3, <1>4, <1>5, <1>6, <1>7, <1>8, <1>9, <1>10, <1>11,
            <1>12, <1>13, <1>14 DEF Next, Actor

\* The inductive invariant holds in every reachable state.
THEOREM Invariance == Spec => []IInv
<1>. QED BY InitIInv, NextIInv, PTL DEF Spec

-----------------------------------------------------------------------------
(* The properties                                                          *)

LEMMA IInvHandles == IInv => HandlesExact
<1>. SUFFICES ASSUME IInv PROVE HandlesExact
  OBVIOUS
<1>. DEFINE live(dev) == {f \in DOMAIN file : /\ file[f].dev = dev
                                /\ (file[f].count > 0 \/ f \in BeingClosed)}
<1>1. \A f \in DOMAIN file : file[f].count = Instances(f)
  BY DEF IInv, Counted
<1>2. \A f : f \in BeingClosed <=> \E a \in Actor : Closes(a, f)
  BY DEF BeingClosed, Closes
<1>3. \A dev, h : h \in {file[f].hnd : f \in live(dev)}
                        <=> \E f \in DOMAIN file : Denotes(f, dev, h)
  BY <1>2 DEF Denotes, Live
<1>. HIDE DEF live
<1>4. open_files = {file[f].hnd : f \in live("fat")}
  BY <1>3 DEF IInv, DriversSound
<1>5. DOMAIN wins = {file[f].hnd : f \in live("gui")}
  BY <1>3 DEF IInv, DriversSound
<1>6. \A f, g \in DOMAIN file : (f # g /\ file[f].dev = file[g].dev)
                                  => file[f].hnd # file[g].hnd
  BY DEF IInv, HandlesSound, HandleSound
<1>. QED BY <1>1, <1>4, <1>5, <1>6 DEF HandlesExact, live

\* fs/mod.rs:32, "closed when the last File instance is dropped": the count
\* of a File is the number of its instances in descriptors, hands and drops,
\* and the drivers hold open exactly the files that have one left or are just
\* being closed, each under a handle of its own.
THEOREM CountsAreExact == Spec => []HandlesExact
<1>. QED BY Invariance, IInvHandles, PTL

LEMMA IInvWindows == IInv => BlocksAccounted
<1>. SUFFICES ASSUME IInv PROVE BlocksAccounted
  OBVIOUS
<1>. DEFINE making == {t \in Task : pc[t].at = "win_map"}
            new    == {pc[t].todo[2] : t \in making}
            shown  == {wins[h] : h \in DOMAIN wins}
<1>0. /\ Typed /\ IsFiniteSet(Blocks) /\ Task \subseteq Actor
      /\ (\A b \in Blocks : BlockSound(b)) /\ WinsDiffer /\ MakesBlocks
  BY FilesFacts DEF IInv, BlocksSound
<1>1. \A b : b \in new <=> \E a \in Actor : Makes(a, b)
  BY <1>0 DEF IInv, ListsSound, ActorSound, Makes
<1>2. \A b : b \in shown <=> Shows(b)
  BY DEF Shows
<1>3. free \subseteq Blocks /\ new \subseteq Blocks /\ shown \subseteq Blocks
  BY <1>0 DEF Typed, MakesBlocks
<1>4. \A t, u \in making : t = u
  BY <1>0 DEF IInv, ListsSound, ActorSound
<1>5. Cardinality(making) = Cardinality(new) /\ IsFiniteSet(new)
  <2>. DEFINE m == [t \in making |-> pc[t].todo[2]]
  <2>1. /\ m \in [making -> new] /\ \A b \in new : \E t \in making : m[t] = b
    OBVIOUS
  <2>. HIDE DEF m, making, new
  <2>2. m \in Bijection(making, new)
    BY <1>4, <2>1 DEF Bijection, Injection, Surjection, IsInjective
  <2>3. IsFiniteSet(new)
    BY <1>0, <1>3, FS_Subset
  <2>. QED BY <2>2, <2>3, SameTally
<1>6. Cardinality(DOMAIN wins) = Cardinality(shown) /\ IsFiniteSet(shown)
  <2>. DEFINE m == [h \in DOMAIN wins |-> wins[h]]
  <2>1. /\ m \in [DOMAIN wins -> shown] /\ \A b \in shown : \E h \in DOMAIN wins : m[h] = b
        /\ \A g, h \in DOMAIN wins : m[g] = m[h] => g = h
    BY <1>0 DEF WinsDiffer
  <2>. HIDE DEF m, shown
  <2>2. m \in Bijection(DOMAIN wins, shown)
    BY <2>1 DEF Bijection, Injection, Surjection, IsInjective
  <2>3. IsFiniteSet(shown)
    BY <1>0, <1>3, FS_Subset
  <2>. QED BY <2>2, <2>3, SameTally
<1>. HIDE DEF making, new, shown
<1>7. /\ free \cup new \cup shown = Blocks
      /\ free \cap new = {} /\ (free \cup new) \cap shown = {}
  BY <1>0, <1>1, <1>2, <1>3 DEF BlockSound
<1>8. Cardinality(free) + Cardinality(new) + Cardinality(shown) = Cardinality(Blocks)
  <2>1. IsFiniteSet(free) /\ IsFiniteSet(free \cup new)
    BY <1>0, <1>3, FS_Subset
  <2>2. Cardinality({}) = 0
    BY FS_EmptySet
  <2>3. Cardinality(free \cup new) = Cardinality(free) + Cardinality(new) - 0
    BY <1>5, <1>7, <2>1, <2>2, FS_Union
  <2>4. Cardinality(Blocks) = Cardinality(free \cup new) + Cardinality(shown) - 0
    BY <1>6, <1>7, <2>1, <2>2, FS_Union
  <2>5. Cardinality(free) \in Nat /\ Cardinality(new) \in Nat /\ Cardinality(shown) \in Nat
    BY <1>5, <1>6, <2>1, FS_CardinalityType
  <2>. QED BY <2>3, <2>4, <2>5
<1>9. ASSUME NEW p \in DOMAIN procs, NEW i \in DOMAIN procs[p],
             file[procs[p][i]].dev = "gui"
      PROVE  wins[file[procs[p][i]].hnd] \in dmap[p]
  <2>1. procs[p][i] \in DOMAIN file /\ Owns(p, procs[p][i])
    BY DEF IInv, ListsSound, Known, Owns
  <2>. QED BY <1>9, <2>1 DEF IInv, MapsSound, Mapped
<1>. QED BY <1>5, <1>6, <1>7, <1>8, <1>9 DEF BlocksAccounted, making, new, shown

\* gui.rs's create_window and destroy_window: every block of window memory is
\* free, of one window or of one being made, never of two, and none is lost;
\* what a descriptor denotes is mapped into its process.
THEOREM WindowMemoryAccounted == Spec => []BlocksAccounted
<1>. QED BY Invariance, IInvWindows, PTL

=============================================================================
