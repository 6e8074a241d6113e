---------------------------- MODULE StorageProofs ----------------------------
(***************************************************************************)
(* Theorems about Storage, for any clients, drives, setups and sizes.      *)
(***************************************************************************)
EXTENDS Storage, SequenceTheorems, FiniteSetTheorems, TLAPS

-----------------------------------------------------------------------------
(* The invariant                                                           *)

\* The sectors a BufferedDiskIO fetches.
Window == CACHE_SIZE \div SectorSize

ReadOut == [ok : {TRUE}, off : Int]
SyncOut == [io : Io, got : SUBSET Request]

ClientType == [pc : {"idle", "push", "block", "collect"}, left : Nat,
               first_lba : Nat, sec_count : Nat, addr : Nat, bytes : Nat,
               req : Request \cup {None},
               out : {None, [ok |-> FALSE]} \cup ReadOut \cup SyncOut]
WorkerType == [pc : {"comp", "submit", "issue", "irq", "ccount", "cb", "wake"},
               n : Nat, hand : Request \cup {None}]
PortType == [ci : BOOLEAN, is : BOOLEAN, cmd : Request \cup {None}]
IrqType  == [drv : Nat, ci : BOOLEAN, pc : {"look", "drain"}]

Typed ==
    /\ setup \in Setups
    /\ cl \in [Client -> ClientType]
    /\ buf \in [Client -> Nat \cup {None}]
    /\ permit \in [Client -> {0, 1}]
    /\ answers \in SUBSET Request /\ next_id \in Nat
    /\ request_queue \in [Drive -> Seq(Request)]
    /\ submitted_queue \in [Drive -> Seq(Request)]
    /\ completed_queue \in [Drive -> Seq(Request)]
    /\ wk \in [Drive -> WorkerType]
    /\ bus \in {None, isr} \cup Drive
    /\ irq \in IrqType
    /\ port \in [Drive -> PortType]
    /\ his \in SUBSET Drive /\ edge \in BOOLEAN

\* Who holds AHCI_BUS; what the handler knows of a port is still so.
BusSound ==
    /\ \A d \in Drive : wk[d].pc \in {"issue", "irq"} => bus = d
    /\ InHandler => bus = isr \/ (bus \in Drive /\ wk[bus].pc = "irq")
    /\ irq.pc = "drain" => /\ irq.drv \in Drive
                           /\ port[irq.drv].ci => irq.ci

\* A request as its worker completes it.
Final(r) == [r EXCEPT !.res = OutcomeOf(r.io)]

\* The data of client c's read is in its buffer.
Got(c) == cl[c].req.track \/ buf[c] = cl[c].req.io.lba

\* Request r is in the hands of drive d and not answered yet, or answered
\* but its client is not woken yet.
Waits(d, r) == /\ r \in Request /\ setup.drive[r.c] = d
               /\ cl[r.c].pc = "block" /\ permit[r.c] = 0
Asked(d, r)   == Waits(d, r) /\ r = cl[r.c].req
Replied(d, r) == Waits(d, r) /\ r = Final(cl[r.c].req) /\ Got(r.c)

In(q, c) == \E i \in DOMAIN q : q[i].c = c
Once(q)  == \A i, j \in DOMAIN q : q[i].c = q[j].c => i = j
InHand(d, c) == wk[d].hand # None /\ wk[d].hand.c = c

\* The worker's locals: it counted what is in the queues at least.
WorkerSound(d) ==
    /\ wk[d].hand # None <=> wk[d].pc \in {"issue", "cb", "wake"}
    /\ wk[d].pc = "submit" => wk[d].n <= Len(request_queue[d])
    /\ wk[d].pc = "issue" => wk[d].n > 0 /\ wk[d].n <= Len(request_queue[d]) + 1
    /\ wk[d].pc \in {"comp", "cb", "wake"} => wk[d].n <= Len(completed_queue[d])

\* The places a request can be in, and what it has come to there.
PlacesSound(d) ==
    /\ \A i \in DOMAIN request_queue[d] : Asked(d, request_queue[d][i])
    /\ \A i \in DOMAIN submitted_queue[d] :
        LET r == submitted_queue[d][i] IN
        /\ Asked(d, r) /\ OutcomeOf(r.io) = "Ok"
        /\ Got(r.c) \/ (port[d].ci /\ port[d].cmd = r)
    /\ \A i \in DOMAIN completed_queue[d] : Replied(d, completed_queue[d][i])
    /\ wk[d].pc = "issue" => Asked(d, wk[d].hand) /\ OutcomeOf(wk[d].hand.io) = "Ok"
    /\ wk[d].pc \in {"cb", "wake"} => Replied(d, wk[d].hand)
    /\ port[d].ci => Asked(d, port[d].cmd)

\* A client's request is in one place, and not on its way back while the HBA
\* works on it.
OnePlace(d) ==
    /\ Once(request_queue[d]) /\ Once(submitted_queue[d])
    /\ Once(completed_queue[d])
    /\ \A c \in Client :
        /\ In(request_queue[d], c) => /\ ~In(submitted_queue[d], c)
                                      /\ ~In(completed_queue[d], c)
                                      /\ ~InHand(d, c)
        /\ In(submitted_queue[d], c) => ~In(completed_queue[d], c) /\ ~InHand(d, c)
        /\ In(completed_queue[d], c) => ~InHand(d, c)
        /\ port[d].ci /\ port[d].cmd.c = c => /\ ~In(request_queue[d], c)
                                              /\ ~In(completed_queue[d], c)
                                              /\ ~InHand(d, c)

DriveSound(d) == WorkerSound(d) /\ PlacesSound(d) /\ OnePlace(d)

\* The answers of client c that are in the map: its own, from the call of its
\* callback until it collects it.
AnswersOf(c) == {r \in answers : r.c = c}
HasAnswer(c) ==
    \/ cl[c].pc = "collect"
    \/ /\ cl[c].pc = "block" /\ cl[c].req.track
       /\ \/ permit[c] = 1
          \/ /\ wk[setup.drive[c]].pc = "wake"
             /\ wk[setup.drive[c]].hand.c = c

IsRead(out) == out # None /\ out \in ReadOut
IsSync(out) == out # None /\ out \in SyncOut
ReadAnswered(b) ==
    /\ b.pc = "idle"
    /\ b.out.off = b.addr - b.first_lba * SectorSize
    /\ b.out.off >= 0 /\ b.bytes <= b.sec_count * SectorSize - b.out.off
SyncAnswered(c, out) ==
    \E r \in out.got : /\ out.got = {r} /\ r.c = c /\ r.io = out.io
                       /\ r.res = OutcomeOf(r.io)

\* A client's request, while it has one.
RequestSound(c) ==
    LET b == cl[c] IN
    /\ b.pc = "idle" <=> b.req = None
    /\ b.pc # "idle" => b.req.c = c /\ b.out = None
    /\ b.pc \in {"push", "block"} => ~OutOfBound(b.req.io)
    /\ b.pc = "collect" => b.req.track
    /\ b.pc # "idle" /\ b.req.track => b.req.id < next_id
    /\ b.pc # "idle" /\ ~b.req.track =>
            /\ b.req.io = [op |-> "Read", lba |-> b.first_lba, sectors |-> Window]
            /\ b.sec_count = Window /\ b.first_lba * SectorSize <= b.addr
    /\ permit[c] = 1 => b.pc = "block" /\ Got(c)

AnswersSound(c) ==
    AnswersOf(c) = IF HasAnswer(c) THEN {Final(cl[c].req)} ELSE {}

\* A client's buffer and what its last call returned.
BufferSound(c) ==
    LET b == cl[c] IN
    /\ b.sec_count \in {0, Window}
    /\ IsRead(b.out) => ReadAnswered(b)
    /\ IsSync(b.out) => SyncAnswered(c, b.out)
    /\ (/\ b.pc = "idle" \/ b.req.track
        /\ b.sec_count > 0 \/ IsRead(b.out)
        /\ b.first_lba + b.sec_count <= SectorCount) => buf[c] = b.first_lba

ClientSound(c) == RequestSound(c) /\ AnswersSound(c) /\ BufferSound(c)

IdsDiffer ==
    \A c, e \in Client :
        (/\ c # e /\ cl[c].pc # "idle" /\ cl[e].pc # "idle"
         /\ cl[c].req.track /\ cl[e].req.track) => cl[c].req.id # cl[e].req.id

IInv == /\ Typed
        /\ BusSound
        /\ IdsDiffer
        /\ \A d \in Drive : DriveSound(d)
        /\ \A c \in Client : ClientSound(c)

-----------------------------------------------------------------------------
(* Requests and queues                                                     *)

LEMMA DataFacts ==
    /\ None \notin Nat /\ None \notin Request /\ None # isr
    /\ isr \notin Drive /\ None \notin Drive
    /\ SectorSize \in Nat /\ SectorSize > 0 /\ SectorCount \in Nat
    /\ CACHE_SIZE \in Nat /\ MaxSectors \in Nat
    /\ SyncIos \subseteq Io /\ ReadAddrs \subseteq Nat /\ ReadSizes \subseteq Nat
    /\ NDrives \in Nat
  BY StorageAssumption DEF StorageAssumption, Drive

LEMMA WindowFacts ==
    Window \in Nat /\ Window <= MaxSectors /\ Window * SectorSize <= CACHE_SIZE
<1>1. CACHE_SIZE \div SectorSize \in Nat
      /\ CACHE_SIZE = ((CACHE_SIZE \div SectorSize) * SectorSize)
                      + (CACHE_SIZE % SectorSize)
      /\ CACHE_SIZE % SectorSize \in 0 .. (SectorSize - 1)
  BY DataFacts
<1>2. CACHE_SIZE \div SectorSize <= MaxSectors
  BY StorageAssumption DEF StorageAssumption
<1>. HIDE DEF Window
<1>3. Window \in Nat /\ Window <= MaxSectors
      /\ CACHE_SIZE = (Window * SectorSize) + (CACHE_SIZE % SectorSize)
  BY <1>1, <1>2 DEF Window
<1>4. CACHE_SIZE % SectorSize \in Nat /\ Window * SectorSize \in Nat
  BY <1>1, <1>3, DataFacts
<1>. QED BY <1>3, <1>4

\* What a read returns is not what submit_sync_io returns.
LEMMA OutFacts ==
    /\ [ok |-> FALSE] \notin ReadOut /\ [ok |-> FALSE] \notin SyncOut
    /\ \A o \in ReadOut : o \notin SyncOut /\ o.off \in Int
<1>1. [ok |-> FALSE].ok = FALSE /\ \A o \in ReadOut : o.ok = TRUE /\ o.off \in Int
  BY DEF ReadOut
<1>2. /\ "ok" \in DOMAIN [ok |-> FALSE] /\ \A o \in ReadOut : "ok" \in DOMAIN o
      /\ \A o \in SyncOut : "ok" \notin DOMAIN o
  BY DEF ReadOut, SyncOut
<1>. QED BY <1>1, <1>2

LEMMA RequestFacts ==
    ASSUME NEW r \in Request
    PROVE  /\ r.c \in Client /\ r.io \in Io /\ r.id \in Nat /\ r.track \in BOOLEAN
           /\ Final(r) \in Request
           /\ Final(r).c = r.c /\ Final(r).io = r.io
           /\ Final(r).id = r.id /\ Final(r).track = r.track
           /\ Final(r).res = OutcomeOf(r.io)
           /\ OutcomeOf(r.io) = "Ok" => [r EXCEPT !.res = "Ok"] = Final(r)
  BY DEF Request, Final, OutcomeOf

LEMMA AppendFacts ==
    ASSUME NEW q \in Seq(Request), NEW r \in Request
    PROVE  LET a == Append(q, r) IN
           /\ a \in Seq(Request) /\ Len(a) = Len(q) + 1
           /\ \A i \in DOMAIN a : a[i] = r \/ \E j \in DOMAIN q : a[i] = q[j]
           /\ \A c : In(a, c) <=> In(q, c) \/ r.c = c
           /\ Once(q) /\ ~In(q, r.c) => Once(a)
<1> DEFINE a == Append(q, r)
<1>1. /\ Len(q) \in Nat /\ DOMAIN q = 1 .. Len(q)
      /\ a \in Seq(Request) /\ Len(a) = Len(q) + 1
      /\ \A i \in 1 .. Len(q) : a[i] = q[i]
      /\ a[Len(q) + 1] = r
  BY LenProperties, AppendProperties
<1>2. DOMAIN a = 1 .. (Len(q) + 1)
  BY <1>1, LenProperties
<1>. HIDE DEF a
<1>3. \A i \in DOMAIN a : i \in DOMAIN q \/ i = Len(q) + 1
  BY <1>1, <1>2
<1>4. \A i \in DOMAIN q : i \in DOMAIN a /\ a[i] = q[i]
  BY <1>1, <1>2
<1>5. Len(q) + 1 \in DOMAIN a
  BY <1>1, <1>2
<1>6. \A c : In(a, c) <=> In(q, c) \/ r.c = c
  BY <1>1, <1>3, <1>4, <1>5 DEF In
<1>7. ASSUME Once(q), ~In(q, r.c) PROVE Once(a)
  BY <1>1, <1>3, <1>4, <1>7 DEF Once, In
<1>8. \A i \in DOMAIN a : a[i] = r \/ \E j \in DOMAIN q : a[i] = q[j]
  BY <1>1, <1>3, <1>4
<1>. QED BY <1>1, <1>6, <1>7, <1>8 DEF a

LEMMA TailFacts ==
    ASSUME NEW q \in Seq(Request), Len(q) > 0
    PROVE  /\ Tail(q) \in Seq(Request) /\ Len(Tail(q)) = Len(q) - 1
           /\ 1 \in DOMAIN q /\ Head(q) = q[1] /\ Head(q) \in Request
           /\ \A i \in DOMAIN Tail(q) : i + 1 \in DOMAIN q /\ Tail(q)[i] = q[i + 1]
           /\ \A c : In(q, c) <=> In(Tail(q), c) \/ Head(q).c = c
           /\ Once(q) => Once(Tail(q)) /\ ~In(Tail(q), Head(q).c)
<1> DEFINE t == Tail(q)
<1>1. /\ q # <<>> /\ Len(q) \in Nat /\ DOMAIN q = 1 .. Len(q)
  BY LenProperties
<1>2. /\ t \in Seq(Request) /\ Len(t) = Len(q) - 1
      /\ \A i \in 1 .. (Len(q) - 1) : t[i] = q[i + 1]
      /\ Head(q) = q[1] /\ Head(q) \in Request
  BY <1>1, HeadTailProperties
<1>3. DOMAIN t = 1 .. (Len(q) - 1)
  BY <1>2, LenProperties
<1>. HIDE DEF t
<1>4. \A i \in DOMAIN t : i + 1 \in DOMAIN q /\ i + 1 # 1 /\ t[i] = q[i + 1]
  BY <1>1, <1>2, <1>3
<1>5. \A i \in DOMAIN q : i = 1 \/ (i - 1 \in DOMAIN t /\ t[i - 1] = q[i])
  <2> DEFINE n == Len(q)
  <2>1. n \in Nat /\ DOMAIN q = 1 .. n /\ DOMAIN t = 1 .. (n - 1)
    BY <1>1, <1>3
  <2>2. \A j \in 1 .. (n - 1) : t[j] = q[j + 1]
    BY <1>2
  <2>. HIDE DEF n
  <2>3. ASSUME NEW i \in DOMAIN q, i # 1
        PROVE  i - 1 \in DOMAIN t /\ t[i - 1] = q[i]
    <3>1. i \in Int /\ i - 1 \in 1 .. (n - 1) /\ (i - 1) + 1 = i
      BY <2>1, <2>3
    <3>2. t[i - 1] = q[(i - 1) + 1]
      BY <3>1, <2>2
    <3>. QED BY <3>1, <3>2, <2>1
  <2>. QED BY <2>3
<1>6. 1 \in DOMAIN q
  BY <1>1
<1>7. \A c : In(q, c) <=> In(t, c) \/ Head(q).c = c
  <2>1. ASSUME NEW c, In(q, c) PROVE In(t, c) \/ Head(q).c = c
    <3>1. PICK i \in DOMAIN q : q[i].c = c
      BY <2>1 DEF In
    <3>2. CASE i = 1
      BY <3>1, <3>2, <1>2
    <3>3. CASE i # 1
      <4>1. i - 1 \in DOMAIN t /\ t[i - 1] = q[i]
        BY <3>3, <1>5
      <4>. QED BY <4>1, <3>1 DEF In
    <3>. QED BY <3>2, <3>3
  <2>2. ASSUME NEW c, In(t, c) PROVE In(q, c)
    <3>1. PICK i \in DOMAIN t : t[i].c = c
      BY <2>2 DEF In
    <3>2. i + 1 \in DOMAIN q /\ q[i + 1].c = c
      BY <3>1, <1>4
    <3>. QED BY <3>2 DEF In
  <2>3. In(q, Head(q).c)
    BY <1>2, <1>6 DEF In
  <2>. QED BY <2>1, <2>2, <2>3
<1>8. ASSUME Once(q) PROVE Once(t) /\ ~In(t, Head(q).c)
  <2>1. ~In(t, Head(q).c)
    BY <1>8, <1>2, <1>4, <1>6 DEF Once, In
  <2>2. ASSUME NEW i \in DOMAIN t, NEW j \in DOMAIN t, t[i].c = t[j].c
        PROVE  i = j
    <3>1. i + 1 = j + 1
      BY <2>2, <1>8, <1>4 DEF Once
    <3>. QED BY <3>1, <1>3
  <2>. QED BY <2>1, <2>2 DEF Once
<1>. QED BY <1>2, <1>4, <1>6, <1>7, <1>8 DEF t

\* What the handler appends: the requests it found, as answered.
Oks(s) == [i \in DOMAIN s |-> [s[i] EXCEPT !.res = "Ok"]]

Joined(q, s, a) ==
    /\ a \in Seq(Request) /\ Len(a) >= Len(q)
    /\ \A i \in DOMAIN a : \/ \E j \in DOMAIN q : a[i] = q[j]
                           \/ \E j \in DOMAIN s : a[i] = [s[j] EXCEPT !.res = "Ok"]
    /\ \A c : In(a, c) <=> In(q, c) \/ In(s, c)
    /\ (Once(q) /\ Once(s) /\ \A c : ~(In(q, c) /\ In(s, c))) => Once(a)

LEMMA OksFacts ==
    ASSUME NEW q \in Seq(Request), NEW s \in Seq(Request)
    PROVE  Joined(q, s, q \o Oks(s))
<1> DEFINE ok == Oks(s)
           a  == q \o ok
<1>1. /\ Len(q) \in Nat /\ DOMAIN q = 1 .. Len(q)
      /\ Len(s) \in Nat /\ DOMAIN s = 1 .. Len(s)
      /\ \A i \in DOMAIN s : s[i] \in Request
  BY LenProperties, ElementOfSeq
<1>2. \A i \in DOMAIN s : /\ [s[i] EXCEPT !.res = "Ok"] \in Request
                          /\ [s[i] EXCEPT !.res = "Ok"].c = s[i].c
  BY <1>1 DEF Request
<1>3. /\ DOMAIN ok = 1 .. Len(s)
      /\ \A i \in DOMAIN s : /\ ok[i] = [s[i] EXCEPT !.res = "Ok"]
                             /\ ok[i] \in Request /\ ok[i].c = s[i].c
  BY <1>1, <1>2 DEF Oks
<1>4. ok \in Seq(Request) /\ Len(ok) = Len(s)
  <2>1. ok \in [1 .. Len(s) -> Request]
    BY <1>1, <1>2 DEF Oks
  <2>2. ok \in Seq(Request)
    BY <1>1, <2>1, SeqDef
  <2>. QED BY <2>2, <1>3, <1>1, LenProperties
<1>. HIDE DEF ok
<1>5. /\ a \in Seq(Request) /\ Len(a) = Len(q) + Len(s)
      /\ \A i \in 1 .. (Len(q) + Len(s)) :
            a[i] = IF i <= Len(q) THEN q[i] ELSE ok[i - Len(q)]
  <2>1. /\ a \in Seq(Request) /\ Len(a) = Len(q) + Len(ok)
        /\ \A i \in 1 .. (Len(q) + Len(ok)) :
              a[i] = IF i <= Len(q) THEN q[i] ELSE ok[i - Len(q)]
    BY <1>4, ConcatProperties
  <2>. QED BY <2>1, <1>4
<1>6. DOMAIN a = 1 .. (Len(q) + Len(s))
  BY <1>5, LenProperties
<1>. HIDE DEF a
<1>7. \A i \in DOMAIN a : \/ i \in DOMAIN q /\ a[i] = q[i]
                          \/ i - Len(q) \in DOMAIN s /\ a[i] = ok[i - Len(q)]
  BY <1>1, <1>5, <1>6
<1>8. /\ \A i \in DOMAIN q : i \in DOMAIN a /\ a[i] = q[i]
      /\ \A i \in DOMAIN s : i + Len(q) \in DOMAIN a /\ a[i + Len(q)] = ok[i]
  <2>1. \A i \in DOMAIN q : i \in DOMAIN a /\ a[i] = q[i]
    BY <1>1, <1>5, <1>6
  <2>2. ASSUME NEW i \in DOMAIN s
        PROVE  i + Len(q) \in DOMAIN a /\ a[i + Len(q)] = ok[i]
    <3>1. i \in Nat /\ i > 0 /\ (i + Len(q)) - Len(q) = i
          /\ i + Len(q) \in 1 .. (Len(q) + Len(s)) /\ ~(i + Len(q) <= Len(q))
      BY <1>1
    <3>. QED BY <3>1, <1>5, <1>6
  <2>. QED BY <2>1, <2>2
<1>9. \A c : In(a, c) <=> In(q, c) \/ In(s, c)
  <2>1. ASSUME NEW c, In(a, c) PROVE In(q, c) \/ In(s, c)
    <3>1. PICK i \in DOMAIN a : a[i].c = c
      BY <2>1 DEF In
    <3>2. CASE i \in DOMAIN q /\ a[i] = q[i]
      BY <3>1, <3>2 DEF In
    <3>3. CASE i - Len(q) \in DOMAIN s /\ a[i] = ok[i - Len(q)]
      BY <3>1, <3>3, <1>3 DEF In
    <3>. QED BY <3>2, <3>3, <1>7
  <2>2. ASSUME NEW c, In(q, c) PROVE In(a, c)
    BY <2>2, <1>8 DEF In
  <2>3. ASSUME NEW c, In(s, c) PROVE In(a, c)
    <3>1. PICK i \in DOMAIN s : s[i].c = c
      BY <2>3 DEF In
    <3>2. i + Len(q) \in DOMAIN a /\ a[i + Len(q)].c = c
      BY <3>1, <1>3, <1>8
    <3>. QED BY <3>2, Zenon DEF In
  <2>. QED BY <2>1, <2>2, <2>3
<1>10. ASSUME Once(q), Once(s), \A c : ~(In(q, c) /\ In(s, c)),
              NEW i \in DOMAIN a, NEW j \in DOMAIN a, a[i].c = a[j].c
       PROVE  i = j
  <2>1. CASE i \in DOMAIN q /\ j \in DOMAIN q
    BY <2>1, <1>8, <1>10 DEF Once
  <2>2. CASE i \notin DOMAIN q /\ j \notin DOMAIN q
    <3>1. /\ i - Len(q) \in DOMAIN s /\ j - Len(q) \in DOMAIN s
          /\ s[i - Len(q)].c = s[j - Len(q)].c
      BY <2>2, <1>3, <1>7, <1>10
    <3>2. i - Len(q) = j - Len(q)
      BY <3>1, <1>10 DEF Once
    <3>. QED BY <3>2, <1>1, <1>6
  <2>3. ASSUME NEW k \in DOMAIN q, NEW l \in DOMAIN a \ DOMAIN q, a[k].c = a[l].c
        PROVE  FALSE
    <3>1. a[k] = q[k] /\ l - Len(q) \in DOMAIN s /\ a[l].c = s[l - Len(q)].c
      BY <1>3, <1>7, <1>8
    <3>2. In(q, a[k].c) /\ In(s, a[k].c)
      BY <3>1, <2>3 DEF In
    <3>. QED BY <3>2, <1>10
  <2>. QED BY <2>1, <2>2, <2>3, <1>10, Zenon
<1>11. \A i \in DOMAIN a : \/ \E j \in DOMAIN q : a[i] = q[j]
                           \/ \E j \in DOMAIN s : a[i] = [s[j] EXCEPT !.res = "Ok"]
  <2>1. \A j \in DOMAIN s : ok[j] = [s[j] EXCEPT !.res = "Ok"]
    BY <1>3
  <2>. QED BY <2>1, <1>7
<1>12. Len(a) >= Len(q)
  BY <1>1, <1>5
<1>13. Joined(q, s, a)
  BY <1>5, <1>9, <1>10, <1>11, <1>12 DEF Once, Joined
<1>. QED BY <1>13 DEF a, ok

-----------------------------------------------------------------------------
(* What a step leaves as it is                                             *)

\* A drive whose queues, worker and command stay, and whose waiting clients
\* stay too.
LEMMA DriveFrame ==
    ASSUME NEW d \in Drive, DriveSound(d), setup' = setup,
           request_queue'[d] = request_queue[d],
           submitted_queue'[d] = submitted_queue[d],
           completed_queue'[d] = completed_queue[d],
           wk'[d] = wk[d], port'[d].ci = port[d].ci, port'[d].cmd = port[d].cmd,
           \A r : Waits(d, r) => /\ cl'[r.c] = cl[r.c] /\ permit'[r.c] = permit[r.c]
                                 /\ Got(r.c) => Got(r.c)'
    PROVE  DriveSound(d)'
<1>1. \A r : Asked(d, r) => Asked(d, r)'
  BY DEF Asked, Waits
<1>2. \A r : Replied(d, r) => Replied(d, r)'
  BY DEF Replied, Waits, Final, OutcomeOf, OutOfBound
<1>3. \A r : Asked(d, r) /\ Got(r.c) => Got(r.c)'
  BY DEF Asked
<1>4. WorkerSound(d)'
  BY DEF DriveSound, WorkerSound
<1>5. PlacesSound(d)'
  BY <1>1, <1>2, <1>3 DEF DriveSound, PlacesSound, OutcomeOf, OutOfBound
<1>6. OnePlace(d)'
  BY DEF DriveSound, OnePlace, Once, In, InHand
<1>. QED BY <1>4, <1>5, <1>6 DEF DriveSound

LEMMA ClientFrame ==
    ASSUME NEW c \in Client, ClientSound(c), setup' = setup,
           cl'[c] = cl[c], buf'[c] = buf[c], permit'[c] = permit[c],
           AnswersOf(c)' = AnswersOf(c), HasAnswer(c)' = HasAnswer(c),
           next_id \in Nat, next_id' \in Nat, next_id' >= next_id,
           cl[c].pc # "idle" => cl[c].req.id \in Nat
    PROVE  ClientSound(c)'
<1>1. Got(c)' = Got(c)
  BY DEF Got
<1>2. ReadAnswered(cl[c])' = ReadAnswered(cl[c])
      /\ SyncAnswered(c, cl[c].out)' = SyncAnswered(c, cl[c].out)
  BY DEF ReadAnswered, SyncAnswered
<1>3. /\ OutOfBound(cl[c].req.io)' = OutOfBound(cl[c].req.io)
      /\ Final(cl[c].req)' = Final(cl[c].req)
  BY DEF OutOfBound, Final
<1>4. cl[c].pc # "idle" /\ cl[c].req.track => cl[c].req.id < next_id'
  BY DEF ClientSound, RequestSound
<1>5. RequestSound(c)'
  BY <1>1, <1>3, <1>4 DEF ClientSound, RequestSound
<1>6. AnswersSound(c)'
  BY <1>3 DEF ClientSound, AnswersSound
<1>7. BufferSound(c)'
  BY <1>2 DEF ClientSound, BufferSound, IsRead, IsSync
<1>. QED BY <1>5, <1>6, <1>7 DEF ClientSound

\* A client's type, taken apart.
LEMMA ClientTyped ==
    ASSUME IInv, NEW c \in Client
    PROVE  /\ cl[c] \in ClientType
           /\ cl[c].req \in Request \cup {None}
           /\ cl[c].pc \in {"idle", "push", "block", "collect"}
           /\ cl[c].pc # "idle" => /\ cl[c].req \in Request /\ cl[c].req.c = c
                                   /\ cl[c].req.id \in Nat /\ cl[c].out = None
           /\ permit[c] \in {0, 1}
           /\ setup.drive[c] \in Drive
<1>1. cl[c] \in ClientType /\ permit[c] \in {0, 1} /\ setup \in Setups
  BY DEF IInv, Typed
<1>2. setup.drive \in [Client -> Drive]
  BY <1>1, StorageAssumption DEF StorageAssumption
<1>3. cl[c].req \in Request \cup {None}
      /\ cl[c].pc \in {"idle", "push", "block", "collect"}
  BY <1>1 DEF ClientType
<1>4. ClientSound(c)
  BY DEF IInv
<1>5. cl[c].pc # "idle" => /\ cl[c].req \in Request /\ cl[c].req.c = c
                           /\ cl[c].out = None
  BY <1>3, <1>4 DEF ClientSound, RequestSound
<1>. QED BY <1>1, <1>2, <1>3, <1>5, RequestFacts

\* A step of client c alone: b is what it becomes.
Moves(c, b) ==
    /\ cl' = [cl EXCEPT ![c] = b]
    /\ permit' \in [Client -> {0, 1}] /\ buf' \in [Client -> Nat \cup {None}]
    /\ answers' \in SUBSET Request /\ next_id' \in Nat /\ next_id' >= next_id
    /\ request_queue' \in [Drive -> Seq(Request)]
    /\ UNCHANGED <<setup, submitted_queue, completed_queue, wk, bus, irq, hardware>>
    /\ \A e \in Client \ {c} : /\ permit'[e] = permit[e] /\ buf'[e] = buf[e]
                               /\ AnswersOf(e)' = AnswersOf(e)

LEMMA MovesAlone ==
    ASSUME IInv, NEW c \in Client, NEW b, cl' = [cl EXCEPT ![c] = b],
           buf' \in [Client -> Nat \cup {None}],
           \A e \in Client \ {c} : buf'[e] = buf[e],
           UNCHANGED <<setup, permit, answers, next_id, request_queue,
                       submitted_queue, completed_queue, wk, bus, irq, hardware>>
    PROVE  Moves(c, b)
<1>1. /\ permit \in [Client -> {0, 1}] /\ answers \in SUBSET Request
      /\ next_id \in Nat /\ request_queue \in [Drive -> Seq(Request)]
  BY DEF IInv, Typed
<1>2. \A e : AnswersOf(e)' = AnswersOf(e)
  BY DEF AnswersOf
<1>. QED BY <1>1, <1>2 DEF Moves

\* Such a step of a client that is not waiting for the drive; only Push
\* touches a drive.
LEMMA ClientStep ==
    ASSUME IInv, NEW c \in Client, NEW b \in ClientType, Moves(c, b),
           cl[c].pc # "block" \/ permit[c] = 1,
           \A d \in Drive : DriveSound(d)' \/ request_queue'[d] = request_queue[d],
           b.pc # "idle" /\ b.req.track =>
                \/ cl[c].pc # "idle" /\ cl[c].req = b.req
                \/ b.req.id = next_id,
           ClientSound(c)'
    PROVE  IInv'
<1>. USE DEF Moves
<1>1. /\ cl'[c] = b /\ \A e \in Client \ {c} : cl'[e] = cl[e]
      /\ cl' \in [Client -> ClientType]
  BY DEF IInv, Typed
<1>2. Typed'
  BY <1>1 DEF IInv, Typed, hardware
<1>3. BusSound'
  BY DEF IInv, BusSound, hardware, InHandler
<1>4. \A d \in Drive : DriveSound(d)'
  <2>. SUFFICES ASSUME NEW d \in Drive, request_queue'[d] = request_queue[d]
                PROVE  DriveSound(d)'
    OBVIOUS
  <2>1. ASSUME NEW r, Waits(d, r)
        PROVE  /\ cl'[r.c] = cl[r.c] /\ permit'[r.c] = permit[r.c]
               /\ Got(r.c) => Got(r.c)'
    <3>1. r.c \in Client /\ r.c # c
      BY <2>1, RequestFacts DEF Waits
    <3>2. cl'[r.c] = cl[r.c] /\ permit'[r.c] = permit[r.c] /\ buf'[r.c] = buf[r.c]
      BY <3>1, <1>1
    <3>. QED BY <3>2 DEF Got
  <2>2. DriveSound(d)
    BY DEF IInv
  <2>. QED BY <2>1, <2>2, DriveFrame DEF hardware
<1>5. \A e \in Client : ClientSound(e)'
  <2>. SUFFICES ASSUME NEW e \in Client, e # c PROVE ClientSound(e)'
    OBVIOUS
  <2>1. HasAnswer(e)' = HasAnswer(e)
    BY <1>1 DEF HasAnswer
  <2>2. ClientSound(e) /\ next_id \in Nat
    BY DEF IInv, Typed
  <2>. QED BY <1>1, <2>1, <2>2, ClientFrame, ClientTyped
<1>6. IdsDiffer'
  <2>. SUFFICES ASSUME NEW e \in Client, e # c, cl'[e].pc # "idle", cl'[e].req.track,
                       b.pc # "idle", b.req.track
                PROVE  cl'[e].req.id # b.req.id
    BY <1>1 DEF IInv, IdsDiffer
  <2>1. cl'[e] = cl[e] /\ cl[e].req.id < next_id /\ cl[e].req.id \in Nat
        /\ next_id \in Nat
    <3>1. cl'[e] = cl[e] /\ next_id \in Nat
      BY <1>1 DEF IInv, Typed
    <3>2. ClientSound(e) /\ cl[e].pc # "idle" /\ cl[e].req.track
      BY <3>1 DEF IInv
    <3>3. cl[e].req.id < next_id
      BY <3>2 DEF ClientSound, RequestSound
    <3>4. cl[e].req.id \in Nat
      BY <3>2, ClientTyped
    <3>. QED BY <3>1, <3>3, <3>4
  <2>2. CASE cl[c].pc # "idle" /\ cl[c].req = b.req
    BY <2>1, <2>2 DEF IInv, IdsDiffer
  <2>3. CASE b.req.id = next_id
    BY <2>1, <2>3
  <2>. QED BY <2>2, <2>3
<1>. QED BY <1>2, <1>3, <1>4, <1>5, <1>6 DEF IInv

LEMMA InitIInv == Init => IInv
<1>. SUFFICES ASSUME Init PROVE IInv
  OBVIOUS
<1>1. /\ \A c \in Client : /\ cl[c].pc = "idle" /\ cl[c].req = None
                           /\ cl[c].out = None /\ cl[c].sec_count = 0
                           /\ cl[c].first_lba = 0
                           /\ buf[c] = None /\ permit[c] = 0
      /\ answers = {} /\ next_id = 0
  BY DEF Init, Client0
<1>2. Typed
  <2>1. setup \in Setups /\ setup.calls \in [Client -> Nat]
    BY StorageAssumption DEF Init, StorageAssumption
  <2>2. cl \in [Client -> ClientType]
    BY <2>1 DEF Init, Client0, ClientType
  <2>3. wk \in [Drive -> WorkerType] /\ port \in [Drive -> PortType]
        /\ irq \in IrqType
    BY DEF Init, Worker0, WorkerType, PortType, Irq0, IrqType
  <2>. QED BY <2>1, <2>2, <2>3, EmptySeq DEF Init, Typed
<1>3. BusSound /\ IdsDiffer
  BY <1>1 DEF Init, BusSound, InHandler, Irq0, Worker0, IdsDiffer
<1>4. \A d \in Drive : DriveSound(d)
  <2>. SUFFICES ASSUME NEW d \in Drive PROVE DriveSound(d)
    OBVIOUS
  <2>1. /\ request_queue[d] = <<>> /\ submitted_queue[d] = <<>>
        /\ completed_queue[d] = <<>> /\ wk[d] = Worker0 /\ ~port[d].ci
    BY DEF Init
  <2>2. \A c : ~In(<<>>, c)
    BY DEF In
  <2>3. WorkerSound(d)
    BY <2>1, EmptySeq DEF WorkerSound, Worker0
  <2>4. PlacesSound(d)
    BY <2>1 DEF PlacesSound, Worker0
  <2>5. OnePlace(d)
    BY <2>1, <2>2 DEF OnePlace, Once
  <2>. QED BY <2>3, <2>4, <2>5 DEF DriveSound
<1>5. \A c \in Client : ClientSound(c)
  <2>. SUFFICES ASSUME NEW c \in Client PROVE ClientSound(c)
    OBVIOUS
  <2>1. AnswersOf(c) = {} /\ ~HasAnswer(c)
    BY <1>1 DEF AnswersOf, HasAnswer
  <2>. QED BY <1>1, <2>1 DEF ClientSound, RequestSound, AnswersSound, BufferSound,
                                  IsRead, IsSync
<1>. QED BY <1>2, <1>3, <1>4, <1>5 DEF IInv

-----------------------------------------------------------------------------
(* The steps of clients                                                    *)

\* A client that is not waiting for a drive has no request there.
LEMMA NotPlaced ==
    ASSUME IInv, NEW c \in Client, cl[c].pc # "block" \/ permit[c] = 1,
           NEW d \in Drive
    PROVE  /\ ~In(request_queue[d], c) /\ ~In(submitted_queue[d], c)
           /\ ~In(completed_queue[d], c) /\ ~InHand(d, c)
           /\ ~(port[d].ci /\ port[d].cmd.c = c)
<1>1. DriveSound(d)
  BY DEF IInv
<1>2. \A r : Waits(d, r) => r.c # c
  BY DEF Waits
<1>. QED BY <1>1, <1>2
     DEF DriveSound, WorkerSound, PlacesSound, Asked, Replied, In, InHand

\* An answer in the map is that of its client's request.
LEMMA AnswerFacts ==
    ASSUME IInv, NEW r \in answers
    PROVE  /\ r.c \in Client /\ HasAnswer(r.c) /\ r = Final(cl[r.c].req)
           /\ cl[r.c].pc # "idle" /\ cl[r.c].req \in Request
           /\ cl[r.c].req.track /\ r.id = cl[r.c].req.id
<1>1. r \in Request /\ r.c \in Client
  BY RequestFacts DEF IInv, Typed
<1>2. ClientSound(r.c) /\ r \in AnswersOf(r.c)
  BY <1>1 DEF IInv, AnswersOf
<1>3. HasAnswer(r.c) /\ r = Final(cl[r.c].req)
  BY <1>2 DEF ClientSound, AnswersSound
<1>4. cl[r.c].pc # "idle" /\ cl[r.c].req.track
  BY <1>2, <1>3 DEF HasAnswer, ClientSound, RequestSound
<1>5. cl[r.c].req \in Request
  BY <1>1, <1>4, ClientTyped
<1>. QED BY <1>1, <1>3, <1>4, <1>5, RequestFacts

LEMMA ReadHitIInv ==
    ASSUME IInv, NEW c \in Client, NEW addr \in ReadAddrs, NEW bytes \in ReadSizes,
           ReadHit(c, addr, bytes)
    PROVE  IInv'
<1> DEFINE b0 == [cl[c] EXCEPT !.left = @ - 1, !.addr = addr, !.bytes = bytes]
           b  == Done(b0, Answer(b0))
<1>0. cl' = [cl EXCEPT ![c] = b]
  BY DEF ReadHit
<1>1. /\ cl[c] \in ClientType /\ cl[c].pc = "idle" /\ cl[c].left > 0
      /\ Covered(cl[c], addr, bytes) /\ addr \in Nat /\ bytes \in Nat
  BY ClientTyped, DataFacts DEF ReadHit, Idle
<1>2. /\ cl[c].first_lba \in Nat /\ cl[c].sec_count \in Nat
      /\ SectorSize \in Nat /\ cl[c].left - 1 \in Nat
      /\ cl[c].first_lba * SectorSize \in Nat /\ cl[c].sec_count * SectorSize \in Nat
  BY <1>1, DataFacts DEF ClientType
<1>3. /\ addr >= cl[c].first_lba * SectorSize
      /\ addr + bytes < cl[c].first_lba * SectorSize + cl[c].sec_count * SectorSize
      /\ cl[c].sec_count > 0
  <2>1. addr + bytes < (cl[c].first_lba + cl[c].sec_count) * SectorSize
        /\ addr >= cl[c].first_lba * SectorSize
    BY <1>1 DEF Covered
  <2>2. addr + bytes < cl[c].first_lba * SectorSize + cl[c].sec_count * SectorSize
    BY <2>1, <1>2
  <2>3. cl[c].sec_count # 0
    BY <2>1, <1>1, <1>2
  <2>. QED BY <2>1, <2>2, <2>3, <1>2
<1>3a. /\ b0 \in ClientType /\ b0.addr = addr
       /\ b0.bytes = bytes /\ b0.first_lba = cl[c].first_lba
       /\ b0.sec_count = cl[c].sec_count
  BY <1>1, <1>2 DEF ClientType
<1>3b. b = [b0 EXCEPT !.pc = "idle", !.req = None, !.out = Answer(b0)]
  BY DEF Done
<1>. HIDE DEF b, b0
<1>4. Answer(b0) = [ok |-> TRUE, off |-> addr - cl[c].first_lba * SectorSize]
  <2>1. ~(b0.bytes > b0.sec_count * SectorSize - (b0.addr - b0.first_lba * SectorSize))
    BY <1>1, <1>2, <1>3, <1>3a
  <2>. QED BY <2>1, <1>3a DEF Answer
<1>5. /\ b \in ClientType
      /\ b.pc = "idle" /\ b.req = None /\ b.addr = addr /\ b.bytes = bytes
      /\ b.out = [ok |-> TRUE, off |-> addr - cl[c].first_lba * SectorSize]
      /\ b.first_lba = cl[c].first_lba /\ b.sec_count = cl[c].sec_count
  <2>1. Answer(b0) \in ReadOut
    BY <1>1, <1>2, <1>4 DEF ReadOut
  <2>. QED BY <1>3a, <1>3b, <1>4, <2>1 DEF ClientType
<1>6. ClientSound(c) /\ permit[c] # 1
  BY <1>1 DEF IInv, ClientSound, RequestSound
<1>7. cl'[c] = b /\ UNCHANGED <<buf, permit, answers, next_id>>
  BY <1>0 DEF IInv, Typed, ReadHit, sync_io
<1>8. RequestSound(c)'
  BY <1>5, <1>6, <1>7 DEF RequestSound
<1>9. AnswersSound(c)'
  BY <1>1, <1>5, <1>6, <1>7 DEF ClientSound, AnswersSound, AnswersOf, HasAnswer
<1>10. BufferSound(c)'
  <2>1. b.bytes <= b.sec_count * SectorSize - b.out.off
    BY <1>1, <1>2, <1>3, <1>5
  <2>2. ReadAnswered(b) /\ ~IsSync(b.out)
    BY <2>1, <1>1, <1>2, <1>3, <1>5 DEF ReadAnswered, IsSync, SyncOut
  <2>3. /\ IsRead(cl[c].out)' => ReadAnswered(cl[c])'
        /\ ~IsSync(cl[c].out)'
    BY <1>7, <2>2 DEF ReadAnswered, IsRead, IsSync
  <2>. QED BY <1>1, <1>3, <1>5, <1>6, <1>7, <2>3 DEF ClientSound, BufferSound
<1>11. Moves(c, b)
  <2>1. UNCHANGED <<setup, permit, answers, next_id, request_queue, submitted_queue,
                    completed_queue, wk, bus, irq, hardware, buf>>
    BY DEF ReadHit, queues, sync_io
  <2>2. buf \in [Client -> Nat \cup {None}]
    BY DEF IInv, Typed
  <2>. QED BY <2>1, <2>2, <1>0, MovesAlone
<1>12. request_queue' = request_queue
  BY DEF ReadHit, queues
<1>. QED BY <1>1, <1>5, <1>8, <1>9, <1>10, <1>11, <1>12, ClientStep DEF ClientSound

LEMMA ReadMissIInv ==
    ASSUME IInv, NEW c \in Client, NEW addr \in ReadAddrs, NEW bytes \in ReadSizes,
           ReadMiss(c, addr, bytes)
    PROVE  IInv'
<1> DEFINE lba == addr \div SectorSize
           io == [op |-> "Read", lba |-> lba, sectors |-> Window]
           b1 == [cl[c] EXCEPT !.left = @ - 1, !.addr = addr, !.bytes = bytes]
           b0 == [cl[c] EXCEPT !.left = @ - 1, !.addr = addr, !.bytes = bytes,
                               !.first_lba = lba, !.sec_count = Window]
           q == [c |-> c, io |-> io, id |-> 0, track |-> FALSE, res |-> "NotIssued"]
           b == IF OutOfBound(io) THEN Done(b0, Answer(b0))
                ELSE [b0 EXCEPT !.pc = "push", !.out = None, !.req = q]
<1>0. cl' = [cl EXCEPT ![c] = b]
  BY DEF ReadMiss, Window
<1>1. /\ cl[c] \in ClientType /\ cl[c].pc = "idle" /\ cl[c].left > 0
      /\ buf' = [buf EXCEPT ![c] = None]
      /\ addr \in Nat /\ bytes \in Nat
  BY ClientTyped, DataFacts DEF ReadMiss, Idle
<1>2. /\ lba \in Nat /\ lba * SectorSize <= addr /\ lba * SectorSize \in Nat
      /\ Window \in Nat /\ Window * SectorSize \in Nat /\ io \in Io
  <2>1. lba \in Nat /\ addr = (lba * SectorSize) + (addr % SectorSize)
        /\ addr % SectorSize \in 0 .. (SectorSize - 1)
    BY <1>1, DataFacts
  <2>. HIDE DEF lba
  <2>2. lba * SectorSize \in Nat /\ addr % SectorSize \in Nat /\ Window \in Nat
        /\ Window * SectorSize \in Nat
    BY <2>1, DataFacts, WindowFacts
  <2>3. io \in Io
    BY <2>1, <2>2 DEF Io
  <2>. QED BY <2>1, <2>2, <2>3
<1>2a. b = IF OutOfBound(io)
           THEN [b0 EXCEPT !.pc = "idle", !.req = None, !.out = Answer(b0)]
           ELSE [b0 EXCEPT !.pc = "push", !.out = None, !.req = q]
  BY DEF Done
<1>. HIDE DEF lba, io, b
<1>3. /\ b0 \in ClientType /\ b0.pc = "idle" /\ b0.req = cl[c].req /\ b0.addr = addr
      /\ b0.bytes = bytes /\ b0.first_lba = lba /\ b0.sec_count = Window
  <2>1. b0 = [b1 EXCEPT !.first_lba = lba, !.sec_count = Window]
    OBVIOUS
  <2>2. /\ b1 \in ClientType /\ b1.pc = "idle" /\ b1.req = cl[c].req
        /\ b1.addr = addr /\ b1.bytes = bytes
    <3>. HIDE DEF b0
    <3>1. cl[c].left - 1 \in Nat
      BY <1>1 DEF ClientType
    <3>. QED BY <3>1, <1>1 DEF ClientType
  <2>. HIDE DEF b0, b1
  <2>. QED BY <2>1, <2>2, <1>2 DEF ClientType
<1>. HIDE DEF b0
<1>4. /\ Answer(b0) \in ReadOut \cup {[ok |-> FALSE]}
      /\ Answer(b0) \in ReadOut => /\ Answer(b0).off = addr - lba * SectorSize
                                   /\ bytes <= Window * SectorSize - Answer(b0).off
  <2> DEFINE off == addr - lba * SectorSize
  <2>1. off \in Int
    BY <1>1, <1>2
  <2>2. CASE bytes > Window * SectorSize - off
    <3>1. Answer(b0) = [ok |-> FALSE]
      BY <2>2, <1>3 DEF Answer
    <3>. QED BY <3>1, OutFacts
  <2>3. CASE ~(bytes > Window * SectorSize - off)
    <3>1. Answer(b0) = [ok |-> TRUE, off |-> off]
      BY <2>3, <1>3 DEF Answer
    <3>2. bytes <= Window * SectorSize - off
      BY <2>1, <2>3, <1>1, <1>2
    <3>. QED BY <2>1, <3>1, <3>2 DEF ReadOut
  <2>. QED BY <2>2, <2>3
<1>5. q \in Request /\ q.c = c /\ ~q.track /\ q.io = io
  BY <1>2 DEF Request
<1>. HIDE DEF q
<1>6. /\ OutOfBound(io) => /\ b.pc = "idle" /\ b.req = None /\ b.out = Answer(b0)
      /\ ~OutOfBound(io) => b.pc = "push" /\ b.req = q /\ b.out = None
      /\ b.addr = addr /\ b.bytes = bytes
      /\ b.first_lba = lba /\ b.sec_count = Window
      /\ b \in ClientType
  <2>1. CASE OutOfBound(io)
    BY <2>1, <1>2a, <1>3, <1>4 DEF ClientType
  <2>2. CASE ~OutOfBound(io)
    BY <2>2, <1>2a, <1>3, <1>5 DEF ClientType
  <2>. QED BY <2>1, <2>2
<1>7. ClientSound(c) /\ permit[c] # 1
  BY <1>1 DEF IInv, ClientSound, RequestSound
<1>8. cl'[c] = b /\ buf'[c] = None /\ UNCHANGED <<permit, answers, next_id>>
  BY <1>0, <1>1 DEF IInv, Typed, ReadMiss, sync_io
<1>9. b.pc # "idle" => /\ b.pc = "push" /\ ~OutOfBound(io) /\ b.req # None
                       /\ b.req.c = c /\ ~b.req.track /\ b.req.io = io /\ b.out = None
  BY <1>5, <1>6, DataFacts
<1>10. RequestSound(c)'
  <2>1. b.pc # "idle" => ~OutOfBound(cl[c].req.io)'
    BY <1>8, <1>9, DataFacts DEF OutOfBound
  <2>2. io = [op |-> "Read", lba |-> lba, sectors |-> Window]
    BY DEF io
  <2>. QED BY <2>1, <2>2, <1>2, <1>6, <1>7, <1>8, <1>9 DEF RequestSound, OutOfBound
<1>11. AnswersSound(c)'
  BY <1>1, <1>7, <1>8, <1>9 DEF ClientSound, AnswersSound, AnswersOf, HasAnswer
<1>12. BufferSound(c)'
  <2>1. ~IsSync(b.out)
    BY <1>4, <1>6, OutFacts DEF IsSync
  <2>2. ASSUME IsRead(b.out)
        PROVE  ReadAnswered(b) /\ ~(lba + Window <= SectorCount)
    <3>1. OutOfBound(io) /\ b.pc = "idle" /\ b.out = Answer(b0) /\ b.out \in ReadOut
      BY <2>2, <1>6 DEF IsRead
    <3>2. b.out.off \in Int /\ b.out.off = addr - lba * SectorSize
          /\ bytes <= Window * SectorSize - b.out.off
      BY <3>1, <1>4 DEF ReadOut
    <3>3. ~(lba + Window <= SectorCount)
      BY <3>1, <1>2, DataFacts DEF OutOfBound, io
    <3>. QED BY <3>1, <3>2, <3>3, <1>1, <1>2, <1>6 DEF ReadAnswered
  <2>3. b.pc = "idle" => ~(lba + Window <= SectorCount)
    BY <1>2, <1>6, DataFacts DEF OutOfBound, io
  <2>4. /\ IsRead(cl[c].out)' => ReadAnswered(cl[c])'
        /\ ~IsSync(cl[c].out)'
        /\ IsRead(cl[c].out)' => ~(lba + Window <= SectorCount)
    BY <1>8, <2>1, <2>2 DEF ReadAnswered, IsRead, IsSync
  <2>. QED BY <1>6, <1>8, <1>9, <2>3, <2>4 DEF BufferSound
<1>13. Moves(c, b)
  <2>1. buf' \in [Client -> Nat \cup {None}]
    BY <1>1 DEF IInv, Typed
  <2>2. \A e \in Client \ {c} : buf'[e] = buf[e]
    BY <1>1 DEF IInv, Typed
  <2>3. UNCHANGED <<setup, permit, answers, next_id, request_queue, submitted_queue,
                    completed_queue, wk, bus, irq, hardware>>
    BY DEF ReadMiss, queues, sync_io
  <2>. QED BY <2>1, <2>2, <2>3, <1>0, MovesAlone
<1>14. request_queue' = request_queue /\ (b.pc # "idle" => ~b.req.track)
  BY <1>9 DEF ReadMiss, queues
<1>. QED BY <1>1, <1>6, <1>10, <1>11, <1>12, <1>13, <1>14, ClientStep DEF ClientSound

LEMMA SubmitSyncIInv ==
    ASSUME IInv, NEW c \in Client, NEW io \in SyncIos, SubmitSync(c, io)
    PROVE  IInv'
<1> DEFINE q == [c |-> c, io |-> io, id |-> next_id, track |-> TRUE,
                 res |-> "NotIssued"]
           pc == IF OutOfBound(io) THEN "collect" ELSE "push"
           b == [cl[c] EXCEPT !.left = @ - 1, !.out = None, !.req = q, !.pc = pc]
<1>1. /\ cl[c] \in ClientType /\ cl[c].pc = "idle" /\ cl[c].left > 0
      /\ io \in Io /\ next_id \in Nat
  BY ClientTyped, DataFacts DEF SubmitSync, Idle, IInv, Typed
<1>2. /\ cl' = [cl EXCEPT ![c] = b]
      /\ answers' = IF OutOfBound(io)
                    THEN answers \cup {[q EXCEPT !.res = "OutOfBoundIO"]}
                    ELSE answers
      /\ next_id' = next_id + 1
      /\ UNCHANGED <<setup, buf, permit, request_queue, submitted_queue,
                     completed_queue, wk, bus, irq, hardware>>
  BY DEF SubmitSync, queues
<1>3. q \in Request /\ q.c = c /\ q.track = TRUE /\ q.io = io /\ q.id = next_id
  BY <1>1 DEF Request
<1>4. OutOfBound(io) => [q EXCEPT !.res = "OutOfBoundIO"] = Final(q)
  BY <1>1 DEF Final, OutcomeOf
<1>5. pc \in {"push", "collect"} /\ (pc = "collect" <=> OutOfBound(io))
  OBVIOUS
<1>. HIDE DEF q, pc
<1>6. /\ b \in ClientType /\ b.pc = pc /\ b.req = q /\ b.out = None
      /\ b.sec_count = cl[c].sec_count /\ b.first_lba = cl[c].first_lba
  <2>1. cl[c].left - 1 \in Nat
    BY <1>1 DEF ClientType
  <2>. QED BY <2>1, <1>1, <1>3, <1>5 DEF ClientType
<1>. HIDE DEF b
<1>7. ClientSound(c) /\ permit[c] # 1 /\ AnswersOf(c) = {}
  BY <1>1 DEF IInv, ClientSound, RequestSound, AnswersSound, HasAnswer
<1>8. cl'[c] = b /\ cl \in [Client -> ClientType]
      /\ answers \in SUBSET Request
  BY <1>2 DEF IInv, Typed
<1>9. RequestSound(c)'
  <2>1. pc = "push" => ~OutOfBound(cl[c].req.io)'
    BY <1>3, <1>5, <1>6, <1>8 DEF OutOfBound
  <2>. QED BY <2>1, <1>1, <1>2, <1>3, <1>5, <1>6, <1>7, <1>8, DataFacts DEF RequestSound
<1>10. AnswersSound(c)'
  <2>1. Final(cl[c].req)' = Final(q)
    BY <1>6, <1>8 DEF Final, OutcomeOf, OutOfBound
  <2>2. HasAnswer(c)' <=> OutOfBound(io)
    BY <1>5, <1>6, <1>8 DEF HasAnswer
  <2>3. Final(q).c = c
    BY <1>3, RequestFacts
  <2>4. AnswersOf(c)' = IF OutOfBound(io) THEN {Final(q)} ELSE {}
    BY <2>3, <1>2, <1>4, <1>7 DEF AnswersOf
  <2>. QED BY <2>1, <2>2, <2>4 DEF AnswersSound
<1>11. BufferSound(c)'
  <2>1. ~IsRead(cl[c].out)' /\ ~IsSync(cl[c].out)'
    BY <1>6, <1>8 DEF IsRead, IsSync
  <2>. QED BY <2>1, <1>1, <1>2, <1>6, <1>7, <1>8 DEF ClientSound, BufferSound
<1>12. Moves(c, b)
  <2>1. Final(q) \in Request /\ Final(q).c = c
    BY <1>3, RequestFacts
  <2>2. answers' \in SUBSET Request
    BY <2>1, <1>2, <1>4, <1>8
  <2>3. \A e \in Client \ {c} : AnswersOf(e)' = AnswersOf(e)
    BY <2>1, <1>2, <1>4 DEF AnswersOf
  <2>4. /\ permit \in [Client -> {0, 1}] /\ buf \in [Client -> Nat \cup {None}]
        /\ request_queue \in [Drive -> Seq(Request)]
    BY DEF IInv, Typed
  <2>. QED BY <2>2, <2>3, <2>4, <1>1, <1>2 DEF Moves
<1>. QED BY <1>1, <1>2, <1>3, <1>6, <1>9, <1>10, <1>11, <1>12, ClientStep DEF ClientSound

LEMMA GoOnIInv ==
    ASSUME IInv, NEW c \in Client, GoOn(c) PROVE IInv'
<1> DEFINE a == Answer(cl[c])
           b == IF cl[c].req.track THEN [cl[c] EXCEPT !.pc = "collect"]
                ELSE Done(cl[c], a)
<1>1. /\ cl[c] \in ClientType /\ cl[c].pc = "block" /\ permit[c] = 1
      /\ cl[c].req \in Request /\ cl[c].out = None /\ cl[c].req.track \in BOOLEAN
  BY ClientTyped, RequestFacts DEF GoOn
<1>2. /\ cl' = [cl EXCEPT ![c] = b]
      /\ permit' = [permit EXCEPT ![c] = permit[c] - 1]
      /\ UNCHANGED <<setup, buf, answers, next_id, request_queue, submitted_queue,
                     completed_queue, wk, bus, irq, hardware>>
  BY DEF GoOn, queues, sync_io
<1>3. /\ cl[c].first_lba \in Nat /\ cl[c].sec_count \in Nat
      /\ cl[c].addr \in Nat /\ cl[c].bytes \in Nat
      /\ SectorSize \in Nat /\ cl[c].first_lba * SectorSize \in Nat
      /\ cl[c].sec_count * SectorSize \in Nat
  BY <1>1, DataFacts DEF ClientType
<1>4. /\ a \in ReadOut \cup {[ok |-> FALSE]}
      /\ a \in ReadOut =>
            /\ a.off = cl[c].addr - cl[c].first_lba * SectorSize
            /\ cl[c].bytes <= cl[c].sec_count * SectorSize - a.off
  <2> DEFINE off == cl[c].addr - cl[c].first_lba * SectorSize
  <2>1. off \in Int
    BY <1>3
  <2>2. CASE cl[c].bytes > cl[c].sec_count * SectorSize - off
    <3>1. a = [ok |-> FALSE]
      BY <2>2 DEF Answer
    <3>. QED BY <3>1, OutFacts
  <2>3. CASE ~(cl[c].bytes > cl[c].sec_count * SectorSize - off)
    <3>1. a = [ok |-> TRUE, off |-> off]
      BY <2>3 DEF Answer
    <3>2. cl[c].bytes <= cl[c].sec_count * SectorSize - off
      BY <2>1, <2>3, <1>3
    <3>. QED BY <2>1, <3>1, <3>2 DEF ReadOut
  <2>. QED BY <2>2, <2>3
<1>. HIDE DEF a
<1>5. /\ b \in ClientType
      /\ b.addr = cl[c].addr /\ b.bytes = cl[c].bytes
      /\ b.sec_count = cl[c].sec_count /\ b.first_lba = cl[c].first_lba
      /\ cl[c].req.track => b.pc = "collect" /\ b.req = cl[c].req /\ b.out = None
      /\ ~cl[c].req.track => b.pc = "idle" /\ b.req = None /\ b.out = a
  <2>1. CASE cl[c].req.track
    BY <2>1, <1>1 DEF ClientType
  <2>2. CASE ~cl[c].req.track
    BY <2>2, <1>1, <1>4 DEF Done, ClientType
  <2>. QED BY <2>1, <2>2
<1>. HIDE DEF b
<1>6. /\ cl'[c] = b /\ permit'[c] = 0 /\ permit' \in [Client -> {0, 1}]
      /\ \A e \in Client \ {c} : permit'[e] = permit[e]
  BY <1>1, <1>2 DEF IInv, Typed
<1>7. ClientSound(c) /\ Got(c)
  BY <1>1 DEF IInv, ClientSound, RequestSound
<1>8. RequestSound(c)'
  BY <1>1, <1>2, <1>5, <1>6, <1>7, DataFacts DEF ClientSound, RequestSound
<1>9. AnswersSound(c)'
  <2>1. AnswersOf(c)' = AnswersOf(c)
    BY <1>2 DEF AnswersOf
  <2>2. CASE cl[c].req.track
    <3>1. HasAnswer(c) /\ HasAnswer(c)'
      BY <2>2, <1>1, <1>5, <1>6 DEF HasAnswer
    <3>2. Final(cl[c].req)' = Final(cl[c].req)
      BY <2>2, <1>5, <1>6 DEF Final, OutcomeOf, OutOfBound
    <3>. QED BY <2>1, <3>1, <3>2, <1>7 DEF ClientSound, AnswersSound
  <2>3. CASE ~cl[c].req.track
    <3>1. ~HasAnswer(c) /\ ~HasAnswer(c)'
      BY <2>3, <1>1, <1>5, <1>6 DEF HasAnswer
    <3>. QED BY <2>1, <3>1, <1>7 DEF ClientSound, AnswersSound
  <2>. QED BY <2>2, <2>3
<1>10. BufferSound(c)'
  <2>1. CASE cl[c].req.track
    <3>1. ~IsRead(cl[c].out)' /\ ~IsSync(cl[c].out)' /\ ~IsRead(cl[c].out)
      BY <2>1, <1>1, <1>5, <1>6 DEF IsRead, IsSync
    <3>. QED BY <2>1, <3>1, <1>2, <1>5, <1>6, <1>7 DEF ClientSound, BufferSound
  <2>2. CASE ~cl[c].req.track
    <3>1. cl[c].req.io.lba = cl[c].first_lba /\ cl[c].sec_count = Window
          /\ cl[c].first_lba * SectorSize <= cl[c].addr
      BY <2>2, <1>1, <1>7 DEF ClientSound, RequestSound
    <3>2. buf'[c] = cl[c].first_lba
      BY <2>2, <3>1, <1>2, <1>7 DEF Got
    <3>3. ~IsSync(cl[c].out)'
      BY <2>2, <1>4, <1>5, <1>6, OutFacts DEF IsSync
    <3>4. IsRead(cl[c].out)' => ReadAnswered(cl[c])'
      <4>. SUFFICES ASSUME a \in ReadOut PROVE ReadAnswered(cl[c])'
        BY <2>2, <1>5, <1>6 DEF IsRead
      <4>1. a.off \in Int
        BY OutFacts
      <4>. QED BY <2>2, <3>1, <4>1, <1>3, <1>4, <1>5, <1>6 DEF ReadAnswered
    <3>. QED BY <2>2, <3>1, <3>2, <3>3, <3>4, <1>5, <1>6 DEF BufferSound
  <2>. QED BY <2>1, <2>2
<1>11. Moves(c, b)
  <2>1. /\ buf \in [Client -> Nat \cup {None}] /\ answers \in SUBSET Request
        /\ next_id \in Nat /\ request_queue \in [Drive -> Seq(Request)]
    BY DEF IInv, Typed
  <2>2. \A e : AnswersOf(e)' = AnswersOf(e)
    BY <1>2 DEF AnswersOf
  <2>. QED BY <2>1, <2>2, <1>2, <1>6 DEF Moves
<1>. QED BY <1>1, <1>2, <1>5, <1>8, <1>9, <1>10, <1>11, ClientStep DEF ClientSound

LEMMA CollectIInv ==
    ASSUME IInv, NEW c \in Client, Collect(c) PROVE IInv'
<1> DEFINE mine == {r \in answers : r.id = cl[c].req.id}
           out == [io |-> cl[c].req.io, got |-> mine]
           b == [cl[c] EXCEPT !.pc = "idle", !.req = None, !.out = out]
<1>1. /\ cl[c] \in ClientType /\ cl[c].pc = "collect" /\ permit[c] = 0
      /\ cl[c].req \in Request /\ cl[c].req.c = c /\ cl[c].req.track
      /\ cl[c].req.io \in Io
  <2>1. cl[c].pc = "collect" /\ ClientSound(c)
    BY DEF Collect, IInv
  <2>2. cl[c].req.track /\ permit[c] # 1
    BY <2>1 DEF ClientSound, RequestSound
  <2>. QED BY <2>1, <2>2, ClientTyped, RequestFacts
<1>2. /\ cl' = [cl EXCEPT ![c] = b] /\ answers' = answers \ mine
      /\ UNCHANGED <<setup, buf, permit, next_id, request_queue, submitted_queue,
                     completed_queue, wk, bus, irq, hardware>>
  BY DEF Collect, Done, queues
<1>3. AnswersOf(c) = {Final(cl[c].req)}
  BY <1>1 DEF IInv, ClientSound, AnswersSound, HasAnswer
<1>4. mine = {Final(cl[c].req)}
  <2>1. ASSUME NEW r \in mine PROVE r = Final(cl[c].req)
    <3>1. /\ r \in answers /\ r.c \in Client /\ cl[r.c].pc # "idle"
          /\ cl[r.c].req.track /\ cl[r.c].req.id = cl[c].req.id
      BY AnswerFacts
    <3>2. r.c = c
      BY <3>1, <1>1 DEF IInv, IdsDiffer
    <3>. QED BY <3>1, <3>2, <1>3 DEF AnswersOf
  <2>2. Final(cl[c].req) \in mine
    <3>1. Final(cl[c].req) \in answers
      BY <1>3 DEF AnswersOf
    <3>2. Final(cl[c].req).id = cl[c].req.id
      BY <1>1, RequestFacts
    <3>. QED BY <3>1, <3>2
  <2>. QED BY <2>1, <2>2
<1>5. mine \in SUBSET Request
  BY DEF IInv, Typed
<1>. HIDE DEF mine
<1>6. out \in SyncOut /\ out.io = cl[c].req.io /\ out.got = mine
  BY <1>1, <1>5 DEF SyncOut
<1>. HIDE DEF out
<1>7. /\ b \in ClientType /\ b.pc = "idle" /\ b.req = None /\ b.out = out
      /\ b.sec_count = cl[c].sec_count /\ b.first_lba = cl[c].first_lba
  BY <1>1, <1>6 DEF ClientType
<1>. HIDE DEF b
<1>8. ClientSound(c) /\ cl'[c] = b
  BY <1>2 DEF IInv, Typed
<1>9. RequestSound(c)'
  BY <1>1, <1>2, <1>7, <1>8 DEF RequestSound
<1>10. AnswersSound(c)'
  <2>1. AnswersOf(c)' = {}
    BY <1>2, <1>3, <1>4 DEF AnswersOf
  <2>2. ~HasAnswer(c)'
    BY <1>7, <1>8 DEF HasAnswer
  <2>. QED BY <2>1, <2>2 DEF AnswersSound
<1>11. BufferSound(c)'
  <2>1. ~IsRead(out) /\ ~IsRead(cl[c].out)
    BY <1>1, <1>6, <1>8, OutFacts DEF IsRead, ClientSound, RequestSound
  <2>2. SyncAnswered(c, out)
    BY <1>1, <1>4, <1>6, RequestFacts DEF SyncAnswered
  <2>3. ~IsRead(cl[c].out)' /\ SyncAnswered(c, cl[c].out)'
    BY <2>1, <2>2, <1>7, <1>8 DEF IsRead, SyncAnswered, OutcomeOf, OutOfBound
  <2>. QED BY <2>1, <2>3, <1>1, <1>2, <1>7, <1>8 DEF ClientSound, BufferSound
<1>12. Moves(c, b)
  <2>1. /\ buf \in [Client -> Nat \cup {None}] /\ answers \in SUBSET Request
        /\ permit \in [Client -> {0, 1}]
        /\ next_id \in Nat /\ request_queue \in [Drive -> Seq(Request)]
    BY DEF IInv, Typed
  <2>2. Final(cl[c].req).c = c
    BY <1>1, RequestFacts
  <2>3. ASSUME NEW e \in Client \ {c} PROVE AnswersOf(e)' = AnswersOf(e)
    BY <2>2, <1>2, <1>4 DEF AnswersOf
  <2>. QED BY <2>1, <2>3, <1>2 DEF Moves
<1>. QED BY <1>1, <1>2, <1>7, <1>9, <1>10, <1>11, <1>12, ClientStep DEF ClientSound

\* A request of client c, which had none, is put into its drive's queue.
LEMMA PushIInv ==
    ASSUME IInv, NEW c \in Client, Push(c) PROVE IInv'
<1>0. setup.drive[c] \in Drive /\ cl[c].req \in Request
      /\ request_queue \in [Drive -> Seq(Request)]
  BY ClientTyped DEF Push, IInv, Typed
<1>. SUFFICES ASSUME NEW d \in Drive, d = setup.drive[c],
                     NEW r \in Request, r = cl[c].req,
                     NEW q \in Seq(Request), q = request_queue[d]
              PROVE  IInv'
  BY <1>0
<1> DEFINE b == [cl[c] EXCEPT !.pc = "block"]
<1>1. /\ cl[c] \in ClientType /\ cl[c].pc = "push" /\ permit[c] = 0
      /\ r \in Request /\ r.c = c /\ cl[c].out = None
  BY ClientTyped DEF Push, IInv, ClientSound, RequestSound
<1>2. /\ cl' = [cl EXCEPT ![c] = b]
      /\ request_queue' = [request_queue EXCEPT ![d] = Append(q, r)]
      /\ UNCHANGED <<setup, buf, permit, answers, next_id, submitted_queue,
                     completed_queue, wk, bus, irq, hardware>>
  BY DEF Push, sync_io
<1>3. /\ b \in ClientType /\ b.pc = "block" /\ b.req = r /\ b.out = cl[c].out
      /\ b.sec_count = cl[c].sec_count /\ b.first_lba = cl[c].first_lba
      /\ b.addr = cl[c].addr
  BY <1>1 DEF ClientType
<1>5. /\ DriveSound(d) /\ ~In(q, c) /\ ~In(submitted_queue[d], c)
      /\ ~In(completed_queue[d], c) /\ ~InHand(d, c)
      /\ ~(port[d].ci /\ port[d].cmd.c = c)
  BY <1>1, NotPlaced DEF IInv
<1>. HIDE DEF b
<1>6. cl'[c] = b /\ request_queue'[d] = Append(q, r) /\ ClientSound(c)
      /\ request_queue[d] = q
      /\ \A e \in Client \ {c} : cl'[e] = cl[e]
  BY <1>0, <1>1, <1>2 DEF IInv, Typed
<1>7. RequestSound(c)'
  BY <1>1, <1>2, <1>3, <1>6 DEF ClientSound, RequestSound, OutOfBound
<1>8. AnswersSound(c)'
  <2>1. AnswersOf(c)' = {}
    BY <1>1, <1>2, <1>6 DEF ClientSound, AnswersSound, AnswersOf, HasAnswer
  <2>2. wk[d].pc = "wake" => wk[d].hand # None
    BY <1>5 DEF DriveSound, WorkerSound
  <2>3. ~HasAnswer(c)'
    BY <2>2, <1>1, <1>2, <1>3, <1>5, <1>6 DEF HasAnswer, InHand
  <2>. QED BY <2>1, <2>3 DEF AnswersSound
<1>9. BufferSound(c)'
  <2>1. ~IsRead(cl[c].out)' /\ ~IsSync(cl[c].out)' /\ ~IsRead(cl[c].out)
    BY <1>1, <1>3, <1>6 DEF IsRead, IsSync
  <2>. QED BY <2>1, <1>1, <1>2, <1>3, <1>6 DEF ClientSound, BufferSound
<1>10. DriveSound(d)'
  <2>1. UNCHANGED <<wk, port, completed_queue, submitted_queue, permit, buf, setup>>
    BY <1>2 DEF hardware
  <2> DEFINE a == Append(q, r)
  <2>2. /\ a \in Seq(Request) /\ Len(a) = Len(q) + 1 /\ Len(q) \in Nat
        /\ \A i \in DOMAIN a : a[i] = r \/ \E j \in DOMAIN q : a[i] = q[j]
        /\ \A e : In(a, e) <=> In(q, e) \/ c = e
        /\ Once(q) => Once(a)
    BY <1>1, <1>0, <1>5, AppendFacts, LenProperties
  <2>. HIDE DEF a
  <2>3. request_queue'[d] = a
    BY <1>6 DEF a
  <2>4. Asked(d, r)'
    BY <2>1, <1>1, <1>3, <1>6 DEF Asked, Waits
  <2>5. ASSUME NEW x, Waits(d, x)
        PROVE  Waits(d, x)' /\ cl'[x.c] = cl[x.c] /\ (Got(x.c) => Got(x.c)')
    <3>1. x.c \in Client /\ x.c # c
      BY <2>5, <1>1, RequestFacts DEF Waits
    <3>2. cl'[x.c] = cl[x.c]
      BY <3>1, <1>6
    <3>. QED BY <2>1, <2>5, <3>2 DEF Waits, Got
  <2>6. \A x : Asked(d, x) => Asked(d, x)' /\ (Got(x.c) => Got(x.c)')
    BY <2>5 DEF Asked
  <2>7. \A x : Replied(d, x) => Replied(d, x)'
    BY <2>5 DEF Replied, Final, OutcomeOf, OutOfBound
  <2>8. wk[d].n \in Nat
    BY <1>1 DEF IInv, Typed, WorkerType
  <2>9. WorkerSound(d)'
    <3>1. WorkerSound(d) /\ Len(request_queue[d]) = Len(q) /\ wk'[d] = wk[d]
      BY <1>5, <1>6, <2>1 DEF DriveSound
    <3>. QED BY <3>1, <2>1, <2>2, <2>3, <2>8 DEF WorkerSound
  <2>10. PlacesSound(d)'
    <3>1. PlacesSound(d) /\ q = request_queue[d]
      BY <1>5 DEF DriveSound
    <3>2. \A i \in DOMAIN a : \A x : x = a[i] => Asked(d, x)'
      <4>1. \A j \in DOMAIN q : Asked(d, q[j])
        BY <3>1 DEF PlacesSound
      <4>2. \A x : (\E j \in DOMAIN q : x = q[j]) => Asked(d, x)'
        BY <4>1, <2>6
      <4>. QED BY <4>2, <2>2, <2>4
    <3>3. ASSUME NEW i \in DOMAIN submitted_queue[d],
                 NEW x, x = submitted_queue[d][i]
          PROVE  /\ Asked(d, x)' /\ OutcomeOf(x.io) = "Ok"
                 /\ Got(x.c)' \/ (port[d].ci /\ port[d].cmd = x)
      <4>1. /\ Asked(d, x) /\ OutcomeOf(x.io) = "Ok"
            /\ Got(x.c) \/ (port[d].ci /\ port[d].cmd = x)
        BY <3>1, <3>3 DEF PlacesSound
      <4>. QED BY <4>1, <2>6
    <3>4. ASSUME NEW i \in DOMAIN completed_queue[d],
                 NEW x, x = completed_queue[d][i]
          PROVE  Replied(d, x)'
      BY <3>1, <3>4, <2>7 DEF PlacesSound
    <3>5. ASSUME NEW x, x = wk[d].hand
          PROVE  /\ wk[d].pc = "issue" => Asked(d, x)' /\ OutcomeOf(x.io) = "Ok"
                 /\ wk[d].pc \in {"cb", "wake"} => Replied(d, x)'
      <4>1. /\ wk[d].pc = "issue" => Asked(d, x) /\ OutcomeOf(x.io) = "Ok"
            /\ wk[d].pc \in {"cb", "wake"} => Replied(d, x)
        BY <3>1, <3>5 DEF PlacesSound
      <4>. QED BY <4>1, <2>6, <2>7
    <3>6. ASSUME NEW x, x = port[d].cmd, port[d].ci PROVE Asked(d, x)'
      BY <3>1, <3>6, <2>6 DEF PlacesSound
    <3>7. \A x : OutcomeOf(x.io)' = OutcomeOf(x.io)
      BY DEF OutcomeOf, OutOfBound
    <3>. QED BY <3>2, <3>3, <3>4, <3>5, <3>6, <3>7, <2>1, <2>3 DEF PlacesSound
  <2>11. OnePlace(d)'
    <3>1. \A e : /\ In(request_queue[d], e)' <=> In(q, e) \/ c = e
                 /\ In(submitted_queue[d], e)' <=> In(submitted_queue[d], e)
                 /\ In(completed_queue[d], e)' <=> In(completed_queue[d], e)
                 /\ InHand(d, e)' <=> InHand(d, e)
      <4>1. \A e : In(request_queue[d], e)' <=> In(a, e)
        BY <2>3 DEF In
      <4>. QED BY <4>1, <2>1, <2>2 DEF In, InHand
    <3>2. /\ Once(request_queue[d]) => Once(request_queue[d])'
          /\ Once(submitted_queue[d])' <=> Once(submitted_queue[d])
          /\ Once(completed_queue[d])' <=> Once(completed_queue[d])
      <4>1. Once(request_queue[d])' <=> Once(a)
        BY <2>3 DEF Once
      <4>2. /\ Once(submitted_queue[d])' <=> Once(submitted_queue[d])
            /\ Once(completed_queue[d])' <=> Once(completed_queue[d])
        BY <2>1 DEF Once
      <4>. QED BY <4>1, <4>2, <2>2, <1>6
    <3>. QED BY <3>1, <3>2, <2>1, <1>5, <1>6 DEF DriveSound, OnePlace
  <2>. QED BY <2>9, <2>10, <2>11 DEF DriveSound
<1>11. Moves(c, b)
  <2>1. Append(q, r) \in Seq(Request)
    BY <1>1, <1>0, AppendFacts
  <2>2. \A e : AnswersOf(e)' = AnswersOf(e)
    BY <1>2 DEF AnswersOf
  <2>3. /\ buf \in [Client -> Nat \cup {None}] /\ answers \in SUBSET Request
        /\ permit \in [Client -> {0, 1}] /\ next_id \in Nat
    BY DEF IInv, Typed
  <2>4. request_queue' \in [Drive -> Seq(Request)]
    BY <2>1, <1>2, <1>0
  <2>. QED BY <2>2, <2>3, <2>4, <1>2 DEF Moves
<1>12. \A e \in Drive : DriveSound(e)' \/ request_queue'[e] = request_queue[e]
  BY <1>2, <1>0, <1>10
<1>. QED BY <1>1, <1>3, <1>7, <1>8, <1>9, <1>11, <1>12, ClientStep DEF ClientSound

-----------------------------------------------------------------------------
(* The steps of workers                                                    *)

LEMMA SameClients ==
    ASSUME UNCHANGED <<setup, cl, permit, buf>>
    PROVE  /\ \A d, r : Asked(d, r)' <=> Asked(d, r)
           /\ \A d, r : Replied(d, r)' <=> Replied(d, r)
           /\ \A c : Got(c)' <=> Got(c)
           /\ \A io : OutcomeOf(io)' = OutcomeOf(io)
<1>1. \A c : Got(c)' <=> Got(c)
  BY DEF Got
<1>2. \A d, r : Waits(d, r)' <=> Waits(d, r)
  BY DEF Waits
<1>3. \A io : OutcomeOf(io)' = OutcomeOf(io)
  BY DEF OutcomeOf, OutOfBound
<1>4. \A c : Final(cl[c].req)' = Final(cl[c].req)
  BY <1>3 DEF Final
<1>. QED BY <1>1, <1>2, <1>3, <1>4 DEF Asked, Replied

\* A step that no client sees leaves the clients sound.
LEMMA ClientsStay ==
    ASSUME IInv, UNCHANGED <<setup, cl, buf, permit, answers, next_id>>,
           \A d \in Drive : \/ wk'[d] = wk[d]
                            \/ wk[d].pc # "wake" /\ wk'[d].pc # "wake"
    PROVE  IdsDiffer' /\ \A c \in Client : ClientSound(c)'
<1>1. IdsDiffer'
  BY DEF IInv, IdsDiffer
<1>2. ASSUME NEW c \in Client PROVE ClientSound(c)'
  <2>1. AnswersOf(c)' = AnswersOf(c)
    BY DEF AnswersOf
  <2>2. setup.drive[c] \in Drive /\ (cl[c].pc # "idle" => cl[c].req.id \in Nat)
    BY ClientTyped
  <2>3. HasAnswer(c)' = HasAnswer(c)
    BY <2>2 DEF HasAnswer
  <2>4. ClientSound(c) /\ next_id \in Nat
    BY DEF IInv, Typed
  <2>. QED BY <2>1, <2>2, <2>3, <2>4, ClientFrame
<1>. QED BY <1>1, <1>2

\* A step of drive d alone, that its clients do not see.
LEMMA DriveStep ==
    ASSUME IInv, NEW d \in Drive, Typed', BusSound', DriveSound(d)',
           UNCHANGED <<setup, cl, buf, permit, answers, next_id>>,
           \A e \in Drive \ {d} :
                /\ request_queue'[e] = request_queue[e]
                /\ submitted_queue'[e] = submitted_queue[e]
                /\ completed_queue'[e] = completed_queue[e]
                /\ wk'[e] = wk[e] /\ port'[e] = port[e],
           wk'[d] = wk[d] \/ (wk[d].pc # "wake" /\ wk'[d].pc # "wake")
    PROVE  IInv'
<1>1. IdsDiffer' /\ \A c \in Client : ClientSound(c)'
  BY ClientsStay
<1>2. ASSUME NEW e \in Drive \ {d} PROVE DriveSound(e)'
  <2>1. DriveSound(e)
    BY DEF IInv
  <2>2. \A r : Got(r.c) => Got(r.c)'
    BY SameClients
  <2>. QED BY <2>1, <2>2, DriveFrame
<1>. QED BY <1>1, <1>2 DEF IInv

\* A drive whose worker moves on with the queues as they are.
LEMMA WorkerMoves ==
    ASSUME IInv, NEW d \in Drive,
           UNCHANGED <<setup, cl, buf, permit, answers, next_id, request_queue,
                       submitted_queue, completed_queue, port>>,
           wk[d].pc \in {"comp", "submit", "irq", "ccount"},
           wk'[d].pc \in {"comp", "submit", "irq", "ccount"},
           wk'[d].hand = wk[d].hand,
           wk'[d].pc = "submit" => wk'[d].n <= Len(request_queue[d]),
           wk'[d].pc = "comp" => wk'[d].n <= Len(completed_queue[d])
    PROVE  DriveSound(d)'
<1>1. DriveSound(d)
  BY DEF IInv
<1>2. WorkerSound(d)'
  BY <1>1 DEF DriveSound, WorkerSound
<1>3. PlacesSound(d)'
  BY <1>1, SameClients DEF DriveSound, PlacesSound
<1>4. OnePlace(d)'
  BY <1>1 DEF DriveSound, OnePlace, Once, In, InHand
<1>. QED BY <1>2, <1>3, <1>4 DEF DriveSound

\* The facts a drive's step starts from.
LEMMA DriveTyped ==
    ASSUME IInv, NEW d \in Drive
    PROVE  /\ wk[d] \in WorkerType /\ wk[d].n \in Nat /\ port[d] \in PortType
           /\ wk \in [Drive -> WorkerType] /\ port \in [Drive -> PortType]
           /\ request_queue \in [Drive -> Seq(Request)]
           /\ submitted_queue \in [Drive -> Seq(Request)]
           /\ completed_queue \in [Drive -> Seq(Request)]
           /\ request_queue[d] \in Seq(Request) /\ Len(request_queue[d]) \in Nat
           /\ submitted_queue[d] \in Seq(Request)
           /\ completed_queue[d] \in Seq(Request) /\ Len(completed_queue[d]) \in Nat
           /\ DriveSound(d)
<1>1. /\ wk \in [Drive -> WorkerType] /\ port \in [Drive -> PortType]
      /\ request_queue \in [Drive -> Seq(Request)]
      /\ submitted_queue \in [Drive -> Seq(Request)]
      /\ completed_queue \in [Drive -> Seq(Request)] /\ DriveSound(d)
  BY DEF IInv, Typed
<1>2. wk[d].n \in Nat
  BY <1>1 DEF WorkerType
<1>. QED BY <1>1, <1>2, LenProperties

LEMMA WorkerSet ==
    ASSUME NEW d \in Drive, wk \in [Drive -> WorkerType], NEW n \in Nat,
           NEW p \in {"comp", "submit", "issue", "irq", "ccount", "cb", "wake"},
           wk' = [wk EXCEPT ![d].pc = p, ![d].n = n]
    PROVE  /\ wk' \in [Drive -> WorkerType]
           /\ \A e \in Drive \ {d} : wk'[e] = wk[e]
           /\ wk'[d].pc = p /\ wk'[d].n = n /\ wk'[d].hand = wk[d].hand
<1> DEFINE w == [[wk[d] EXCEPT !.pc = p] EXCEPT !.n = n]
<1>1. w \in WorkerType /\ w.pc = p /\ w.n = n /\ w.hand = wk[d].hand
  BY DEF WorkerType
<1>2. wk' = [wk EXCEPT ![d] = w]
  OBVIOUS
<1>. HIDE DEF w
<1>. QED BY <1>1, <1>2

\* The worker counts, or looks whether there are interrupts to handle.
\* While nobody holds the bus.
LEMMA BusFree ==
    ASSUME IInv, bus = None
    PROVE  /\ ~InHandler /\ irq.drv \in Nat /\ irq.drv \notin Drive /\ irq.pc # "drain"
           /\ \A e \in Drive : wk[e].pc \notin {"issue", "irq"}
<1>1. BusSound /\ irq \in IrqType
  BY DEF IInv, Typed
<1>2. ASSUME NEW e \in Drive, wk[e].pc \in {"issue", "irq"} PROVE FALSE
  <2>1. bus = e
    BY <1>1, <1>2 DEF BusSound
  <2>. QED BY <2>1, DataFacts
<1>3. ~InHandler
  BY <1>1, DataFacts DEF BusSound
<1>4. irq.drv \in Nat /\ ~(irq.drv > 0)
  BY <1>1, <1>3 DEF IrqType, InHandler
<1>5. irq.drv \notin Drive
  BY <1>4, DataFacts DEF Drive
<1>6. irq.pc # "drain"
  BY <1>1, <1>5 DEF BusSound
<1>. QED BY <1>2, <1>3, <1>4, <1>5, <1>6

LEMMA CountIInv ==
    ASSUME IInv, NEW d \in Drive,
           CountRequests(d) \/ Poll(d) \/ CountCompletions(d)
    PROVE  IInv'
<1>0. /\ DriveSound(d) /\ wk \in [Drive -> WorkerType] /\ wk[d] \in WorkerType
      /\ Len(request_queue[d]) \in Nat /\ Len(completed_queue[d]) \in Nat
  BY DriveTyped
<1>1. /\ wk[d].pc \in {"comp", "submit", "ccount"} /\ bus = None /\ wk[d].hand = None
      /\ UNCHANGED <<setup, cl, buf, permit, answers, next_id, request_queue,
                     submitted_queue, completed_queue, port, his, edge>>
  BY <1>0 DEF CountRequests, Poll, CountCompletions, Working, queues, sync_io,
              hardware, DriveSound, WorkerSound
<1>2. /\ wk' \in [Drive -> WorkerType] /\ wk'[d].hand = wk[d].hand
      /\ \A e \in Drive \ {d} : wk'[e] = wk[e]
      /\ wk'[d].pc \in {"comp", "submit", "irq", "ccount"}
      /\ wk'[d].pc = "submit" => wk'[d].n <= Len(request_queue[d])
      /\ wk'[d].pc = "comp" => wk'[d].n <= Len(completed_queue[d])
  <2>1. CASE CountRequests(d)
    <3>1. /\ wk' = [wk EXCEPT ![d].pc = "submit", ![d].n = Len(request_queue[d])]
          /\ wk'[d].n <= Len(request_queue[d])
      BY <2>1, <1>0 DEF CountRequests, WorkerType
    <3>. QED BY <3>1, <1>0, WorkerSet
  <2>2. CASE Poll(d)
    BY <2>2, <1>0 DEF Poll, WorkerType
  <2>3. CASE CountCompletions(d)
    <3>1. /\ wk' = [wk EXCEPT ![d].pc = "comp", ![d].n = Len(completed_queue[d])]
          /\ wk'[d].n <= Len(completed_queue[d])
      BY <2>3, <1>0 DEF CountCompletions, WorkerType
    <3>. QED BY <3>1, <1>0, WorkerSet
  <2>. QED BY <2>1, <2>2, <2>3
<1>3. /\ wk'[d].pc = "irq" => bus' = d /\ irq' = [Irq0 EXCEPT !.drv = 1]
      /\ wk'[d].pc # "irq" => bus' = bus /\ irq' = irq
  BY <1>0 DEF CountRequests, Poll, CountCompletions, WorkerType
<1>4. Typed'
  <2>1. [Irq0 EXCEPT !.drv = 1] \in IrqType
    BY DEF Irq0, IrqType
  <2>. QED BY <2>1, <1>1, <1>2, <1>3 DEF IInv, Typed
<1>5. ~InHandler
  BY <1>1, DataFacts DEF IInv, BusSound
<1>6. BusSound'
  <2>0. /\ \A e \in Drive : wk[e].pc \notin {"issue", "irq"}
        /\ irq.drv \in Nat /\ irq.drv \notin Drive /\ irq.pc # "drain"
    BY <1>1, <1>5, BusFree
  <2>1. CASE wk'[d].pc = "irq"
    BY <2>0, <2>1, <1>2, <1>3 DEF BusSound, InHandler, Irq0
  <2>2. CASE wk'[d].pc # "irq"
    BY <2>0, <2>2, <1>1, <1>2, <1>3, <1>5 DEF BusSound, InHandler
  <2>. QED BY <2>1, <2>2
<1>7. DriveSound(d)'
  BY <1>1, <1>2, WorkerMoves
<1>. QED BY <1>1, <1>2, <1>4, <1>6, <1>7, DriveStep

\* The worker takes a request: slot 0 is free for it, or it is answered as
\* it must be.
LEMMA SubmitIInv ==
    ASSUME IInv, NEW d \in Drive, Submit(d) PROVE IInv'
<1>. SUFFICES ASSUME NEW q \in Seq(Request), q = request_queue[d],
                     NEW r, r = Head(q)
              PROVE  IInv'
  BY DriveTyped
<1>1. /\ wk[d].pc = "submit" /\ bus = None /\ wk[d].n > 0 /\ wk[d].n \in Nat
      /\ wk[d].n <= Len(q) /\ Len(q) \in Nat /\ wk[d].hand = None
      /\ DriveSound(d)
  BY DriveTyped DEF Submit, Working, DriveSound, WorkerSound
<1>2. /\ request_queue' = [request_queue EXCEPT ![d] = Tail(q)]
      /\ UNCHANGED <<setup, cl, buf, permit, answers, next_id, submitted_queue,
                     irq, his, edge>>
  BY DEF Submit, sync_io
<1> DEFINE t == Tail(q)
<1>3. /\ t \in Seq(Request) /\ Len(t) = Len(q) - 1 /\ r \in Request
      /\ \A i \in DOMAIN t : \E j \in DOMAIN q : t[i] = q[j]
      /\ \A c : In(q, c) <=> In(t, c) \/ r.c = c
      /\ Once(q) => Once(t) /\ ~In(t, r.c)
      /\ r = q[1] /\ 1 \in DOMAIN q
  BY <1>1, TailFacts
<1>. HIDE DEF t
<1>4. /\ Asked(d, r) /\ In(q, r.c) /\ \A i \in DOMAIN t : Asked(d, t[i])
  BY <1>1, <1>3 DEF DriveSound, PlacesSound, In
<1>5. /\ request_queue'[d] = t /\ request_queue' \in [Drive -> Seq(Request)]
      /\ \A e \in Drive \ {d} : request_queue'[e] = request_queue[e]
  BY <1>2, <1>3, DriveTyped DEF t
<1>6. ~OutOfBound(r.io) /\ r.io \in Io /\ r.c \in Client
  BY <1>3, <1>4, RequestFacts DEF IInv, ClientSound, RequestSound, Asked, Waits
<1>7. /\ Once(t) /\ ~In(t, r.c) /\ ~In(submitted_queue[d], r.c)
      /\ ~In(completed_queue[d], r.c) /\ ~(port[d].ci /\ port[d].cmd.c = r.c)
      /\ \A c : In(t, c) => In(q, c)
  BY <1>1, <1>3, <1>4, <1>6 DEF DriveSound, OnePlace
<1>8. CASE r.io.op = "Read" /\ r.io.sectors <= MaxSectors
  <2>1. /\ wk' = [wk EXCEPT ![d].pc = "issue", ![d].hand = r]
        /\ port' = [port EXCEPT ![d].is = FALSE]
        /\ bus' = d /\ UNCHANGED completed_queue
    BY <1>8 DEF Submit
  <2>2. OutcomeOf(r.io) = "Ok"
    BY <1>6, <1>8, DataFacts DEF OutcomeOf, Io
  <2>3. /\ wk' \in [Drive -> WorkerType] /\ port' \in [Drive -> PortType]
        /\ wk'[d].pc = "issue" /\ wk'[d].hand = r /\ wk'[d].n = wk[d].n
        /\ port'[d].ci = port[d].ci /\ port'[d].cmd = port[d].cmd
        /\ \A e \in Drive \ {d} : wk'[e] = wk[e] /\ port'[e] = port[e]
    <3> DEFINE w == [[wk[d] EXCEPT !.pc = "issue"] EXCEPT !.hand = r]
               p == [port[d] EXCEPT !.is = FALSE]
    <3>1. w \in WorkerType /\ w.pc = "issue" /\ w.hand = r /\ w.n = wk[d].n
      BY <1>3, DriveTyped DEF WorkerType
    <3>2. p \in PortType /\ p.ci = port[d].ci /\ p.cmd = port[d].cmd
      BY DriveTyped DEF PortType
    <3>3. wk' = [wk EXCEPT ![d] = w] /\ port' = [port EXCEPT ![d] = p]
      BY <2>1
    <3>. HIDE DEF w, p
    <3>4. /\ wk' \in [Drive -> WorkerType] /\ wk'[d] = w
          /\ \A e \in Drive \ {d} : wk'[e] = wk[e]
      BY <3>1, <3>3, DriveTyped
    <3>5. /\ port' \in [Drive -> PortType] /\ port'[d] = p
          /\ \A e \in Drive \ {d} : port'[e] = port[e]
      BY <3>2, <3>3, DriveTyped
    <3>. QED BY <3>1, <3>2, <3>4, <3>5
  <2>4. r # None
    BY <1>3, DataFacts
  <2>5. WorkerSound(d)'
    BY <2>3, <2>4, <1>1, <1>3, <1>5 DEF WorkerSound
  <2>6. PlacesSound(d)'
    BY <2>1, <2>2, <2>3, <1>1, <1>2, <1>4, <1>5, SameClients DEF DriveSound, PlacesSound
  <2>7. OnePlace(d)'
    <3>1. /\ \A c : In(request_queue[d], c)' <=> In(t, c)
          /\ \A c : InHand(d, c)' <=> r.c = c
          /\ Once(request_queue[d])' <=> Once(t)
      BY <2>3, <2>4, <1>5 DEF In, InHand, Once
    <3>2. /\ \A c : In(submitted_queue[d], c)' <=> In(submitted_queue[d], c)
          /\ \A c : In(completed_queue[d], c)' <=> In(completed_queue[d], c)
          /\ Once(submitted_queue[d])' <=> Once(submitted_queue[d])
          /\ Once(completed_queue[d])' <=> Once(completed_queue[d])
      BY <2>1, <1>2 DEF In, Once
    <3>. QED BY <3>1, <3>2, <2>3, <1>1, <1>7 DEF DriveSound, OnePlace
  <2>8. DriveSound(d)'
    BY <2>5, <2>6, <2>7 DEF DriveSound
  <2>9. Typed'
    BY <2>1, <2>3, <1>2, <1>5 DEF IInv, Typed
  <2>10. BusSound'
    BY <2>1, <2>3, <1>1, <1>2, BusFree DEF BusSound, InHandler
  <2>. QED BY <2>1, <2>3, <2>8, <2>9, <2>10, <1>1, <1>2, <1>5, DriveStep
<1>9. CASE ~(r.io.op = "Read" /\ r.io.sectors <= MaxSectors)
  <2>1. /\ wk' = [wk EXCEPT ![d].n = wk[d].n - 1]
        /\ completed_queue' = [completed_queue EXCEPT ![d] =
               Append(completed_queue[d],
                   [r EXCEPT !.res = IF r.io.op = "Read" THEN "NotIssued"
                                                         ELSE "InvalidOp"])]
        /\ UNCHANGED <<port, bus>>
    BY <1>9 DEF Submit
  <2>2. [r EXCEPT !.res = IF r.io.op = "Read" THEN "NotIssued" ELSE "InvalidOp"]
        = Final(r)
    BY <1>6, <1>9, DataFacts DEF Final, OutcomeOf, Io
  <2>3. Replied(d, Final(r))
    <3>1. cl[r.c].req = r /\ ClientSound(r.c) /\ cl[r.c].pc = "block"
      BY <1>4, <1>6 DEF Asked, Waits, IInv
    <3>2. r.track
      BY <3>1, <1>9, WindowFacts DEF ClientSound, RequestSound
    <3>. QED BY <3>1, <3>2, <1>3, <1>4, RequestFacts DEF Replied, Asked, Waits, Got
  <2> DEFINE a == Append(completed_queue[d], Final(r))
  <2>4. /\ a \in Seq(Request) /\ Len(a) = Len(completed_queue[d]) + 1
        /\ \A i \in DOMAIN a : Replied(d, a[i])
        /\ \A c : In(a, c) <=> In(completed_queue[d], c) \/ r.c = c
        /\ Once(a)
    <3>1. Final(r) \in Request /\ Final(r).c = r.c /\ completed_queue[d] \in Seq(Request)
      BY <1>3, RequestFacts, DriveTyped
    <3>2. Once(completed_queue[d]) /\ ~In(completed_queue[d], Final(r).c)
          /\ \A i \in DOMAIN completed_queue[d] : Replied(d, completed_queue[d][i])
      BY <3>1, <1>1, <1>7 DEF DriveSound, OnePlace, PlacesSound
    <3>. QED BY <3>1, <3>2, <2>3, AppendFacts
  <2>. HIDE DEF a
  <2>5. completed_queue' = [completed_queue EXCEPT ![d] = a]
    BY <2>1, <2>2 DEF a
  <2>6. /\ wk' \in [Drive -> WorkerType]
        /\ wk'[d].pc = "submit" /\ wk'[d].hand = None /\ wk'[d].n = wk[d].n - 1
        /\ \A e \in Drive \ {d} : wk'[e] = wk[e]
        /\ completed_queue' \in [Drive -> Seq(Request)] /\ completed_queue'[d] = a
        /\ \A e \in Drive \ {d} : completed_queue'[e] = completed_queue[e]
    <3>1. /\ completed_queue' \in [Drive -> Seq(Request)] /\ completed_queue'[d] = a
          /\ \A e \in Drive \ {d} : completed_queue'[e] = completed_queue[e]
      BY <2>4, <2>5, DriveTyped
    <3> DEFINE w == [wk[d] EXCEPT !.n = wk[d].n - 1]
    <3>2. /\ w \in WorkerType /\ w.pc = "submit" /\ w.hand = None
          /\ w.n = wk[d].n - 1
      <4>1. wk[d] \in WorkerType /\ wk[d].n - 1 \in Nat
        BY <1>1, DriveTyped
      <4>. QED BY <4>1, <1>1 DEF WorkerType
    <3>3. wk' = [wk EXCEPT ![d] = w]
      BY <2>1
    <3>. HIDE DEF w
    <3>. QED BY <3>1, <3>2, <3>3, DriveTyped
  <2>7. WorkerSound(d)'
    BY <2>6, <1>1, <1>3, <1>5 DEF WorkerSound
  <2>8. PlacesSound(d)'
    BY <2>1, <2>4, <2>6, <1>1, <1>2, <1>4, <1>5, SameClients DEF DriveSound, PlacesSound
  <2>9. OnePlace(d)'
    <3>1. /\ \A c : In(request_queue[d], c)' <=> In(t, c)
          /\ Once(request_queue[d])' <=> Once(t)
      BY <1>5 DEF In, Once
    <3>2. /\ \A c : In(completed_queue[d], c)' <=> In(a, c)
          /\ Once(completed_queue[d])' <=> Once(a)
      BY <2>6 DEF In, Once
    <3>3. /\ \A c : In(submitted_queue[d], c)' <=> In(submitted_queue[d], c)
          /\ Once(submitted_queue[d])' <=> Once(submitted_queue[d])
          /\ \A c : ~InHand(d, c)'
      BY <2>6, <1>2 DEF In, Once, InHand
    <3>. QED BY <3>1, <3>2, <3>3, <2>1, <2>4, <1>1, <1>7 DEF DriveSound, OnePlace
  <2>10. DriveSound(d)'
    BY <2>7, <2>8, <2>9 DEF DriveSound
  <2>11. Typed'
    BY <2>1, <2>6, <1>2, <1>5 DEF IInv, Typed
  <2>12. BusSound'
    BY <2>1, <2>6, <1>1, <1>2, DataFacts DEF IInv, BusSound, InHandler
  <2>. QED BY <2>1, <2>6, <2>10, <2>11, <2>12, <1>1, <1>2, <1>5, DriveStep
<1>. QED BY <1>8, <1>9

\* Slot 0 is free: the request is the HBA's, and submitted.
LEMMA IssueIInv ==
    ASSUME IInv, NEW d \in Drive, Issue(d) PROVE IInv'
<1>. SUFFICES ASSUME NEW q \in Seq(Request), q = submitted_queue[d],
                     NEW r, r = wk[d].hand
              PROVE  IInv'
  BY DriveTyped
<1>1. /\ wk[d].pc = "issue" /\ ~port[d].ci /\ bus = d /\ wk[d].n \in Nat /\ wk[d].n > 0
      /\ wk[d].n <= Len(request_queue[d]) + 1 /\ Len(request_queue[d]) \in Nat
      /\ r # None /\ Asked(d, r) /\ OutcomeOf(r.io) = "Ok" /\ r \in Request
      /\ r.c \in Client /\ DriveSound(d)
  <2>1. wk[d].pc = "issue" /\ ~port[d].ci
    BY DEF Issue
  <2>2. /\ DriveSound(d) /\ wk[d].n \in Nat /\ Len(request_queue[d]) \in Nat
    BY DriveTyped
  <2>3. bus = d
    BY <2>1 DEF IInv, BusSound
  <2>4. wk[d].n > 0 /\ wk[d].n <= Len(request_queue[d]) + 1 /\ r # None
    BY <2>1, <2>2 DEF DriveSound, WorkerSound
  <2>5. Asked(d, r) /\ OutcomeOf(r.io) = "Ok"
    BY <2>1, <2>2 DEF DriveSound, PlacesSound
  <2>6. r \in Request
    BY <2>5 DEF Asked, Waits
  <2>7. r.c \in Client
    BY <2>6, RequestFacts
  <2>. QED BY <2>1, <2>2, <2>3, <2>4, <2>5, <2>6, <2>7
<1> DEFINE a == Append(q, r)
           w == [pc |-> "submit", n |-> wk[d].n - 1, hand |-> None]
<1>2. /\ submitted_queue' = [submitted_queue EXCEPT ![d] = a]
      /\ wk' = [wk EXCEPT ![d] = w] /\ bus' = None
      /\ port' = [port EXCEPT ![d].ci = TRUE, ![d].cmd = r]
      /\ UNCHANGED <<setup, cl, buf, permit, answers, next_id, request_queue,
                     completed_queue, irq, his, edge>>
  BY DEF Issue, sync_io
<1>3. /\ ~In(q, r.c) /\ ~In(request_queue[d], r.c) /\ ~In(completed_queue[d], r.c)
      /\ Once(q)
  BY <1>1 DEF DriveSound, OnePlace, InHand
<1>4. /\ a \in Seq(Request)
      /\ \A i \in DOMAIN a : a[i] = r \/ \E j \in DOMAIN q : a[i] = q[j]
      /\ \A c : In(a, c) <=> In(q, c) \/ r.c = c
      /\ Once(a)
  BY <1>1, <1>3, AppendFacts
<1>5. w \in WorkerType /\ w.pc = "submit" /\ w.n = wk[d].n - 1 /\ w.hand = None
  BY <1>1 DEF WorkerType
<1>. HIDE DEF a, w
<1>6. /\ wk' \in [Drive -> WorkerType] /\ wk'[d].pc = "submit" /\ wk'[d].hand = None
      /\ wk'[d].n = wk[d].n - 1
      /\ submitted_queue' \in [Drive -> Seq(Request)] /\ submitted_queue'[d] = a
      /\ \A e \in Drive \ {d} : /\ wk'[e] = wk[e]
                                /\ submitted_queue'[e] = submitted_queue[e]
  BY <1>2, <1>4, <1>5, DriveTyped
<1>7. /\ port' \in [Drive -> PortType] /\ port'[d].ci = TRUE /\ port'[d].cmd = r
      /\ \A e \in Drive \ {d} : port'[e] = port[e]
  <2> DEFINE p == [[port[d] EXCEPT !.ci = TRUE] EXCEPT !.cmd = r]
  <2>1. p \in PortType /\ p.ci = TRUE /\ p.cmd = r
    BY <1>1, DriveTyped DEF PortType
  <2>2. port' = [port EXCEPT ![d] = p]
    BY <1>2
  <2>. HIDE DEF p
  <2>. QED BY <2>1, <2>2, DriveTyped
<1>8. WorkerSound(d)'
  BY <1>1, <1>2, <1>6 DEF WorkerSound
<1>9. PlacesSound(d)'
  <2>1. \A i \in DOMAIN a : /\ Asked(d, a[i]) /\ OutcomeOf(a[i].io) = "Ok"
                            /\ Got(a[i].c) \/ r = a[i]
    BY <1>1, <1>4 DEF DriveSound, PlacesSound
  <2>. QED BY <2>1, <1>1, <1>2, <1>6, <1>7, SameClients DEF DriveSound, PlacesSound
<1>10. OnePlace(d)'
  <2>1. /\ \A c : In(submitted_queue[d], c)' <=> In(a, c)
        /\ Once(submitted_queue[d])' <=> Once(a)
    BY <1>6 DEF In, Once
  <2>2. /\ \A c : In(request_queue[d], c)' <=> In(request_queue[d], c)
        /\ \A c : In(completed_queue[d], c)' <=> In(completed_queue[d], c)
        /\ Once(request_queue[d])' <=> Once(request_queue[d])
        /\ Once(completed_queue[d])' <=> Once(completed_queue[d])
    BY <1>2 DEF In, Once
  <2>3. \A c : ~InHand(d, c)' /\ (InHand(d, c) <=> r.c = c)
    BY <1>1, <1>6 DEF InHand
  <2>. QED BY <2>1, <2>2, <2>3, <1>1, <1>3, <1>4, <1>7 DEF DriveSound, OnePlace
<1>11. DriveSound(d)'
  BY <1>8, <1>9, <1>10 DEF DriveSound
<1>12. Typed'
  BY <1>2, <1>6, <1>7 DEF IInv, Typed
<1>13. BusSound'
  <2>1. ~InHandler /\ irq.drv \in Nat /\ irq.drv \notin Drive
    BY <1>1, DataFacts DEF IInv, Typed, IrqType, BusSound, InHandler, Drive
  <2>2. irq.pc # "drain"
    BY <2>1 DEF IInv, BusSound
  <2>3. \A e \in Drive : wk'[e].pc \notin {"issue", "irq"}
    BY <1>1, <1>6 DEF IInv, BusSound
  <2>. QED BY <2>1, <2>2, <2>3, <1>2 DEF BusSound, InHandler
<1>. QED BY <1>1, <1>2, <1>6, <1>7, <1>11, <1>12, <1>13, DriveStep

\* The worker takes a completion.
LEMMA TakeCompletionIInv ==
    ASSUME IInv, NEW d \in Drive, TakeCompletion(d) PROVE IInv'
<1>. SUFFICES ASSUME NEW q \in Seq(Request), q = completed_queue[d],
                     NEW r, r = Head(q)
              PROVE  IInv'
  BY DriveTyped
<1>1. /\ wk[d].pc = "comp" /\ wk[d].n > 0 /\ wk[d].n \in Nat
      /\ wk[d].n <= Len(q) /\ Len(q) \in Nat /\ wk[d].hand = None
      /\ DriveSound(d)
  BY DriveTyped DEF TakeCompletion, Working, DriveSound, WorkerSound
<1> DEFINE t == Tail(q)
           w == [pc |-> "cb", n |-> wk[d].n - 1, hand |-> r]
<1>2. /\ completed_queue' = [completed_queue EXCEPT ![d] = t]
      /\ wk' = [wk EXCEPT ![d] = w]
      /\ UNCHANGED <<setup, cl, buf, permit, answers, next_id, request_queue,
                     submitted_queue, bus, irq, port, his, edge>>
  BY DEF TakeCompletion, sync_io, hardware
<1>3. /\ t \in Seq(Request) /\ Len(t) = Len(q) - 1 /\ r \in Request
      /\ \A i \in DOMAIN t : \E j \in DOMAIN q : t[i] = q[j]
      /\ \A c : In(q, c) <=> In(t, c) \/ r.c = c
      /\ Once(q) => Once(t) /\ ~In(t, r.c)
      /\ r = q[1] /\ 1 \in DOMAIN q
  BY <1>1, TailFacts
<1>4. w \in WorkerType /\ w.pc = "cb" /\ w.n = wk[d].n - 1 /\ w.hand = r
  BY <1>1, <1>3 DEF WorkerType
<1>. HIDE DEF t, w
<1>5. /\ Replied(d, r) /\ In(q, r.c) /\ r.c \in Client /\ r # None
      /\ \A i \in DOMAIN t : Replied(d, t[i])
  BY <1>1, <1>3, RequestFacts, DataFacts DEF DriveSound, PlacesSound, In
<1>6. /\ wk' \in [Drive -> WorkerType] /\ wk'[d].pc = "cb" /\ wk'[d].hand = r
      /\ wk'[d].n = wk[d].n - 1
      /\ completed_queue' \in [Drive -> Seq(Request)] /\ completed_queue'[d] = t
      /\ \A e \in Drive \ {d} : /\ wk'[e] = wk[e]
                                /\ completed_queue'[e] = completed_queue[e]
  BY <1>2, <1>3, <1>4, DriveTyped
<1>7. /\ Once(t) /\ ~In(t, r.c) /\ ~In(submitted_queue[d], r.c)
      /\ ~In(request_queue[d], r.c) /\ ~(port[d].ci /\ port[d].cmd.c = r.c)
  BY <1>1, <1>3, <1>5 DEF DriveSound, OnePlace
<1>8. WorkerSound(d)'
  BY <1>1, <1>2, <1>3, <1>5, <1>6 DEF WorkerSound
<1>9. PlacesSound(d)'
  BY <1>1, <1>2, <1>5, <1>6, SameClients DEF DriveSound, PlacesSound
<1>10. OnePlace(d)'
  <2>1. /\ \A c : In(completed_queue[d], c)' <=> In(t, c)
        /\ Once(completed_queue[d])' <=> Once(t)
    BY <1>6 DEF In, Once
  <2>2. /\ \A c : In(request_queue[d], c)' <=> In(request_queue[d], c)
        /\ \A c : In(submitted_queue[d], c)' <=> In(submitted_queue[d], c)
        /\ Once(request_queue[d])' <=> Once(request_queue[d])
        /\ Once(submitted_queue[d])' <=> Once(submitted_queue[d])
    BY <1>2 DEF In, Once
  <2>3. \A c : InHand(d, c)' <=> r.c = c
    BY <1>5, <1>6 DEF InHand
  <2>. QED BY <2>1, <2>2, <2>3, <1>1, <1>2, <1>3, <1>7 DEF DriveSound, OnePlace
<1>11. DriveSound(d)'
  BY <1>8, <1>9, <1>10 DEF DriveSound
<1>12. Typed'
  BY <1>2, <1>6 DEF IInv, Typed
<1>13. BusSound'
  BY <1>1, <1>2, <1>6 DEF IInv, BusSound, InHandler
<1>. QED BY <1>1, <1>2, <1>6, <1>11, <1>12, <1>13, DriveStep

\* The callback stores the completion of the request in the worker's hands,
\* if that is what the client collects.
LEMMA CallbackIInv ==
    ASSUME IInv, NEW d \in Drive, Callback(d) PROVE IInv'
<1>. SUFFICES ASSUME NEW r, r = wk[d].hand, NEW c, c = r.c PROVE IInv'
  OBVIOUS
<1>1. /\ wk[d].pc = "cb" /\ DriveSound(d) /\ Replied(d, r) /\ r # None
  BY DriveTyped DEF Callback, DriveSound, WorkerSound, PlacesSound
<1>2. /\ r \in Request /\ c \in Client /\ setup.drive[c] = d
      /\ cl[c].pc = "block" /\ permit[c] = 0
      /\ cl[c].req \in Request /\ r.track = cl[c].req.track /\ r.track \in BOOLEAN
  <2>1. r \in Request /\ c \in Client /\ setup.drive[c] = d
        /\ cl[c].pc = "block" /\ permit[c] = 0 /\ r = Final(cl[c].req)
    BY <1>1, RequestFacts DEF Replied, Waits
  <2>2. cl[c].req \in Request
    BY <2>1, ClientTyped
  <2>. QED BY <2>1, <2>2, RequestFacts
<1>2a. r = Final(cl[c].req)
  BY <1>1 DEF Replied
<1>3. /\ wk' = [wk EXCEPT ![d].pc = "wake"]
      /\ answers' = IF r.track THEN answers \cup {r} ELSE answers
      /\ UNCHANGED <<setup, cl, buf, permit, next_id, request_queue, submitted_queue,
                     completed_queue, bus, irq, port, his, edge>>
  BY DEF Callback, completion_cb, queues, hardware
<1>4. /\ wk' \in [Drive -> WorkerType] /\ wk'[d].pc = "wake" /\ wk'[d].hand = r
      /\ wk'[d].n = wk[d].n
      /\ \A e \in Drive \ {d} : wk'[e] = wk[e]
  BY <1>3, DriveTyped DEF WorkerType
<1>4a. ~HasAnswer(c)
  <2>1. cl[c].pc # "collect" /\ permit[c] # 1 /\ wk[setup.drive[c]].pc # "wake"
    BY <1>1, <1>2
  <2>. QED BY <2>1, Zenon DEF HasAnswer
<1>5. \A e \in Drive : DriveSound(e)'
  <2>1. DriveSound(d)'
    <3>1. WorkerSound(d)'
      BY <1>1, <1>3, <1>4 DEF DriveSound, WorkerSound
    <3>2. PlacesSound(d)'
      BY <1>1, <1>3, <1>4, SameClients DEF DriveSound, PlacesSound
    <3>3. OnePlace(d)'
      BY <1>1, <1>3, <1>4 DEF DriveSound, OnePlace, Once, In, InHand
    <3>. QED BY <3>1, <3>2, <3>3 DEF DriveSound
  <2>2. ASSUME NEW e \in Drive \ {d} PROVE DriveSound(e)'
    <3>1. DriveSound(e) /\ \A x : Got(x.c) => Got(x.c)'
      BY <1>3, SameClients DEF IInv
    <3>. QED BY <3>1, <1>3, <1>4, DriveFrame
  <2>. QED BY <2>1, <2>2
<1>6. \A e \in Client \ {c} : AnswersOf(e)' = AnswersOf(e)
  BY <1>3 DEF AnswersOf
<1>7. ASSUME NEW e \in Client PROVE ClientSound(e)'
  <2>0. /\ ClientSound(e) /\ next_id \in Nat /\ setup.drive[e] \in Drive
        /\ cl[e].pc # "idle" => cl[e].req.id \in Nat
    BY ClientTyped DEF IInv, Typed
  <2>1. CASE AnswersOf(e)' = AnswersOf(e) /\ HasAnswer(e)' = HasAnswer(e)
    BY <2>0, <2>1, <1>3, ClientFrame
  <2>2. CASE e # c
    <3>1. HasAnswer(e)' = HasAnswer(e)
      BY <2>0, <2>2, <1>1, <1>3, <1>4 DEF HasAnswer
    <3>. QED BY <2>1, <2>2, <3>1, <1>6
  <2>3. CASE e = c /\ ~r.track
    <3>1. HasAnswer(e)' = HasAnswer(e) /\ AnswersOf(e)' = AnswersOf(e)
      BY <2>3, <1>2, <1>3 DEF HasAnswer, AnswersOf
    <3>. QED BY <2>1, <3>1
  <2>4. CASE e = c /\ r.track
    <3>1. ~HasAnswer(c) /\ HasAnswer(c)'
      <4>1. cl[c].req.track
        BY <2>4, <1>2
      <4>2. HasAnswer(c)'
        BY <4>1, <1>2, <1>3, <1>4 DEF HasAnswer
      <4>. QED BY <4>2, <1>4a
    <3>2. AnswersOf(c)' = {r}
      <4>1. AnswersOf(c) = {}
        BY <2>0, <2>4, <3>1 DEF ClientSound, AnswersSound
      <4>. QED BY <2>4, <4>1, <1>3 DEF AnswersOf
    <3>3. Final(cl[c].req)' = Final(cl[c].req)
      BY <1>3 DEF Final, OutcomeOf, OutOfBound
    <3>4. AnswersSound(e)'
      BY <2>4, <3>1, <3>2, <3>3, <1>2a DEF AnswersSound
    <3>5. RequestSound(e)'
      BY <2>0, <1>3 DEF ClientSound, RequestSound, OutOfBound, Got
    <3>6. BufferSound(e)'
      BY <2>0, <1>3 DEF ClientSound, BufferSound, ReadAnswered, SyncAnswered,
                        OutcomeOf, OutOfBound
    <3>. QED BY <3>4, <3>5, <3>6 DEF ClientSound
  <2>. QED BY <2>2, <2>3, <2>4
<1>8. Typed'
  BY <1>2, <1>3, <1>4 DEF IInv, Typed
<1>9. BusSound' /\ IdsDiffer'
  BY <1>1, <1>3, <1>4 DEF IInv, BusSound, InHandler, IdsDiffer
<1>. QED BY <1>5, <1>7, <1>8, <1>9 DEF IInv

\* The client whose request the worker had in its hands is woken.
LEMMA WakeIInv ==
    ASSUME IInv, NEW d \in Drive, Wake(d) PROVE IInv'
<1>. SUFFICES ASSUME NEW r, r = wk[d].hand, NEW c, c = r.c PROVE IInv'
  OBVIOUS
<1>1. /\ wk[d].pc = "wake" /\ DriveSound(d) /\ Replied(d, r) /\ r # None
  BY DriveTyped DEF Wake, DriveSound, WorkerSound, PlacesSound
<1>2. /\ r \in Request /\ c \in Client /\ setup.drive[c] = d
      /\ cl[c].pc = "block" /\ permit[c] = 0 /\ Got(c)
  BY <1>1, RequestFacts DEF Replied, Waits
<1> DEFINE w == [[wk[d] EXCEPT !.pc = "comp"] EXCEPT !.hand = None]
<1>3. /\ wk' = [wk EXCEPT ![d] = w]
      /\ permit' = [permit EXCEPT ![c] = permit[c] + 1]
      /\ UNCHANGED <<setup, cl, buf, answers, next_id, request_queue, submitted_queue,
                     completed_queue, bus, irq, port, his, edge>>
  BY DEF Wake, queues, hardware, sync_io
<1>4. w \in WorkerType /\ w.pc = "comp" /\ w.hand = None /\ w.n = wk[d].n
  BY DriveTyped DEF WorkerType
<1>. HIDE DEF w
<1>5. /\ wk' \in [Drive -> WorkerType] /\ wk'[d].pc = "comp" /\ wk'[d].hand = None
      /\ wk'[d].n = wk[d].n
      /\ \A e \in Drive \ {d} : wk'[e] = wk[e]
  BY <1>3, <1>4, DriveTyped
<1>6. /\ permit' \in [Client -> {0, 1}] /\ permit'[c] = 1
      /\ \A e \in Client \ {c} : permit'[e] = permit[e]
  BY <1>2, <1>3 DEF IInv, Typed
<1>7. /\ ~In(request_queue[d], c) /\ ~In(submitted_queue[d], c)
      /\ ~In(completed_queue[d], c) /\ ~(port[d].ci /\ port[d].cmd.c = c)
  BY <1>1, <1>2 DEF DriveSound, OnePlace, InHand
<1>8. /\ \A x, e : Waits(e, x) /\ x.c # c => Waits(e, x)'
      /\ \A e : Got(e)' <=> Got(e)
      /\ \A io : OutcomeOf(io)' = OutcomeOf(io)
  <2>1. ASSUME NEW x, NEW e, Waits(e, x), x.c # c PROVE Waits(e, x)'
    BY <2>1, <1>3, <1>6, RequestFacts DEF Waits
  <2>. QED BY <2>1, <1>3 DEF Got, OutcomeOf, OutOfBound
<1>9. /\ \A x, e : Asked(e, x) /\ x.c # c => Asked(e, x)'
      /\ \A x, e : Replied(e, x) /\ x.c # c => Replied(e, x)'
  BY <1>3, <1>8 DEF Asked, Replied, Final
<1>10. DriveSound(d)'
  <2>1. WorkerSound(d)'
    BY <1>1, <1>3, <1>5 DEF DriveSound, WorkerSound
  <2>2. /\ \A i \in DOMAIN request_queue[d] : request_queue[d][i].c # c
        /\ \A i \in DOMAIN submitted_queue[d] : submitted_queue[d][i].c # c
        /\ \A i \in DOMAIN completed_queue[d] : completed_queue[d][i].c # c
    BY <1>7 DEF In
  <2>3. PlacesSound(d)'
    BY <2>2, <1>1, <1>3, <1>5, <1>7, <1>8, <1>9 DEF DriveSound, PlacesSound
  <2>4. OnePlace(d)'
    BY <1>1, <1>3, <1>5 DEF DriveSound, OnePlace, Once, In, InHand
  <2>. QED BY <2>1, <2>3, <2>4 DEF DriveSound
<1>11. ASSUME NEW e \in Drive \ {d} PROVE DriveSound(e)'
  <2>1. \A x : Waits(e, x) => x.c # c /\ x.c \in Client
    BY <1>2, RequestFacts DEF Waits
  <2>2. \A x : Waits(e, x) => /\ cl'[x.c] = cl[x.c] /\ permit'[x.c] = permit[x.c]
                              /\ Got(x.c) => Got(x.c)'
    BY <2>1, <1>3, <1>6, <1>8
  <2>. QED BY <2>2, <1>3, <1>5, DriveFrame DEF IInv
<1>12. ASSUME NEW e \in Client PROVE ClientSound(e)'
  <2>0. /\ ClientSound(e) /\ next_id \in Nat /\ setup.drive[e] \in Drive
        /\ cl[e].pc # "idle" => cl[e].req.id \in Nat
    BY ClientTyped DEF IInv, Typed
  <2>1. AnswersOf(e)' = AnswersOf(e)
    BY <1>3 DEF AnswersOf
  <2>2. HasAnswer(e)' = HasAnswer(e)
    BY <2>0, <1>1, <1>2, <1>3, <1>5, <1>6 DEF HasAnswer
  <2>3. CASE e # c
    BY <2>0, <2>1, <2>2, <2>3, <1>3, <1>6, ClientFrame
  <2>4. CASE e = c
    <3>1. RequestSound(e)'
      BY <2>0, <2>4, <1>2, <1>3, <1>6, <1>8 DEF ClientSound, RequestSound, OutOfBound
    <3>2. AnswersSound(e)'
      <4>1. Final(cl[e].req)' = Final(cl[e].req)
        BY <1>3 DEF Final, OutcomeOf, OutOfBound
      <4>. QED BY <4>1, <2>0, <2>1, <2>2 DEF ClientSound, AnswersSound
    <3>3. BufferSound(e)'
      BY <2>0, <1>3 DEF ClientSound, BufferSound, ReadAnswered, SyncAnswered,
                        OutcomeOf, OutOfBound
    <3>. QED BY <3>1, <3>2, <3>3 DEF ClientSound
  <2>. QED BY <2>3, <2>4
<1>13. Typed'
  BY <1>3, <1>5, <1>6 DEF IInv, Typed
<1>14. BusSound' /\ IdsDiffer'
  BY <1>1, <1>3, <1>5 DEF IInv, BusSound, InHandler, IdsDiffer
<1>. QED BY <1>10, <1>11, <1>12, <1>13, <1>14 DEF IInv

-----------------------------------------------------------------------------
(* The steps of the handler and of the HBA                                 *)

\* A step that leaves the drives and clients as they are.
LEMMA HandlerStep ==
    ASSUME IInv, Typed', BusSound',
           UNCHANGED <<setup, cl, buf, permit, answers, next_id, request_queue,
                       submitted_queue, completed_queue, wk, port>>
    PROVE  IInv'
<1>1. IdsDiffer' /\ \A c \in Client : ClientSound(c)'
  BY ClientsStay
<1>2. ASSUME NEW e \in Drive PROVE DriveSound(e)'
  <2>1. DriveSound(e) /\ \A r : Got(r.c) => Got(r.c)'
    BY SameClients DEF IInv
  <2>. QED BY <2>1, DriveFrame
<1>. QED BY <1>1, <1>2 DEF IInv

LEMMA IrqEnterIInv == ASSUME IInv, IrqEnter PROVE IInv'
<1>1. /\ UNCHANGED <<setup, cl, buf, permit, answers, next_id, request_queue,
                     submitted_queue, completed_queue, wk, port, his>>
      /\ edge' = FALSE /\ bus = None
      /\ \/ bus' = None /\ irq' = irq
         \/ bus' = isr /\ irq' = [Irq0 EXCEPT !.drv = 1]
  BY DEF IrqEnter, queues, sync_io
<1>2. [Irq0 EXCEPT !.drv = 1] \in IrqType /\ [Irq0 EXCEPT !.drv = 1].pc = "look"
  BY DEF Irq0, IrqType
<1>3. Typed'
  BY <1>1, <1>2 DEF IInv, Typed
<1>4. \A e \in Drive : wk[e].pc \notin {"issue", "irq"}
  BY <1>1, DataFacts DEF IInv, BusSound
<1>5. BusSound'
  BY <1>1, <1>2, <1>4 DEF IInv, BusSound, InHandler
<1>. QED BY <1>1, <1>3, <1>5, HandlerStep

LEMMA LookIInv == ASSUME IInv, Look PROVE IInv'
<1>1. /\ UNCHANGED <<setup, cl, buf, permit, answers, next_id, request_queue,
                     submitted_queue, completed_queue, wk, port, his, edge, bus>>
      /\ irq.drv \in Drive /\ InHandler /\ irq.pc = "look" /\ irq \in IrqType
      /\ port[irq.drv].ci \in BOOLEAN /\ irq.drv + 1 \in Nat /\ irq.drv + 1 > 0
  BY DEF Look, queues, sync_io, hardware, IInv, Typed, IrqType, PortType, Drive
<1>2. CASE HasEvent(irq.drv)
  <2> DEFINE i == [[irq EXCEPT !.ci = port[irq.drv].ci] EXCEPT !.pc = "drain"]
  <2>1. irq' = i
    BY <1>2 DEF Look
  <2>2. i \in IrqType /\ i.drv = irq.drv /\ i.ci = port[irq.drv].ci /\ i.pc = "drain"
    BY <1>1 DEF IrqType
  <2>. HIDE DEF i
  <2>3. Typed'
    BY <2>1, <2>2, <1>1 DEF IInv, Typed
  <2>4. BusSound'
    BY <2>1, <2>2, <1>1 DEF IInv, BusSound, InHandler
  <2>. QED BY <2>3, <2>4, <1>1, HandlerStep
<1>3. CASE ~HasEvent(irq.drv)
  <2> DEFINE i == [irq EXCEPT !.drv = irq.drv + 1]
  <2>1. irq' = i
    BY <1>3 DEF Look
  <2>2. i \in IrqType /\ i.drv = irq.drv + 1 /\ i.pc = "look"
    BY <1>1 DEF IrqType
  <2>. HIDE DEF i
  <2>3. Typed'
    BY <2>1, <2>2, <1>1 DEF IInv, Typed
  <2>4. BusSound'
    BY <2>1, <2>2, <1>1 DEF IInv, BusSound, InHandler
  <2>. QED BY <2>3, <2>4, <1>1, HandlerStep
<1>. QED BY <1>2, <1>3

\* The submitted requests of a port whose CI bit was clear are answered.
LEMMA DrainIInv == ASSUME IInv, Drain PROVE IInv'
<1>1. irq.drv \in Drive /\ InHandler /\ irq.pc = "drain" /\ irq.drv \in Nat
      /\ irq.drv + 1 \in Nat /\ irq.drv + 1 > 0
      /\ (port[irq.drv].ci => irq.ci)
  BY DEF Drain, IInv, BusSound, Drive
<1>. SUFFICES ASSUME NEW d \in Drive, d = irq.drv,
                     NEW q \in Seq(Request), q = completed_queue[d],
                     NEW s \in Seq(Request), s = submitted_queue[d]
              PROVE  IInv'
  BY <1>1, DriveTyped
<1> DEFINE ok == [i \in DOMAIN s |-> [s[i] EXCEPT !.res = "Ok"]]
           a == IF irq.ci THEN q ELSE q \o ok
<1>2. /\ submitted_queue' = [submitted_queue EXCEPT ![d] = <<>>]
      /\ completed_queue' = [completed_queue EXCEPT ![d] = a]
      /\ port' = [port EXCEPT ![d].is = FALSE]
      /\ irq' = [Irq0 EXCEPT !.drv = d + 1]
      /\ UNCHANGED <<setup, cl, buf, permit, answers, next_id, request_queue, wk,
                     bus, his, edge>>
  BY DEF Drain, sync_io
<1>3. /\ DriveSound(d) /\ Len(q) \in Nat /\ wk[d].n \in Nat
      /\ \A c : ~(In(q, c) /\ In(s, c)) \/ c \notin Client
      /\ \A i \in DOMAIN s : s[i] \in Request /\ s[i].c \in Client
  BY DriveTyped, RequestFacts, ElementOfSeq, LenProperties DEF DriveSound, OnePlace
<1>4. \A c : ~(In(q, c) /\ In(s, c))
  BY <1>3 DEF In
<1>5. /\ a \in Seq(Request) /\ Len(a) >= Len(q)
      /\ \A i \in DOMAIN a : Replied(d, a[i])
      /\ \A c : In(a, c) => In(q, c) \/ (~port[d].ci /\ In(s, c))
      /\ Once(a)
  <2>1. /\ \A i \in DOMAIN q : Replied(d, q[i])
        /\ Once(q) /\ Once(s)
    BY <1>3 DEF DriveSound, PlacesSound, OnePlace
  <2>2. CASE irq.ci
    BY <2>1, <2>2, <1>3
  <2>3. CASE ~irq.ci
    <3>1. ~port[d].ci
      BY <2>3, <1>1
    <3>2. ASSUME NEW j \in DOMAIN s
          PROVE  Replied(d, [s[j] EXCEPT !.res = "Ok"])
      <4>1. Asked(d, s[j]) /\ OutcomeOf(s[j].io) = "Ok" /\ Got(s[j].c)
        BY <3>1, <1>3 DEF DriveSound, PlacesSound
      <4>2. /\ [s[j] EXCEPT !.res = "Ok"] = Final(s[j])
            /\ Final(s[j]) \in Request /\ Final(s[j]).c = s[j].c
        BY <4>1, <1>3, RequestFacts
      <4>3. Replied(d, Final(s[j]))
        BY <4>1, <4>2 DEF Asked, Replied, Waits
      <4>. QED BY <4>2, <4>3
    <3> DEFINE z == q \o Oks(s)
    <3>3. Joined(q, s, z)
      BY OksFacts
    <3>4. a = z
      BY <2>3 DEF Oks
    <3>. HIDE DEF a, z
    <3>5. \A i \in DOMAIN z : Replied(d, z[i])
      BY <2>1, <3>2, <3>3 DEF Joined
    <3>6. Once(z)
      BY <2>1, <3>3, <1>4 DEF Joined
    <3>. QED BY <3>1, <3>3, <3>4, <3>5, <3>6 DEF Joined
  <2>. QED BY <2>2, <2>3
<1>. HIDE DEF a, ok
<1>6. /\ completed_queue' \in [Drive -> Seq(Request)] /\ completed_queue'[d] = a
      /\ submitted_queue' \in [Drive -> Seq(Request)] /\ submitted_queue'[d] = <<>>
      /\ port' \in [Drive -> PortType]
      /\ port'[d].ci = port[d].ci /\ port'[d].cmd = port[d].cmd
      /\ \A e \in Drive \ {d} : /\ completed_queue'[e] = completed_queue[e]
                                /\ submitted_queue'[e] = submitted_queue[e]
                                /\ port'[e] = port[e]
  <2>1. /\ completed_queue' \in [Drive -> Seq(Request)] /\ completed_queue'[d] = a
        /\ \A e \in Drive \ {d} : completed_queue'[e] = completed_queue[e]
    BY <1>2, <1>5, DriveTyped
  <2>2. <<>> \in Seq(Request)
    BY EmptySeq
  <2>3. /\ submitted_queue' \in [Drive -> Seq(Request)] /\ submitted_queue'[d] = <<>>
        /\ \A e \in Drive \ {d} : submitted_queue'[e] = submitted_queue[e]
    BY <2>2, <1>2, DriveTyped
  <2>4. /\ port' \in [Drive -> PortType]
        /\ port'[d].ci = port[d].ci /\ port'[d].cmd = port[d].cmd
        /\ \A e \in Drive \ {d} : port'[e] = port[e]
    <3> DEFINE p == [port[d] EXCEPT !.is = FALSE]
    <3>1. p \in PortType /\ p.ci = port[d].ci /\ p.cmd = port[d].cmd
      BY DriveTyped DEF PortType
    <3>2. port' = [port EXCEPT ![d] = p]
      BY <1>2
    <3>. HIDE DEF p
    <3>. QED BY <3>1, <3>2, DriveTyped
  <2>. QED BY <2>1, <2>3, <2>4
<1>7. irq' \in IrqType /\ irq'.drv = d + 1 /\ irq'.pc = "look"
  BY <1>1, <1>2 DEF Irq0, IrqType
<1>8. WorkerSound(d)'
  BY <1>2, <1>3, <1>5, <1>6, DriveTyped DEF DriveSound, WorkerSound
<1>9. PlacesSound(d)'
  BY <1>2, <1>3, <1>5, <1>6, SameClients, EmptySeq DEF DriveSound, PlacesSound
<1>10. OnePlace(d)'
  <2>1. /\ \A c : In(completed_queue[d], c)' <=> In(a, c)
        /\ Once(completed_queue[d])' <=> Once(a)
    BY <1>6 DEF In, Once
  <2>2. /\ \A c : ~In(submitted_queue[d], c)'
        /\ Once(submitted_queue[d])'
    BY <1>6 DEF In, Once
  <2>3. /\ \A c : In(request_queue[d], c)' <=> In(request_queue[d], c)
        /\ Once(request_queue[d])' <=> Once(request_queue[d])
        /\ \A c : InHand(d, c)' <=> InHand(d, c)
    BY <1>2 DEF In, Once, InHand
  <2>4. \A c \in Client : In(a, c) => /\ ~In(request_queue[d], c) /\ ~InHand(d, c)
                                      /\ ~(port[d].ci /\ port[d].cmd.c = c)
    BY <1>3, <1>5 DEF DriveSound, OnePlace
  <2>. QED BY <2>1, <2>2, <2>3, <2>4, <1>3, <1>5, <1>6 DEF DriveSound, OnePlace
<1>11. DriveSound(d)'
  BY <1>8, <1>9, <1>10 DEF DriveSound
<1>12. Typed'
  BY <1>2, <1>6, <1>7 DEF IInv, Typed
<1>13. BusSound'
  BY <1>1, <1>2, <1>7 DEF IInv, BusSound, InHandler
<1>. QED BY <1>2, <1>6, <1>11, <1>12, <1>13, DriveStep

LEMMA IrqEndIInv == ASSUME IInv, IrqEnd PROVE IInv'
<1>1. /\ UNCHANGED <<setup, cl, buf, permit, answers, next_id, request_queue,
                     submitted_queue, completed_queue, port>>
      /\ bus' = None /\ irq' = Irq0 /\ his' \in SUBSET Drive
      /\ edge' \in BOOLEAN
      /\ wk' = IF bus = isr THEN wk ELSE [wk EXCEPT ![bus].pc = "ccount"]
      /\ bus = isr \/ (bus \in Drive /\ wk[bus].pc = "irq")
  <2>1. edge' \in BOOLEAN
    BY DEF IrqEnd, ClearEvents, IInv, Typed
  <2>. QED BY <2>1 DEF IrqEnd, ClearEvents, queues, sync_io, IInv, BusSound
<1>2. Irq0 \in IrqType /\ Irq0.drv = 0 /\ Irq0.pc = "look"
  BY DEF Irq0, IrqType
<1>3. CASE bus = isr
  <2>1. wk' = wk /\ \A e \in Drive : wk[e].pc \notin {"issue", "irq"}
    BY <1>1, <1>3, DataFacts DEF IInv, BusSound
  <2>2. Typed'
    BY <2>1, <1>1, <1>2 DEF IInv, Typed
  <2>3. BusSound'
    BY <2>1, <1>1, <1>2 DEF BusSound, InHandler
  <2>. QED BY <2>1, <2>2, <2>3, <1>1, HandlerStep
<1>4. CASE bus # isr
  <2>. SUFFICES ASSUME NEW d \in Drive, d = bus PROVE IInv'
    BY <1>1, <1>4
  <2>1. /\ wk' \in [Drive -> WorkerType] /\ wk'[d].pc = "ccount"
        /\ wk'[d].hand = wk[d].hand
        /\ \A e \in Drive \ {d} : wk'[e] = wk[e]
        /\ wk[d].pc = "irq"
    BY <1>1, <1>4, DriveTyped DEF WorkerType
  <2>2. Typed'
    BY <2>1, <1>1, <1>2 DEF IInv, Typed
  <2>3. BusSound'
    <3>1. \A e \in Drive : wk'[e].pc \notin {"issue", "irq"}
      BY <2>1, <1>1 DEF IInv, BusSound
    <3>. QED BY <3>1, <1>1, <1>2 DEF BusSound, InHandler
  <2>4. DriveSound(d)'
    BY <2>1, <1>1, WorkerMoves
  <2>. QED BY <2>1, <2>2, <2>3, <2>4, <1>1, DriveStep
<1>. QED BY <1>3, <1>4

\* The HBA completes the command in slot 0: its data is in the buffer.
LEMMA CompleteIInv ==
    ASSUME IInv, NEW d \in Drive, Complete(d) PROVE IInv'
<1>. SUFFICES ASSUME NEW r, r = port[d].cmd, NEW c, r.c = c PROVE IInv'
  OBVIOUS
<1>1. /\ port[d].ci /\ DriveSound(d) /\ Asked(d, r) /\ r \in Request
      /\ c \in Client /\ setup.drive[c] = d /\ cl[c].pc = "block" /\ permit[c] = 0
      /\ r.io.lba \in Nat /\ r.track \in BOOLEAN
  BY DriveTyped, RequestFacts
     DEF Complete, DriveSound, PlacesSound, Asked, Waits, Io
<1>1a. cl[c].req = r
  BY <1>1 DEF Asked
<1> DEFINE p == [ci |-> FALSE, is |-> TRUE, cmd |-> None]
<1>2. /\ port' = [port EXCEPT ![d] = p]
      /\ buf' = IF r.track THEN buf ELSE [buf EXCEPT ![c] = r.io.lba]
      /\ his' = his \cup {d} /\ edge' = (edge \/ his = {})
      /\ UNCHANGED <<setup, cl, permit, answers, next_id, request_queue,
                     submitted_queue, completed_queue, wk, bus, irq>>
  BY DEF Complete, queues, sync_io
<1>3. p \in PortType /\ ~p.ci
  BY DEF PortType
<1>. HIDE DEF p
<1>4. /\ port' \in [Drive -> PortType] /\ ~port'[d].ci
      /\ \A e \in Drive \ {d} : port'[e] = port[e]
  BY <1>2, <1>3, DriveTyped
<1>5. /\ buf' \in [Client -> Nat \cup {None}] /\ Got(c)'
      /\ \A e \in Client \ {c} : buf'[e] = buf[e]
      /\ r.track => buf'[c] = buf[c]
  <2>1. buf \in [Client -> Nat \cup {None}]
    BY DEF IInv, Typed
  <2>2. CASE r.track
    BY <2>1, <2>2, <1>1a, <1>2 DEF Got
  <2>3. CASE ~r.track
    <3>1. buf'[c] = r.io.lba
      BY <2>1, <2>3, <1>1, <1>2
    <3>2. Got(c)'
      BY <3>1, <1>1a, <1>2 DEF Got
    <3>. QED BY <2>1, <2>3, <3>2, <1>1, <1>2
  <2>. QED BY <2>2, <2>3
<1>6. /\ \A e \in Client : Got(e) => Got(e)'
      /\ \A io : OutcomeOf(io)' = OutcomeOf(io)
  <2>1. ASSUME NEW e \in Client \ {c} PROVE Got(e) => Got(e)'
    BY <1>2, <1>5 DEF Got
  <2>. QED BY <2>1, <1>2, <1>5 DEF OutcomeOf, OutOfBound
<1>7. /\ \A e, x : Waits(e, x) => Waits(e, x)' /\ x.c \in Client
      /\ \A x : Final(cl[x].req)' = Final(cl[x].req)
  BY <1>2, <1>6, RequestFacts DEF Waits, Final
<1>8. /\ \A e, x : Asked(e, x) => Asked(e, x)' /\ (Got(x.c) => Got(x.c)')
      /\ \A e, x : Replied(e, x) => Replied(e, x)'
  <2>1. ASSUME NEW e, NEW x, Asked(e, x)
        PROVE  Asked(e, x)' /\ (Got(x.c) => Got(x.c)')
    BY <2>1, <1>2, <1>6, <1>7 DEF Asked
  <2>2. ASSUME NEW e, NEW x, Replied(e, x) PROVE Replied(e, x)'
    BY <2>2, <1>6, <1>7 DEF Replied
  <2>. QED BY <2>1, <2>2
<1>9. DriveSound(d)'
  <2>1. WorkerSound(d)'
    BY <1>1, <1>2 DEF DriveSound, WorkerSound
  <2>2. \A i \in DOMAIN submitted_queue[d] : Got(submitted_queue[d][i].c)'
    <3>. SUFFICES ASSUME NEW i \in DOMAIN submitted_queue[d], NEW x,
                         x = submitted_queue[d][i]
                  PROVE  Got(x.c)'
      BY <1>2
    <3>1. Asked(d, x) /\ (Got(x.c) \/ r = x)
      BY <1>1 DEF DriveSound, PlacesSound
    <3>. QED BY <3>1, <1>5, <1>8
  <2>3. PlacesSound(d)'
    BY <2>2, <1>1, <1>2, <1>4, <1>6, <1>8 DEF DriveSound, PlacesSound
  <2>4. OnePlace(d)'
    BY <1>1, <1>2, <1>4 DEF DriveSound, OnePlace, Once, In, InHand
  <2>. QED BY <2>1, <2>3, <2>4 DEF DriveSound
<1>10. ASSUME NEW e \in Drive \ {d} PROVE DriveSound(e)'
  <2>1. \A x : Waits(e, x) => (Got(x.c) => Got(x.c)')
    BY <1>6, RequestFacts DEF Waits
  <2>. QED BY <2>1, <1>2, <1>4, DriveFrame DEF IInv
<1>11. ASSUME NEW e \in Client PROVE ClientSound(e)'
  <2>0. /\ ClientSound(e) /\ next_id \in Nat /\ setup.drive[e] \in Drive
        /\ cl[e].pc # "idle" => cl[e].req.id \in Nat
    BY ClientTyped DEF IInv, Typed
  <2>1. AnswersOf(e)' = AnswersOf(e) /\ HasAnswer(e)' = HasAnswer(e)
    BY <1>2 DEF AnswersOf, HasAnswer
  <2>2. CASE e # c \/ r.track
    <3>1. buf'[e] = buf[e]
      BY <2>2, <1>5
    <3>. QED BY <2>0, <2>1, <3>1, <1>2, ClientFrame
  <2>3. CASE e = c /\ ~r.track
    <3>1. RequestSound(e)'
      BY <2>0, <2>3, <1>2, <1>5 DEF ClientSound, RequestSound, OutOfBound
    <3>2. AnswersSound(e)'
      BY <2>0, <2>1, <1>7 DEF ClientSound, AnswersSound
    <3>3. cl[e].out = None /\ ~(cl[e].pc = "idle" \/ cl[e].req.track)
      BY <2>0, <2>3, <1>1, <1>1a DEF ClientSound, RequestSound
    <3>4. BufferSound(e)'
      BY <2>0, <3>3, <1>2 DEF ClientSound, BufferSound, IsRead, IsSync
    <3>. QED BY <3>1, <3>2, <3>4 DEF ClientSound
  <2>. QED BY <2>2, <2>3
<1>12. Typed'
  BY <1>2, <1>4, <1>5 DEF IInv, Typed
<1>13. BusSound' /\ IdsDiffer'
  BY <1>2, <1>4 DEF IInv, BusSound, InHandler, IdsDiffer
<1>. QED BY <1>9, <1>10, <1>11, <1>12, <1>13 DEF IInv

\* A step of nothing.
LEMMA StutterIInv == ASSUME IInv, UNCHANGED vars PROVE IInv'
<1>1. /\ UNCHANGED <<setup, cl, buf, permit, answers, next_id, request_queue,
                     submitted_queue, completed_queue, wk, port, bus, irq, his, edge>>
  BY DEF vars
<1>2. Typed' /\ BusSound'
  BY <1>1 DEF IInv, Typed, BusSound, InHandler
<1>. QED BY <1>1, <1>2, HandlerStep

LEMMA NextIInv == ASSUME IInv, [Next]_vars PROVE IInv'
<1>1. ASSUME NEW c \in Client, Call(c) PROVE IInv'
  <2>1. ASSUME NEW a \in ReadAddrs, NEW n \in ReadSizes, ReadHit(c, a, n) PROVE IInv'
    BY <2>1, ReadHitIInv
  <2>2. ASSUME NEW a \in ReadAddrs, NEW n \in ReadSizes, ReadMiss(c, a, n) PROVE IInv'
    BY <2>2, ReadMissIInv
  <2>3. ASSUME NEW io \in SyncIos, SubmitSync(c, io) PROVE IInv'
    BY <2>3, SubmitSyncIInv
  <2>. QED BY <1>1, <2>1, <2>2, <2>3, Zenon DEF Call
<1>2. ASSUME NEW c \in Client, Proceed(c) PROVE IInv'
  BY <1>2, PushIInv, GoOnIInv, CollectIInv DEF Proceed
<1>3. ASSUME NEW d \in Drive, Worker(d) PROVE IInv'
  BY <1>3, CountIInv, SubmitIInv, IssueIInv, TakeCompletionIInv, CallbackIInv, WakeIInv
     DEF Worker
<1>4. ASSUME NEW d \in Drive, Complete(d) PROVE IInv'
  BY <1>4, CompleteIInv
<1>5. CASE Handler
  BY <1>5, IrqEnterIInv, LookIInv, DrainIInv, IrqEndIInv DEF Handler
<1>6. CASE UNCHANGED vars
  BY <1>6, StutterIInv
<1>. QED BY <1>1, <1>2, <1>3, <1>4, <1>5, <1>6, Zenon DEF Next

\* The invariant holds in every state that is reached.
THEOREM Invariance == Spec => []IInv
<1>. QED BY InitIInv, NextIInv, PTL DEF Spec

-----------------------------------------------------------------------------
(* What follows from the invariant                                         *)

\* What read returns lies in the client's buffer, which holds the disk's data
\* at the address asked for: the worker wakes nobody before the HBA is done,
\* and fetch_from's window covers the address.
THEOREM ReadsAreTrue == Spec => []ReadsTrue
<1>1. IInv => ReadsTrue
  <2>. SUFFICES ASSUME IInv, NEW c \in Client, cl[c].pc = "idle", cl[c].out # None,
                       DOMAIN cl[c].out = {"ok", "off"},
                       cl[c].first_lba + cl[c].sec_count <= SectorCount
                PROVE  /\ cl[c].out.off >= 0
                       /\ cl[c].out.off + cl[c].bytes <= CACHE_SIZE
                       /\ buf[c] # None
                       /\ buf[c] * SectorSize + cl[c].out.off = cl[c].addr
    BY Zenon DEF ReadsTrue
  <2>1. /\ cl[c] \in ClientType /\ ClientSound(c) /\ SectorSize \in Nat
        /\ CACHE_SIZE \in Nat /\ None \notin Nat
    BY ClientTyped, DataFacts DEF IInv
  <2>2. IsRead(cl[c].out) /\ cl[c].out.off \in Int
    <3>1. /\ cl[c].out \in {[ok |-> FALSE]} \cup ReadOut \cup SyncOut
      BY <2>1 DEF ClientType
    <3>2. /\ "off" \notin DOMAIN [ok |-> FALSE]
          /\ \A o \in SyncOut : "off" \notin DOMAIN o
      BY DEF SyncOut
    <3>3. cl[c].out \in ReadOut
      BY <3>1, <3>2
    <3>. QED BY <3>3, OutFacts DEF IsRead
  <2>3. /\ cl[c].out.off = cl[c].addr - cl[c].first_lba * SectorSize
        /\ cl[c].out.off >= 0
        /\ cl[c].bytes <= cl[c].sec_count * SectorSize - cl[c].out.off
        /\ cl[c].sec_count \in {0, Window} /\ buf[c] = cl[c].first_lba
    BY <2>1, <2>2 DEF ClientSound, BufferSound, ReadAnswered
  <2>4. /\ cl[c].first_lba \in Nat /\ cl[c].bytes \in Nat /\ cl[c].addr \in Nat
        /\ cl[c].first_lba * SectorSize \in Nat
    BY <2>1 DEF ClientType
  <2>5. cl[c].sec_count * SectorSize <= CACHE_SIZE
        /\ cl[c].sec_count * SectorSize \in Nat
    BY <2>1, <2>3, WindowFacts
  <2>. QED BY <2>1, <2>2, <2>3, <2>4, <2>5
<1>. QED BY <1>1, Invariance, PTL

\* Whoever calls submit_sync_io gets the completion of its own request, with
\* the outcome the request deserves, whatever other tasks submit meanwhile;
\* and an answer that is in REQID_IOREQ_MAP has somebody to collect it.
THEOREM AnswersAreOwn == Spec => []AnswerIsOwn
<1>1. IInv => AnswerIsOwn
  <2>. SUFFICES ASSUME IInv PROVE AnswerIsOwn
    OBVIOUS
  <2>1. ASSUME NEW c \in Client, cl[c].out # None, DOMAIN cl[c].out = {"io", "got"}
        PROVE  SyncAnswered(c, cl[c].out)
    <3>1. cl[c].out \in {[ok |-> FALSE]} \cup ReadOut \cup SyncOut
      BY <2>1, ClientTyped DEF ClientType
    <3>2. /\ "io" \notin DOMAIN [ok |-> FALSE]
          /\ \A o \in ReadOut : "io" \notin DOMAIN o
      BY DEF ReadOut
    <3>3. cl[c].out \in SyncOut
      BY <2>1, <3>1, <3>2
    <3>. QED BY <2>1, <3>3 DEF IInv, ClientSound, BufferSound, IsSync
  <2>2. ASSUME NEW r \in answers
        PROVE  cl[r.c].req # None /\ cl[r.c].req.id = r.id
    BY AnswerFacts, DataFacts
  <2>. QED BY <2>1, <2>2, Zenon DEF AnswerIsOwn, SyncAnswered
<1>. QED BY <1>1, Invariance, PTL

-----------------------------------------------------------------------------
(* The service                                                             *)

\* Who waits for the drive, and who is woken but has not gone on.
Waiting == {c \in Client : cl[c].pc = "block" /\ permit[c] = 0}
Woken   == {c \in Client : permit[c] > 0}

\* A step of client c that neither begins nor ends a wait.
LEMMA ServiceStays ==
    ASSUME IInv, UNCHANGED permit,
           \A c \in Client : cl'[c].pc = "block" <=> cl[c].pc = "block"
    PROVE  UNCHANGED <<Waiting, Woken>>
  BY DEF Waiting, Woken

LEMMA ClientsServed ==
    ASSUME IInv, NEW c \in Client, Call(c) \/ Proceed(c)
    PROVE  [\E e \in Client : Service!Ask(e) \/ Service!Answer(e) \/ Service!GoOn(e)]_
           <<Waiting, Woken>>
<1>0. /\ cl \in [Client -> ClientType] /\ permit \in [Client -> {0, 1}]
  BY DEF IInv, Typed
<1>1. CASE Call(c) \/ Collect(c)
  <2>1. /\ cl[c].pc \in {"idle", "collect"} /\ UNCHANGED permit
        /\ \A e \in Client \ {c} : cl'[e] = cl[e]
    BY <1>1, <1>0 DEF Call, ReadHit, ReadMiss, SubmitSync, Collect, Idle
  <2>2. cl'[c].pc # "block"
    <3>1. ASSUME NEW a \in ReadAddrs, NEW n \in ReadSizes, ReadHit(c, a, n)
          PROVE  cl'[c].pc # "block"
      BY <3>1, <1>0 DEF ReadHit, Done, ClientType
    <3>2. ASSUME NEW a \in ReadAddrs, NEW n \in ReadSizes, ReadMiss(c, a, n)
          PROVE  cl'[c].pc # "block"
      BY <3>2, <1>0 DEF ReadMiss, Done, ClientType
    <3>3. ASSUME NEW io \in SyncIos, SubmitSync(c, io)
          PROVE  cl'[c].pc # "block"
      BY <3>3, <1>0 DEF SubmitSync, ClientType
    <3>4. CASE Collect(c)
      BY <3>4, <1>0 DEF Collect, Done, ClientType
    <3>. QED BY <1>1, <3>1, <3>2, <3>3, <3>4, Zenon DEF Call
  <2>3. \A e \in Client : cl'[e].pc = "block" <=> cl[e].pc = "block"
    BY <2>1, <2>2
  <2>. QED BY <2>1, <2>3, ServiceStays
<1>2. CASE Push(c)
  <2>1. /\ cl[c].pc = "push" /\ permit[c] = 0 /\ UNCHANGED permit
        /\ cl'[c].pc = "block" /\ \A e \in Client \ {c} : cl'[e] = cl[e]
    <3>1. cl[c].pc = "push" /\ RequestSound(c)
      BY <1>2 DEF Push, IInv, ClientSound
    <3>2. permit[c] = 0
      BY <3>1, ClientTyped DEF RequestSound
    <3>. QED BY <3>1, <3>2, <1>0, <1>2 DEF Push, ClientType
  <2>2. /\ c \notin Waiting \cup Woken
        /\ Waiting' = Waiting \cup {c} /\ Woken' = Woken
    BY <2>1 DEF Waiting, Woken
  <2>3. Service!Ask(c)
    BY <2>2, Zenon DEF Service!Ask, Waiting, Woken
  <2>. QED BY <2>3
<1>3. CASE GoOn(c)
  <2>1. /\ cl[c].pc = "block" /\ permit[c] = 1 /\ permit'[c] = 0
        /\ cl'[c].pc # "block"
        /\ \A e \in Client \ {c} : cl'[e] = cl[e] /\ permit'[e] = permit[e]
    BY <1>0, <1>3 DEF GoOn, Done, ClientType
  <2>2. /\ c \in Woken /\ Woken' = Woken \ {c} /\ Waiting' = Waiting
    BY <2>1 DEF Waiting, Woken
  <2>3. Service!GoOn(c)
    BY <2>2, Zenon DEF Service!GoOn, Waiting, Woken
  <2>. QED BY <2>3
<1>. QED BY <1>1, <1>2, <1>3 DEF Proceed

\* Seen from the tasks that wait the driver is a service that answers every
\* request at most once, and nobody goes on unanswered.
THEOREM Refinement == Spec => Service!Spec
<1>1. Init => Service!Init
  BY DEF Init, Client0, Service!Init
<1>2. IInv /\ [Next]_vars => [Service!Next]_<<Waiting, Woken>>
  <2>. SUFFICES ASSUME IInv, [Next]_vars PROVE [Service!Next]_<<Waiting, Woken>>
    OBVIOUS
  <2>1. ASSUME NEW c \in Client, Call(c) \/ Proceed(c)
        PROVE  [Service!Next]_<<Waiting, Woken>>
    BY <2>1, ClientsServed DEF Service!Next
  <2>2. ASSUME NEW d \in Drive, Wake(d) PROVE Service!Next
    <3>. SUFFICES ASSUME NEW c, c = wk[d].hand.c PROVE Service!Next
      OBVIOUS
    <3>1. Replied(d, wk[d].hand)
      BY <2>2, DriveTyped DEF Wake, DriveSound, PlacesSound
    <3>2. c \in Client /\ cl[c].pc = "block" /\ permit[c] = 0
      BY <3>1, RequestFacts DEF Replied, Waits
    <3>3. /\ cl' = cl /\ permit'[c] = 1
          /\ \A e \in Client \ {c} : permit'[e] = permit[e]
      BY <2>2, <3>2 DEF Wake, IInv, Typed
    <3>4. c \in Waiting /\ Waiting' = Waiting \ {c} /\ Woken' = Woken \cup {c}
      BY <3>2, <3>3 DEF Waiting, Woken
    <3>5. Service!Answer(c)
      BY <3>4, Zenon DEF Service!Answer, Waiting, Woken
    <3>. QED BY <3>2, <3>5 DEF Service!Next
  <2>3. CASE UNCHANGED <<cl, permit>>
    BY <2>3 DEF Waiting, Woken
  <2>4. ASSUME NEW d \in Drive, Worker(d), ~Wake(d) PROVE UNCHANGED <<cl, permit>>
    BY <2>4 DEF Worker, CountRequests, Submit, Issue, Poll, CountCompletions,
                TakeCompletion, Callback
  <2>5. ASSUME NEW d \in Drive, Complete(d) PROVE UNCHANGED <<cl, permit>>
    BY <2>5 DEF Complete
  <2>6. ASSUME Handler PROVE UNCHANGED <<cl, permit>>
    BY <2>6 DEF Handler, IrqEnter, Look, Drain, IrqEnd
  <2>7. ASSUME UNCHANGED vars PROVE UNCHANGED <<cl, permit>>
    BY <2>7 DEF vars
  <2>. QED BY <2>1, <2>2, <2>3, <2>4, <2>5, <2>6, <2>7, Zenon DEF Next
<1>. QED BY <1>1, <1>2, Invariance, PTL DEF Spec, Service!Spec, Waiting, Woken, Service!iovars

-----------------------------------------------------------------------------
(* Requests are nowhere twice                                              *)

SomewherePlaced(d, c) == In(request_queue[d], c) \/ In(submitted_queue[d], c)
                         \/ In(completed_queue[d], c) \/ InHand(d, c)

\* Counting the entries of a queue that are c's, when it holds at most one.
LEMMA CountOfOne ==
    ASSUME NEW q \in Seq(Request), NEW c, Once(q)
    PROVE  Cardinality({i \in DOMAIN q : q[i].c = c}) = IF In(q, c) THEN 1 ELSE 0
<1>1. CASE In(q, c)
  <2>1. PICK i \in DOMAIN q : q[i].c = c
    BY <1>1 DEF In
  <2>2. {j \in DOMAIN q : q[j].c = c} = {i}
    BY <2>1 DEF Once
  <2>. QED BY <1>1, <2>2, FS_Singleton
<1>2. CASE ~In(q, c)
  <2>1. {j \in DOMAIN q : q[j].c = c} = {}
    BY <1>2 DEF In
  <2>. QED BY <1>2, <2>1, FS_EmptySet
<1>. QED BY <1>1, <1>2

\* Who is in a place waits.
LEMMA PlacedWaits ==
    ASSUME IInv, NEW c \in Client, NEW d \in Drive, SomewherePlaced(d, c)
    PROVE  cl[c].pc = "block" /\ permit[c] = 0
<1>1. PlacesSound(d) /\ WorkerSound(d) /\ wk[d] \in WorkerType
  BY DriveTyped DEF DriveSound
<1>2. CASE In(request_queue[d], c)
  BY <1>1, <1>2 DEF In, PlacesSound, Asked, Waits
<1>3. CASE In(submitted_queue[d], c)
  BY <1>1, <1>3 DEF In, PlacesSound, Asked, Waits
<1>4. CASE In(completed_queue[d], c)
  BY <1>1, <1>4 DEF In, PlacesSound, Replied, Waits
<1>5. CASE InHand(d, c)
  <2>1. wk[d].pc \in {"issue", "cb", "wake"}
    BY <1>1, <1>5 DEF InHand, WorkerSound
  <2>. QED BY <1>1, <1>5, <2>1 DEF InHand, PlacesSound, Asked, Replied, Waits
<1>. QED BY <1>2, <1>3, <1>4, <1>5 DEF SomewherePlaced

LEMMA PlacesCounted ==
    ASSUME IInv, NEW c \in Client, NEW d \in Drive, setup.drive[c] = d
    PROVE  Places(c) = IF SomewherePlaced(d, c) THEN 1 ELSE 0
<1>1. OnePlace(d) /\ request_queue[d] \in Seq(Request)
      /\ submitted_queue[d] \in Seq(Request) /\ completed_queue[d] \in Seq(Request)
  BY DriveTyped DEF DriveSound
<1>. DEFINE Mine(q) == Cardinality({i \in DOMAIN q : q[i].c = c})
<1>2. Mine(request_queue[d]) = IF In(request_queue[d], c) THEN 1 ELSE 0
  BY <1>1, CountOfOne DEF OnePlace
<1>3. Mine(submitted_queue[d]) = IF In(submitted_queue[d], c) THEN 1 ELSE 0
  BY <1>1, CountOfOne DEF OnePlace
<1>4. Mine(completed_queue[d]) = IF In(completed_queue[d], c) THEN 1 ELSE 0
  BY <1>1, CountOfOne DEF OnePlace
<1>5. Places(c) = Mine(request_queue[d]) + Mine(submitted_queue[d])
                  + Mine(completed_queue[d]) + (IF InHand(d, c) THEN 1 ELSE 0)
  BY DEF Places, InHand
<1>. HIDE DEF Mine
<1>. QED BY <1>1, <1>2, <1>3, <1>4, <1>5 DEF OnePlace, SomewherePlaced

LEMMA OnceEach == ASSUME IInv PROVE RequestOnce
<1>. SUFFICES ASSUME NEW c \in Client PROVE Places(c) + permit[c] <= Blocked(c)
  BY DEF RequestOnce
<1>. DEFINE d == setup.drive[c]
<1>1. d \in Drive /\ permit[c] \in {0, 1} /\ (permit[c] = 1 => cl[c].pc = "block")
  BY ClientTyped DEF IInv, ClientSound, RequestSound
<1>2. Places(c) = IF SomewherePlaced(d, c) THEN 1 ELSE 0
  BY <1>1, PlacesCounted
<1>3. SomewherePlaced(d, c) => cl[c].pc = "block" /\ permit[c] = 0
  BY <1>1, PlacedWaits
<1>. HIDE DEF d
<1>. QED BY <1>1, <1>2, <1>3 DEF Blocked

\* However many tasks use a drive, a request is in one of its queues or in
\* its worker's hands once at most, and its task is woken once at most.
THEOREM NoneTwice == Spec => []RequestOnce
<1>1. IInv => RequestOnce
  BY OnceEach
<1>. QED BY <1>1, Invariance, PTL

=============================================================================
