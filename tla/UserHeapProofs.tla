--------------------------- MODULE UserHeapProofs ---------------------------
(***************************************************************************)
(* Proofs about the heap of a program, for every page, growth, largest     *)
(* heap, size and alignment: whatever is allocated, freed and released,    *)
(* the blocks tile the heap, no two free ones touch, and every object has  *)
(* a block of its own.  First the arithmetic, then each way the blocks     *)
(* change, then the steps.                                                 *)
(***************************************************************************)
EXTENDS UserHeap, FiniteSetTheorems, SequenceTheorems, WellFoundedInduction, TLAPS

Block   == [len : Nat, used : BOOLEAN]
Open(b) == {x \in DOMAIN b : ~b[x].used}

-----------------------------------------------------------------------------
(* The inductive invariant                                                 *)

\* The blocks b tile a heap of n units.
Tiled(n, b) ==
    /\ n \in Nat /\ DOMAIN b \subseteq Nat /\ IsFiniteSet(DOMAIN b)
    /\ b \in [DOMAIN b -> Block]
    /\ n > 0 => 0 \in DOMAIN b
    /\ \A x \in DOMAIN b :
        /\ b[x].len >= 2
        /\ x + b[x].len <= n
        /\ x + b[x].len \in DOMAIN b \cup {n}
        /\ \A c \in DOMAIN b : c <= x \/ c >= x + b[x].len

\* The list l has the free blocks, each once.
Listed(b, l) ==
    /\ l \in Seq(Nat)
    /\ \A i, j \in DOMAIN l : l[i] = l[j] => i = j
    /\ Elems(l) = Open(b)

\* No free block touches a free one to its right, but for y: a new block may
\* touch the one before it until it is used.
ApartBut(b, y) == \A x \in Open(b) : x + b[x].len \in Open(b) => x + b[x].len = y
Apart(b)       == \A x \in Open(b) : x + b[x].len \notin Open(b)

\* The used blocks are the objects u, one each, large enough.
Owned(b, u) ==
    /\ \A x \in u : /\ x.at \in Int /\ x.len \in Nat
                    /\ x.at - 1 \in DOMAIN b /\ b[x.at - 1].used
                    /\ x.at + x.len <= (x.at - 1) + b[x.at - 1].len
    /\ \A x, y \in u : x.at = y.at => x = y
    /\ \A c \in DOMAIN b : b[c].used => \E x \in u : x.at = c + 1

IsHeap(h) == h = [size |-> h.size, block |-> h.block, list |-> h.list]

IInv == /\ Tiled(size, block) /\ Listed(block, list) /\ Apart(block)
        /\ Owned(block, held)

-----------------------------------------------------------------------------
(* Arithmetic                                                              *)

LEMMA Numbers ==
    /\ Page \in Nat /\ Page > 0 /\ Grow \in Nat /\ Grow >= 2
    /\ Sizes \subseteq Nat /\ Aligns \subseteq Nat /\ 0 \notin Aligns
  BY UserHeapAssumption DEF UserHeapAssumption

\* Rounding up does not lose anything.
LEMMA AlignsUp ==
    ASSUME NEW x \in Nat, NEW a \in Nat, a > 0
    PROVE  AlignUp(x, a) \in Nat /\ AlignUp(x, a) >= x
<1>. DEFINE q == (x + a - 1) \div a
            r == (x + a - 1) % a
<1>1. q \in Int /\ r \in 0 .. (a - 1) /\ x + a - 1 = q * a + r
  OBVIOUS
<1>2. AlignUp(x, a) = q * a
  BY DEF AlignUp
<1>. HIDE DEF q, r
<1>. QED BY <1>1, <1>2

\* Rounding down takes no more than there is.
LEMMA WholePages ==
    ASSUME NEW x \in Nat
    PROVE  (x \div Page) * Page \in Nat /\ (x \div Page) * Page <= x
<1>. DEFINE q == x \div Page
            r == x % Page
<1>0. Page \in Nat /\ Page > 0
  BY Numbers
<1>1. q \in Nat /\ r \in 0 .. (Page - 1) /\ x = q * Page + r
  BY <1>0
<1>. HIDE DEF q, r
<1>2. q * Page \in Nat
  BY <1>0, <1>1
<1>3. q * Page <= x
  BY <1>1, <1>2
<1>. QED BY <1>2, <1>3 DEF q

\* A set of numbers that is not empty has a least one, and a bounded one a
\* greatest one.
LEMMA LeastOf ==
    ASSUME NEW S \in SUBSET Nat, S # {}
    PROVE  \E x \in S : \A y \in S : x <= y
<1>1. \E x \in S : \A y \in S : ~(<<y, x>> \in OpToRel(<, Nat))
  BY NatLessThanWellFounded, WFMin, Zenon
<1>2. ASSUME NEW x \in S, NEW y \in S, y < x
      PROVE  <<y, x>> \in OpToRel(<, Nat)
  BY <1>2 DEF OpToRel
<1>3. \E x \in S : \A y \in S : ~(y < x)
  BY <1>1, <1>2, Zenon
<1>. QED BY <1>3

LEMMA GreatestOf ==
    ASSUME NEW n \in Nat, NEW S \in SUBSET (0 .. n), S # {}
    PROVE  \E x \in S : \A y \in S : y <= x
<1>. DEFINE U == {k \in Nat : n - k \in S}
<1>0. \A x \in S : x \in Int /\ n - x \in Nat /\ n - (n - x) = x
  OBVIOUS
<1>1. U \in SUBSET Nat /\ U # {}
  <2>1. PICK x \in S : TRUE
    OBVIOUS
  <2>2. n - x \in U
    BY <1>0
  <2>. QED BY <2>2
<1>2. \A k \in U : n - k \in S
  OBVIOUS
<1>3. \A x \in S : n - x \in U
  BY <1>0
<1>. HIDE DEF U
<1>4. PICK u \in U : \A y \in U : u <= y
  BY <1>1, LeastOf
<1>5. ASSUME NEW y \in S PROVE y <= n - u
  <2>1. u <= n - y /\ u \in Int /\ y \in Int /\ n \in Int
    BY <1>0, <1>1, <1>3, <1>4
  <2>. QED BY <2>1
<1>. QED BY <1>2, <1>4, <1>5

-----------------------------------------------------------------------------
(* Sequences and what is kept of them                                      *)

\* How many numbers of a set are less ranks the numbers.
LEMMA RanksAreAll ==
    ASSUME NEW S \in SUBSET Nat, IsFiniteSet(S), NEW r,
           r = [f \in S |-> Cardinality({g \in S : g < f})]
    PROVE  /\ Cardinality(S) \in Nat
           /\ \A f, g \in S : r[f] = r[g] => f = g
           /\ \A f \in S : r[f] \in 0 .. (Cardinality(S) - 1)
           /\ \A i \in 0 .. (Cardinality(S) - 1) : \E f \in S : r[f] = i
<1>. DEFINE B(f) == {g \in S : g < f}
            n    == Cardinality(S)
            U    == 0 .. (n - 1)
<1>1. \A f : IsFiniteSet(B(f)) /\ Cardinality(B(f)) \in Nat
  BY FS_Subset, FS_CardinalityType
<1>2. ASSUME NEW f \in S, NEW g \in S, f < g
      PROVE  Cardinality(B(f)) < Cardinality(B(g))
  <2>1. f \notin B(f) /\ B(f) \cup {f} \subseteq B(g)
    <3>1. f \in Int /\ g \in Int /\ \A h \in S : h \in Int
      OBVIOUS
    <3>2. \A h \in S : h < f => h < g
      BY <1>2, <3>1
    <3>3. ~(f < f)
      BY <3>1
    <3>. QED BY <1>2, <3>2, <3>3, Zenon
  <2>. HIDE DEF B
  <2>2. Cardinality(B(f) \cup {f}) = Cardinality(B(f)) + 1
    BY <1>1, <2>1, FS_AddElement
  <2>3. Cardinality(B(f) \cup {f}) <= Cardinality(B(g))
    BY <1>1, <2>1, FS_Subset
  <2>. QED BY <1>1, <2>2, <2>3
<1>3. ASSUME NEW f \in S PROVE Cardinality(B(f)) < Cardinality(S)
  <2>1. B(f) \subseteq S \ {f}
    OBVIOUS
  <2>. HIDE DEF B
  <2>2. IsFiniteSet(S \ {f}) /\ Cardinality(S \ {f}) = Cardinality(S) - 1
    BY FS_RemoveElement
  <2>3. Cardinality(B(f)) <= Cardinality(S \ {f})
    BY <2>1, <2>2, FS_Subset
  <2>. QED BY <1>1, <2>2, <2>3, FS_CardinalityType
<1>4. r = [f \in S |-> Cardinality(B(f))]
  OBVIOUS
<1>. HIDE DEF B
<1>5. ASSUME NEW f \in S, NEW g \in S, r[f] = r[g] PROVE f = g
  <2>1. f \in Int /\ g \in Int
    OBVIOUS
  <2>2. CASE f < g
    BY <1>1, <1>2, <1>4, <1>5, <2>2
  <2>3. CASE g < f
    BY <1>1, <1>2, <1>4, <1>5, <2>3
  <2>. QED BY <2>1, <2>2, <2>3
<1>6. n \in Nat
  BY FS_CardinalityType
<1>7. r \in [S -> U]
  <2>1. ASSUME NEW f \in S PROVE Cardinality(B(f)) \in U
    <3>1. Cardinality(B(f)) \in Nat /\ Cardinality(B(f)) < n
      BY <1>1, <1>3
    <3>. HIDE DEF n
    <3>. QED BY <1>6, <3>1
  <2>. QED BY <1>4, <2>1, Zenon
<1>8. IsFiniteSet(U) /\ Cardinality(U) = n
  <2>. HIDE DEF n
  <2>1. 0 \in Int /\ n - 1 \in Int /\ (IF 0 > n - 1 THEN 0 ELSE n - 1 - 0 + 1) = n
    BY <1>6
  <2>2. /\ IsFiniteSet(U)
        /\ Cardinality(U) = IF 0 > n - 1 THEN 0 ELSE n - 1 - 0 + 1
    BY <2>1, FS_Interval, Zenon
  <2>. QED BY <2>1, <2>2
<1>. HIDE DEF n, U
<1>9. r \in Injection(S, U)
  BY <1>5, <1>7 DEF Injection, IsInjective
<1>10. r \in Surjection(S, U)
  BY <1>8, <1>9, FS_Injection DEF n
<1>. QED BY <1>5, <1>6, <1>7, <1>10 DEF Surjection, n, U

\* Nth counts a finite set of numbers without a gap.
LEMMA NthCounts ==
    ASSUME NEW S \in SUBSET Nat, IsFiniteSet(S)
    PROVE  /\ Cardinality(S) \in Nat
           /\ \A k \in 1 .. Cardinality(S) : Nth(S, k) \in S
           /\ \A k, l \in 1 .. Cardinality(S) : Nth(S, k) = Nth(S, l) => k = l
           /\ \A i \in S : \E k \in 1 .. Cardinality(S) : Nth(S, k) = i
<1>. DEFINE r == [f \in S |-> Cardinality({g \in S : g < f})]
            n == Cardinality(S)
<1>0. r = [f \in S |-> Cardinality({g \in S : g < f})]
  OBVIOUS
<1>2. ASSUME NEW k PROVE Nth(S, k) = CHOOSE f \in S : r[f] = k - 1
  <2>1. \A f \in S : r[f] = Cardinality({g \in S : g < f})
    BY <1>0
  <2>. HIDE DEF r
  <2>. QED BY <2>1 DEF Nth
<1>. HIDE DEF r
<1>1. /\ n \in Nat
      /\ \A f, g \in S : r[f] = r[g] => f = g
      /\ \A f \in S : r[f] \in 0 .. (n - 1)
      /\ \A i \in 0 .. (n - 1) : \E f \in S : r[f] = i
  BY <1>0, RanksAreAll
<1>. HIDE DEF n
<1>3. ASSUME NEW k \in 1 .. n PROVE Nth(S, k) \in S /\ r[Nth(S, k)] = k - 1
  <2>1. k - 1 \in 0 .. (n - 1)
    BY <1>1
  <2>2. \E f \in S : r[f] = k - 1
    BY <1>1, <2>1
  <2>. QED BY <1>2, <2>2
<1>4. ASSUME NEW i \in S PROVE \E k \in 1 .. n : Nth(S, k) = i
  <2>1. r[i] + 1 \in 1 .. n /\ (r[i] + 1) - 1 = r[i]
    BY <1>1
  <2>2. Nth(S, r[i] + 1) = i
    BY <1>1, <1>3, <2>1
  <2>. QED BY <2>1, <2>2
<1>5. ASSUME NEW k \in 1 .. n, NEW l \in 1 .. n, Nth(S, k) = Nth(S, l) PROVE k = l
  BY <1>1, <1>3, <1>5
<1>. QED BY <1>1, <1>3, <1>4, <1>5 DEF n

\* What Kept keeps: the elements at the indices, each once.
Keeps(w, s, I, e) ==
    /\ e \in [DOMAIN w -> I]
    /\ \A k \in DOMAIN w : w[k] = s[e[k]]
    /\ \A k, l \in DOMAIN w : e[k] = e[l] => k = l
    /\ \A i \in I : \E k \in DOMAIN w : e[k] = i

LEMMA KeptKeeps ==
    ASSUME NEW D, NEW s \in Seq(D), NEW I \in SUBSET DOMAIN s
    PROVE  /\ Kept(s, I) \in Seq(D)
           /\ \E e : Keeps(Kept(s, I), s, I, e)
<1>1. DOMAIN s = 1 .. Len(s) /\ Len(s) \in Nat
  OBVIOUS
<1>2. I \in SUBSET Nat /\ IsFiniteSet(I)
  <2>1. IsFiniteSet(1 .. Len(s))
    BY <1>1, FS_Interval
  <2>. QED BY <1>1, <2>1, FS_Subset
<1>. DEFINE n == Cardinality(I)
            e == [k \in 1 .. n |-> Nth(I, k)]
            w == Kept(s, I)
<1>3. /\ n \in Nat /\ e \in [1 .. n -> I]
      /\ \A k, l \in 1 .. n : e[k] = e[l] => k = l
      /\ \A i \in I : \E k \in 1 .. n : e[k] = i
  BY <1>2, NthCounts
<1>4. w = [k \in 1 .. n |-> s[e[k]]]
  BY DEF Kept
<1>. HIDE DEF n, e, w
<1>5. \A k \in 1 .. n : s[e[k]] \in D
  BY <1>1, <1>3
<1>6. w \in [1 .. n -> D] /\ DOMAIN w = 1 .. n
  BY <1>4, <1>5
<1>7. w \in Seq(D)
  BY <1>3, <1>6, SeqDef
<1>8. Keeps(w, s, I, e)
  BY <1>3, <1>4, <1>6 DEF Keeps
<1>. QED BY <1>7, <1>8 DEF w

LEMMA KeptElements ==
    ASSUME NEW w, NEW s, NEW I \in SUBSET DOMAIN s, NEW e, Keeps(w, s, I, e),
           \A j, k \in DOMAIN s : s[j] = s[k] => j = k
    PROVE  /\ \A j, k \in DOMAIN w : w[j] = w[k] => j = k
           /\ \A x : x \in Elems(w) <=> \E i \in I : x = s[i]
<1>1. /\ \A k \in DOMAIN w : e[k] \in I /\ w[k] = s[e[k]]
      /\ \A k, l \in DOMAIN w : e[k] = e[l] => k = l
      /\ \A i \in I : \E k \in DOMAIN w : e[k] = i
  BY DEF Keeps
<1>2. \A j, k \in DOMAIN w : w[j] = w[k] => j = k
  BY <1>1
<1>3. ASSUME NEW x \in Elems(w) PROVE \E i \in I : x = s[i]
  BY <1>1 DEF Elems
<1>4. ASSUME NEW i \in I PROVE s[i] \in Elems(w)
  BY <1>1 DEF Elems
<1>. QED BY <1>2, <1>3, <1>4

\* A sequence without its i-th element.
LEMMA CutOut ==
    ASSUME NEW l \in Seq(Nat), NEW i \in DOMAIN l
    PROVE  LET m == SubSeq(l, 1, i - 1) \o SubSeq(l, i + 1, Len(l)) IN
           m \in Seq(Nat) /\ \E e : Keeps(m, l, DOMAIN l \ {i}, e)
<1>1. Len(l) \in Nat /\ i \in 1 .. Len(l) /\ \A k \in 1 .. Len(l) : l[k] \in Nat
  OBVIOUS
<1>. DEFINE p == SubSeq(l, 1, i - 1)
            q == SubSeq(l, i + 1, Len(l))
<1>2. /\ p \in Seq(Nat) /\ Len(p) = i - 1
      /\ \A k \in 1 .. (i - 1) : p[k] = l[k]
  <2>1. i - 1 \in Int /\ 1 \in Int /\ \A k \in 1 .. (i - 1) : l[k] \in Nat
    BY <1>1
  <2>2. /\ p \in Seq(Nat) /\ Len(p) = IF 1 <= i - 1 THEN i - 1 - 1 + 1 ELSE 0
        /\ \A k \in 1 .. (i - 1 - 1 + 1) : p[k] = l[1 + k - 1]
    BY <2>1, SubSeqProperties
  <2>. QED BY <1>1, <2>2
<1>3. /\ q \in Seq(Nat) /\ Len(q) = Len(l) - i
      /\ \A k \in 1 .. (Len(l) - i) : q[k] = l[i + k]
  <2>1. i + 1 \in Int /\ Len(l) \in Int /\ \A k \in (i + 1) .. Len(l) : l[k] \in Nat
    BY <1>1
  <2>. DEFINE a == i + 1
              n == Len(l)
              v == SubSeq(l, a, n)
  <2>a. v = q
    OBVIOUS
  <2>2. /\ v \in Seq(Nat) /\ Len(v) = IF a <= n THEN n - a + 1 ELSE 0
        /\ \A k \in 1 .. (n - a + 1) : v[k] = l[a + k - 1]
    <3>1. a \in Int /\ n \in Int /\ \A k \in a .. n : l[k] \in Nat
      BY <2>1
    <3>. HIDE DEF a, n
    <3>. QED BY <3>1, SubSeqProperties
  <2>3. /\ n - a + 1 = n - i /\ (IF a <= n THEN n - a + 1 ELSE 0) = n - i
        /\ \A k \in 1 .. (n - i) : a + k - 1 = i + k
    BY <1>1
  <2>. HIDE DEF q, v, a, n
  <2>4. v \in Seq(Nat) /\ Len(v) = n - i /\ \A k \in 1 .. (n - i) : v[k] = l[i + k]
    BY <2>2, <2>3
  <2>. QED BY <2>a, <2>4 DEF n
<1>. HIDE DEF p, q
<1>4. /\ p \o q \in Seq(Nat) /\ Len(p \o q) = Len(p) + Len(q)
      /\ \A k \in 1 .. (Len(p) + Len(q)) :
            (p \o q)[k] = IF k <= Len(p) THEN p[k] ELSE q[k - Len(p)]
  BY <1>2, <1>3, ConcatProperties, Zenon
<1>5. Len(p) + Len(q) = Len(l) - 1
  BY <1>1, <1>2, <1>3
<1>6. ASSUME NEW k \in 1 .. (Len(l) - 1)
      PROVE  (p \o q)[k] = IF k < i THEN l[k] ELSE l[k + 1]
  <2>1. (p \o q)[k] = IF k <= Len(p) THEN p[k] ELSE q[k - Len(p)]
    BY <1>4, <1>5
  <2>2. CASE k < i
    <3>1. k \in 1 .. (i - 1) /\ k <= i - 1
      BY <1>1, <2>2
    <3>2. (p \o q)[k] = p[k]
      BY <1>2, <2>1, <3>1
    <3>. QED BY <1>2, <2>2, <3>1, <3>2
  <2>3. CASE ~(k < i)
    <3>1. k - (i - 1) \in 1 .. (Len(l) - i) /\ i + (k - (i - 1)) = k + 1 /\ ~(k <= i - 1)
      BY <1>1, <2>3
    <3>2. q[k - (i - 1)] = l[k + 1]
      BY <1>3, <3>1
    <3>. QED BY <1>2, <2>1, <2>3, <3>1, <3>2, Zenon
  <2>. QED BY <2>2, <2>3
<1>. DEFINE m == p \o q
            n == Len(l)
            D == 1 .. (n - 1)
            e == [k \in D |-> IF k < i THEN k ELSE k + 1]
<1>7. m \in Seq(Nat) /\ Len(m) = n - 1
  BY <1>4, <1>5
<1>8. \A k \in D : m[k] = IF k < i THEN l[k] ELSE l[k + 1]
  BY <1>6
<1>. HIDE DEF m
<1>9. n \in Nat /\ i \in 1 .. n /\ DOMAIN l = 1 .. n /\ DOMAIN m = D
  BY <1>1, <1>7
<1>. HIDE DEF n
<1>10. \A k \in D : e[k] = IF k < i THEN k ELSE k + 1
  OBVIOUS
<1>11. e = [k \in D |-> e[k]]
  OBVIOUS
<1>. HIDE DEF e
<1>12. /\ \A k \in D : e[k] \in 1 .. n /\ e[k] # i
       /\ \A j, k \in D : e[j] = e[k] => j = k
       /\ \A k \in 1 .. n : k # i => \E j \in D : e[j] = k
  <2>1. ASSUME NEW k \in D
        PROVE  /\ e[k] \in 1 .. n /\ e[k] # i /\ k \in Int /\ i \in Int
               /\ k < i => e[k] = k
               /\ ~(k < i) => e[k] = k + 1
    BY <1>9, <1>10
  <2>2. ASSUME NEW j \in D, NEW k \in D, e[j] = e[k] PROVE j = k
    <3>1. CASE j < i /\ k < i
      BY <2>1, <2>2, <3>1
    <3>2. CASE ~(j < i) /\ ~(k < i)
      BY <2>1, <2>2, <3>2
    <3>3. CASE j < i /\ ~(k < i)
      BY <2>1, <2>2, <3>3
    <3>4. CASE ~(j < i) /\ k < i
      BY <2>1, <2>2, <3>4
    <3>. QED BY <3>1, <3>2, <3>3, <3>4
  <2>3. ASSUME NEW k \in 1 .. n, k # i PROVE \E j \in D : e[j] = k
    <3>1. CASE k < i
      <4>1. k \in D
        BY <1>9, <3>1
      <4>. QED BY <2>1, <3>1, <4>1
    <3>2. CASE k > i
      <4>1. k - 1 \in D /\ ~(k - 1 < i) /\ (k - 1) + 1 = k
        BY <1>9, <3>2
      <4>. QED BY <2>1, <4>1
    <3>. QED BY <2>3, <3>1, <3>2
  <2>. QED BY <2>1, <2>2, <2>3
<1>13. ASSUME NEW k \in D PROVE m[k] = l[e[k]]
  <2>1. CASE k < i
    BY <1>8, <1>10, <2>1, Zenon
  <2>2. CASE ~(k < i)
    BY <1>8, <1>10, <2>2, Zenon
  <2>. QED BY <2>1, <2>2
<1>. HIDE DEF D
<1>14. e \in [DOMAIN m -> DOMAIN l \ {i}]
  BY <1>9, <1>11, <1>12
<1>15. Keeps(m, l, DOMAIN l \ {i}, e)
  BY <1>9, <1>12, <1>13, <1>14 DEF Keeps
<1>16. m \in Seq(Nat) /\ \E f : Keeps(m, l, DOMAIN l \ {i}, f)
  BY <1>7, <1>15
<1>. QED BY <1>16 DEF m, p, q

-----------------------------------------------------------------------------
(* Growth, and a block taken                                               *)

\* The heap with k more units.
LEMMA GrownSound ==
    ASSUME NEW f, NEW k \in Nat, k >= 2,
           Tiled(f.size, f.block), Listed(f.block, f.list), Apart(f.block),
           NEW h, h = Grown(f, k)
    PROVE  /\ IsHeap(h) /\ h.size = f.size + k
           /\ Tiled(h.size, h.block) /\ Listed(h.block, h.list)
           /\ ApartBut(h.block, f.size)
           /\ DOMAIN h.block = DOMAIN f.block \cup {f.size} /\ f.size \notin DOMAIN f.block
           /\ \A x \in DOMAIN f.block : h.block[x] = f.block[x]
           /\ h.block[f.size].len = k /\ ~h.block[f.size].used
           /\ h.list = Append(f.list, f.size)
<1>. DEFINE n == f.size
            b == f.block
            l == f.list
            e == SetAll(b, {n}, [len |-> k, used |-> FALSE])
            m == Append(l, n)
<1>1. h.size = n + k /\ h.block = e /\ h.list = m /\ IsHeap(h)
  BY DEF Grown, IsHeap
<1>0. Tiled(n, b) /\ Listed(b, l) /\ Apart(b)
  OBVIOUS
<1>. HIDE DEF n, b, l
<1>2. /\ n \in Nat /\ DOMAIN b \subseteq Nat /\ IsFiniteSet(DOMAIN b)
      /\ b \in [DOMAIN b -> Block] /\ \A x \in DOMAIN b : b[x] \in Block
  BY <1>0 DEF Tiled
<1>3. \A x \in DOMAIN b : /\ b[x].len \in Nat /\ b[x].len >= 2 /\ x + b[x].len <= n
                          /\ x \in Nat /\ x < n
  BY <1>0, <1>2 DEF Tiled, Block
<1>4. n \notin DOMAIN b
  BY <1>2, <1>3
<1>5. /\ DOMAIN e = DOMAIN b \cup {n}
      /\ e[n] = [len |-> k, used |-> FALSE]
      /\ \A x \in DOMAIN b : e[x] = b[x]
      /\ e = [x \in DOMAIN e |-> e[x]]
  BY <1>4 DEF SetAll
<1>. HIDE DEF e, m
<1>6. e[n].len = k /\ ~e[n].used /\ e[n] \in Block
  BY <1>5 DEF Block
<1>7. Tiled(n + k, e)
  <2>1. n + k \in Nat /\ DOMAIN e \subseteq Nat /\ IsFiniteSet(DOMAIN e)
    BY <1>2, <1>5, FS_AddElement
  <2>2. e \in [DOMAIN e -> Block]
    BY <1>2, <1>5, <1>6, Zenon
  <2>3. n + k > 0 => 0 \in DOMAIN e
    BY <1>0, <1>2, <1>5 DEF Tiled
  <2>4. ASSUME NEW x \in DOMAIN e
        PROVE  /\ e[x].len >= 2 /\ x + e[x].len <= n + k
               /\ x + e[x].len \in DOMAIN e \cup {n + k}
               /\ \A c \in DOMAIN e : c <= x \/ c >= x + e[x].len
    <3>1. CASE x = n
      BY <1>2, <1>3, <1>5, <1>6, <3>1
    <3>2. CASE x \in DOMAIN b
      <4>1. e[x] = b[x]
        BY <1>5, <3>2
      <4>2. /\ x + b[x].len <= n /\ x + b[x].len \in DOMAIN b \cup {n}
            /\ \A c \in DOMAIN b : c <= x \/ c >= x + b[x].len
        BY <1>0, <3>2 DEF Tiled
      <4>. QED BY <1>2, <1>3, <1>5, <3>2, <4>1, <4>2
    <3>. QED BY <1>5, <3>1, <3>2
  <2>. QED BY <2>1, <2>2, <2>3, <2>4 DEF Tiled
<1>8. Open(e) = Open(b) \cup {n}
  <2>1. \A x : x \in Open(e) <=> x \in DOMAIN e /\ ~e[x].used
    BY DEF Open
  <2>2. \A x : x \in Open(b) <=> x \in DOMAIN b /\ ~b[x].used
    BY DEF Open
  <2>. QED BY <1>5, <1>6, <2>1, <2>2, Zenon
<1>9. Listed(e, m)
  <2>1. l \in Seq(Nat) /\ \A i, j \in DOMAIN l : l[i] = l[j] => i = j
    BY <1>0 DEF Listed
  <2>2. \A i \in DOMAIN l : l[i] \in DOMAIN b
    BY <1>0 DEF Listed, Elems, Open
  <2>3. /\ m \in Seq(Nat) /\ DOMAIN m = DOMAIN l \cup {Len(l) + 1}
        /\ m[Len(l) + 1] = n /\ \A i \in DOMAIN l : m[i] = l[i]
    BY <1>2, <2>1 DEF m
  <2>4. \A i, j \in DOMAIN m : m[i] = m[j] => i = j
    BY <1>4, <2>1, <2>2, <2>3
  <2>5. Elems(m) = Elems(l) \cup {n}
    BY <2>3 DEF Elems
  <2>. QED BY <1>0, <1>8, <2>3, <2>4, <2>5 DEF Listed
<1>10. ApartBut(e, n)
  <2>. SUFFICES ASSUME NEW x \in Open(e), x + e[x].len \in Open(e)
                PROVE  x + e[x].len = n
    BY DEF ApartBut
  <2>1. CASE x = n
    BY <1>2, <1>3, <1>6, <1>8, <2>1 DEF Open
  <2>2. CASE x \in Open(b)
    BY <1>0, <1>5, <1>8, <2>2 DEF Apart, Open
  <2>. QED BY <1>8, <2>1, <2>2
<1>. QED BY <1>1, <1>4, <1>5, <1>6, <1>7, <1>9, <1>10 DEF m, n, b, l

\* A free block becomes an object's, and nothing else changes about objects.
LEMMA ObjectAdded ==
    ASSUME NEW b, NEW e, NEW u, NEW y \in Nat, NEW s \in Nat, Owned(b, u),
           y \in DOMAIN b, ~b[y].used, DOMAIN b \subseteq DOMAIN e,
           \A x \in DOMAIN b \ {y} : e[x].used = b[x].used /\ e[x].len = b[x].len,
           e[y].used, e[y].len \in Nat, 1 + s <= e[y].len,
           \A x \in DOMAIN e : e[x].used => x \in DOMAIN b,
           NEW o, o.at = y + 1, o.len = s
    PROVE  Owned(e, u \cup {o})
<1>0. y + 1 - 1 = y /\ y + 1 \in Int
  OBVIOUS
<1>1. ASSUME NEW x \in u
      PROVE  x.at \in Int /\ x.at - 1 \in DOMAIN b \ {y} /\ x.at # o.at
  <2>1. x.at \in Int /\ x.at - 1 \in DOMAIN b /\ b[x.at - 1].used
    BY DEF Owned
  <2>2. x.at - 1 # y
    BY <2>1
  <2>. QED BY <2>1, <2>2, <1>0
<1>2. ASSUME NEW x \in u \cup {o}
      PROVE  /\ x.at \in Int /\ x.len \in Nat
             /\ x.at - 1 \in DOMAIN e /\ e[x.at - 1].used
             /\ x.at + x.len <= (x.at - 1) + e[x.at - 1].len
  <2>1. CASE x \in u
    BY <1>1, <2>1 DEF Owned
  <2>2. CASE x = o
    BY <1>0, <2>2
  <2>. QED BY <2>1, <2>2
<1>3. \A x, w \in u \cup {o} : x.at = w.at => x = w
  <2>1. \A t, q \in u : t.at = q.at => t = q
    BY DEF Owned
  <2>. QED BY <1>1, <2>1, Zenon
<1>4. ASSUME NEW c \in DOMAIN e, e[c].used PROVE \E x \in u \cup {o} : x.at = c + 1
  BY <1>4 DEF Owned
<1>. QED BY <1>2, <1>3, <1>4 DEF Owned

\* The blocks and their list when the free block y is used as a whole.
LEMMA TakenWhole ==
    ASSUME NEW z, NEW b, NEW y \in DOMAIN b, Tiled(z, b), ApartBut(b, y), ~b[y].used,
           NEW e, e = [b EXCEPT ![y].used = TRUE]
    PROVE  /\ Tiled(z, e) /\ Apart(e) /\ Open(e) = Open(b) \ {y}
           /\ DOMAIN e = DOMAIN b /\ e[y].used /\ e[y].len = b[y].len
           /\ \A x \in DOMAIN b \ {y} : e[x] = b[x]
<1>1. /\ z \in Nat /\ DOMAIN b \subseteq Nat /\ IsFiniteSet(DOMAIN b)
      /\ b \in [DOMAIN b -> Block] /\ \A x \in DOMAIN b : b[x] \in Block
  BY DEF Tiled
<1>2. /\ DOMAIN e = DOMAIN b
      /\ \A x \in DOMAIN b : e[x] \in Block /\ e[x].len = b[x].len
      /\ e[y].used /\ \A x \in DOMAIN b \ {y} : e[x] = b[x]
      /\ e = [x \in DOMAIN e |-> e[x]]
  BY <1>1 DEF Block
<1>3. Open(e) = Open(b) \ {y}
  BY <1>2 DEF Open
<1>4. Tiled(z, e)
  <2>1. e \in [DOMAIN e -> Block]
    BY <1>2, Zenon
  <2>. QED BY <2>1, <1>1, <1>2 DEF Tiled
<1>5. Apart(e)
  BY <1>2, <1>3 DEF Apart, ApartBut, Open
<1>. QED BY <1>2, <1>3, <1>4, <1>5

\* The same when it is split after n units.
\* The blocks e are those of b, but for the free block y: its first n units are
\* used, and its other r units a free block w.
SplitAt(e, b, y, n, w, r) ==
    /\ y \in DOMAIN b /\ ~b[y].used /\ n \in Nat /\ r \in Nat
    /\ n >= 2 /\ r >= 2 /\ n + r = b[y].len /\ w = y + n
    /\ DOMAIN e = DOMAIN b \cup {w} /\ e \in [DOMAIN e -> Block]
    /\ e[y].len = n /\ e[y].used /\ e[w].len = r /\ ~e[w].used
    /\ \A x \in DOMAIN b \ {y} : x # w => e[x] = b[x]

LEMMA TakenSplit ==
    ASSUME NEW z, NEW b, NEW e, NEW y, NEW n, NEW w, NEW r,
           SplitAt(e, b, y, n, w, r), Tiled(z, b), ApartBut(b, y)
    PROVE  /\ Tiled(z, e) /\ Apart(e) /\ Open(e) = (Open(b) \ {y}) \cup {w}
           /\ w \notin DOMAIN b
<1>0. /\ y \in DOMAIN b /\ ~b[y].used /\ n \in Nat /\ r \in Nat
      /\ n >= 2 /\ r >= 2 /\ n + r = b[y].len /\ w = y + n
      /\ DOMAIN e = DOMAIN b \cup {w} /\ e \in [DOMAIN e -> Block]
      /\ e[y].len = n /\ e[y].used /\ e[w].len = r /\ ~e[w].used
      /\ \A x \in DOMAIN b \ {y} : x # w => e[x] = b[x]
  BY DEF SplitAt
<1>1. /\ z \in Nat /\ DOMAIN b \subseteq Nat /\ IsFiniteSet(DOMAIN b)
      /\ b \in [DOMAIN b -> Block] /\ \A x \in DOMAIN b : b[x] \in Block
  BY DEF Tiled
<1>2. b[y].len \in Nat /\ r \in Nat /\ y \in Nat /\ w \in Nat /\ w + r = y + b[y].len /\ w > y
      /\ y \in DOMAIN b /\ ~b[y].used /\ n >= 2 /\ r >= 2
  BY <1>0, <1>1 DEF Block
<1>3. w \notin DOMAIN b
  <2>1. w \in DOMAIN b => w <= y \/ w >= y + b[y].len
    BY <1>2 DEF Tiled
  <2>. QED BY <1>2, <2>1
<1>4. /\ DOMAIN e = DOMAIN b \cup {w}
      /\ \A x \in DOMAIN b \ {y} : e[x] = b[x]
      /\ e[y].len = n /\ e[y].used /\ e[w].len = r /\ ~e[w].used
  BY <1>0, <1>3
<1>6. Open(e) = (Open(b) \ {y}) \cup {w}
  <2>1. \A x : x \in Open(e) <=> x \in DOMAIN e /\ ~e[x].used
    BY DEF Open
  <2>2. \A x : x \in Open(b) <=> x \in DOMAIN b /\ ~b[x].used
    BY DEF Open
  <2>. QED BY <1>2, <1>3, <1>4, <2>1, <2>2, Zenon
<1>7. Tiled(z, e)
  <2>1. DOMAIN e \subseteq Nat /\ IsFiniteSet(DOMAIN e)
    BY <1>1, <1>2, <1>4, FS_AddElement
  <2>3. z > 0 => 0 \in DOMAIN e
    BY <1>4 DEF Tiled
  <2>4. ASSUME NEW x \in DOMAIN b
        PROVE  /\ b[x].len >= 2 /\ b[x].len \in Nat /\ x \in Nat
               /\ x + b[x].len <= z /\ x + b[x].len \in DOMAIN b \cup {z}
               /\ \A c \in DOMAIN b : c <= x \/ c >= x + b[x].len
    BY <1>1 DEF Tiled, Block
  <2>5. ASSUME NEW x \in DOMAIN e
        PROVE  /\ e[x].len >= 2 /\ x + e[x].len <= z
               /\ x + e[x].len \in DOMAIN e \cup {z}
               /\ \A c \in DOMAIN e : c <= x \/ c >= x + e[x].len
    <3>1. CASE x = y
      <4>1. e[x].len = n /\ x + e[x].len = w /\ n >= 2
        BY <1>0, <3>1
      <4>2. w <= z
        BY <1>0, <1>1, <1>2, <2>4
      <4>3. ASSUME NEW c \in DOMAIN e PROVE c <= y \/ c >= w
        <5>1. CASE c \in DOMAIN b
          BY <1>1, <1>2, <2>4, <5>1
        <5>2. CASE c = w
          BY <1>2, <5>2
        <5>. QED BY <1>4, <4>3, <5>1, <5>2
      <4>. QED BY <1>4, <3>1, <4>1, <4>2, <4>3
    <3>2. CASE x = w
      BY <1>1, <1>2, <1>4, <2>4, <3>2
    <3>3. CASE x \in DOMAIN b \ {y}
      <4>1. e[x] = b[x]
        BY <1>4, <3>3
      <4>2. x <= y => x + b[x].len <= y
        BY <1>2, <2>4, <3>3
      <4>3. x >= y => x >= w + r
        BY <1>2, <2>4, <3>3
      <4>4. w <= x \/ w >= x + b[x].len
        BY <1>2, <2>4, <3>3, <4>2, <4>3
      <4>. QED BY <1>4, <2>4, <3>3, <4>1, <4>4
    <3>. QED BY <1>4, <3>1, <3>2, <3>3
  <2>. QED BY <1>0, <1>1, <2>1, <2>3, <2>5 DEF Tiled
<1>8. Apart(e)
  <2>. SUFFICES ASSUME NEW x \in Open(e), x + e[x].len \in Open(e) PROVE FALSE
    BY DEF Apart
  <2>1. y \in Open(b)
    BY <1>2 DEF Open
  <2>2. \A c \in Open(b) : c + b[c].len \in Open(b) => c + b[c].len = y
    BY DEF ApartBut
  <2>3. \A c \in DOMAIN b : c + b[c].len \in DOMAIN b \cup {z} /\ c + b[c].len <= z
    BY DEF Tiled
  <2>4. \A c \in Open(b) : c \in DOMAIN b
    BY DEF Open
  <2>5. CASE x = w
    <3>1. x + e[x].len = y + b[y].len
      BY <1>2, <1>4, <2>5
    <3>2. y + b[y].len # w /\ y + b[y].len # y
      BY <1>2, <1>4
    <3>3. y + b[y].len \in Open(b)
      BY <1>6, <3>1, <3>2
    <3>. QED BY <2>1, <2>2, <3>2, <3>3
  <2>6. CASE x \in Open(b) \ {y}
    <3>1. e[x] = b[x]
      BY <1>4, <2>4, <2>6
    <3>2. x + b[x].len \notin Open(b) \ {y}
      BY <2>2, <2>6
    <3>3. x + b[x].len # w
      <4>1. w \in DOMAIN b \cup {z} => w = z
        BY <1>3
      <4>2. z >= w + r
        BY <1>2, <2>3
      <4>. QED BY <1>1, <1>2, <2>3, <2>4, <2>6, <4>1, <4>2
    <3>. QED BY <1>6, <3>1, <3>2, <3>3
  <2>. QED BY <1>6, <2>5, <2>6
<1>. QED BY <1>3, <1>4, <1>6, <1>7, <1>8

\* What Taken does to heap, list and objects.
LEMMA TakenSound ==
    ASSUME NEW h, IsHeap(h), NEW i \in DOMAIN h.list,
           NEW u, NEW n \in Nat, NEW s \in Nat,
           Tiled(h.size, h.block), Listed(h.block, h.list),
           ApartBut(h.block, h.list[i]), Owned(h.block, u),
           1 + s <= n, n >= 2, n <= h.block[h.list[i]].len,
           NEW g, g = Taken(h, i, n),
           NEW o, o.at = h.list[i] + 1, o.len = s
    PROVE  /\ Tiled(g.size, g.block) /\ Listed(g.block, g.list) /\ Apart(g.block)
           /\ Owned(g.block, u \cup {o})
<1>. DEFINE z == h.size
            b == h.block
            l == h.list
            y == l[i]
            r == b[y].len - n
            w == y + n
<1>1. /\ l \in Seq(Nat) /\ (\A j, k \in DOMAIN l : l[j] = l[k] => j = k)
      /\ Elems(l) = Open(b)
  BY DEF Listed
<1>2. /\ y \in DOMAIN b /\ ~b[y].used /\ y \in Nat /\ b \in [DOMAIN b -> Block]
      /\ b[y] \in Block /\ ApartBut(b, y)
  <2>1. y \in Elems(l)
    BY DEF Elems
  <2>2. b \in [DOMAIN b -> Block] /\ DOMAIN b \subseteq Nat /\ ApartBut(b, y)
    BY DEF Tiled
  <2>. HIDE DEF y
  <2>3. y \in DOMAIN b /\ ~b[y].used
    BY <1>1, <2>1 DEF Open
  <2>. QED BY <2>2, <2>3
<1>3. b[y].len \in Nat /\ n <= b[y].len /\ r \in Nat /\ n + r = b[y].len /\ w # y
  <2>1. b[y].len \in Nat
    BY <1>2 DEF Block
  <2>. QED BY <1>2, <2>1
<1>5. o.at = y + 1 /\ o.len = s
  OBVIOUS
<1>6. CASE r >= 2
  <2>. DEFINE e == SetAll(SetAll(b, {w}, [len |-> r, used |-> FALSE]),
                          {y}, [len |-> n, used |-> TRUE])
              m == [l EXCEPT ![i] = w]
  <2>1. g.size = z /\ g.block = e /\ g.list = m
    BY <1>6 DEF Taken, MIN_BLOCK_SIZE, IsHeap
  <2>2. /\ DOMAIN e = DOMAIN b \cup {w} /\ e \in [DOMAIN e -> Block]
        /\ e[y].len = n /\ e[y].used /\ e[w].len = r /\ ~e[w].used
        /\ \A x \in DOMAIN b \ {y} : x # w => e[x] = b[x]
    <3>. DEFINE f == [len |-> r, used |-> FALSE]
                t == [len |-> n, used |-> TRUE]
    <3>. DEFINE q == SetAll(SetAll(b, {w}, f), {y}, t)
    <3>1. e = q
      OBVIOUS
    <3>. HIDE DEF y, w, e
    <3>2. f \in Block /\ t \in Block /\ f.len = r /\ ~f.used /\ t.len = n /\ t.used
      BY <1>3 DEF Block
    <3>. HIDE DEF f, t, r
    <3>3. /\ DOMAIN q = DOMAIN b \cup {w} /\ q[y] = t /\ q[w] = f
          /\ \A x \in DOMAIN b \ {y} : x # w => q[x] = b[x]
          /\ q = [x \in DOMAIN q |-> q[x]]
      BY <1>2, <1>3 DEF SetAll
    <3>4. q \in [DOMAIN q -> Block]
      <4>. HIDE DEF q
      <4>1. \A x \in DOMAIN q : q[x] \in Block
        BY <1>2, <3>2, <3>3, Zenon
      <4>. QED BY <3>3, <4>1, Zenon
    <3>. HIDE DEF q
    <3>. QED BY <3>1, <3>2, <3>3, <3>4
  <2>. HIDE DEF e
  <2>3. /\ Tiled(z, e) /\ Apart(e) /\ Open(e) = (Open(b) \ {y}) \cup {w}
        /\ w \notin DOMAIN b
    <3>1. w = y + n
      OBVIOUS
    <3>. HIDE DEF y, r, w, b, z
    <3>2. n \in Nat /\ n >= 2 /\ Tiled(z, b)
      BY DEF b, z
    <3>3. SplitAt(e, b, y, n, w, r)
      BY <1>2, <1>3, <1>6, <2>2, <3>1, <3>2 DEF SplitAt
    <3>. QED BY <1>2, <3>2, <3>3, TakenSplit
  <2>4. Listed(e, m)
    <3>1. m \in Seq(Nat) /\ DOMAIN m = DOMAIN l /\ m[i] = w
          /\ \A k \in DOMAIN l \ {i} : m[k] = l[k]
      <4>1. w \in Nat /\ l \in Seq(Nat) /\ i \in DOMAIN l
        BY <1>1, <1>2
      <4>. HIDE DEF w, l
      <4>. QED BY <4>1
    <3>2. \A k \in DOMAIN l : l[k] \in DOMAIN b /\ (k # i => l[k] # y)
      BY <1>1 DEF Elems, Open
    <3>. HIDE DEF m, w
    <3>3. \A j, k \in DOMAIN m : m[j] = m[k] => j = k
      BY <1>1, <2>3, <3>1, <3>2, Zenon
    <3>4. Elems(m) = (Elems(l) \ {y}) \cup {w}
      <4>1. ASSUME NEW x \in Elems(m) PROVE x \in (Elems(l) \ {y}) \cup {w}
        <5>1. PICK k \in DOMAIN m : x = m[k]
          BY DEF Elems
        <5>. QED BY <3>1, <3>2, <5>1 DEF Elems
      <4>2. ASSUME NEW x \in Elems(l) \ {y} PROVE x \in Elems(m)
        <5>1. PICK k \in DOMAIN l : x = l[k]
          BY DEF Elems
        <5>2. k # i
          BY <5>1
        <5>. QED BY <3>1, <5>1, <5>2 DEF Elems
      <4>3. w \in Elems(m)
        BY <3>1 DEF Elems
      <4>. QED BY <4>1, <4>2, <4>3
    <3>. QED BY <1>1, <2>3, <3>1, <3>3, <3>4 DEF Listed
  <2>5. Owned(e, u \cup {o})
    <3>1. \A x \in DOMAIN e : e[x].used => x \in DOMAIN b
      BY <2>2
    <3>2. \A x \in DOMAIN b \ {y} : e[x].used = b[x].used /\ e[x].len = b[x].len
      BY <2>2, <2>3
    <3>3. DOMAIN b \subseteq DOMAIN e /\ e[y].used /\ e[y].len \in Nat /\ 1 + s <= e[y].len
      BY <2>2
    <3>. HIDE DEF y, r, w
    <3>. QED BY <1>2, <1>5, <3>1, <3>2, <3>3, ObjectAdded
  <2>. QED BY <2>1, <2>3, <2>4, <2>5
<1>7. CASE ~(r >= 2)
  <2>. DEFINE e == [b EXCEPT ![y].used = TRUE]
              m == SubSeq(l, 1, i - 1) \o SubSeq(l, i + 1, Len(l))
  <2>1. g.size = z /\ g.block = e /\ g.list = m
    BY <1>7 DEF Taken, MIN_BLOCK_SIZE, IsHeap
  <2>2. /\ Tiled(z, e) /\ Apart(e) /\ Open(e) = Open(b) \ {y}
        /\ DOMAIN e = DOMAIN b /\ e[y].used /\ e[y].len = b[y].len
        /\ \A x \in DOMAIN b \ {y} : e[x] = b[x]
    <3>. HIDE DEF y, r, w
    <3>. QED BY <1>2, TakenWhole
  <2>3. Listed(e, m)
    <3>1. m \in Seq(Nat) /\ \E f : Keeps(m, l, DOMAIN l \ {i}, f)
      BY <1>1, CutOut
    <3>. HIDE DEF m, e
    <3>2. PICK f : Keeps(m, l, DOMAIN l \ {i}, f)
      BY <3>1
    <3>3. /\ \A j, k \in DOMAIN m : m[j] = m[k] => j = k
          /\ \A x : x \in Elems(m) <=> \E j \in DOMAIN l \ {i} : x = l[j]
      <4>. DEFINE I == DOMAIN l \ {i}
      <4>1. I \in SUBSET DOMAIN l /\ Keeps(m, l, I, f)
        BY <3>2
      <4>2. \A j, k \in DOMAIN l : l[j] = l[k] => j = k
        BY <1>1
      <4>. HIDE DEF l, I
      <4>3. /\ \A j, k \in DOMAIN m : m[j] = m[k] => j = k
            /\ \A x : x \in Elems(m) <=> \E j \in I : x = l[j]
        BY <4>1, <4>2, KeptElements
      <4>. QED BY <4>3 DEF l, I
    <3>4. Elems(m) = Elems(l) \ {y}
      <4>1. \A x : x \in Elems(l) <=> \E j \in DOMAIN l : x = l[j]
        BY DEF Elems
      <4>2. \A j \in DOMAIN l : l[j] = y <=> j = i
        BY <1>1 DEF y
      <4>3. \A x : x \in Elems(m) <=> x \in Elems(l) /\ x # y
        BY <3>3, <4>1, <4>2, Zenon
      <4>. QED BY <4>3
    <3>. QED BY <1>1, <2>2, <3>1, <3>3, <3>4, Zenon DEF Listed
  <2>. HIDE DEF e
  <2>4. Owned(e, u \cup {o})
    <3>1. DOMAIN b \subseteq DOMAIN e /\ e[y].used /\ e[y].len \in Nat /\ 1 + s <= e[y].len
      BY <1>3, <2>2
    <3>2. \A x \in DOMAIN b \ {y} : e[x].used = b[x].used /\ e[x].len = b[x].len
      BY <2>2
    <3>3. \A x \in DOMAIN e : e[x].used => x \in DOMAIN b
      BY <2>2
    <3>. HIDE DEF y, r, w
    <3>. QED BY <1>2, <1>5, <3>1, <3>2, <3>3, ObjectAdded
  <2>. QED BY <2>1, <2>2, <2>3, <2>4
<1>. QED BY <1>6, <1>7


-----------------------------------------------------------------------------
(* alloc                                                                   *)

\* Place takes a first block that fits, and the program has an object in it.
LEMMA PlaceSound ==
    ASSUME NEW h, IsHeap(h), Tiled(h.size, h.block), Listed(h.block, h.list),
           Owned(h.block, held), NEW n \in Nat, NEW s \in Nat, 1 + s <= n, n >= 2,
           Fits(h, n) # {},
           \A i \in Fits(h, n) : (\A j \in Fits(h, n) : i <= j) => ApartBut(h.block, h.list[i]),
           Place(h, n, s)
    PROVE  IInv'
<1>. DEFINE i == CHOOSE k \in Fits(h, n) : \A j \in Fits(h, n) : k <= j
            g == Taken(h, i, n)
            o == [at |-> h.list[i] + HEADER_SIZE, len |-> s]
<1>1. i \in Fits(h, n) /\ \A j \in Fits(h, n) : i <= j
  <2>1. h.list \in Seq(Nat)
    BY DEF Listed
  <2>2. DOMAIN h.list \subseteq Nat
    BY <2>1
  <2>3. Fits(h, n) \in SUBSET Nat
    BY <2>2 DEF Fits
  <2>4. \E k \in Fits(h, n) : \A j \in Fits(h, n) : k <= j
    BY <2>3, LeastOf
  <2>. QED BY <2>4
<1>2. /\ size' = g.size /\ block' = g.block /\ list' = g.list
      /\ held' = held \cup {o}
  BY DEF Place, Becomes
<1>. HIDE DEF i
<1>3. i \in DOMAIN h.list /\ n <= h.block[h.list[i]].len /\ ApartBut(h.block, h.list[i])
  <2>1. i \in DOMAIN h.list /\ h.block[h.list[i]].len >= n
    BY <1>1 DEF Fits
  <2>2. h.list[i] \in Open(h.block)
    BY <2>1 DEF Listed, Elems
  <2>3. h.block[h.list[i]].len \in Nat
    BY <2>2 DEF Open, Tiled, Block
  <2>. QED BY <1>1, <2>1, <2>3
<1>4. g = Taken(h, i, n) /\ o.at = h.list[i] + 1 /\ o.len = s
  BY DEF HEADER_SIZE
<1>. HIDE DEF g, o
<1>5. /\ Tiled(g.size, g.block) /\ Listed(g.block, g.list) /\ Apart(g.block)
      /\ Owned(g.block, held \cup {o})
  BY <1>3, <1>4, TakenSound
<1>. QED BY <1>2, <1>5 DEF IInv

\* A new free block is nobody's.
LEMMA GrownOwned ==
    ASSUME NEW b, NEW e, NEW u, NEW n, Owned(b, u),
           DOMAIN e = DOMAIN b \cup {n}, \A x \in DOMAIN b : e[x] = b[x], ~e[n].used
    PROVE  Owned(e, u)
<1>1. ASSUME NEW x \in u
      PROVE  /\ x.at \in Int /\ x.len \in Nat
             /\ x.at - 1 \in DOMAIN e /\ e[x.at - 1].used
             /\ x.at + x.len <= (x.at - 1) + e[x.at - 1].len
  BY DEF Owned
<1>2. \A x, y \in u : x.at = y.at => x = y
  BY DEF Owned
<1>3. ASSUME NEW c \in DOMAIN e, e[c].used PROVE \E x \in u : x.at = c + 1
  <2>1. c \in DOMAIN b /\ b[c].used
    BY <1>3
  <2>. QED BY <2>1 DEF Owned
<1>. QED BY <1>1, <1>2, <1>3 DEF Owned

\* The heap as init() leaves it.
LEMMA ReadySound ==
    ASSUME IInv
    PROVE  /\ IsHeap(Ready) /\ Tiled(Ready.size, Ready.block)
           /\ Listed(Ready.block, Ready.list) /\ Apart(Ready.block)
           /\ Owned(Ready.block, held)
<1>1. /\ IsHeap(Heap) /\ Heap.size = size /\ Heap.block = block /\ Heap.list = list
  BY DEF Heap, IsHeap
<1>2. CASE size # 0
  BY <1>1, <1>2 DEF Ready, IInv
<1>3. CASE size = 0
  <2>. DEFINE h == Grown(Heap, Grow)
  <2>1. Ready = h /\ h = Grown(Heap, Grow)
    BY <1>3 DEF Ready
  <2>. HIDE DEF h
  <2>2. /\ Tiled(Heap.size, Heap.block) /\ Listed(Heap.block, Heap.list)
        /\ Apart(Heap.block) /\ Grow \in Nat /\ Grow >= 2
    BY <1>1, Numbers DEF IInv
  <2>3. /\ IsHeap(h) /\ Tiled(h.size, h.block) /\ Listed(h.block, h.list)
        /\ ApartBut(h.block, Heap.size)
        /\ DOMAIN h.block = DOMAIN Heap.block \cup {Heap.size}
        /\ \A x \in DOMAIN Heap.block : h.block[x] = Heap.block[x]
        /\ h.block[Heap.size].len = Grow /\ ~h.block[Heap.size].used
    BY <2>1, <2>2, GrownSound
  <2>4. DOMAIN block = {}
    <3>. SUFFICES ASSUME NEW x \in DOMAIN block PROVE FALSE
      OBVIOUS
    <3>1. x \in Nat /\ block[x].len \in Nat /\ block[x].len >= 2 /\ x + block[x].len <= size
      BY DEF IInv, Tiled, Block
    <3>. QED BY <1>3, <3>1
  <2>5. Apart(h.block)
    <3>1. \A x \in Open(h.block) : x = 0
      BY <1>1, <1>3, <2>3, <2>4 DEF Open
    <3>2. \A x \in Open(h.block) : h.block[x].len = Grow
      BY <1>1, <1>3, <2>3, <3>1
    <3>. QED BY <2>2, <3>1, <3>2 DEF Apart
  <2>6. Owned(h.block, held)
    BY <1>1, <2>3, GrownOwned DEF IInv
  <2>. QED BY <2>1, <2>3, <2>5, <2>6
<1>. QED BY <1>2, <1>3

LEMMA AllocSound ==
    ASSUME IInv, NEW s \in Sizes, NEW a \in Aligns, Alloc(s, a)
    PROVE  IInv'
<1>. DEFINE n == Needed(s, a)
            more == AlignUp(n, Grow)
            f == Ready
<1>1. /\ IsHeap(f) /\ Tiled(f.size, f.block) /\ Listed(f.block, f.list)
      /\ Apart(f.block) /\ Owned(f.block, held)
  BY ReadySound
<1>2. s \in Nat /\ n \in Nat /\ 1 + s <= n /\ more \in Nat /\ more >= n
  <2>1. s \in Nat /\ a \in Nat /\ a > 0 /\ Grow \in Nat /\ Grow > 0
    BY Numbers
  <2>2. AlignUp(s, a) \in Nat /\ AlignUp(s, a) >= s
    BY <2>1, AlignsUp
  <2>3. n = 1 + AlignUp(s, a)
    BY DEF Needed, HEADER_SIZE
  <2>. HIDE DEF n
  <2>4. n \in Nat /\ 1 + s <= n
    BY <2>1, <2>2, <2>3
  <2>. QED BY <2>1, <2>4, AlignsUp
<1>3. CASE s = 0
  <2>1. size' = f.size /\ block' = f.block /\ list' = f.list /\ held' = held
    BY <1>3 DEF Alloc, Becomes
  <2>. QED BY <1>1, <2>1 DEF IInv
<1>4. CASE s # 0 /\ Fits(f, n) # {}
  <2>1. Place(f, n, s)
    BY <1>4 DEF Alloc
  <2>2. \A i \in Fits(f, n) : ApartBut(f.block, f.list[i])
    BY <1>1 DEF Apart, ApartBut
  <2>3. n >= 2
    BY <1>2, <1>4
  <2>. HIDE DEF n, f
  <2>. QED BY <1>1, <1>2, <1>4, <2>1, <2>2, <2>3, PlaceSound
<1>5. CASE s # 0 /\ Fits(f, n) = {}
  <2>. DEFINE h == Grown(f, more)
  <2>1. Place(h, n, s)
    BY <1>5 DEF Alloc
  <2>2. h = Grown(f, more) /\ n >= 2 /\ more >= 2
    BY <1>2, <1>5
  <2>3. \A i \in DOMAIN f.list : ~(f.block[f.list[i]].len >= n)
    BY <1>5 DEF Fits
  <2>. HIDE DEF n, f, more, h
  <2>4. /\ IsHeap(h) /\ Tiled(h.size, h.block) /\ Listed(h.block, h.list)
        /\ ApartBut(h.block, f.size)
        /\ DOMAIN h.block = DOMAIN f.block \cup {f.size}
        /\ \A x \in DOMAIN f.block : h.block[x] = f.block[x]
        /\ h.block[f.size].len = more /\ ~h.block[f.size].used
        /\ h.list = Append(f.list, f.size)
    BY <1>1, <1>2, <2>2, GrownSound
  <2>5. Owned(h.block, held)
    BY <1>1, <2>4, GrownOwned
  <2>6. /\ DOMAIN h.list = DOMAIN f.list \cup {Len(f.list) + 1}
        /\ h.list[Len(f.list) + 1] = f.size
        /\ \A i \in DOMAIN f.list : h.list[i] = f.list[i]
    <3>1. f.list \in Seq(Nat) /\ f.size \in Nat
      BY <1>1 DEF Listed, Tiled
    <3>. DEFINE l == f.list
                z == f.size
                m == Append(l, z)
    <3>2. h.list = m
      BY <2>4
    <3>. HIDE DEF l, z
    <3>3. /\ DOMAIN m = DOMAIN l \cup {Len(l) + 1} /\ m[Len(l) + 1] = z
          /\ \A i \in DOMAIN l : m[i] = l[i]
      BY <3>1 DEF l, z
    <3>. HIDE DEF m
    <3>. QED BY <3>2, <3>3 DEF l, z
  <2>7. ASSUME NEW i \in Fits(h, n) PROVE h.list[i] = f.size
    <3>1. i \in DOMAIN h.list /\ h.block[h.list[i]].len >= n
      BY <2>7 DEF Fits
    <3>2. CASE i \in DOMAIN f.list
      <4>1. f.list[i] \in DOMAIN f.block
        BY <1>1, <3>2 DEF Listed, Elems, Open
      <4>. QED BY <2>3, <2>4, <2>6, <3>1, <3>2, <4>1
    <3>. QED BY <2>6, <3>1, <3>2
  <2>8. Fits(h, n) # {}
    BY <1>2, <2>4, <2>6 DEF Fits
  <2>9. \A i \in Fits(h, n) : ApartBut(h.block, h.list[i])
    BY <2>4, <2>7
  <2>. QED BY <1>2, <2>1, <2>2, <2>4, <2>5, <2>8, <2>9, PlaceSound
<1>. QED BY <1>3, <1>4, <1>5


-----------------------------------------------------------------------------
(* release_unused_memory                                                   *)

LEMMA ReleaseSound ==
    ASSUME IInv, Release
    PROVE  IInv'
<1>. DEFINE last == CHOOSE b \in Elems(list) : \A c \in Elems(list) : c <= b
            excess == block[last].len - Grow
            n == (excess \div Page) * Page
<1>1. /\ size \in Nat /\ DOMAIN block \subseteq Nat /\ IsFiniteSet(DOMAIN block)
      /\ block \in [DOMAIN block -> Block] /\ \A x \in DOMAIN block : block[x] \in Block
  BY DEF IInv, Tiled
<1>2. \A x \in DOMAIN block :
        /\ x \in Nat /\ block[x].len \in Nat /\ block[x].len >= 2
        /\ x + block[x].len <= size /\ x + block[x].len \in DOMAIN block \cup {size}
        /\ \A c \in DOMAIN block : c <= x \/ c >= x + block[x].len
  BY <1>1 DEF IInv, Tiled, Block
<1>3. list \in Seq(Nat) /\ Elems(list) = Open(block)
  BY DEF IInv, Listed
<1>4. last \in Elems(list)
  <2>1. list # <<>>
    BY DEF Release
  <2>2. 1 \in DOMAIN list
    BY <1>3, <2>1
  <2>3. Elems(list) # {}
    BY <2>2 DEF Elems
  <2>4. \A x \in Elems(list) : x \in 0 .. size
    BY <1>1, <1>2, <1>3 DEF Open
  <2>5. \E b \in Elems(list) : \A c \in Elems(list) : c <= b
    BY <1>1, <2>3, <2>4, GreatestOf
  <2>. QED BY <2>5
<1>5. /\ last + block[last].len = size /\ excess > 0
      /\ size' = size - n /\ list' = list /\ held' = held
  BY DEF Release
<1>6. block' = [block EXCEPT ![last].len = @ - n]
  BY DEF Release
<1>. HIDE DEF last
<1>7. last \in DOMAIN block /\ ~block[last].used
  BY <1>3, <1>4 DEF Open
<1>8. n \in Nat /\ block[last].len - n >= 2 /\ block[last].len - n \in Nat
  <2>1. Grow \in Nat /\ Grow >= 2 /\ excess \in Nat
    BY <1>2, <1>5, <1>7, Numbers
  <2>2. n \in Nat /\ n <= excess
    <3>. HIDE DEF excess
    <3>. QED BY <2>1, WholePages
  <2>. HIDE DEF n
  <2>. QED BY <1>2, <1>7, <2>1, <2>2
<1>. HIDE DEF n, excess
<1>9. /\ DOMAIN block' = DOMAIN block
      /\ block'[last].len = block[last].len - n /\ ~block'[last].used
      /\ block'[last] \in Block
      /\ \A x \in DOMAIN block \ {last} : block'[x] = block[x]
      /\ block' = [x \in DOMAIN block' |-> block'[x]]
  BY <1>1, <1>6, <1>7, <1>8 DEF Block
<1>10. ASSUME NEW x \in DOMAIN block PROVE x <= last
  <2>1. x <= last \/ x >= size
    BY <1>2, <1>5, <1>7
  <2>2. x \in Nat /\ block[x].len \in Nat /\ block[x].len >= 2 /\ x + block[x].len <= size
    BY <1>2
  <2>. QED BY <1>1, <2>1, <2>2
<1>11. Tiled(size', block')
  <2>1. block' \in [DOMAIN block' -> Block]
    BY <1>1, <1>9, Zenon
  <2>2. size - n \in Nat /\ last + (block[last].len - n) = size - n /\ last <= size - n
    BY <1>1, <1>2, <1>5, <1>7, <1>8
  <2>3. 0 \in DOMAIN block
    BY <1>1, <1>2, <1>7 DEF IInv, Tiled
  <2>4. ASSUME NEW x \in DOMAIN block
        PROVE  /\ block'[x].len >= 2 /\ x + block'[x].len <= size'
               /\ x + block'[x].len \in DOMAIN block' \cup {size'}
               /\ \A c \in DOMAIN block' : c <= x \/ c >= x + block'[x].len
    <3>1. CASE x = last
      BY <1>5, <1>8, <1>9, <1>10, <2>2, <3>1
    <3>2. CASE x # last
      <4>1. block'[x] = block[x]
        BY <1>9, <3>2
      <4>2. x + block[x].len \in DOMAIN block
        <5>1. x + block[x].len <= last
          BY <1>2, <1>7, <1>10, <3>2
        <5>. QED BY <1>2, <1>5, <1>7, <5>1
      <4>3. x + block[x].len <= last
        BY <1>10, <4>2
      <4>4. x + block[x].len <= size - n
        BY <1>2, <1>7, <2>2, <4>3
      <4>. QED BY <1>2, <1>5, <1>9, <4>1, <4>2, <4>4
    <3>. QED BY <3>1, <3>2
  <2>. QED BY <1>1, <1>5, <1>9, <2>1, <2>2, <2>3, <2>4 DEF Tiled
<1>12. Open(block') = Open(block)
  <2>1. \A x : x \in Open(block') <=> x \in DOMAIN block' /\ ~block'[x].used
    BY DEF Open
  <2>2. \A x : x \in Open(block) <=> x \in DOMAIN block /\ ~block[x].used
    BY DEF Open
  <2>. QED BY <1>7, <1>9, <2>1, <2>2, Zenon
<1>13. Listed(block', list')
  BY <1>5, <1>12 DEF IInv, Listed
<1>14. Apart(block')
  <2>. SUFFICES ASSUME NEW x \in Open(block), x + block'[x].len \in Open(block) PROVE FALSE
    BY <1>12 DEF Apart
  <2>0. x \in DOMAIN block /\ x + block'[x].len \in DOMAIN block
    BY DEF Open
  <2>1. CASE x = last
    BY <1>2, <1>7, <1>8, <1>9, <1>10, <2>0, <2>1
  <2>2. CASE x # last
    BY <1>9, <2>0, <2>2 DEF IInv, Apart
  <2>. QED BY <2>1, <2>2
<1>15. Owned(block', held')
  <2>1. ASSUME NEW x \in held
        PROVE  /\ x.at \in Int /\ x.len \in Nat
               /\ x.at - 1 \in DOMAIN block' /\ block'[x.at - 1].used
               /\ x.at + x.len <= (x.at - 1) + block'[x.at - 1].len
    <3>1. /\ x.at \in Int /\ x.len \in Nat
          /\ x.at - 1 \in DOMAIN block /\ block[x.at - 1].used
          /\ x.at + x.len <= (x.at - 1) + block[x.at - 1].len
      BY DEF IInv, Owned
    <3>2. x.at - 1 # last
      BY <1>7, <3>1
    <3>3. block'[x.at - 1] = block[x.at - 1]
      BY <1>9, <3>1, <3>2
    <3>. QED BY <1>9, <3>1, <3>3
  <2>2. \A x, y \in held : x.at = y.at => x = y
    BY DEF IInv, Owned
  <2>3. ASSUME NEW c \in DOMAIN block', block'[c].used PROVE \E x \in held : x.at = c + 1
    <3>1. c \in DOMAIN block /\ block[c].used
      BY <1>9, <2>3
    <3>. QED BY <3>1 DEF IInv, Owned
  <2>. QED BY <1>5, <2>1, <2>2, <2>3 DEF Owned
<1>. QED BY <1>11, <1>13, <1>14, <1>15 DEF IInv


-----------------------------------------------------------------------------
(* free                                                                    *)

\* The blocks free merges: free ones and the object's, from lo to hi, all the
\* blocks there are from lo to the end of hi, with no free one on either side.
LEMMA MergedRun ==
    ASSUME IInv, NEW y \in DOMAIN block, block[y].used
    PROVE  LET run == Merged(y) IN
           /\ y \in run /\ run \subseteq Open(block) \cup {y}
           /\ \E lo, hi \in run :
                /\ \A c \in run : lo <= c /\ c <= hi
                /\ \A d \in DOMAIN block : lo <= d /\ d < hi + block[hi].len => d \in run
                /\ hi + block[hi].len \notin Open(block)
                /\ \A x \in Open(block) : x + block[x].len # lo
<1>. DEFINE F == Open(block) \cup {y}
            run == Merged(y)
<1>1. /\ size \in Nat /\ DOMAIN block \subseteq Nat /\ IsFiniteSet(DOMAIN block)
  BY DEF IInv, Tiled
<1>2. \A x \in DOMAIN block :
        /\ x \in Nat /\ block[x].len \in Nat /\ block[x].len >= 2
        /\ x + block[x].len <= size /\ x + block[x].len \in DOMAIN block \cup {size}
        /\ \A c \in DOMAIN block : c <= x \/ c >= x + block[x].len
  BY DEF IInv, Tiled, Block
<1>3. Elems(list) = Open(block) /\ \A x \in F : x \in DOMAIN block
  BY DEF IInv, Listed, Open
<1>4. \A c : c \in run <=>
        /\ c \in F
        /\ \A d \in DOMAIN block : (y <= d /\ d <= c) \/ (c <= d /\ d <= y) => d \in F
  BY <1>3 DEF Merged
<1>. HIDE DEF run
<1>5. y \in F
  OBVIOUS
<1>. HIDE DEF F
<1>6. y \in run
  BY <1>1, <1>4, <1>5
<1>7. \A c \in run : c \in DOMAIN block /\ c \in Nat /\ c \in 0 .. size
  BY <1>1, <1>2, <1>3, <1>4
<1>8. PICK lo \in run : \A c \in run : lo <= c
  <2>1. run \in SUBSET Nat /\ run # {}
    BY <1>6, <1>7
  <2>. QED BY <2>1, LeastOf
<1>9. PICK hi \in run : \A c \in run : c <= hi
  <2>1. run \in SUBSET (0 .. size) /\ run # {}
    BY <1>6, <1>7
  <2>. QED BY <1>1, <2>1, GreatestOf
<1>10. /\ lo \in DOMAIN block /\ hi \in DOMAIN block /\ y \in Nat
       /\ lo \in Nat /\ hi \in Nat /\ lo <= y /\ y <= hi
  BY <1>6, <1>7, <1>8, <1>9
<1>11. ASSUME NEW d \in DOMAIN block, lo <= d, d < hi + block[hi].len PROVE d \in run
  <2>1. d <= hi /\ d \in Nat /\ \A c \in DOMAIN block : c \in Nat
    BY <1>2, <1>10, <1>11
  <2>2. CASE d <= y
    <3>1. \A c \in DOMAIN block : d <= c /\ c <= y => lo <= c /\ c <= y
      BY <1>10, <1>11, <2>1
    <3>2. \A c \in DOMAIN block : y <= c /\ c <= d => c = y
      BY <1>10, <2>1, <2>2
    <3>3. \A c \in DOMAIN block : lo <= c /\ c <= y => c \in F
      BY <1>4
    <3>4. d \in F
      BY <1>11, <2>2, <3>3
    <3>. QED BY <1>4, <1>5, <3>1, <3>2, <3>3, <3>4
  <2>3. CASE y <= d
    <3>1. \A c \in DOMAIN block : y <= c /\ c <= d => y <= c /\ c <= hi
      BY <1>10, <2>1
    <3>2. \A c \in DOMAIN block : d <= c /\ c <= y => c = y
      BY <1>10, <2>1, <2>3
    <3>3. \A c \in DOMAIN block : y <= c /\ c <= hi => c \in F
      BY <1>4
    <3>4. d \in F
      BY <1>11, <2>1, <2>3, <3>3
    <3>. QED BY <1>4, <1>5, <3>1, <3>2, <3>3, <3>4
  <2>. QED BY <1>10, <2>1, <2>2, <2>3
<1>12. hi + block[hi].len \notin Open(block)
  <2>. DEFINE E == hi + block[hi].len
  <2>. SUFFICES ASSUME E \in Open(block) PROVE FALSE
    OBVIOUS
  <2>1. E \in F /\ E \in DOMAIN block
    BY <1>3 DEF F
  <2>2. E > hi /\ E \in Nat /\ E > y
    BY <1>2, <1>10
  <2>3. ASSUME NEW d \in DOMAIN block, y <= d, d <= E PROVE d \in F
    <3>1. d <= hi \/ d >= E
      BY <1>2, <1>10
    <3>2. CASE d <= hi
      BY <1>4, <1>9, <2>3, <3>2
    <3>3. CASE d >= E
      <4>1. d = E
        BY <1>2, <2>2, <2>3, <3>3
      <4>. QED BY <2>1, <4>1
    <3>. QED BY <3>1, <3>2, <3>3
  <2>4. \A d \in DOMAIN block : ~(E <= d /\ d <= y)
    <3>. HIDE DEF E
    <3>1. ASSUME NEW d \in DOMAIN block, E <= d, d <= y PROVE FALSE
      <4>1. d \in Nat
        BY <1>2
      <4>. QED BY <1>10, <2>2, <3>1, <4>1
    <3>. QED BY <3>1
  <2>5. E \in run
    BY <1>4, <2>1, <2>3, <2>4
  <2>. QED BY <1>9, <1>10, <2>2, <2>5
<1>13. ASSUME NEW x \in Open(block), x + block[x].len = lo PROVE FALSE
  <2>1. x \in F /\ x \in DOMAIN block
    BY <1>3 DEF F
  <2>2. x < lo /\ x \in Nat /\ x < y
    BY <1>2, <1>10, <1>13, <2>1
  <2>3. ASSUME NEW d \in DOMAIN block, x <= d, d <= y PROVE d \in F
    <3>1. d <= x \/ d >= lo
      BY <1>2, <1>13, <2>1
    <3>2. CASE d >= lo
      BY <1>4, <1>8, <2>3, <3>2
    <3>3. CASE d <= x
      <4>1. d = x
        BY <1>2, <2>2, <2>3, <3>3
      <4>. QED BY <2>1, <4>1
    <3>. QED BY <3>1, <3>2, <3>3
  <2>4. \A d \in DOMAIN block : ~(y <= d /\ d <= x)
    BY <1>2, <1>10, <2>2
  <2>5. x \in run
    BY <1>4, <2>1, <2>3, <2>4
  <2>. QED BY <1>8, <1>10, <2>2, <2>5
<1>14. y \in run /\ run \subseteq Open(block) \cup {y}
  BY <1>4, <1>6 DEF F
<1>15. \E l, h \in run :
          /\ \A c \in run : l <= c /\ c <= h
          /\ \A d \in DOMAIN block : l <= d /\ d < h + block[h].len => d \in run
          /\ h + block[h].len \notin Open(block)
          /\ \A x \in Open(block) : x + block[x].len # l
  BY <1>8, <1>9, <1>11, <1>12, <1>13
<1>. QED BY <1>14, <1>15 DEF run


\* The blocks R, from lo to hi and without a free one on either side, are in
\* e one free block; all but y were free.
Merges(b, R, lo, hi, y, e) ==
    LET E == hi + b[hi].len IN
    /\ lo \in R /\ hi \in R /\ \A c \in R : lo <= c /\ c <= hi
    /\ R \subseteq DOMAIN b /\ R \subseteq Open(b) \cup {y} /\ y \in R
    /\ \A d \in DOMAIN b : lo <= d /\ d < E => d \in R
    /\ E \notin Open(b) /\ \A x \in Open(b) : x + b[x].len # lo
    /\ DOMAIN e = (DOMAIN b \ R) \cup {lo} /\ e = [x \in DOMAIN e |-> e[x]]
    /\ e[lo].len = E - lo /\ ~e[lo].used /\ e[lo] \in Block
    /\ \A x \in DOMAIN b \ R : e[x] = b[x]

\* Then the heap is still tiled, and no two free blocks touch.
LEMMA MergedSound ==
    ASSUME NEW z, NEW b, NEW R, NEW lo, NEW hi, NEW y, NEW e,
           Tiled(z, b), Apart(b), b[y].used, Merges(b, R, lo, hi, y, e)
    PROVE  Tiled(z, e) /\ Open(e) = (Open(b) \ R) \cup {lo} /\ Apart(e)
<1>. DEFINE E == hi + b[hi].len
<1>0. /\ lo \in R /\ hi \in R /\ \A c \in R : lo <= c /\ c <= hi
      /\ R \subseteq DOMAIN b /\ R \subseteq Open(b) \cup {y} /\ y \in R
      /\ \A d \in DOMAIN b : lo <= d /\ d < E => d \in R
      /\ E \notin Open(b) /\ \A x \in Open(b) : x + b[x].len # lo
      /\ DOMAIN e = (DOMAIN b \ R) \cup {lo} /\ e = [x \in DOMAIN e |-> e[x]]
      /\ e[lo].len = E - lo /\ ~e[lo].used /\ e[lo] \in Block
      /\ \A x \in DOMAIN b \ R : e[x] = b[x]
  BY DEF Merges
<1>1. /\ z \in Nat /\ DOMAIN b \subseteq Nat /\ IsFiniteSet(DOMAIN b)
      /\ b \in [DOMAIN b -> Block] /\ \A x \in DOMAIN b : b[x] \in Block
  BY DEF Tiled
<1>2. \A x \in DOMAIN b :
        /\ x \in Nat /\ b[x].len \in Nat /\ b[x].len >= 2
        /\ x + b[x].len <= z /\ x + b[x].len \in DOMAIN b \cup {z}
        /\ \A c \in DOMAIN b : c <= x \/ c >= x + b[x].len
  BY <1>0, <1>1 DEF Tiled, Block
<1>3. /\ lo \in Nat /\ hi \in Nat /\ E \in Nat /\ lo <= hi /\ E >= hi + 2
      /\ E <= z /\ E \in DOMAIN b \cup {z} /\ E \notin R
  BY <1>0, <1>2
<1>. HIDE DEF E
<1>4. \A c \in DOMAIN b \ R : c \in Nat /\ (c < lo \/ c >= E)
  BY <1>0, <1>2, <1>3
<1>5. Tiled(z, e)
  <2>1. DOMAIN e \subseteq Nat /\ IsFiniteSet(DOMAIN e)
    <3>1. DOMAIN e \subseteq DOMAIN b
      BY <1>0
    <3>. QED BY <1>0, <1>1, <3>1, FS_Subset
  <2>2. e \in [DOMAIN e -> Block]
    BY <1>0, <1>1, Zenon
  <2>3. 0 \in DOMAIN e
    <3>1. 0 \in DOMAIN b
      BY <1>0, <1>1, <1>3 DEF Tiled
    <3>2. CASE 0 \in R
      <4>1. lo = 0
        BY <1>0, <1>3, <3>2
      <4>. QED BY <1>0, <4>1
    <3>. QED BY <1>0, <3>1, <3>2
  <2>4. ASSUME NEW x \in DOMAIN e
        PROVE  /\ e[x].len >= 2 /\ x + e[x].len <= z
               /\ x + e[x].len \in DOMAIN e \cup {z}
               /\ \A c \in DOMAIN e : c <= x \/ c >= x + e[x].len
    <3>1. CASE x = lo
      <4>1. x + e[x].len = E /\ e[x].len >= 2
        BY <1>0, <1>3, <3>1
      <4>2. E \in DOMAIN e \cup {z}
        BY <1>0, <1>3
      <4>3. \A c \in DOMAIN e : c <= lo \/ c >= E
        BY <1>0, <1>3, <1>4
      <4>. QED BY <1>0, <1>3, <3>1, <4>1, <4>2, <4>3
    <3>2. CASE x \in DOMAIN b \ R
      <4>1. e[x] = b[x] /\ x \in DOMAIN b
        BY <1>0, <3>2
      <4>2. \A c \in DOMAIN e : c <= x \/ c >= x + b[x].len
        BY <1>0, <1>2, <4>1
      <4>3. ASSUME x + b[x].len \in R PROVE x + b[x].len = lo
        <5>0. lo <= x + b[x].len /\ x + b[x].len <= hi
          BY <1>0, <4>3
        <5>1. x < x + b[x].len /\ lo <= x + b[x].len /\ x + b[x].len <= hi
          BY <1>0, <1>2, <4>1, <5>0
        <5>2. x < lo
          <6>1. x < lo \/ x >= E
            BY <1>0, <1>4, <3>2
          <6>2. x + b[x].len < E /\ x + b[x].len \in Nat /\ x \in Nat
            BY <1>0, <1>2, <1>3, <4>1, <5>1
          <6>. QED BY <1>0, <1>3, <5>1, <6>1, <6>2
        <5>3. lo >= x + b[x].len
          BY <1>0, <1>2, <1>3, <4>1, <5>2
        <5>. QED BY <1>0, <1>2, <1>3, <4>1, <5>1, <5>3
      <4>4. x + b[x].len \in DOMAIN e \cup {z}
        BY <1>0, <1>2, <4>1, <4>3
      <4>. QED BY <1>0, <1>2, <4>1, <4>2, <4>4
    <3>. QED BY <1>0, <3>1, <3>2
  <2>. QED BY <1>0, <1>1, <2>1, <2>2, <2>3, <2>4 DEF Tiled
<1>6. Open(e) = (Open(b) \ R) \cup {lo}
  <2>1. \A x : x \in Open(e) <=> x \in DOMAIN e /\ ~e[x].used
    BY DEF Open
  <2>2. \A x : x \in Open(b) <=> x \in DOMAIN b /\ ~b[x].used
    BY DEF Open
  <2>. QED BY <1>0, <2>1, <2>2, Zenon
<1>7. Apart(e)
  <2>. SUFFICES ASSUME NEW x \in Open(e), x + e[x].len \in Open(e) PROVE FALSE
    BY DEF Apart
  <2>1. CASE x = lo
    <3>1. x + e[x].len = E
      BY <1>0, <1>3, <2>1
    <3>2. E # lo
      BY <1>0, <1>3
    <3>. QED BY <1>0, <1>6, <3>1, <3>2
  <2>2. CASE x \in Open(b) \ R
    <3>1. x \in DOMAIN b \ R /\ e[x] = b[x]
      BY <1>0, <2>2 DEF Open
    <3>2. x + b[x].len \notin Open(b) /\ x + b[x].len # lo
      BY <1>0, <2>2 DEF Apart
    <3>. QED BY <1>0, <1>6, <3>1, <3>2
  <2>. QED BY <1>0, <1>6, <2>1, <2>2
<1>. QED BY <1>0, <1>5, <1>6, <1>7


LEMMA FreeSound ==
    ASSUME IInv, NEW x \in held, Free(x)
    PROVE  IInv'
<1>. DEFINE y == x.at - HEADER_SIZE
            run == Merged(y)
            all == Sum(run)
            I == {i \in DOMAIN list : list[i] \notin run}
            w == Kept(list, I)
<1>1. /\ size \in Nat /\ DOMAIN block \subseteq Nat /\ IsFiniteSet(DOMAIN block)
      /\ block \in [DOMAIN block -> Block] /\ \A d \in DOMAIN block : block[d] \in Block
  BY DEF IInv, Tiled
<1>2. /\ list \in Seq(Nat) /\ Elems(list) = Open(block)
      /\ \A i, j \in DOMAIN list : list[i] = list[j] => i = j
  BY DEF IInv, Listed
<1>3. /\ x.at \in Int /\ y = x.at - 1 /\ y \in DOMAIN block /\ block[y].used
  BY DEF IInv, Owned, HEADER_SIZE
<1>4. /\ size' = size /\ held' = held \ {x} /\ list' = <<all.at>> \o w
      /\ block' = [b \in (DOMAIN block \ run) \cup {all.at} |->
                      IF b = all.at THEN [len |-> all.len, used |-> FALSE]
                      ELSE block[b]]
  BY DEF Free
<1>. HIDE DEF y
<1>5. /\ y \in run /\ run \subseteq Open(block) \cup {y}
      /\ \E lo, hi \in run :
           /\ \A c \in run : lo <= c /\ c <= hi
           /\ \A d \in DOMAIN block : lo <= d /\ d < hi + block[hi].len => d \in run
           /\ hi + block[hi].len \notin Open(block)
           /\ \A d \in Open(block) : d + block[d].len # lo
  BY <1>3, MergedRun
<1>. HIDE DEF run
<1>6. PICK lo \in run, hi \in run :
           /\ \A c \in run : lo <= c /\ c <= hi
           /\ \A d \in DOMAIN block : lo <= d /\ d < hi + block[hi].len => d \in run
           /\ hi + block[hi].len \notin Open(block)
           /\ \A d \in Open(block) : d + block[d].len # lo
  BY <1>5
<1>7. run \in SUBSET DOMAIN block /\ run \in SUBSET Nat
  BY <1>1, <1>3, <1>5 DEF Open
<1>. DEFINE E == hi + block[hi].len
            k == E - lo
<1>8. all.at = lo /\ all.len = k
  <2>0. (\A c \in run : lo <= c /\ c <= hi) /\ \A d \in run : d \in Nat
    BY <1>6, <1>7
  <2>1. ASSUME NEW l \in run, \A c \in run : l <= c PROVE l = lo
    BY <2>0, <2>1
  <2>2. ASSUME NEW h \in run, \A c \in run : c <= h PROVE h = hi
    BY <2>0, <2>2
  <2>. DEFINE p == CHOOSE b \in run : \A c \in run : b <= c
              q == CHOOSE b \in run : \A c \in run : c <= b
  <2>3. p = lo
    BY <2>0, <2>1
  <2>4. q = hi
    BY <2>0, <2>2
  <2>5. all = [at |-> p, len |-> q + block[q].len - p]
    BY Zenon DEF Sum
  <2>6. hi \in Nat /\ lo \in Nat /\ block[hi].len \in Nat
    BY <1>1, <1>7 DEF Block
  <2>. HIDE DEF p, q, all
  <2>. QED BY <2>3, <2>4, <2>5, <2>6
<1>. HIDE DEF all
<1>9. k \in Nat
  <2>1. hi \in Nat /\ lo \in Nat /\ block[hi].len \in Nat /\ lo <= hi
    BY <1>1, <1>6, <1>7 DEF Block
  <2>. QED BY <2>1
<1>10. block' = [b \in (DOMAIN block \ run) \cup {lo} |->
                      IF b = lo THEN [len |-> k, used |-> FALSE] ELSE block[b]]
  BY <1>4, <1>8
<1>11. /\ DOMAIN block' = (DOMAIN block \ run) \cup {lo}
       /\ block' = [b \in DOMAIN block' |-> block'[b]]
       /\ block'[lo].len = k /\ ~block'[lo].used /\ block'[lo] \in Block
       /\ \A b \in DOMAIN block \ run : block'[b] = block[b]
  <2>. DEFINE f == [len |-> k, used |-> FALSE]
  <2>1. f.len = k /\ ~f.used /\ f \in Block
    BY <1>9 DEF Block
  <2>2. block' = [b \in (DOMAIN block \ run) \cup {lo} |-> IF b = lo THEN f ELSE block[b]]
    BY <1>10
  <2>. HIDE DEF f
  <2>3. \A b \in DOMAIN block \ run : b # lo
    BY <1>6
  <2>4. /\ DOMAIN block' = (DOMAIN block \ run) \cup {lo}
        /\ block' = [b \in DOMAIN block' |-> block'[b]]
        /\ block'[lo] = f
        /\ \A b \in DOMAIN block \ run : block'[b] = block[b]
    BY <2>2, <2>3
  <2>. QED BY <2>1, <2>4, Zenon
<1>12. Tiled(size', block') /\ Open(block') = (Open(block) \ run) \cup {lo} /\ Apart(block')
  <2>1. Merges(block, run, lo, hi, y, block')
    BY <1>5, <1>6, <1>7, <1>11 DEF Merges
  <2>2. Tiled(size, block) /\ Apart(block) /\ size' = size
    BY <1>4 DEF IInv
  <2>. QED BY <1>3, <2>1, <2>2, MergedSound
<1>13. Listed(block', list')
  <2>1. I \in SUBSET DOMAIN list /\ \A i \in DOMAIN list : i \in I <=> list[i] \notin run
    OBVIOUS
  <2>. HIDE DEF I
  <2>2. w \in Seq(Nat) /\ \E e : Keeps(w, list, I, e)
    BY <1>2, <2>1, KeptKeeps
  <2>. HIDE DEF w
  <2>3. PICK e : Keeps(w, list, I, e)
    BY <2>2
  <2>4. /\ \A i, j \in DOMAIN w : w[i] = w[j] => i = j
        /\ \A d : d \in Elems(w) <=> \E i \in I : d = list[i]
    <3>1. \A i, j \in DOMAIN list : list[i] = list[j] => i = j
      BY <1>2
    <3>. QED BY <2>1, <2>3, <3>1, KeptElements
  <2>5. \A d : d \in Elems(w) <=> d \in Open(block) /\ d \notin run
    <3>1. \A d : d \in Elems(list) <=> \E i \in DOMAIN list : d = list[i]
      BY DEF Elems
    <3>2. \A d : d \in Elems(w) <=> d \in Elems(list) /\ d \notin run
      BY <2>1, <2>4, <3>1
    <3>. QED BY <1>2, <3>2
  <2>6. lo \in Nat
    BY <1>7
  <2>7. list' = <<lo>> \o w
    BY <1>4, <1>8
  <2>8. /\ list' \in Seq(Nat) /\ Len(list') = Len(w) + 1 /\ list'[1] = lo
        /\ \A i \in 1 .. Len(w) : list'[i + 1] = w[i]
    BY <2>2, <2>6, <2>7
  <2>9. DOMAIN w = 1 .. Len(w) /\ DOMAIN list' = 1 .. (Len(w) + 1) /\ Len(w) \in Nat
    BY <2>2, <2>8
  <2>10. ASSUME NEW i \in DOMAIN list', i # 1 PROVE i - 1 \in DOMAIN w /\ list'[i] = w[i - 1]
    <3>1. i - 1 \in 1 .. Len(w) /\ (i - 1) + 1 = i
      BY <2>9, <2>10
    <3>2. list'[(i - 1) + 1] = w[i - 1]
      BY <2>8, <3>1
    <3>. QED BY <2>9, <3>1, <3>2
  <2>11. lo \notin Elems(w)
    BY <2>5, <1>6
  <2>12. \A i \in DOMAIN w : w[i] \in Elems(w)
    BY DEF Elems
  <2>13. ASSUME NEW i \in DOMAIN list', NEW j \in DOMAIN list', list'[i] = list'[j]
         PROVE  i = j
    <3>1. CASE i = 1
      BY <2>8, <2>10, <2>11, <2>12, <2>13, <3>1
    <3>2. CASE j = 1
      BY <2>8, <2>10, <2>11, <2>12, <2>13, <3>2
    <3>3. CASE i # 1 /\ j # 1
      <4>1. w[i - 1] = w[j - 1] /\ i - 1 \in DOMAIN w /\ j - 1 \in DOMAIN w
        BY <2>10, <2>13, <3>3
      <4>2. i - 1 = j - 1
        BY <2>4, <4>1
      <4>. QED BY <2>9, <4>2
    <3>. QED BY <3>1, <3>2, <3>3
  <2>14. Elems(list') = Elems(w) \cup {lo}
    <3>1. ASSUME NEW d \in Elems(list') PROVE d \in Elems(w) \cup {lo}
      <4>1. PICK i \in DOMAIN list' : d = list'[i]
        BY DEF Elems
      <4>. QED BY <2>8, <2>10, <2>12, <4>1
    <3>2. ASSUME NEW d \in Elems(w) PROVE d \in Elems(list')
      <4>1. PICK i \in DOMAIN w : d = w[i]
        BY DEF Elems
      <4>2. i + 1 \in DOMAIN list' /\ list'[i + 1] = d
        BY <2>8, <2>9, <4>1
      <4>. QED BY <4>2 DEF Elems
    <3>3. lo \in Elems(list')
      <4>1. 1 \in DOMAIN list'
        BY <2>9
      <4>. QED BY <2>8, <4>1 DEF Elems
    <3>. QED BY <3>1, <3>2, <3>3
  <2>15. Elems(list') = Open(block')
    BY <1>12, <2>5, <2>14
  <2>. QED BY <2>8, <2>13, <2>15 DEF Listed
<1>14. Owned(block', held')
  <2>1. ASSUME NEW o \in held \ {x}
        PROVE  /\ o.at \in Int /\ o.len \in Nat
               /\ o.at - 1 \in DOMAIN block' /\ block'[o.at - 1].used
               /\ o.at + o.len <= (o.at - 1) + block'[o.at - 1].len
    <3>1. /\ o.at \in Int /\ o.len \in Nat /\ o.at # x.at
          /\ o.at - 1 \in DOMAIN block /\ block[o.at - 1].used
          /\ o.at + o.len <= (o.at - 1) + block[o.at - 1].len
      BY DEF IInv, Owned
    <3>2. o.at - 1 \notin run
      <4>1. o.at - 1 # y
        BY <1>3, <3>1
      <4>2. o.at - 1 \notin Open(block)
        BY <3>1 DEF Open
      <4>. QED BY <1>5, <4>1, <4>2
    <3>3. o.at - 1 \in DOMAIN block' /\ block'[o.at - 1] = block[o.at - 1]
      BY <1>11, <3>1, <3>2
    <3>. QED BY <3>1, <3>3
  <2>2. \A o, p \in held \ {x} : o.at = p.at => o = p
    BY DEF IInv, Owned
  <2>3. ASSUME NEW c \in DOMAIN block', block'[c].used
        PROVE  \E o \in held \ {x} : o.at = c + 1
    <3>1. c \in DOMAIN block \ run /\ block[c].used
      BY <1>11, <2>3
    <3>2. PICK o \in held : o.at = c + 1
      BY <3>1 DEF IInv, Owned
    <3>3. c # y /\ c \in Int
      BY <1>1, <1>5, <3>1
    <3>4. o # x
      BY <1>3, <3>2, <3>3
    <3>. QED BY <3>2, <3>4
  <2>. QED BY <1>4, <2>1, <2>2, <2>3 DEF Owned
<1>. QED BY <1>12, <1>13, <1>14 DEF IInv


-----------------------------------------------------------------------------
(* Theorems                                                                *)

LEMMA InitSound ==
    ASSUME Init
    PROVE  IInv
<1>1. <<>> \in Seq(Block) /\ <<>> \in Seq(Nat)
  OBVIOUS
<1>2. /\ size = 0 /\ block = <<>> /\ list = <<>> /\ held = {}
  BY DEF Init
<1>3. DOMAIN block = {} /\ DOMAIN list = {}
  BY <1>1, <1>2
<1>4. block \in [DOMAIN block -> Block]
  <2>1. block \in Seq(Block)
    BY <1>1, <1>2
  <2>. QED BY <2>1
<1>5. Tiled(size, block)
  <2>1. IsFiniteSet(DOMAIN block)
    BY <1>3, FS_EmptySet
  <2>. QED BY <1>2, <1>3, <1>4, <2>1 DEF Tiled
<1>6. Listed(block, list)
  <2>1. Elems(list) = {} /\ Open(block) = {}
    BY <1>3 DEF Elems, Open
  <2>. QED BY <1>1, <1>2, <1>3, <2>1 DEF Listed
<1>7. Apart(block) /\ Owned(block, held)
  BY <1>2, <1>3 DEF Apart, Open, Owned
<1>. QED BY <1>5, <1>6, <1>7 DEF IInv

\* The inductive invariant: the blocks tile the heap, the list has the free
\* ones, no two of them touch, and every object has a block of its own.
THEOREM Invariance == Spec => []IInv
<1>1. Init => IInv
  BY InitSound
<1>2. IInv /\ [Next]_vars => IInv'
  <2>. SUFFICES ASSUME IInv, [Next]_vars PROVE IInv'
    OBVIOUS
  <2>1. ASSUME NEW s \in Sizes, NEW a \in Aligns, Alloc(s, a) PROVE IInv'
    BY <2>1, AllocSound
  <2>2. ASSUME NEW s \in Sizes, NEW a \in Aligns, Refuse(s, a) PROVE IInv'
    BY <2>2 DEF Refuse, IInv
  <2>3. ASSUME NEW x \in held, Free(x) PROVE IInv'
    BY <2>3, FreeSound
  <2>4. CASE Release
    BY <2>4, ReleaseSound
  <2>5. CASE UNCHANGED vars
    BY <2>5 DEF vars, IInv
  <2>. QED BY <2>1, <2>2, <2>3, <2>4, <2>5 DEF Next
<1>. QED BY <1>1, <1>2, PTL DEF Spec

\* Whatever a program allocates, frees and releases, its heap is sound: tiled,
\* without two free blocks that touch, every free block once in the list,
\* every object in a block of its own that is large enough.
THEOREM HeapIsSound == Spec => []HeapSound
<1>1. IInv => HeapSound
  <2>. SUFFICES ASSUME IInv PROVE HeapSound
    OBVIOUS
  <2>0. /\ size \in Nat /\ DOMAIN block \subseteq Nat /\ IsFiniteSet(DOMAIN block)
        /\ \A d \in DOMAIN block : block[d].len \in Nat
    BY DEF IInv, Tiled, Block
  <2>1. Elems(list) = {b \in DOMAIN block : ~block[b].used}
    BY DEF IInv, Listed, Open
  <2>2. Coalesced
    BY DEF Coalesced, IInv, Listed, Apart, End
  <2>3. size > 0 => 0 \in DOMAIN block
    BY DEF IInv, Tiled
  <2>4. \A b \in DOMAIN block :
          /\ block[b].len >= MIN_BLOCK_SIZE
          /\ End(b) \in DOMAIN block \cup {size}
          /\ \A c \in DOMAIN block : c <= b \/ c >= End(b)
    BY DEF IInv, Tiled, MIN_BLOCK_SIZE, End
  <2>5. Cardinality(Elems(list)) = Len(list)
    <3>1. list \in Seq(Nat) /\ \A i, j \in DOMAIN list : list[i] = list[j] => i = j
      BY DEF IInv, Listed
    <3>2. Len(list) \in Nat /\ DOMAIN list = 1 .. Len(list)
      BY <3>1
    <3>3. IsFiniteSet(1 .. Len(list)) /\ Cardinality(1 .. Len(list)) = Len(list)
      <4>1. ASSUME NEW n \in Nat PROVE IsFiniteSet(1 .. n) /\ Cardinality(1 .. n) = n
        BY FS_Interval
      <4>. QED BY <3>2, <4>1
    <3>4. list \in Bijection(1 .. Len(list), Elems(list))
      <4>1. list \in [1 .. Len(list) -> Elems(list)]
        BY <3>1, <3>2 DEF Elems
      <4>2. \A y \in Elems(list) : \E i \in 1 .. Len(list) : list[i] = y
        BY <3>2 DEF Elems
      <4>. QED BY <3>1, <3>2, <4>1, <4>2
           DEF Bijection, Injection, Surjection, IsInjective
    <3>5. ExistsBijection(1 .. Len(list), Elems(list))
      BY <3>4, Zenon DEF ExistsBijection
    <3>6. Cardinality(Elems(list)) = Cardinality(1 .. Len(list))
      BY <3>3, <3>5, FS_Bijection
    <3>. QED BY <3>3, <3>6
  <2>6. \A x \in held : /\ x.at - HEADER_SIZE \in DOMAIN block
                        /\ block[x.at - HEADER_SIZE].used
                        /\ x.at + x.len <= End(x.at - HEADER_SIZE)
    BY DEF IInv, Owned, HEADER_SIZE, End
  <2>7. Cardinality(held) = Cardinality({b \in DOMAIN block : block[b].used})
    <3>. DEFINE U == {b \in DOMAIN block : block[b].used}
                f == [b \in U |-> CHOOSE x \in held : x.at = b + 1]
    <3>1. IsFiniteSet(U)
      BY <2>0, FS_Subset
    <3>2. ASSUME NEW b \in U PROVE f[b] \in held /\ f[b].at = b + 1 /\ b \in Int
      BY <2>0 DEF IInv, Owned
    <3>3. \A x \in held : /\ x.at \in Int /\ x.at - 1 \in U
                          /\ \A y \in held : x.at = y.at => x = y
      BY DEF IInv, Owned
    <3>4. f = [b \in U |-> f[b]]
      OBVIOUS
    <3>. HIDE DEF f, U
    <3>5. f \in Bijection(U, held)
      <4>1. f \in [U -> held]
        BY <3>2, <3>4
      <4>2. \A b, c \in U : f[b] = f[c] => b = c
        BY <3>2
      <4>3. \A x \in held : \E b \in U : f[b] = x
        <5>. TAKE x \in held
        <5>1. x.at - 1 \in U /\ (x.at - 1) + 1 = x.at
          BY <3>3
        <5>2. f[x.at - 1] = x
          BY <3>2, <3>3, <5>1
        <5>. QED BY <5>1, <5>2
      <4>. QED BY <4>1, <4>2, <4>3
           DEF Bijection, Injection, Surjection, IsInjective
    <3>6. ExistsBijection(U, held)
      BY <3>5, Zenon DEF ExistsBijection
    <3>7. Cardinality(held) = Cardinality(U)
      BY <3>1, <3>6, FS_Bijection
    <3>. QED BY <3>7 DEF U
  <2>. QED BY <2>1, <2>2, <2>3, <2>4, <2>5, <2>6, <2>7 DEF HeapSound
<1>. QED BY <1>1, Invariance, PTL

=============================================================================
