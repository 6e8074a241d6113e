------------------------------ MODULE UserHeap ------------------------------
(***************************************************************************)
(* The heap of a program: FirstFitHeap of programs/rtlib/src/heap.rs.      *)
(* Memory is counted in units of 8 bytes, the size of a header; a free     *)
(* block keeps the link of the free list in its second unit, so that no    *)
(* block is smaller than two.  Every call runs under the lock FFH and is   *)
(* one step; the kernel's part, resize_heap, is Process.tla's.             *)
(***************************************************************************)
EXTENDS Integers, Sequences, FiniteSets

CONSTANTS
    Grow,           \* INIT_HEAP_SIZE = HEAP_GROW_SIZE: 256 KiB
    Page,           \* the kernel's page
    MaxHeap,        \* bound: the largest heap the kernel grants
    Sizes, Aligns   \* bound: the sizes and alignments asked for

ASSUME UserHeapAssumption ==
    /\ Page \in Nat \ {0}
    /\ Grow \in {n * Page : n \in 1 .. MaxHeap} /\ Grow >= 2
    /\ MaxHeap \in Nat
    /\ Sizes \subseteq Nat /\ Aligns \subseteq Nat \ {0}

VARIABLES
    size,       \* heap_size; 0 before the first call
    block,      \* the headers: offset -> [len, used]
    list,       \* the free list, from free_list_head
    held,       \* the objects of the program: [at, len]
    stopped     \* a panic ended the program

vars == <<size, block, list, held, stopped>>

Init == /\ size = 0 /\ block = <<>> /\ list = <<>>
        /\ held = {}
        /\ stopped = FALSE

HEADER_SIZE    == 1
MIN_BLOCK_SIZE == 2

AlignUp(x, a) == ((x + a - 1) \div a) * a
Elems(s)      == {s[i] : i \in DOMAIN s}

\* The k-th number of a set, and what a sequence has at a set of indices, in
\* its order.
Nth(I, k)  == CHOOSE i \in I : Cardinality({j \in I : j < i}) = k - 1
Kept(s, I) == [k \in 1..Cardinality(I) |-> s[Nth(I, k)]]

SetAll(f, S, v) == [x \in DOMAIN f \cup S |-> IF x \in S THEN v ELSE f[x]]

\* The heap with n more units, a free block at the end of heap and list.
\* init() is the growth of the empty heap.
Heap == [size |-> size, block |-> block, list |-> list]

Grown(h, n) ==
    [size  |-> h.size + n,
     block |-> SetAll(h.block, {h.size}, [len |-> n, used |-> FALSE]),
     list  |-> Append(h.list, h.size)]

Becomes(h) == size' = h.size /\ block' = h.block /\ list' = h.list

-----------------------------------------------------------------------------
(* alloc                                                                   *)

Needed(s, a) == HEADER_SIZE + AlignUp(s, a)

Fits(h, n) == {i \in DOMAIN h.list : h.block[h.list[i]].len >= n}

\* The i-th free block is used: split if the rest can be a block, which then
\* has its place in the list, else as a whole.
Taken(h, i, n) ==
    LET b == h.list[i]
        rest == h.block[b].len - n
    IN  IF rest >= MIN_BLOCK_SIZE
        THEN [h EXCEPT !.list[i] = b + n,
                !.block = SetAll(SetAll(@, {b + n}, [len |-> rest, used |-> FALSE]),
                                 {b}, [len |-> n, used |-> TRUE])]
        ELSE [h EXCEPT !.list = SubSeq(@, 1, i - 1) \o SubSeq(@, i + 1, Len(@)),
                       !.block[b].used = TRUE]

\* The first block that fits; its payload is the program's.
Place(h, n, s) ==
    LET i == CHOOSE i \in Fits(h, n) : \A j \in Fits(h, n) : i <= j IN
    /\ Becomes(Taken(h, i, n))
    /\ held' = held \cup {[at |-> h.list[i] + HEADER_SIZE, len |-> s]}
    /\ UNCHANGED stopped

\* The heap as init() leaves it.
Ready == IF size = 0 THEN Grown(Heap, Grow) ELSE Heap

\* alloc: the heap is made ready, then searched, and if nothing fits it grows
\* by a multiple of Grow and is searched again.
Alloc(s, a) ==
    LET n == Needed(s, a)
        more == AlignUp(n, Grow)
    IN
    /\ ~stopped
    /\ IF s = 0
       THEN Becomes(Ready) /\ UNCHANGED <<held, stopped>> \* answers null
       ELSE IF Fits(Ready, n) # {}
       THEN Place(Ready, n, s)
       ELSE /\ Ready.size + more <= MaxHeap
            /\ Place(Grown(Ready, more), n, s)

\* The kernel refuses a growth alloc cannot do without: resize_heap's answer
\* is then no ProcCtlResizeHeapArgs, which rtlib takes for a bug.
Refuse(s, a) ==
    /\ ~stopped
    /\ size = 0 \/ (s # 0 /\ Fits(Heap, Needed(s, a)) = {})
    /\ stopped' = TRUE
    /\ UNCHANGED <<size, block, list, held>>

-----------------------------------------------------------------------------
(* free and release_unused_memory                                          *)

\* Broken variant: a block is merged with those to its right only.
MergedRight(b) == {c \in Elems(list) \cup {b} :
                    /\ b <= c
                    /\ \A d \in DOMAIN block :
                        b <= d /\ d <= c => d \in Elems(list) \cup {b}}

\* What the two loops of free merge: the free blocks, b among them, with
\* nothing but free blocks between them and b.
Merged(b) == {c \in Elems(list) \cup {b} :
                \A d \in DOMAIN block :
                    (b <= d /\ d <= c) \/ (c <= d /\ d <= b)
                        => d \in Elems(list) \cup {b}}

Sum(S) == LET lo == CHOOSE b \in S : \A c \in S : b <= c
              hi == CHOOSE b \in S : \A c \in S : c <= b
          IN  [at |-> lo, len |-> hi + block[hi].len - lo]

\* free of an object: one free block takes the place of those merged, at the
\* head of the list.
Free(x) ==
    LET run == Merged(x.at - HEADER_SIZE)
        all == Sum(run)
    IN
    /\ ~stopped
    /\ block' = [b \in (DOMAIN block \ run) \cup {all.at} |->
                    IF b = all.at THEN [len |-> all.len, used |-> FALSE]
                    ELSE block[b]]
    /\ list' = <<all.at>> \o Kept(list, {i \in DOMAIN list : list[i] \notin run})
    /\ held' = held \ {x}
    /\ UNCHANGED <<size, stopped>>

\* A last free block at the heap's end that is larger than Grow loses its
\* excess, in whole pages.
Release ==
    LET last == CHOOSE b \in Elems(list) : \A c \in Elems(list) : c <= b
        excess == block[last].len - Grow
        n == (excess \div Page) * Page
    IN
    /\ ~stopped /\ list # <<>>
    /\ last + block[last].len = size /\ excess > 0
    /\ size' = size - n
    /\ block' = [block EXCEPT ![last].len = @ - n]
    /\ UNCHANGED <<list, held, stopped>>

Next == \/ \E s \in Sizes, a \in Aligns : Alloc(s, a) \/ Refuse(s, a)
        \/ \E x \in held : Free(x)
        \/ Release

Spec == Init /\ [][Next]_vars

-----------------------------------------------------------------------------
(* Properties                                                              *)

End(b) == b + block[b].len

\* Free memory never falls apart: no two free blocks touch, although a new
\* block at the heap's end is not merged with a free one before it.  So a
\* program that frees everything is left with one block.
Coalesced == \A b \in Elems(list) : End(b) \notin Elems(list)

\* The blocks tile the heap, the free list holds exactly the free ones, once,
\* each with room for its link, and the used ones are the program's objects,
\* each in a block of its own that is large enough.  None of the checks that
\* panic (set_header, next_free_block, release's) can then fail.
HeapSound ==
    /\ Coalesced
    /\ size > 0 => 0 \in DOMAIN block
    /\ \A b \in DOMAIN block :
        /\ block[b].len >= MIN_BLOCK_SIZE
        /\ End(b) \in DOMAIN block \cup {size}
        /\ \A c \in DOMAIN block : c <= b \/ c >= End(b)
    /\ Elems(list) = {b \in DOMAIN block : ~block[b].used}
    /\ Cardinality(Elems(list)) = Len(list)
    /\ \A x \in held : /\ x.at - HEADER_SIZE \in DOMAIN block
                       /\ block[x.at - HEADER_SIZE].used
                       /\ x.at + x.len <= End(x.at - HEADER_SIZE)
    /\ Cardinality(held) = Cardinality({b \in DOMAIN block : block[b].used})
=============================================================================
