------------------------------ MODULE MyMalloc ------------------------------
(***************************************************************************)
(* The allocator of project 4: first fit on a list of free blocks that is  *)
(* sorted by address.  Addresses and sizes count headers (16 bytes); a     *)
(* block's size does not include its own header.                           *)
(***************************************************************************)
EXTENDS Integers, Sequences, FiniteSets, SequencesExt

CONSTANTS
  HEAP,         \* units in the heap
  Asked         \* sizes that the program asks for

ASSUME HeapAssumption == HEAP \in Nat \ {0} /\ Asked \subseteq Nat

VARIABLES
  fl,           \* free list: addresses of headers and sizes
  live,         \* the program's blocks, oldest first
  clobbered     \* history: a block was given out over one that is in use

myvars == <<fl, live, clobbered>>

HDR == 1
Block_(at, size) == [at |-> at, size |-> size]
Span(b) == b.at..(b.at + HDR + b.size - 1)

\* my_mem_allocator_init()
MyInit == fl = <<Block_(0, HEAP - HDR)>> /\ live = <<>> /\ clobbered = FALSE

-----------------------------------------------------------------------------
\* fl_insert(): before the first block with a larger address.
fl_insert(list, b) ==
  LET k == SelectInSeq(list, LAMBDA x : x.at > b.at)
  IN IF k = 0 THEN Append(list, b) ELSE InsertAt(list, k, b)

\* The blocks that my_malloc() may split.
Fit(n) == {k \in 1..Len(fl) : fl[k].size >= n + HDR}

\* my_malloc(): the list without the first block that fits, with what
\* split() leaves of it.
Split(n) ==
  LET k == CHOOSE k \in Fit(n) : \A j \in Fit(n) : k <= j
      b == fl[k]
  IN [fl |-> fl_insert(RemoveAt(fl, k), Block_(b.at + HDR + n, b.size - (HDR + n))),
      block |-> Block_(b.at, n)]

\* The block that is given out, or the header that split() writes behind it,
\* lies over a block that is in use: from now on the program's data and the
\* headers destroy each other.
Clobbers(n) ==
  LET b == Split(n).block IN
  \E j \in 1..Len(live) : Span(live[j]) \cap (b.at..(b.at + HDR + n)) # {}

my_malloc(n) ==
  /\ Fit(n) # {}
  /\ fl' = Split(n).fl
  /\ live' = Append(live, Split(n).block)
  /\ clobbered' = Clobbers(n)

Adjacent(a, b) == a.at + a.size + HDR = b.at
Joined(a, b) == Block_(a.at, a.size + b.size + HDR)

\* The loop of coalesce(): in round i, block i is joined with its successor if
\* they touch, and the next round goes on with what follows.
JoinAt(l, i) ==
  IF i < Len(l) /\ Adjacent(l[i], l[i + 1])
    THEN ReplaceAt(RemoveAt(l, i + 1), i, Joined(l[i], l[i + 1]))
    ELSE l
JoinPairs(list) ==
  LET round[i \in 0..Len(list)] == IF i = 0 THEN list ELSE JoinAt(round[i - 1], i)
  IN round[Len(list)]

\* Mutant of coalesce: only what touches is joined, in one pass.
coalesceTouching(list) == JoinPairs(list)

\* Its end: the first two blocks become one, wherever they are.
coalesce(list) ==
  LET l == JoinPairs(list) IN
  IF Len(l) > 1 THEN <<Joined(l[1], l[2])>> \o SubSeq(l, 3, Len(l)) ELSE l

my_free(k) ==
  /\ fl' = coalesce(fl_insert(fl, live[k]))
  /\ live' = RemoveAt(live, k)
  /\ UNCHANGED clobbered

\* my_realloc() of block k: a larger one is malloc, copy and free, one that
\* is large enough stays where it is.
my_realloc(k, n) ==
  IF n > live[k].size
    THEN /\ Fit(n) # {}
         /\ fl' = coalesce(fl_insert(Split(n).fl, live[k]))
         /\ live' = Append(RemoveAt(live, k), Split(n).block)
         /\ clobbered' = Clobbers(n)
    ELSE UNCHANGED myvars

\* The program frees and resizes its blocks in any order.  What happens after
\* a block was given out twice is undefined, and is not followed.
MyNext ==
  /\ ~clobbered
  /\ \/ \E n \in Asked : my_malloc(n)
     \/ \E k \in 1..Len(live) : my_free(k)
     \/ \E k \in 1..Len(live), n \in Asked : my_realloc(k, n)
MySpec == MyInit /\ [][MyNext]_myvars

-----------------------------------------------------------------------------
\* A free block's size is its usable space, as my_mem_allocator.h has it: no
\* byte of it belongs to the program or to another block.
FreeIsUsable ==
  /\ \A k \in 1..Len(fl), j \in 1..Len(live) : Span(fl[k]) \cap Span(live[j]) = {}
  /\ \A k, j \in 1..Len(fl) : k # j => Span(fl[k]) \cap Span(fl[j]) = {}
  /\ \A k \in 1..Len(fl) : Span(fl[k]) \subseteq 0..(HEAP - 1)

\* Freed space comes back, in whatever order the blocks are freed and resized
\* (my_free, coalesce): until a block is given out twice, the sizes of what is
\* free and of what is in use add up to the heap, and with nothing in use there
\* is the one free block of my_mem_allocator_init() again.
ComesBack ==
  /\ ~clobbered =>
       LET units(s) == FoldFunction(LAMBDA b, n : HDR + b.size + n, 0, s)
       IN units(fl) + units(live) = HEAP
  /\ ~clobbered /\ live = <<>> => fl = <<Block_(0, HEAP - HDR)>>
=============================================================================
