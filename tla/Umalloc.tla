------------------------------ MODULE Umalloc ------------------------------
(***************************************************************************)
(* malloc() and free() of umalloc.c: a ring of free blocks in the order of *)
(* their addresses, with the empty block base below the heap.  Addresses   *)
(* and sizes count headers; a block's size includes its own.               *)
(***************************************************************************)
EXTENDS Integers, FiniteSets

CONSTANTS
  CHUNK,        \* least number of units that morecore() asks for
  LIMIT,        \* units that sbrk() will give
  Requests      \* sizes that the program asks for, in units, header included

ASSUME UnitsAssumption == CHUNK \in Nat /\ LIMIT \in Nat /\ Requests \subseteq Nat \ {0}

VARIABLES
  heap,         \* ptr and size of every header, freep, and the break
  owned         \* blocks of the program: header -> units

umvars == <<heap, owned>>

base == 0
NULL == -1
Units == 1..LIMIT
Headers == 0..LIMIT

UmInit ==
  /\ heap = [ptr |-> [a \in Headers |-> base], size |-> [a \in Headers |-> 0],
             freep |-> NULL, brk |-> 1]
  /\ owned = [a \in {} |-> 0]

-----------------------------------------------------------------------------
\* The free list from a header on.
Walk(h, start) ==
  LET at[k \in 0..(LIMIT + 1)] == IF k = 0 THEN start ELSE h.ptr[at[k - 1]]
  IN at

\* The first k for which a walk meets a condition.
FirstAt(walk, Meets(_)) ==
  CHOOSE k \in DOMAIN walk :
    Meets(walk[k]) /\ \A j \in 0..(k - 1) : ~Meets(walk[j])

\* A header that is none any more: what it holds is never read again, and is
\* cleared here to keep states apart by what matters.
Gone(h, a) == [h EXCEPT !.ptr[a] = base, !.size[a] = 0]

\* A block belongs behind p: between two blocks, or at an end of the heap.
Belongs(h, bp, p) ==
  \/ bp > p /\ bp < h.ptr[p]
  \/ p >= h.ptr[p] /\ (bp > p \/ bp < h.ptr[p])

\* Mutant of JoinUpper: the upper neighbour stays in the list.
JoinUpperTwice(h, bp, p) ==
  IF bp + h.size[bp] = h.ptr[p]
    THEN [h EXCEPT !.size[bp] = @ + h.size[h.ptr[p]], !.ptr[bp] = h.ptr[p]]
    ELSE [h EXCEPT !.ptr[bp] = h.ptr[p]]

\* free(): join with the block above, then with the one below.
JoinUpper(h, bp, p) ==
  IF bp + h.size[bp] = h.ptr[p]
    THEN Gone([h EXCEPT !.size[bp] = @ + h.size[h.ptr[p]], !.ptr[bp] = h.ptr[h.ptr[p]]],
              h.ptr[p])
    ELSE [h EXCEPT !.ptr[bp] = h.ptr[p]]

JoinLower(h, bp, p) ==
  IF p + h.size[p] = bp
    THEN Gone([h EXCEPT !.size[p] = @ + h.size[bp], !.ptr[p] = h.ptr[bp], !.freep = p],
              bp)
    ELSE [h EXCEPT !.ptr[p] = bp, !.freep = p]

FreeBlock(h, bp) ==
  LET walk == Walk(h, h.freep)
      p == walk[FirstAt(walk, LAMBDA q : Belongs(h, bp, q))]
  IN JoinLower(JoinUpper(h, bp, p), bp, p)

\* morecore(): a chunk behind the break becomes a free block.
CanGrow(h, nu) == h.brk + nu <= LIMIT + 1
Morecore(h, n) ==
  LET nu == IF n < CHUNK THEN CHUNK ELSE n
      hp == h.brk
  IN FreeBlock([h EXCEPT !.brk = @ + nu, !.size[hp] = nu], hp)

\* The ring, from the block behind freep round to freep itself.
Ring(h) == LET w == Walk(h, h.ptr[h.freep])
               n == FirstAt(w, LAMBDA q : q = h.freep)
           IN {w[k] : k \in 0..n}
Fits(h, n) == \E p \in Ring(h) : h.size[p] >= n

\* malloc() when a block is large enough: the first one gives its tail.
FirstFit(h, n) ==
  LET w == Walk(h, h.ptr[h.freep])
      k == FirstAt(w, LAMBDA q : h.size[q] >= n)
      p == w[k]
      prevp == IF k = 0 THEN h.freep ELSE w[k - 1]
      rest == h.size[p] - n
  IN IF rest = 0
       THEN [at |-> p, heap |-> [h EXCEPT !.ptr[prevp] = h.ptr[p], !.ptr[p] = base,
                                          !.freep = prevp]]
       ELSE [at |-> p + rest,
             heap |-> [h EXCEPT !.size[p] = rest, !.size[p + rest] = n,
                                !.freep = prevp]]

\* The ring that malloc() starts with.
Started(h) == IF h.freep = NULL THEN [h EXCEPT !.freep = base] ELSE h

malloc(n) ==
  LET h == Started(heap)
      grown == IF Fits(h, n) THEN h ELSE Morecore(h, n)
      t == FirstFit(grown, n)
  IN
  \/ /\ Fits(h, n) \/ CanGrow(h, IF n < CHUNK THEN CHUNK ELSE n)
     /\ heap' = t.heap
     /\ owned' = [a \in DOMAIN owned \cup {t.at} |-> IF a = t.at THEN n ELSE owned[a]]
  \/ /\ ~Fits(h, n) /\ ~CanGrow(h, IF n < CHUNK THEN CHUNK ELSE n)
     /\ heap' = h /\ UNCHANGED owned

free(a) ==
  /\ heap' = FreeBlock(heap, a)
  /\ owned' = [b \in DOMAIN owned \ {a} |-> owned[b]]

UmNext == (\E n \in Requests : malloc(n)) \/ (\E a \in DOMAIN owned : free(a))
UmSpec == UmInit /\ [][UmNext]_umvars

-----------------------------------------------------------------------------
\* Free blocks, base aside.
FreeList == IF heap.freep = NULL THEN {} ELSE Ring(heap) \ {base}
Range_(a, n) == a..(a + n - 1)

\* Every unit below the break is in exactly one block, free or the program's:
\* malloc() never gives out what somebody has, and free() loses nothing.
Partition ==
  /\ \A u \in 1..(heap.brk - 1) :
       Cardinality({a \in FreeList : u \in Range_(a, heap.size[a])})
       + Cardinality({a \in DOMAIN owned : u \in Range_(a, owned[a])}) = 1
  /\ \A a \in DOMAIN owned : heap.size[a] = owned[a]

\* free() joins all neighbours: no free block ends where another begins, so
\* whatever is free is available to a request of its whole size.
Coalesced ==
  \A a, b \in FreeList : a + heap.size[a] # b
=============================================================================
