---------------------------- MODULE MemoryProofs ----------------------------
(***************************************************************************)
(* Proofs about the two ways the kernel hands memory out: the buffers of   *)
(* the block cache (Buf) and the pages of processes (Vm).                  *)
(***************************************************************************)
EXTENDS Buf, Vm, Numbers, FiniteSetTheorems

(***************************************************************************)
(* Proofs about Buf, for any number of processes, blocks and buffers, with *)
(* and without read errors.  BufInv is the inductive invariant:            *)
(*   References  the counts are exact, and a buffer that is referred to    *)
(*               keeps its block;                                          *)
(*   LockOwners  a locked buffer has one owner;                            *)
(*   Ordered     who waits for a lock holds blocks of lower levels only;   *)
(*   Flags       what bread() has returned is valid, and what the disk has *)
(*               done is clean;                                            *)
(*   Queue       the requests are those of the processes that sleep;       *)
(*   Data        what is valid in the cache, and on disk what is not dirty *)
(*               in the cache, was written last.                           *)
(***************************************************************************)

BufPlaces == {"idle", "panic", "acquiresleep", "sleeplock", "iderw", "sleepdisk",
           "wakedisk", "brelse"}

\* Where a process owns the sleep lock of the buffer it is at.
Busy == {"iderw", "sleepdisk", "wakedisk"}
\* Where it waits for one.
Waiting == {"acquiresleep", "sleeplock"}

BufType ==
  [block : Blocks \cup {NoBlock}, refcnt : Nat, valid : BOOLEAN,
   dirty : BOOLEAN, data : Values, locked : BOOLEAN]
PcType == [at : BufPlaces, b : Bufs \cup {Nil}, k : Blocks \cup {NoBlock}]
HeldType == [Procs -> [Blocks -> Bufs \cup {Nil}]]

TypeOK ==
  /\ lru \in [Bufs -> Bufs] /\ \A b \in Bufs : \E i \in Bufs : lru[i] = b
  /\ buf \in [Bufs -> BufType]
  /\ idequeue \in Seq(Bufs)
  /\ device \in {"idle", "busy", "interrupt"}
  /\ disk \in [Blocks -> Values] /\ latest \in [Blocks -> Values]
  /\ io \in [Procs -> PcType]
  /\ held \in HeldType
  /\ bad \subseteq Bufs

\* The buffers of one process.
ProcRefs(p) ==
  /\ io[p].b = Nil <=> io[p].at \in {"idle", "panic"}
  /\ io[p].b # Nil => /\ io[p].k \in Blocks /\ buf[io[p].b].block = io[p].k
                      /\ held[p][io[p].k] = Nil
  /\ \A k \in Blocks : held[p][k] # Nil => buf[held[p][k]].block = k

References ==
  /\ \A b \in Bufs : buf[b].refcnt = Cardinality(RefersTo(b))
  /\ \A p \in Procs : ProcRefs(p)
  /\ \A b, c \in Bufs :
       b # c /\ buf[b].block = buf[c].block => buf[b].block = NoBlock

LockOwners ==
  /\ \A p \in Procs, b \in Bufs : Owns(p, b) => buf[b].locked = TRUE
  /\ \A p \in Procs : io[p].at = "sleeplock" => buf[io[p].b].locked = TRUE
  /\ \A p, q \in Procs, b \in Bufs : Owns(p, b) /\ Owns(q, b) => p = q
  /\ \A b \in Bufs : buf[b].locked = TRUE => \E p \in Procs : Owns(p, b)

Ordered ==
  \A p \in Procs, j \in Blocks :
    io[p].at \in Waiting /\ held[p][j] # Nil => Level(j) < Level(io[p].k)

Flags ==
  /\ \A p \in Procs : io[p].at = "wakedisk" =>
       buf[io[p].b].valid = TRUE /\ buf[io[p].b].dirty = FALSE
  /\ \A p \in Procs, k \in Blocks : held[p][k] # Nil => buf[held[p][k]].valid = TRUE

Queue ==
  /\ \A p \in Procs : io[p].at = "sleepdisk" =>
       \E i \in 1..Len(idequeue) : idequeue[i] = io[p].b
  /\ \A i \in 1..Len(idequeue) :
       \E p \in Procs : io[p].at = "sleepdisk" /\ io[p].b = idequeue[i]
  /\ \A i, j \in 1..Len(idequeue) : idequeue[i] = idequeue[j] => i = j
  /\ device = "idle" <=> idequeue = <<>>

Data ==
  /\ \A b \in Bufs :
       buf[b].valid = TRUE /\ b \notin bad /\ buf[b].block # NoBlock =>
         buf[b].data = latest[buf[b].block]
  /\ \A b \in Bufs : buf[b].dirty = TRUE => buf[b].valid = TRUE /\ b \notin bad
  /\ \A k \in Blocks :
       disk[k] = latest[k] \/ \E b \in Bufs : buf[b].block = k /\ buf[b].dirty = TRUE
  /\ device = "interrupt" /\ buf[Head(idequeue)].dirty = TRUE =>
       disk[buf[Head(idequeue)].block] = buf[Head(idequeue)].data

BufInv == TypeOK /\ References /\ LockOwners /\ Ordered /\ Flags /\ Queue /\ Data

-----------------------------------------------------------------------------
(* What the actions change, process by process and buffer by buffer.       *)

\* A process comes to a buffer, or leaves it.
LEMMA MoveTo ==
  ASSUME TypeOK, NEW p \in Procs, NEW r \in PcType, io' = [io EXCEPT ![p] = r]
  PROVE  /\ io' \in [Procs -> PcType]
         /\ io'[p] = r
         /\ \A q \in Procs : q # p => io'[q] = io[q]
  BY DEF TypeOK

\* A process goes on with the same buffer.
LEMMA MoveAt ==
  ASSUME TypeOK, NEW p \in Procs, NEW to \in BufPlaces, io' = [io EXCEPT ![p].at = to]
  PROVE  /\ io' \in [Procs -> PcType]
         /\ io'[p].at = to
         /\ \A q \in Procs : io'[q].b = io[q].b /\ io'[q].k = io[q].k
         /\ \A q \in Procs : q # p => io'[q] = io[q]
  <1>1. io \in [Procs -> PcType]
    BY DEF TypeOK
  <1> QED
    BY <1>1 DEF PcType

\* One buffer changes.
LEMMA ChangeOne ==
  ASSUME TypeOK, NEW b \in Bufs, NEW r \in BufType, buf' = [buf EXCEPT ![b] = r]
  PROVE  /\ buf' \in [Bufs -> BufType]
         /\ buf'[b] = r
         /\ \A c \in Bufs : c # b => buf'[c] = buf[c]
  BY DEF TypeOK

\* wakeup() moves those who sleep on the buffer, and keeps everybody's buffer.
LEMMA MoveAll ==
  ASSUME NEW at \in [Procs -> PcType], NEW from, NEW b, NEW to \in BufPlaces
  PROVE  /\ Move(at, from, b, to) \in [Procs -> PcType]
         /\ \A q \in Procs :
              LET r == Move(at, from, b, to)[q] IN
              /\ r.b = at[q].b /\ r.k = at[q].k
              /\ r.at = (IF at[q].at = from /\ at[q].b = b THEN to ELSE at[q].at)
  BY DEF Move, PcType

\* Buffers and blocks have numbers that are not 0.
LEMMA NotNil ==
  ASSUME Sizes
  PROVE  Nil \notin Bufs /\ NoBlock \notin Blocks
  BY DEF Sizes, Bufs, Nil, NoBlock

\* The buffer a process is at, if it is at one.
LEMMA HasBuf ==
  ASSUME TypeOK, References, NEW p \in Procs, io[p].at \notin {"idle", "panic"}
  PROVE  /\ io[p].b \in Bufs /\ io[p].b # Nil /\ io[p].k \in Blocks
         /\ buf[io[p].b].block = io[p].k
         /\ held[p][io[p].k] = Nil
  <1>1. ProcRefs(p) /\ io[p] \in PcType
    BY DEF TypeOK, References
  <1> QED
    BY <1>1 DEF PcType, ProcRefs

\* A buffer a process holds.
LEMMA HoldsBuf ==
  ASSUME TypeOK, References, NEW p \in Procs, NEW k \in Blocks, held[p][k] # Nil
  PROVE  /\ held[p][k] \in Bufs /\ buf[held[p][k]].block = k
         /\ buf[held[p][k]] \in BufType /\ Owns(p, held[p][k])
  <1>1. ProcRefs(p) /\ held[p][k] \in Bufs
    BY DEF TypeOK, References, HeldType
  <1> QED
    BY <1>1 DEF ProcRefs, TypeOK, Owns

\* A process is not at a buffer that it holds, and holds it once.
LEMMA HeldApart ==
  ASSUME Sizes, TypeOK, References, NEW p \in Procs, NEW b \in Bufs, io[p].b = b,
         NEW k \in Blocks
  PROVE  held[p][k] # b
  <1>1. b # Nil
    BY NotNil
  <1>2. ProcRefs(p)
    BY DEF References
  <1> QED
    BY <1>1, <1>2 DEF ProcRefs

\* A buffer without users has a count of 0, and no other has.
LEMMA NoUsers ==
  ASSUME Sizes, References, NEW b \in Bufs
  PROVE  /\ IsFiniteSet(RefersTo(b))
         /\ buf[b].refcnt = 0 <=> RefersTo(b) = {}
  <1>1. RefersTo(b) \subseteq Procs
    BY DEF RefersTo
  <1>2. IsFiniteSet(RefersTo(b))
    BY <1>1, FS_Subset DEF Sizes
  <1>3. Cardinality(RefersTo(b)) = 0 <=> RefersTo(b) = {}
    BY <1>2, FS_EmptySet
  <1>4. buf[b].refcnt = Cardinality(RefersTo(b))
    BY DEF References
  <1> QED
    BY <1>2, <1>3, <1>4

\* bget() recycles the last unused buffer of the list.
LEMMA OldestUnused ==
  ASSUME Sizes, TypeOK, NEW S, S \subseteq Bufs, S # {}
  PROVE  Oldest(S) \in S
  <1> DEFINE I == {i \in Bufs : lru[i] \in S}
  <1>1. PICK b \in S : TRUE
    OBVIOUS
  <1>2. PICK i \in Bufs : lru[i] = b
    BY <1>1 DEF TypeOK
  <1>3. I # {} /\ I \subseteq 1..NBUF /\ NBUF \in Nat
    BY <1>1, <1>2 DEF Bufs, Sizes
  <1>4. \E j \in I : \A m \in I : m <= j
    <2> DEFINE T == {NBUF - m : m \in I}
    <2>1. T \subseteq Nat /\ T # {}
      BY <1>3
    <2>2. PICK n \in T : \A m \in T : n <= m
      BY <2>1, LeastNumber, Zenon
    <2>3. PICK j \in I : n = NBUF - j
      BY <2>2
    <2>4. ASSUME NEW m \in I PROVE m <= j
      <3>1. NBUF - m \in T /\ m \in 1..NBUF /\ j \in 1..NBUF
        BY <1>3
      <3>2. NBUF - j <= NBUF - m
        BY <2>2, <2>3, <3>1
      <3> QED
        BY <1>3, <3>1, <3>2
    <2> QED
      BY <2>4
  <1>5. \E j \in Bufs : lru[j] \in S /\ \A m \in (j + 1)..NBUF : lru[m] \notin S
    <2>1. PICK j \in I : \A m \in I : m <= j
      BY <1>4
    <2>2. j \in Bufs /\ j \in 1..NBUF /\ lru[j] \in S
      BY <2>1 DEF Bufs
    <2>3. ASSUME NEW m \in (j + 1)..NBUF PROVE lru[m] \notin S
      <3>1. m \in Bufs /\ ~(m <= j)
        BY <1>3, <2>2 DEF Bufs
      <3> QED
        BY <2>1, <3>1
    <2> QED
      BY <2>2, <2>3
  <1> QED
    BY <1>5 DEF Oldest

\* Putting a buffer in front keeps every buffer in the list.
LEMMA InFrontType ==
  ASSUME Sizes, TypeOK, NEW b \in Bufs
  PROVE  /\ InFront(b) \in [Bufs -> Bufs]
         /\ \A c \in Bufs : \E i \in Bufs : InFront(b)[i] = c
  <1> DEFINE a == CHOOSE i \in Bufs : lru[i] = b
             f == InFront(b)
  <1>1. a \in Bufs /\ lru[a] = b
    BY DEF TypeOK
  <1> HIDE DEF a
  <1>2. f = [i \in Bufs |-> IF i = 1 THEN b ELSE IF i <= a THEN lru[i - 1] ELSE lru[i]]
    BY DEF InFront, a
  <1> HIDE DEF f
  <1>3. NBUF \in Nat /\ 1 \in Bufs /\ \A i \in Bufs : i \in 1..NBUF
    BY DEF Sizes, Bufs
  <1>4. f \in [Bufs -> Bufs]
    <2>1. ASSUME NEW i \in Bufs
          PROVE  (IF i = 1 THEN b ELSE IF i <= a THEN lru[i - 1] ELSE lru[i]) \in Bufs
      <3>1. i # 1 => i - 1 \in Bufs
        BY <1>3 DEF Bufs
      <3> QED
        BY <3>1 DEF TypeOK
    <2> QED
      BY <1>2, <2>1
  <1>5. ASSUME NEW c \in Bufs PROVE \E i \in Bufs : f[i] = c
    <2>1. PICK j \in Bufs : lru[j] = c
      BY DEF TypeOK
    <2>2. CASE c = b
      BY <1>2, <1>3, <2>2
    <2>3. CASE c # b /\ j < a
      <3>1. j + 1 \in Bufs /\ j + 1 # 1 /\ j + 1 <= a /\ (j + 1) - 1 = j
        BY <1>1, <1>3, <2>1, <2>3 DEF Bufs
      <3>2. f[j + 1] = lru[(j + 1) - 1]
        BY <1>2, <3>1
      <3> QED
        BY <2>1, <3>1, <3>2
    <2>4. CASE c # b /\ ~(j < a)
      <3>1. j # a /\ j # 1 /\ ~(j <= a)
        BY <1>1, <1>3, <2>1, <2>4 DEF Bufs
      <3> QED
        BY <1>2, <2>1, <3>1
    <2> QED
      BY <2>2, <2>3, <2>4
  <1> QED
    BY <1>4, <1>5 DEF f

\* Nobody comes to a buffer and nobody leaves one: the counts stay right.
LEMMA ReferencesSame ==
  ASSUME References,
         \A q \in Procs, c \in Bufs : (q \in RefersTo(c))' <=> q \in RefersTo(c),
         \A q \in Procs : ProcRefs(q)',
         \A c \in Bufs : buf'[c].refcnt = buf[c].refcnt /\ buf'[c].block = buf[c].block
  PROVE  References'
  <1>1. \A c \in Bufs : RefersTo(c)' = RefersTo(c)
    BY DEF RefersTo
  <1> QED
    BY <1>1 DEF References

\* The buffers of a process that stays where it is, when they keep their blocks.
LEMMA ProcRefsSame ==
  ASSUME TypeOK, References, NEW q \in Procs, held'[q] = held[q],
         io'[q].b = io[q].b, io'[q].k = io[q].k,
         io'[q].at \in {"idle", "panic"} <=> io[q].at \in {"idle", "panic"},
         \A c \in Bufs : q \in RefersTo(c) => buf'[c].block = buf[c].block
  PROVE  ProcRefs(q)'
  <1>1. ProcRefs(q) /\ io[q] \in PcType /\ held[q] \in [Blocks -> Bufs \cup {Nil}]
    BY DEF References, TypeOK, HeldType
  <1>2. io[q].b # Nil => io[q].b \in Bufs /\ q \in RefersTo(io[q].b)
    BY <1>1 DEF RefersTo, PcType
  <1>3. \A k \in Blocks : held[q][k] # Nil => held[q][k] \in Bufs /\ q \in RefersTo(held[q][k])
    BY <1>1 DEF RefersTo
  <1> QED
    BY <1>1, <1>2, <1>3 DEF ProcRefs

\* Nobody takes a lock and nobody gives one back: the owners stay the same.
LEMMA OwnersSame ==
  ASSUME TypeOK, References, LockOwners,
         \A q \in Procs, c \in Bufs : Owns(q, c)' <=> Owns(q, c),
         \A q \in Procs : io'[q].at = "sleeplock" =>
           io[q].at = "sleeplock" /\ io'[q].b = io[q].b,
         \A c \in Bufs : buf'[c].locked = buf[c].locked
  PROVE  LockOwners'
  <1>1. ASSUME NEW q \in Procs, io'[q].at = "sleeplock" PROVE buf'[io'[q].b].locked = TRUE
    <2>1. io[q].at = "sleeplock" /\ io'[q].b = io[q].b
      BY <1>1
    <2>2. io[q].b \in Bufs /\ buf[io[q].b].locked = TRUE
      BY <2>1, HasBuf DEF LockOwners
    <2> QED
      BY <2>1, <2>2
  <1>2. \A q \in Procs, c \in Bufs : Owns(q, c)' => buf'[c].locked = TRUE
    BY DEF LockOwners
  <1>3. \A q, w \in Procs, c \in Bufs : Owns(q, c)' /\ Owns(w, c)' => q = w
    BY DEF LockOwners
  <1>4. \A c \in Bufs : buf'[c].locked = TRUE => \E q \in Procs : Owns(q, c)'
    BY DEF LockOwners
  <1> QED
    BY <1>1, <1>2, <1>3, <1>4 DEF LockOwners

\* Nobody begins to wait, and who waits gets nothing new.
LEMMA OrderedSame ==
  ASSUME Ordered,
         \A q \in Procs : io'[q].at \in Waiting =>
           io[q].at \in Waiting /\ io'[q].k = io[q].k /\ held'[q] = held[q]
  PROVE  Ordered'
  BY DEF Ordered

\* Nobody gets a buffer, and the flags of the buffers held stay.
LEMMA FlagsSame ==
  ASSUME TypeOK, References, Flags,
         \A q \in Procs : io'[q].at = "wakedisk" =>
           io[q].at = "wakedisk" /\ io'[q].b = io[q].b,
         \A q \in Procs, j \in Blocks : held'[q][j] # Nil => held'[q][j] = held[q][j],
         \A c \in Bufs : /\ buf[c].valid = TRUE => buf'[c].valid = TRUE
                         /\ buf[c].dirty = FALSE => buf'[c].dirty = FALSE
  PROVE  Flags'
  <1>1. ASSUME NEW q \in Procs, io'[q].at = "wakedisk"
        PROVE  buf'[io'[q].b].valid = TRUE /\ buf'[io'[q].b].dirty = FALSE
    <2>1. io[q].at = "wakedisk" /\ io'[q].b = io[q].b
      BY <1>1
    <2>2. io[q].b \in Bufs /\ buf[io[q].b].valid = TRUE /\ buf[io[q].b].dirty = FALSE
      BY <2>1, HasBuf DEF Flags
    <2> QED
      BY <2>1, <2>2
  <1>2. ASSUME NEW q \in Procs, NEW j \in Blocks, held'[q][j] # Nil
        PROVE  buf'[held'[q][j]].valid = TRUE
    <2>1. held'[q][j] = held[q][j] /\ held[q][j] # Nil
      BY <1>2
    <2>2. held[q][j] \in Bufs /\ buf[held[q][j]].valid = TRUE
      BY <2>1, HoldsBuf DEF Flags
    <2> QED
      BY <2>1, <2>2
  <1> QED
    BY <1>1, <1>2 DEF Flags

\* The queue stays, and those who wait for it.
LEMMA QueueSame ==
  ASSUME Queue, UNCHANGED <<idequeue, device>>,
         \A q \in Procs : /\ io'[q].at = "sleepdisk" <=> io[q].at = "sleepdisk"
                          /\ io[q].at = "sleepdisk" => io'[q].b = io[q].b
  PROVE  Queue'
  BY DEF Queue

\* A buffer at the disk belongs to a process that sleeps until it is done.
LEMMA HeadUsed ==
  ASSUME TypeOK, References, Queue, idequeue # <<>>
  PROVE  \E q \in Procs : /\ io[q].at = "sleepdisk" /\ io[q].b = Head(idequeue)
                          /\ Head(idequeue) \in Bufs /\ buf[io[q].b].block \in Blocks
                          /\ Owns(q, Head(idequeue)) /\ q \in RefersTo(Head(idequeue))
  <1>1. Head(idequeue) = idequeue[1] /\ 1 \in 1..Len(idequeue)
    BY DEF TypeOK
  <1>2. PICK q \in Procs : io[q].at = "sleepdisk" /\ io[q].b = idequeue[1]
    BY <1>1 DEF Queue
  <1>3. io[q].b \in Bufs /\ buf[io[q].b].block \in Blocks
    BY <1>2, HasBuf
  <1>4. Owns(q, Head(idequeue)) /\ q \in RefersTo(Head(idequeue))
    BY <1>1, <1>2 DEF Owns, RefersTo
  <1> QED
    BY <1>1, <1>2, <1>3, <1>4

\* The contents of the buffers and of the disk stay.
LEMMA DataSame ==
  ASSUME TypeOK, References, Queue, Data, UNCHANGED <<idequeue, device, disk, latest, bad>>,
         \A c \in Bufs : /\ buf'[c].block = buf[c].block /\ buf'[c].valid = buf[c].valid
                         /\ buf'[c].dirty = buf[c].dirty /\ buf'[c].data = buf[c].data
  PROVE  Data'
  <1>1. device = "interrupt" => Head(idequeue) \in Bufs
    BY HeadUsed DEF Queue
  <1> QED
    BY <1>1 DEF Data

\* bget() recycles an unused buffer.
LEMMA RecycleEffect ==
  ASSUME Sizes, TypeOK, NEW p \in Procs, NEW k \in Blocks, Recycle(p, k), Unused # {}
  PROVE  \E b \in Unused :
           Take(p, k, b, [buf[b] EXCEPT !.block = k, !.refcnt = 1,
                                        !.valid = FALSE, !.dirty = FALSE])
  <1>1. Unused \subseteq Bufs
    BY DEF Unused
  <1>2. Oldest(Unused) \in Unused
    BY <1>1, OldestUnused
  <1> QED
    BY <1>2, ZenonT(30) DEF Recycle

-----------------------------------------------------------------------------
(* Every action keeps the invariant.                                       *)

\* A process begins to wait for a buffer: it holds blocks of lower levels only,
\* and so not this one.
LEMMA AskEffect ==
  ASSUME Sizes, BufInv, NEW p \in Procs, NEW k \in Blocks, MayAsk(p, k), NEW b \in Bufs,
         io' = [io EXCEPT ![p] = [at |-> "acquiresleep", b |-> b, k |-> k]],
         UNCHANGED <<held, idequeue, device>>
  PROVE  /\ io' \in [Procs -> PcType]
         /\ io'[p].at = "acquiresleep" /\ io'[p].b = b /\ io'[p].k = k
         /\ \A q \in Procs : q # p => io'[q] = io[q]
         /\ io[p].b = Nil /\ io[p].at = "idle" /\ held[p][k] = Nil
         /\ \A q \in Procs, c \in Bufs : Owns(q, c)' <=> Owns(q, c)
         /\ \A c \in Bufs : c # b => RefersTo(c)' = RefersTo(c)
         /\ RefersTo(b)' = RefersTo(b) \cup {p}
         /\ Ordered' /\ Queue'
  <1>0. TypeOK /\ References /\ Ordered /\ Queue
    BY DEF BufInv
  <1>n. Nil \notin Bufs
    BY NotNil
  <1>1. io[p].at = "idle" /\ \A j \in Blocks : held[p][j] # Nil => Level(j) < Level(k)
    BY DEF MayAsk
  <1>2. io[p].b = Nil
    BY <1>0, <1>1 DEF References, ProcRefs
  <1>3. held[p][k] = Nil
    <2>1. ~(Level(k) < Level(k))
      BY DEF Level
    <2> QED
      BY <1>1, <2>1
  <1>4. [at |-> "acquiresleep", b |-> b, k |-> k] \in PcType
    BY DEF PcType, BufPlaces
  <1>5. /\ io' \in [Procs -> PcType]
        /\ io'[p].at = "acquiresleep" /\ io'[p].b = b /\ io'[p].k = k
        /\ \A q \in Procs : q # p => io'[q] = io[q]
    BY <1>0, <1>4, MoveTo
  <1>6. ASSUME NEW q \in Procs, NEW c \in Bufs PROVE Owns(q, c)' <=> Owns(q, c)
    <2>1. CASE q = p
      <3>1. io'[q].at \notin {"iderw", "sleepdisk", "wakedisk"} /\ io[q].b # c
        BY <1>2, <1>5, <1>n, <2>1
      <3> QED
        BY <3>1 DEF Owns
    <2>2. CASE q # p
      BY <1>5, <2>2 DEF Owns
    <2> QED
      BY <2>1, <2>2
  <1>7. ASSUME NEW c \in Bufs, c # b PROVE RefersTo(c)' = RefersTo(c)
    <2>1. \A q \in Procs : io'[q].b = c <=> io[q].b = c
      BY <1>2, <1>5, <1>n, <1>7
    <2> QED
      BY <2>1 DEF RefersTo
  <1>8. RefersTo(b)' = RefersTo(b) \cup {p}
    <2>1. \A q \in Procs : q # p => (io'[q].b = b <=> io[q].b = b)
      BY <1>5
    <2> QED
      BY <1>5, <2>1 DEF RefersTo
  <1>9. Ordered'
    <2>1. ASSUME NEW q \in Procs, NEW j \in Blocks, io'[q].at \in Waiting, held'[q][j] # Nil
          PROVE  Level(j) < Level(io'[q].k)
      <3>1. CASE q = p
        BY <1>1, <1>5, <2>1, <3>1
      <3>2. CASE q # p
        BY <1>0, <1>5, <2>1, <3>2 DEF Ordered
      <3> QED
        BY <3>1, <3>2
    <2> QED
      BY <2>1 DEF Ordered, Level
  <1>10. Queue'
    <2>1. \A q \in Procs : /\ io'[q].at = "sleepdisk" <=> io[q].at = "sleepdisk"
                           /\ io[q].at = "sleepdisk" => io'[q].b = io[q].b
      BY <1>1, <1>5
    <2> QED
      BY <1>0, <2>1, QueueSame
  <1> QED
    BY <1>1, <1>2, <1>3, <1>5, <1>6, <1>7, <1>8, <1>9, <1>10

\* bget() in the cache.
LEMMA HitStep ==
  ASSUME Sizes, BufInv, NEW p \in Procs, NEW k \in Blocks, MayAsk(p, k),
         NEW b \in Cached(k), Take(p, k, b, [buf[b] EXCEPT !.refcnt = @ + 1]),
         UNCHANGED <<lru, idequeue, device, disk, held, latest, bad>>
  PROVE  BufInv'
  <1>0. TypeOK /\ References /\ LockOwners /\ Ordered /\ Flags /\ Queue /\ Data
    BY DEF BufInv
  <1>1. /\ b \in Bufs /\ buf[b].block = k
        /\ buf' = [buf EXCEPT ![b] = [buf[b] EXCEPT !.refcnt = @ + 1]]
        /\ io' = [io EXCEPT ![p] = [at |-> "acquiresleep", b |-> b, k |-> k]]
    BY DEF Take, Cached
  <1>2. /\ io' \in [Procs -> PcType]
        /\ io'[p].at = "acquiresleep" /\ io'[p].b = b /\ io'[p].k = k
        /\ \A q \in Procs : q # p => io'[q] = io[q]
        /\ io[p].b = Nil /\ io[p].at = "idle" /\ held[p][k] = Nil
        /\ \A q \in Procs, c \in Bufs : Owns(q, c)' <=> Owns(q, c)
        /\ \A c \in Bufs : c # b => RefersTo(c)' = RefersTo(c)
        /\ RefersTo(b)' = RefersTo(b) \cup {p}
        /\ Ordered' /\ Queue'
    BY <1>1, AskEffect, ZenonT(30)
  <1> DEFINE r == [buf[b] EXCEPT !.refcnt = @ + 1]
  <1>a. /\ r \in BufType /\ r.refcnt = buf[b].refcnt + 1
        /\ r.block = buf[b].block /\ r.valid = buf[b].valid /\ r.dirty = buf[b].dirty
        /\ r.data = buf[b].data /\ r.locked = buf[b].locked
    <2>1. buf[b] \in BufType
      BY <1>0, <1>1 DEF TypeOK
    <2> QED
      BY <2>1 DEF BufType
  <1>b. /\ buf' \in [Bufs -> BufType] /\ buf'[b] = r
        /\ \A c \in Bufs : c # b => buf'[c] = buf[c]
    <2> HIDE DEF r
    <2> QED
      BY <1>0, <1>1, <1>a, ChangeOne DEF r
  <1> HIDE DEF r
  <1>4. /\ \A c \in Bufs : /\ buf'[c].block = buf[c].block /\ buf'[c].valid = buf[c].valid
                           /\ buf'[c].dirty = buf[c].dirty /\ buf'[c].data = buf[c].data
                           /\ buf'[c].locked = buf[c].locked
                           /\ c # b => buf'[c].refcnt = buf[c].refcnt
        /\ buf'[b].refcnt = buf[b].refcnt + 1
    BY <1>a, <1>b
  <1>6. TypeOK'
    BY <1>0, <1>1, <1>2, <1>b DEF TypeOK
  <1>7. References'
    <2>1. p \notin RefersTo(b)
      <3>1. ASSUME NEW j \in Blocks, held[p][j] = b PROVE FALSE
        <4>1. b # Nil
          BY <1>1, NotNil
        <4>2. buf[b].block = j
          BY <1>0, <3>1, <4>1, HoldsBuf
        <4> QED
          BY <1>1, <1>2, <3>1, <4>1, <4>2
      <3>2. io[p].b # b
        BY <1>1, <1>2, NotNil
      <3> QED
        BY <3>1, <3>2 DEF RefersTo
    <2>2. Cardinality(RefersTo(b) \cup {p}) = Cardinality(RefersTo(b)) + 1
      BY <1>0, <1>1, <2>1, NoUsers, FS_AddElement
    <2>3. ASSUME NEW c \in Bufs PROVE buf'[c].refcnt = Cardinality(RefersTo(c)')
      <3>1. buf[c].refcnt = Cardinality(RefersTo(c))
        BY <1>0 DEF References
      <3> QED
        BY <1>2, <1>4, <2>2, <3>1
    <2>4. ASSUME NEW q \in Procs PROVE ProcRefs(q)'
      <3>1. CASE q = p
        <4>1. \A j \in Blocks : held[p][j] # Nil => held[p][j] \in Bufs /\ buf[held[p][j]].block = j
          BY <1>0, HoldsBuf
        <4>2. b # Nil
          BY <1>1, NotNil
        <4> QED
          BY <1>1, <1>2, <1>4, <3>1, <4>1, <4>2 DEF ProcRefs
      <3>2. CASE q # p
        BY <1>0, <1>2, <1>4, <3>2, ProcRefsSame
      <3> QED
        BY <3>1, <3>2
    <2>5. \A c, e \in Bufs :
            c # e /\ buf'[c].block = buf'[e].block => buf'[c].block = NoBlock
      BY <1>0, <1>4 DEF References
    <2> QED
      BY <2>3, <2>4, <2>5 DEF References
  <1>8. LockOwners'
    <2>1. \A q \in Procs : io'[q].at = "sleeplock" =>
            io[q].at = "sleeplock" /\ io'[q].b = io[q].b
      BY <1>2
    <2> QED
      BY <1>0, <1>2, <1>4, <2>1, OwnersSame
  <1>9. Flags'
    <2>1. \A q \in Procs : io'[q].at = "wakedisk" =>
            io[q].at = "wakedisk" /\ io'[q].b = io[q].b
      BY <1>2
    <2> QED
      BY <1>0, <1>4, <2>1, FlagsSame
  <1>10. Data'
    BY <1>0, <1>4, DataSame
  <1> QED
    BY <1>2, <1>6, <1>7, <1>8, <1>9, <1>10 DEF BufInv

\* bget() that recycles a buffer: nobody is at it, and it is not dirty.
LEMMA RecycleStep ==
  ASSUME Sizes, BufInv, NEW p \in Procs, NEW k \in Blocks, MayAsk(p, k),
         Cached(k) = {}, NEW b \in Unused,
         Take(p, k, b, [buf[b] EXCEPT !.block = k, !.refcnt = 1,
                                      !.valid = FALSE, !.dirty = FALSE]),
         UNCHANGED <<lru, idequeue, device, disk, held, latest, bad>>
  PROVE  BufInv'
  <1>0. TypeOK /\ References /\ LockOwners /\ Ordered /\ Flags /\ Queue /\ Data
    BY DEF BufInv
  <1> DEFINE r == [buf[b] EXCEPT !.block = k, !.refcnt = 1, !.valid = FALSE, !.dirty = FALSE]
  <1>1. /\ b \in Bufs /\ buf[b].refcnt = 0
        /\ buf' = [buf EXCEPT ![b] = r]
        /\ io' = [io EXCEPT ![p] = [at |-> "acquiresleep", b |-> b, k |-> k]]
    BY DEF Take, Unused
  <1>d. buf[b].dirty = FALSE
    BY <1>0 DEF Unused, TypeOK, BufType
  <1>2. /\ io' \in [Procs -> PcType]
        /\ io'[p].at = "acquiresleep" /\ io'[p].b = b /\ io'[p].k = k
        /\ \A q \in Procs : q # p => io'[q] = io[q]
        /\ io[p].b = Nil /\ io[p].at = "idle" /\ held[p][k] = Nil
        /\ \A q \in Procs, c \in Bufs : Owns(q, c)' <=> Owns(q, c)
        /\ \A c \in Bufs : c # b => RefersTo(c)' = RefersTo(c)
        /\ RefersTo(b)' = RefersTo(b) \cup {p}
        /\ Ordered' /\ Queue'
    BY <1>1, AskEffect
  <1>a. /\ r \in BufType /\ r.refcnt = 1 /\ r.block = k
        /\ r.valid = FALSE /\ r.dirty = FALSE /\ r.locked = buf[b].locked
    <2>1. buf[b] \in BufType
      BY <1>0, <1>1 DEF TypeOK
    <2> QED
      BY <2>1 DEF BufType
  <1> HIDE DEF r
  <1>4. /\ buf' \in [Bufs -> BufType] /\ buf'[b] = r
        /\ \A c \in Bufs : c # b => buf'[c] = buf[c]
    BY <1>0, <1>1, <1>a, ChangeOne
  <1>5. RefersTo(b) = {}
    BY <1>0, <1>1, NoUsers
  <1>e. \A q \in Procs : io[q].b # b /\ \A j \in Blocks : held[q][j] # b
    BY <1>5 DEF RefersTo
  <1>6. TypeOK'
    BY <1>0, <1>2, <1>4 DEF TypeOK
  <1>7. References'
    <2>1. RefersTo(b)' = {p} /\ Cardinality({p}) = 1
      BY <1>2, <1>5, FS_Singleton
    <2>2. ASSUME NEW c \in Bufs PROVE buf'[c].refcnt = Cardinality(RefersTo(c)')
      <3>1. CASE c = b
        BY <1>4, <1>a, <2>1, <3>1
      <3>2. CASE c # b
        BY <1>0, <1>2, <1>4, <3>2 DEF References
      <3> QED
        BY <3>1, <3>2
    <2>3. ASSUME NEW q \in Procs PROVE ProcRefs(q)'
      <3>1. CASE q = p
        <4>1. \A j \in Blocks : held[p][j] # Nil =>
                held[p][j] \in Bufs /\ held[p][j] # b /\ buf[held[p][j]].block = j
          BY <1>0, <1>e, HoldsBuf
        <4>2. b # Nil
          BY <1>1, NotNil
        <4> QED
          BY <1>2, <1>4, <1>a, <3>1, <4>1, <4>2 DEF ProcRefs
      <3>2. CASE q # p
        <4>1. \A c \in Bufs : q \in RefersTo(c) => buf'[c].block = buf[c].block
          BY <1>4, <1>5
        <4> QED
          BY <1>0, <1>2, <3>2, <4>1, ProcRefsSame
      <3> QED
        BY <3>1, <3>2
    <2>4. \A c \in Bufs : buf[c].block # k
      BY DEF Cached
    <2>5. ASSUME NEW c \in Bufs, NEW e \in Bufs, c # e, buf'[c].block = buf'[e].block
          PROVE  buf'[c].block = NoBlock
      BY <1>0, <1>4, <1>a, <2>4, <2>5 DEF References
    <2> QED
      BY <2>2, <2>3, <2>5 DEF References
  <1>8. LockOwners'
    <2>1. \A q \in Procs : io'[q].at = "sleeplock" =>
            io[q].at = "sleeplock" /\ io'[q].b = io[q].b
      BY <1>2
    <2>2. \A c \in Bufs : buf'[c].locked = buf[c].locked
      BY <1>4, <1>a
    <2> QED
      BY <1>0, <1>2, <2>1, <2>2, OwnersSame
  <1>9. Flags'
    <2>1. ASSUME NEW q \in Procs, io'[q].at = "wakedisk"
          PROVE  buf'[io'[q].b].valid = TRUE /\ buf'[io'[q].b].dirty = FALSE
      <3>1. io'[q] = io[q]
        BY <1>2, <2>1
      <3>2. io[q].b \in Bufs /\ io[q].b # b
        BY <1>0, <1>e, <2>1, <3>1, HasBuf
      <3> QED
        BY <1>0, <1>4, <2>1, <3>1, <3>2 DEF Flags
    <2>2. ASSUME NEW q \in Procs, NEW j \in Blocks, held[q][j] # Nil
          PROVE  buf'[held[q][j]].valid = TRUE
      <3>1. held[q][j] \in Bufs /\ held[q][j] # b
        BY <1>0, <1>e, <2>2, HoldsBuf
      <3> QED
        BY <1>0, <1>4, <2>2, <3>1 DEF Flags
    <2> QED
      BY <2>1, <2>2 DEF Flags
  <1>11. Data'
    <2>1. ASSUME NEW c \in Bufs, buf'[c].valid = TRUE, c \notin bad, buf'[c].block # NoBlock
          PROVE  buf'[c].data = latest[buf'[c].block]
      BY <1>0, <1>4, <1>a, <2>1 DEF Data
    <2>2. \A c \in Bufs : buf'[c].dirty = TRUE => buf'[c].valid = TRUE /\ c \notin bad
      BY <1>0, <1>4, <1>a DEF Data
    <2>3. ASSUME NEW m \in Blocks
          PROVE  disk[m] = latest[m] \/ \E c \in Bufs : buf'[c].block = m /\ buf'[c].dirty = TRUE
      BY <1>0, <1>4, <1>d DEF Data
    <2>4. device = "interrupt" =>
            Head(idequeue) \in Bufs /\ buf'[Head(idequeue)] = buf[Head(idequeue)]
      <3> SUFFICES ASSUME device = "interrupt"
                   PROVE  Head(idequeue) \in Bufs /\ buf'[Head(idequeue)] = buf[Head(idequeue)]
        OBVIOUS
      <3>1. idequeue # <<>>
        BY <1>0 DEF Queue
      <3>2. Head(idequeue) \in Bufs /\ Head(idequeue) # b
        BY <1>0, <1>5, <3>1, HeadUsed
      <3> QED
        BY <1>4, <3>2
    <2> QED
      BY <1>0, <2>1, <2>2, <2>3, <2>4 DEF Data
  <1> QED
    BY <1>2, <1>6, <1>7, <1>8, <1>9, <1>11 DEF BufInv

\* A step that moves one process, and changes no buffer, between places that
\* do not matter to the lock, the flags and the queue.
LEMMA IdleMove ==
  ASSUME Sizes, BufInv, NEW p \in Procs, NEW to \in BufPlaces,
         io' = [io EXCEPT ![p].at = to],
         io[p].at \notin Busy, to \notin Busy,
         io[p].at \in {"idle", "panic"} <=> to \in {"idle", "panic"},
         to \in Waiting => io[p].at \in Waiting,
         to = "sleeplock" => buf[io[p].b].locked = TRUE,
         UNCHANGED <<lru, buf, idequeue, device, disk, held, latest, bad>>
  PROVE  BufInv'
  <1>0. TypeOK /\ References /\ LockOwners /\ Ordered /\ Flags /\ Queue /\ Data
    BY DEF BufInv
  <1>1. /\ io' \in [Procs -> PcType] /\ io'[p].at = to
        /\ \A q \in Procs : io'[q].b = io[q].b /\ io'[q].k = io[q].k
        /\ \A q \in Procs : q # p => io'[q] = io[q]
    BY <1>0, MoveAt
  <1>2. TypeOK'
    BY <1>0, <1>1 DEF TypeOK
  <1>3. References'
    <2>1. \A q \in Procs : ProcRefs(q)'
      BY <1>0, <1>1, ProcRefsSame
    <2>2. \A q \in Procs, c \in Bufs : (q \in RefersTo(c))' <=> q \in RefersTo(c)
      BY <1>1 DEF RefersTo
    <2> QED
      BY <1>0, <2>1, <2>2, ReferencesSame
  <1>4. LockOwners'
    <2>1. \A q \in Procs, c \in Bufs : Owns(q, c)' <=> Owns(q, c)
      BY <1>1 DEF Owns, Busy
    <2>2. \A q \in Procs : io'[q].at = "sleeplock" => buf'[io'[q].b].locked = TRUE
      BY <1>0, <1>1 DEF LockOwners
    <2> QED
      BY <1>0, <2>1, <2>2 DEF LockOwners
  <1>5. Ordered'
    BY <1>0, <1>1, OrderedSame
  <1>6. Flags'
    BY <1>0, <1>1 DEF Flags, Busy
  <1>7. Queue'
    BY <1>0, <1>1, QueueSame DEF Busy
  <1>8. Data'
    BY <1>0 DEF Data
  <1> QED
    BY <1>2, <1>3, <1>4, <1>5, <1>6, <1>7, <1>8 DEF BufInv

\* bget(), whatever it finds.
LEMMA BgetStep ==
  ASSUME Sizes, BufInv, NEW p \in Procs, NEW k \in Blocks, bget(p, k)
  PROVE  BufInv'
  <1>0. TypeOK
    BY DEF BufInv
  <1>1. MayAsk(p, k) /\ UNCHANGED <<lru, idequeue, device, disk, held, latest, bad>>
    BY DEF bget
  <1>2. ASSUME NEW b \in Cached(k), Take(p, k, b, [buf[b] EXCEPT !.refcnt = @ + 1])
        PROVE  BufInv'
    BY <1>1, <1>2, HitStep
  <1>3. CASE Cached(k) = {} /\ Unused # {} /\ Recycle(p, k)
    <2>1. PICK b \in Unused :
            Take(p, k, b, [buf[b] EXCEPT !.block = k, !.refcnt = 1,
                                         !.valid = FALSE, !.dirty = FALSE])
      BY <1>0, <1>3, RecycleEffect, ZenonT(30)
    <2> QED
      BY <1>1, <1>3, <2>1, RecycleStep, ZenonT(30)
  <1>4. CASE io' = [io EXCEPT ![p].at = "panic"] /\ UNCHANGED buf
    <2>1. io[p].at = "idle"
      BY <1>1 DEF MayAsk
    <2> QED
      BY <1>1, <1>4, <2>1, IdleMove DEF BufPlaces, Busy, Waiting
  <1> QED
    BY <1>2, <1>3, <1>4 DEF bget

\* bread() or bwrite() returns: the process now holds the buffer it was at.
LEMMA ReturnEffect ==
  ASSUME Sizes, TypeOK, References, NEW p \in Procs, io[p].at \notin {"idle", "panic"}, Return(p),
         \A c \in Bufs : buf'[c].block = buf[c].block
  PROVE  /\ io' \in [Procs -> PcType] /\ io'[p].at = "idle" /\ io'[p].b = Nil
         /\ \A q \in Procs : q # p => io'[q] = io[q] /\ held'[q] = held[q]
         /\ held' \in HeldType /\ held'[p][io[p].k] = io[p].b
         /\ \A j \in Blocks : j # io[p].k => held'[p][j] = held[p][j]
         /\ \A q \in Procs, c \in Bufs : (q \in RefersTo(c))' <=> q \in RefersTo(c)
         /\ \A q \in Procs, c \in Bufs : q # p => (Owns(q, c)' <=> Owns(q, c))
         /\ \A c \in Bufs : Owns(p, c)' <=> c = io[p].b \/ \E j \in Blocks : held[p][j] = c
         /\ \A q \in Procs : ProcRefs(q)'
  <1>0. io[p].b \in Bufs /\ io[p].k \in Blocks
    BY HasBuf
  <1>b. PICK b \in Bufs, k \in Blocks : io[p].b = b /\ io[p].k = k
    BY <1>0
  <1>1. b # Nil /\ buf[b].block = k /\ held[p][k] = Nil
    BY <1>b, HasBuf
  <1>n. Nil \notin Bufs
    BY NotNil
  <1>2. Idle \in PcType /\ Idle.at = "idle" /\ Idle.b = Nil
    BY DEF Idle, PcType, BufPlaces
  <1>3. /\ io' \in [Procs -> PcType] /\ io'[p].at = "idle" /\ io'[p].b = Nil
        /\ \A q \in Procs : q # p => io'[q] = io[q]
    BY <1>2, MoveTo DEF Return
  <1>4. /\ held' \in HeldType /\ held'[p][k] = b
        /\ \A j \in Blocks : j # k => held'[p][j] = held[p][j]
        /\ \A q \in Procs : q # p => held'[q] = held[q]
    <2>1. held' = [held EXCEPT ![p][k] = b]
      BY <1>b DEF Return
    <2> QED
      BY <2>1 DEF TypeOK, HeldType
  <1>5. \A c \in Bufs : (\E j \in Blocks : held'[p][j] = c) <=>
                          c = b \/ \E j \in Blocks : held[p][j] = c
    <2>1. ASSUME NEW c \in Bufs, NEW j \in Blocks, held'[p][j] = c
          PROVE  c = b \/ held[p][j] = c
      BY <1>4, <2>1
    <2>2. ASSUME NEW c \in Bufs, NEW j \in Blocks, held[p][j] = c PROVE held'[p][j] = c
      BY <1>1, <1>4, <1>n, <2>2
    <2> QED
      BY <1>1, <1>4, <2>1, <2>2
  <1>6. ASSUME NEW q \in Procs, NEW c \in Bufs
        PROVE  (q \in RefersTo(c))' <=> q \in RefersTo(c)
    <2>1. CASE q = p
      <3>1. io'[p].b # c
        BY <1>3, <1>n
      <3> QED
        BY <1>5, <1>b, <2>1, <3>1 DEF RefersTo
    <2>2. CASE q # p
      BY <1>3, <1>4, <2>2 DEF RefersTo
    <2> QED
      BY <2>1, <2>2
  <1>7. ASSUME NEW q \in Procs, NEW c \in Bufs, q # p PROVE Owns(q, c)' <=> Owns(q, c)
    BY <1>3, <1>4, <1>7 DEF Owns
  <1>8. ASSUME NEW c \in Bufs
        PROVE  Owns(p, c)' <=> c = b \/ \E j \in Blocks : held[p][j] = c
    <2>1. io'[p].b # c
      BY <1>3, <1>n
    <2> QED
      BY <1>5, <2>1 DEF Owns
  <1>9. ASSUME NEW q \in Procs PROVE ProcRefs(q)'
    <2>1. CASE q = p
      <3>1. ASSUME NEW j \in Blocks, held'[p][j] # Nil PROVE buf'[held'[p][j]].block = j
        <4>1. CASE j = k
          BY <1>1, <1>4, <4>1
        <4>2. CASE j # k
          <5>1. held'[p][j] = held[p][j] /\ held[p][j] \in Bufs /\ buf[held[p][j]].block = j
            BY <1>4, <3>1, <4>2, HoldsBuf
          <5> QED
            BY <5>1
        <4> QED
          BY <4>1, <4>2
      <3> QED
        BY <1>3, <2>1, <3>1 DEF ProcRefs
    <2>2. CASE q # p
      BY <1>3, <1>4, <2>2, ProcRefsSame
    <2> QED
      BY <2>1, <2>2
  <1> QED
    BY <1>3, <1>4, <1>6, <1>7, <1>8, <1>9, <1>b

\* A process takes the lock of a buffer that nobody has locked.
Gains(p, b) ==
  /\ buf[b].locked = FALSE /\ buf'[b].locked = TRUE
  /\ \A c \in Bufs : c # b => buf'[c].locked = buf[c].locked
  /\ \A q \in Procs, c \in Bufs : Owns(q, c)' <=> Owns(q, c) \/ (q = p /\ c = b)
  /\ \A q \in Procs : io'[q].at = "sleeplock" =>
       io[q].at = "sleeplock" /\ io'[q].b = io[q].b

\* The owners are then as before, and the process.
LEMMA OwnersGain ==
  ASSUME TypeOK, References, LockOwners, NEW p \in Procs, NEW b \in Bufs, Gains(p, b)
  PROVE  LockOwners'
  <1>0. /\ buf[b].locked = FALSE /\ buf'[b].locked = TRUE
        /\ \A c \in Bufs : c # b => buf'[c].locked = buf[c].locked
        /\ \A q \in Procs, c \in Bufs : Owns(q, c)' <=> Owns(q, c) \/ (q = p /\ c = b)
        /\ \A q \in Procs : io'[q].at = "sleeplock" =>
             io[q].at = "sleeplock" /\ io'[q].b = io[q].b
    BY DEF Gains
  <1>1. ASSUME NEW q \in Procs, io'[q].at = "sleeplock" PROVE buf'[io'[q].b].locked = TRUE
    <2>1. io[q].at = "sleeplock" /\ io'[q].b = io[q].b
      BY <1>0, <1>1
    <2>2. io[q].b \in Bufs /\ buf[io[q].b].locked = TRUE
      BY <2>1, HasBuf DEF LockOwners
    <2> QED
      BY <1>0, <2>1, <2>2
  <1>2. \A q \in Procs : ~Owns(q, b)
    BY <1>0 DEF LockOwners
  <1>3. \A q \in Procs, c \in Bufs : Owns(q, c)' => buf'[c].locked = TRUE
    BY <1>0 DEF LockOwners
  <1>4. \A q, w \in Procs, c \in Bufs : Owns(q, c)' /\ Owns(w, c)' => q = w
    BY <1>0, <1>2 DEF LockOwners
  <1>5. ASSUME NEW c \in Bufs, buf'[c].locked = TRUE PROVE \E q \in Procs : Owns(q, c)'
    <2>1. CASE c = b
      BY <1>0, <2>1
    <2>2. CASE c # b
      BY <1>0, <1>5, <2>2 DEF LockOwners
    <2> QED
      BY <2>1, <2>2
  <1> QED
    BY <1>1, <1>3, <1>4, <1>5 DEF LockOwners

\* acquiresleep() of a buffer that is not locked, whether bread() then has to
\* read it or not.
LEMMA LockStep ==
  ASSUME Sizes, BufInv, NEW p \in Procs, io[p].at = "acquiresleep",
         ~buf[io[p].b].locked,
         buf' = [buf EXCEPT ![io[p].b].locked = TRUE], bread(p),
         UNCHANGED <<lru, idequeue, device, disk, latest, bad>>
  PROVE  BufInv'
  <1>0. TypeOK /\ References /\ LockOwners /\ Ordered /\ Flags /\ Queue /\ Data
    BY DEF BufInv
  <1>a. io[p].b \in Bufs
    BY <1>0, HasBuf
  <1>b. PICK b \in Bufs : io[p].b = b
    BY <1>a
  <1>1. b \in Bufs /\ buf[b] \in BufType
    BY <1>0 DEF TypeOK
  <1>2. buf[b].locked = FALSE
    BY <1>1, <1>b DEF BufType
  <1>6. /\ buf' \in [Bufs -> BufType] /\ buf'[b].locked = TRUE
        /\ \A c \in Bufs : c # b => buf'[c] = buf[c]
        /\ \A c \in Bufs : /\ buf'[c].block = buf[c].block /\ buf'[c].valid = buf[c].valid
                           /\ buf'[c].dirty = buf[c].dirty /\ buf'[c].data = buf[c].data
                           /\ buf'[c].refcnt = buf[c].refcnt
    BY <1>0, <1>1, <1>b DEF TypeOK, BufType
  <1>l. \A c \in Bufs : c # b => buf'[c].locked = buf[c].locked
    BY <1>6
  <1>7. Data'
    BY <1>0, <1>6, DataSame
  <1>8. CASE buf[b].valid = TRUE /\ Return(p)
    <2>1. /\ io' \in [Procs -> PcType] /\ io'[p].at = "idle" /\ io'[p].b = Nil
          /\ \A q \in Procs : q # p => io'[q] = io[q] /\ held'[q] = held[q]
          /\ held' \in HeldType /\ held'[p][io[p].k] = b
          /\ \A j \in Blocks : j # io[p].k => held'[p][j] = held[p][j]
          /\ \A q \in Procs, c \in Bufs : (q \in RefersTo(c))' <=> q \in RefersTo(c)
          /\ \A q \in Procs, c \in Bufs : q # p => (Owns(q, c)' <=> Owns(q, c))
          /\ \A c \in Bufs : Owns(p, c)' <=> c = b \/ \E j \in Blocks : held[p][j] = c
          /\ \A q \in Procs : ProcRefs(q)'
      BY <1>0, <1>6, <1>8, <1>b, ReturnEffect
    <2>2. TypeOK'
      BY <1>0, <1>6, <2>1 DEF TypeOK
    <2>3. References'
      BY <1>0, <1>6, <2>1, ReferencesSame
    <2>4. LockOwners'
      <3>1. \A c \in Bufs : Owns(p, c) <=> \E j \in Blocks : held[p][j] = c
        BY DEF Owns
      <3>2. \A q \in Procs, c \in Bufs : Owns(q, c)' <=> Owns(q, c) \/ (q = p /\ c = b)
        BY <2>1, <3>1
      <3>3. \A q \in Procs : io'[q].at = "sleeplock" =>
              io[q].at = "sleeplock" /\ io'[q].b = io[q].b
        BY <2>1
      <3>4. Gains(p, b)
        BY <1>2, <1>6, <1>l, <3>2, <3>3 DEF Gains
      <3> QED
        BY <1>0, <1>1, <3>4, OwnersGain
    <2>5. Ordered'
      <3>1. \A q \in Procs : io'[q].at \in Waiting =>
              io[q].at \in Waiting /\ io'[q].k = io[q].k /\ held'[q] = held[q]
        BY <2>1 DEF Waiting
      <3> QED
        BY <1>0, <3>1, OrderedSame
    <2>6. Flags'
      <3>1. ASSUME NEW q \in Procs, io'[q].at = "wakedisk"
            PROVE  buf'[io'[q].b].valid = TRUE /\ buf'[io'[q].b].dirty = FALSE
        <4>1. io'[q] = io[q]
          BY <2>1, <3>1
        <4>2. io[q].b \in Bufs /\ buf[io[q].b].valid = TRUE /\ buf[io[q].b].dirty = FALSE
          BY <1>0, <3>1, <4>1, HasBuf DEF Flags
        <4> QED
          BY <1>6, <4>1, <4>2
      <3>2. ASSUME NEW q \in Procs, NEW j \in Blocks, held'[q][j] # Nil
            PROVE  buf'[held'[q][j]].valid = TRUE
        <4>1. CASE q = p /\ j = io[p].k
          BY <1>1, <1>6, <1>8, <2>1, <4>1
        <4>2. CASE ~(q = p /\ j = io[p].k)
          <5>1. held'[q][j] = held[q][j]
            BY <2>1, <4>2
          <5>2. held[q][j] \in Bufs /\ buf[held[q][j]].valid = TRUE
            BY <1>0, <3>2, <5>1, HoldsBuf DEF Flags
          <5> QED
            BY <1>6, <5>1, <5>2
        <4> QED
          BY <4>1, <4>2
      <3> QED
        BY <3>1, <3>2 DEF Flags
    <2>7. Queue'
      <3>1. \A q \in Procs : /\ io'[q].at = "sleepdisk" <=> io[q].at = "sleepdisk"
                             /\ io[q].at = "sleepdisk" => io'[q].b = io[q].b
        BY <2>1
      <3> QED
        BY <1>0, <3>1, QueueSame
    <2> QED
      BY <1>7, <2>2, <2>3, <2>4, <2>5, <2>6, <2>7 DEF BufInv
  <1>9. CASE io' = [io EXCEPT ![p].at = "iderw"] /\ held' = held
    <2>1. /\ io' \in [Procs -> PcType] /\ io'[p].at = "iderw"
          /\ \A q \in Procs : io'[q].b = io[q].b /\ io'[q].k = io[q].k
          /\ \A q \in Procs : q # p => io'[q] = io[q]
      <3>1. "iderw" \in BufPlaces
        BY DEF BufPlaces
      <3> QED
        BY <1>0, <1>9, <3>1, MoveAt
    <2>2. TypeOK'
      BY <1>0, <1>6, <1>9, <2>1 DEF TypeOK
    <2>3. References'
      <3>1. \A q \in Procs : io'[q].at \in {"idle", "panic"} <=> io[q].at \in {"idle", "panic"}
        BY <2>1
      <3>2. \A q \in Procs : ProcRefs(q)'
        BY <1>0, <1>6, <1>9, <2>1, <3>1, ProcRefsSame
      <3>3. \A q \in Procs, c \in Bufs : (q \in RefersTo(c))' <=> q \in RefersTo(c)
        BY <1>9, <2>1 DEF RefersTo
      <3> QED
        BY <1>0, <1>6, <3>2, <3>3, ReferencesSame
    <2>4. LockOwners'
      <3>1. ASSUME NEW q \in Procs, NEW c \in Bufs
            PROVE  Owns(q, c)' <=> Owns(q, c) \/ (q = p /\ c = b)
        BY <1>9, <1>b, <2>1 DEF Owns
      <3>2. \A q \in Procs : io'[q].at = "sleeplock" =>
              io[q].at = "sleeplock" /\ io'[q].b = io[q].b
        BY <2>1
      <3>3. Gains(p, b)
        BY <1>2, <1>6, <1>l, <3>1, <3>2 DEF Gains
      <3> QED
        BY <1>0, <1>1, <3>3, OwnersGain
    <2>5. Ordered'
      <3>1. \A q \in Procs : io'[q].at \in Waiting =>
              io[q].at \in Waiting /\ io'[q].k = io[q].k /\ held'[q] = held[q]
        BY <1>9, <2>1 DEF Waiting
      <3> QED
        BY <1>0, <3>1, OrderedSame
    <2>6. Flags'
      <3>1. \A q \in Procs : io'[q].at = "wakedisk" =>
              io[q].at = "wakedisk" /\ io'[q].b = io[q].b
        BY <2>1
      <3> QED
        BY <1>0, <1>6, <1>9, <3>1, FlagsSame
    <2>7. Queue'
      <3>1. \A q \in Procs : /\ io'[q].at = "sleepdisk" <=> io[q].at = "sleepdisk"
                             /\ io[q].at = "sleepdisk" => io'[q].b = io[q].b
        BY <2>1
      <3> QED
        BY <1>0, <3>1, QueueSame
    <2> QED
      BY <1>7, <2>2, <2>3, <2>4, <2>5, <2>6, <2>7 DEF BufInv
  <1> QED
    BY <1>1, <1>8, <1>9, <1>b DEF bread, BufType

\* acquiresleep(), whether it gets the lock or sleeps.
LEMMA AcquiresleepStep ==
  ASSUME Sizes, BufInv, NEW p \in Procs, acquiresleep(p)
  PROVE  BufInv'
  <1>0. TypeOK /\ References
    BY DEF BufInv
  <1>1. /\ io[p].at = "acquiresleep"
        /\ UNCHANGED <<lru, idequeue, device, disk, latest, bad>>
    BY DEF acquiresleep
  <1>2. CASE /\ buf[io[p].b].locked
             /\ io' = [io EXCEPT ![p].at = "sleeplock"] /\ UNCHANGED <<buf, held>>
    <2>1. io[p].b \in Bufs
      BY <1>0, <1>1, HasBuf
    <2>2. buf[io[p].b].locked = TRUE
      BY <1>0, <1>2, <2>1 DEF TypeOK, BufType
    <2> QED
      BY <1>1, <1>2, <2>2, IdleMove DEF BufPlaces, Busy, Waiting
  <1>3. CASE /\ ~buf[io[p].b].locked
             /\ buf' = [buf EXCEPT ![io[p].b].locked = TRUE] /\ bread(p)
    BY <1>1, <1>3, LockStep
  <1> QED
    BY <1>2, <1>3 DEF acquiresleep

\* Woken up in iderw(): the request is done.
LEMMA WakediskStep ==
  ASSUME Sizes, BufInv, NEW p \in Procs, wakedisk(p)
  PROVE  BufInv'
  <1>0. TypeOK /\ References /\ LockOwners /\ Ordered /\ Flags /\ Queue /\ Data
    BY DEF BufInv
  <1>1. /\ io[p].at = "wakedisk"
        /\ UNCHANGED <<lru, buf, idequeue, device, disk, latest, bad>>
    BY DEF wakedisk
  <1>2. buf[io[p].b].valid = TRUE /\ buf[io[p].b].dirty = FALSE
    BY <1>0, <1>1 DEF Flags
  <1>3. Return(p)
    BY <1>2 DEF wakedisk
  <1>4. /\ io' \in [Procs -> PcType] /\ io'[p].at = "idle" /\ io'[p].b = Nil
        /\ \A q \in Procs : q # p => io'[q] = io[q] /\ held'[q] = held[q]
        /\ held' \in HeldType /\ held'[p][io[p].k] = io[p].b
        /\ \A j \in Blocks : j # io[p].k => held'[p][j] = held[p][j]
        /\ \A q \in Procs, c \in Bufs : (q \in RefersTo(c))' <=> q \in RefersTo(c)
        /\ \A q \in Procs, c \in Bufs : q # p => (Owns(q, c)' <=> Owns(q, c))
        /\ \A c \in Bufs : Owns(p, c)' <=> c = io[p].b \/ \E j \in Blocks : held[p][j] = c
        /\ \A q \in Procs : ProcRefs(q)'
    BY <1>0, <1>1, <1>3, ReturnEffect
  <1>5. TypeOK'
    BY <1>0, <1>1, <1>4 DEF TypeOK
  <1>6. References'
    BY <1>0, <1>1, <1>4, ReferencesSame
  <1>7. LockOwners'
    <2>1. \A c \in Bufs : Owns(p, c) <=> c = io[p].b \/ \E j \in Blocks : held[p][j] = c
      BY <1>1 DEF Owns
    <2>2. \A q \in Procs, c \in Bufs : Owns(q, c)' <=> Owns(q, c)
      BY <1>4, <2>1
    <2>3. \A q \in Procs : io'[q].at = "sleeplock" =>
            io[q].at = "sleeplock" /\ io'[q].b = io[q].b
      BY <1>4
    <2> QED
      BY <1>0, <1>1, <2>2, <2>3, OwnersSame
  <1>8. Ordered'
    <2>1. \A q \in Procs : io'[q].at \in Waiting =>
            io[q].at \in Waiting /\ io'[q].k = io[q].k /\ held'[q] = held[q]
      BY <1>4 DEF Waiting
    <2> QED
      BY <1>0, <2>1, OrderedSame
  <1>9. Flags'
    <2>1. \A q \in Procs : io'[q].at = "wakedisk" => io'[q] = io[q]
      BY <1>4
    <2>2. ASSUME NEW q \in Procs, NEW j \in Blocks, held'[q][j] # Nil
          PROVE  buf[held'[q][j]].valid = TRUE
      <3>1. CASE q = p /\ j = io[p].k
        BY <1>2, <1>4, <3>1
      <3>2. CASE ~(q = p /\ j = io[p].k)
        <4>1. held'[q][j] = held[q][j]
          BY <1>4, <3>2
        <4> QED
          BY <1>0, <2>2, <4>1 DEF Flags
      <3> QED
        BY <3>1, <3>2
    <2> QED
      BY <1>0, <1>1, <2>1, <2>2 DEF Flags
  <1>10. Queue'
    <2>1. \A q \in Procs : /\ io'[q].at = "sleepdisk" <=> io[q].at = "sleepdisk"
                           /\ io[q].at = "sleepdisk" => io'[q].b = io[q].b
      BY <1>1, <1>4
    <2> QED
      BY <1>0, <1>1, <2>1, QueueSame
  <1>11. Data'
    BY <1>0, <1>1 DEF Data
  <1> QED
    BY <1>5, <1>6, <1>7, <1>8, <1>9, <1>10, <1>11 DEF BufInv

\* The holder changes a buffer that is not at the disk.
LEMMA ChangeEffect ==
  ASSUME Sizes, BufInv, NEW p \in Procs, NEW k \in Blocks, NEW b \in Bufs,
         io[p].at = "idle", held[p][k] = b, Change(k, b),
         UNCHANGED <<idequeue, device, disk>>
  PROVE  /\ buf' \in [Bufs -> BufType]
         /\ latest' \in [Blocks -> Values] /\ bad' \subseteq Bufs
         /\ \A c \in Bufs : c # b => buf'[c] = buf[c]
         /\ \A c \in Bufs : /\ buf'[c].block = buf[c].block /\ buf'[c].valid = buf[c].valid
                            /\ buf'[c].locked = buf[c].locked
                            /\ buf'[c].refcnt = buf[c].refcnt
         /\ Data'
  <1>0. TypeOK /\ References /\ LockOwners /\ Flags /\ Queue /\ Data
    BY DEF BufInv
  <1>n. b # Nil /\ NoBlock \notin Blocks
    BY NotNil
  <1>2. PICK v \in Values : /\ buf' = [buf EXCEPT ![b].data = v, ![b].dirty = TRUE]
                            /\ latest' = [latest EXCEPT ![k] = v]
                            /\ bad' = bad \ {b}
    BY DEF Change
  <1>3. buf[b] \in BufType /\ buf[b].block = k /\ Owns(p, b)
    BY <1>0, <1>n, HoldsBuf
  <1>4. buf[b].valid = TRUE
    BY <1>0, <1>n DEF Flags
  <1>5. /\ buf' \in [Bufs -> BufType] /\ buf'[b].dirty = TRUE /\ buf'[b].data = v
        /\ \A c \in Bufs : c # b => buf'[c] = buf[c]
        /\ \A c \in Bufs : /\ buf'[c].block = buf[c].block /\ buf'[c].valid = buf[c].valid
                           /\ buf'[c].locked = buf[c].locked
                           /\ buf'[c].refcnt = buf[c].refcnt
    BY <1>0, <1>2, <1>3 DEF TypeOK, BufType
  <1>7. /\ latest' \in [Blocks -> Values] /\ latest'[k] = v
        /\ \A m \in Blocks : m # k => latest'[m] = latest[m]
        /\ bad' \subseteq Bufs /\ b \notin bad' /\ \A c \in Bufs : c \in bad' => c \in bad
        /\ \A c \in Bufs : c # b /\ c \in bad => c \in bad'
    BY <1>0, <1>2 DEF TypeOK
  <1>8. \A c \in Bufs : c # b => buf[c].block # k
    BY <1>0, <1>3, <1>n DEF References
  <1>14. Data'
    <2>1. ASSUME NEW c \in Bufs, buf'[c].valid = TRUE, c \notin bad', buf'[c].block # NoBlock
          PROVE  buf'[c].data = latest'[buf'[c].block]
      <3>1. CASE c = b
        BY <1>3, <1>5, <1>7, <3>1
      <3>2. CASE c # b
        <4>1. buf'[c] = buf[c] /\ c \notin bad
          BY <1>5, <1>7, <2>1, <3>2
        <4>2. buf[c].data = latest[buf[c].block]
          BY <1>0, <2>1, <4>1 DEF Data
        <4>3. buf[c].block \in Blocks /\ buf[c].block # k
          BY <1>0, <1>8, <2>1, <3>2, <4>1 DEF TypeOK, BufType
        <4> QED
          BY <1>7, <4>1, <4>2, <4>3
      <3> QED
        BY <3>1, <3>2
    <2>2. ASSUME NEW c \in Bufs, buf'[c].dirty = TRUE
          PROVE  buf'[c].valid = TRUE /\ c \notin bad'
      <3>1. CASE c = b
        BY <1>4, <1>5, <1>7, <3>1
      <3>2. CASE c # b
        BY <1>0, <1>5, <1>7, <2>2, <3>2 DEF Data
      <3> QED
        BY <3>1, <3>2
    <2>3. ASSUME NEW m \in Blocks
          PROVE  disk[m] = latest'[m] \/ \E c \in Bufs : buf'[c].block = m /\ buf'[c].dirty = TRUE
      <3>1. CASE m = k
        BY <1>3, <1>5, <3>1
      <3>2. CASE m # k
        <4>1. disk[m] = latest[m] \/ \E c \in Bufs : buf[c].block = m /\ buf[c].dirty = TRUE
          BY <1>0 DEF Data
        <4>2. latest'[m] = latest[m]
          BY <1>7, <3>2
        <4>3. ASSUME NEW c \in Bufs, buf[c].block = m, buf[c].dirty = TRUE
              PROVE  buf'[c].block = m /\ buf'[c].dirty = TRUE
          BY <1>3, <1>5, <3>2, <4>3
        <4> QED
          BY <4>1, <4>2, <4>3
      <3> QED
        BY <3>1, <3>2
    <2>4. device = "interrupt" => buf'[Head(idequeue)] = buf[Head(idequeue)]
                                  /\ disk[buf[Head(idequeue)].block] = disk[buf'[Head(idequeue)].block]
      <3> SUFFICES ASSUME device = "interrupt"
                   PROVE  buf'[Head(idequeue)] = buf[Head(idequeue)]
        OBVIOUS
      <3>1. idequeue # <<>>
        BY <1>0 DEF Queue
      <3>2. PICK q \in Procs : /\ io[q].at = "sleepdisk" /\ Owns(q, Head(idequeue))
                               /\ Head(idequeue) \in Bufs
        BY <1>0, <3>1, HeadUsed
      <3>3. Head(idequeue) # b
        BY <1>0, <1>3, <3>2 DEF LockOwners
      <3> QED
        BY <1>5, <3>2, <3>3
    <2> QED
      BY <1>0, <2>1, <2>2, <2>3, <2>4 DEF Data
  <1> QED
    BY <1>5, <1>7, <1>14

\* log_write(): the holder changes the buffer, and keeps it.
LEMMA LogWriteStep ==
  ASSUME Sizes, BufInv, NEW p \in Procs, NEW k \in Blocks, log_write(p, k)
  PROVE  BufInv'
  <1>0. TypeOK /\ References /\ LockOwners /\ Ordered /\ Flags /\ Queue /\ Data
    BY DEF BufInv
  <1>a. io[p].at = "idle" /\ held[p][k] \in Bufs /\ held[p][k] # Nil
    BY <1>0, HoldsBuf DEF log_write
  <1>b. PICK b \in Bufs : held[p][k] = b
    BY <1>a
  <1>1. Change(k, b) /\ UNCHANGED <<lru, idequeue, device, disk, io, held>>
    BY <1>b DEF log_write
  <1>2. /\ buf' \in [Bufs -> BufType]
        /\ latest' \in [Blocks -> Values] /\ bad' \subseteq Bufs
        /\ \A c \in Bufs : c # b => buf'[c] = buf[c]
        /\ \A c \in Bufs : /\ buf'[c].block = buf[c].block /\ buf'[c].valid = buf[c].valid
                           /\ buf'[c].locked = buf[c].locked
                           /\ buf'[c].refcnt = buf[c].refcnt
        /\ Data'
    BY <1>1, <1>a, <1>b, ChangeEffect
  <1>3. TypeOK'
    BY <1>0, <1>1, <1>2 DEF TypeOK
  <1>4. References'
    <2>1. \A q \in Procs : ProcRefs(q)'
      BY <1>0, <1>1, <1>2, ProcRefsSame
    <2>2. \A q \in Procs, c \in Bufs : (q \in RefersTo(c))' <=> q \in RefersTo(c)
      BY <1>1 DEF RefersTo
    <2> QED
      BY <1>0, <1>2, <2>1, <2>2, ReferencesSame
  <1>5. LockOwners'
    <2>1. \A q \in Procs, c \in Bufs : Owns(q, c)' <=> Owns(q, c)
      BY <1>1 DEF Owns
    <2> QED
      BY <1>0, <1>1, <1>2, <2>1, OwnersSame
  <1>6. Ordered' /\ Queue'
    BY <1>0, <1>1 DEF Ordered, Queue
  <1>7. Flags'
    <2>1. ASSUME NEW q \in Procs, io[q].at = "wakedisk"
          PROVE  buf'[io[q].b].valid = TRUE /\ buf'[io[q].b].dirty = FALSE
      <3>1. io[q].b \in Bufs /\ buf[io[q].b].valid = TRUE /\ buf[io[q].b].dirty = FALSE
        BY <1>0, <2>1, HasBuf DEF Flags
      <3>2. Owns(p, b) /\ Owns(q, io[q].b)
        BY <1>b, <2>1 DEF Owns
      <3>3. io[q].b # b
        BY <1>0, <1>a, <2>1, <3>1, <3>2 DEF LockOwners
      <3> QED
        BY <1>2, <3>1, <3>3
    <2>2. ASSUME NEW q \in Procs, NEW j \in Blocks, held[q][j] # Nil
          PROVE  buf'[held[q][j]].valid = TRUE
      <3>1. held[q][j] \in Bufs /\ buf[held[q][j]].valid = TRUE
        BY <1>0, <2>2, HoldsBuf DEF Flags
      <3> QED
        BY <1>2, <3>1
    <2> QED
      BY <1>1, <2>1, <2>2 DEF Flags
  <1> QED
    BY <1>2, <1>3, <1>4, <1>5, <1>6, <1>7 DEF BufInv

\* A process turns to a buffer it holds, and others may be woken.
Turns(p, k, b, to) ==
  /\ held[p][k] = b /\ io[p].at = "idle" /\ to \notin {"idle", "panic"}
  /\ io'[p].at = to /\ io'[p].b = b /\ io'[p].k = k
  /\ \A q \in Procs : q # p =>
       /\ io'[q].b = io[q].b /\ io'[q].k = io[q].k
       /\ io'[q].at \in {"idle", "panic"} <=> io[q].at \in {"idle", "panic"}
       /\ io'[q].at \in Busy <=> io[q].at \in Busy
  /\ held' = [held EXCEPT ![p][k] = Nil]
  /\ \A c \in Bufs : buf'[c].block = buf[c].block /\ buf'[c].refcnt = buf[c].refcnt

\* It refers to the buffer as before.
LEMMA TurnEffect ==
  ASSUME Sizes, TypeOK, References, NEW p \in Procs, NEW k \in Blocks, NEW b \in Bufs,
         NEW to, Turns(p, k, b, to)
  PROVE  /\ held' \in HeldType /\ References'
         /\ \A q \in Procs : q # p => held'[q] = held[q]
         /\ \A q \in Procs, j \in Blocks : held'[q][j] # Nil => held'[q][j] = held[q][j]
         /\ \A q \in Procs, c \in Bufs :
              Owns(q, c)' <=> Owns(q, c) /\ (q = p /\ c = b => to \in Busy)
  <1>t. /\ held[p][k] = b /\ io[p].at = "idle" /\ to \notin {"idle", "panic"}
        /\ io'[p].at = to /\ io'[p].b = b /\ io'[p].k = k
        /\ \A q \in Procs : q # p =>
             /\ io'[q].b = io[q].b /\ io'[q].k = io[q].k
             /\ io'[q].at \in {"idle", "panic"} <=> io[q].at \in {"idle", "panic"}
             /\ io'[q].at \in Busy <=> io[q].at \in Busy
        /\ held' = [held EXCEPT ![p][k] = Nil]
        /\ \A c \in Bufs : buf'[c].block = buf[c].block /\ buf'[c].refcnt = buf[c].refcnt
    BY DEF Turns
  <1>n. Nil \notin Bufs
    BY NotNil
  <1>1. /\ held' \in HeldType /\ held'[p][k] = Nil
        /\ \A j \in Blocks : j # k => held'[p][j] = held[p][j]
        /\ \A q \in Procs : q # p => held'[q] = held[q]
    BY <1>t DEF TypeOK, HeldType
  <1>2. io[p].b = Nil
    BY <1>t DEF References, ProcRefs
  <1>3. ASSUME NEW c \in Bufs
        PROVE  (\E j \in Blocks : held'[p][j] = c) <=>
                 c # b /\ \E j \in Blocks : held[p][j] = c
    <2>1. ASSUME NEW j \in Blocks, held'[p][j] = c PROVE c # b /\ held[p][j] = c
      <3>1. j # k /\ held[p][j] = c
        BY <1>1, <1>n, <2>1
      <3>2. buf[b].block = k /\ buf[c].block = j
        BY <1>n, <1>t, <3>1, HoldsBuf
      <3> QED
        BY <3>1, <3>2
    <2>2. ASSUME NEW j \in Blocks, held[p][j] = c, c # b PROVE held'[p][j] = c
      BY <1>1, <1>t, <2>2
    <2> QED
      BY <1>t, <2>1, <2>2
  <1>4. ASSUME NEW q \in Procs, NEW c \in Bufs
        PROVE  (q \in RefersTo(c))' <=> q \in RefersTo(c)
    <2>1. CASE q = p
      <3>1. (\E j \in Blocks : held[p][j] = c) <=>
              c = b \/ \E j \in Blocks : held'[p][j] = c
        BY <1>3, <1>t
      <3>2. (p \in RefersTo(c))' <=> io'[p].b = c \/ \E j \in Blocks : held'[p][j] = c
        BY DEF RefersTo
      <3>3. p \in RefersTo(c) <=> \E j \in Blocks : held[p][j] = c
        BY <1>2, <1>n DEF RefersTo
      <3> QED
        BY <1>t, <2>1, <3>1, <3>2, <3>3
    <2>2. CASE q # p
      BY <1>1, <1>t, <2>2 DEF RefersTo
    <2> QED
      BY <2>1, <2>2
  <1>5. ASSUME NEW q \in Procs PROVE ProcRefs(q)'
    <2>1. CASE q = p
      <3>1. ASSUME NEW j \in Blocks, held'[p][j] # Nil PROVE buf'[held'[p][j]].block = j
        <4>1. held'[p][j] = held[p][j]
          BY <1>1, <3>1
        <4>2. held[p][j] \in Bufs /\ buf[held[p][j]].block = j
          BY <3>1, <4>1, HoldsBuf
        <4> QED
          BY <1>t, <4>1, <4>2
      <3>2. b # Nil /\ buf[b].block = k
        BY <1>n, <1>t, HoldsBuf
      <3> QED
        BY <1>1, <1>t, <2>1, <3>1, <3>2 DEF ProcRefs
    <2>2. CASE q # p
      BY <1>1, <1>t, <2>2, ProcRefsSame
    <2> QED
      BY <2>1, <2>2
  <1>6. References'
    BY <1>4, <1>5, <1>t, ReferencesSame
  <1>7. ASSUME NEW q \in Procs, NEW c \in Bufs
        PROVE  Owns(q, c)' <=> Owns(q, c) /\ (q = p /\ c = b => to \in Busy)
    <2>1. CASE q = p
      <3>1. Owns(p, c) <=> \E j \in Blocks : held[p][j] = c
        BY <1>t DEF Owns
      <3>2. Owns(p, c)' <=> (c = b /\ to \in Busy) \/ \E j \in Blocks : held'[p][j] = c
        BY <1>t DEF Owns, Busy
      <3> QED
        BY <1>3, <1>t, <2>1, <3>1, <3>2
    <2>2. CASE q # p
      BY <1>1, <1>t, <2>2 DEF Owns, Busy
    <2> QED
      BY <2>1, <2>2
  <1>8. \A q \in Procs, j \in Blocks : held'[q][j] # Nil => held'[q][j] = held[q][j]
    BY <1>1
  <1> QED
    BY <1>1, <1>6, <1>7, <1>8

\* bwrite(): the holder of a valid buffer changes it, and goes to the disk.
LEMMA BwriteStep ==
  ASSUME Sizes, BufInv, NEW p \in Procs, NEW k \in Blocks, bwrite(p, k)
  PROVE  BufInv'
  <1>0. TypeOK /\ References /\ LockOwners /\ Ordered /\ Flags /\ Queue /\ Data
    BY DEF BufInv
  <1>a. io[p].at = "idle" /\ held[p][k] \in Bufs /\ held[p][k] # Nil
    BY <1>0, HoldsBuf DEF bwrite, Turn
  <1>b. PICK b \in Bufs : held[p][k] = b
    BY <1>a
  <1>1. /\ io' = [io EXCEPT ![p] = [at |-> "iderw", b |-> b, k |-> k]]
        /\ held' = [held EXCEPT ![p][k] = Nil]
        /\ Change(k, b) /\ UNCHANGED <<lru, idequeue, device, disk>>
    BY <1>b DEF bwrite, Turn
  <1>2. /\ buf' \in [Bufs -> BufType]
        /\ latest' \in [Blocks -> Values] /\ bad' \subseteq Bufs
        /\ \A c \in Bufs : c # b => buf'[c] = buf[c]
        /\ \A c \in Bufs : /\ buf'[c].block = buf[c].block /\ buf'[c].valid = buf[c].valid
                           /\ buf'[c].locked = buf[c].locked
                           /\ buf'[c].refcnt = buf[c].refcnt
        /\ Data'
    BY <1>1, <1>a, <1>b, ChangeEffect
  <1>3. [at |-> "iderw", b |-> b, k |-> k] \in PcType
    BY DEF PcType, BufPlaces
  <1>4. /\ io' \in [Procs -> PcType]
        /\ io'[p].at = "iderw" /\ io'[p].b = b /\ io'[p].k = k
        /\ \A q \in Procs : q # p => io'[q] = io[q]
    BY <1>0, <1>1, <1>3, MoveTo
  <1>5. /\ held' \in HeldType /\ References'
        /\ \A q \in Procs : q # p => held'[q] = held[q]
        /\ \A q \in Procs, j \in Blocks : held'[q][j] # Nil => held'[q][j] = held[q][j]
        /\ \A q \in Procs, c \in Bufs :
             Owns(q, c)' <=> Owns(q, c) /\ (q = p /\ c = b => "iderw" \in Busy)
    <2>1. Turns(p, k, b, "iderw")
      BY <1>1, <1>2, <1>4, <1>a, <1>b DEF Turns
    <2> QED
      BY <1>0, <2>1, TurnEffect
  <1>6. TypeOK'
    BY <1>0, <1>1, <1>2, <1>4, <1>5 DEF TypeOK
  <1>7. LockOwners'
    <2>1. \A q \in Procs, c \in Bufs : Owns(q, c)' <=> Owns(q, c)
      BY <1>5 DEF Busy
    <2>2. \A q \in Procs : io'[q].at = "sleeplock" =>
            io[q].at = "sleeplock" /\ io'[q].b = io[q].b
      BY <1>4
    <2> QED
      BY <1>0, <1>2, <2>1, <2>2, OwnersSame
  <1>8. Ordered'
    <2>1. \A q \in Procs : io'[q].at \in Waiting =>
            io[q].at \in Waiting /\ io'[q].k = io[q].k /\ held'[q] = held[q]
      BY <1>4, <1>5 DEF Waiting
    <2> QED
      BY <1>0, <2>1, OrderedSame
  <1>9. Flags'
    <2>1. ASSUME NEW q \in Procs, io'[q].at = "wakedisk"
          PROVE  buf'[io'[q].b].valid = TRUE /\ buf'[io'[q].b].dirty = FALSE
      <3>0. q # p /\ io'[q] = io[q]
        BY <1>4, <2>1
      <3>1. io[q].b \in Bufs /\ buf[io[q].b].valid = TRUE /\ buf[io[q].b].dirty = FALSE
        BY <1>0, <2>1, <3>0, HasBuf DEF Flags
      <3>2. Owns(p, b) /\ Owns(q, io[q].b)
        BY <1>b, <2>1, <3>0 DEF Owns
      <3>3. io[q].b # b
        BY <1>0, <3>0, <3>1, <3>2 DEF LockOwners
      <3> QED
        BY <1>2, <3>0, <3>1, <3>3
    <2>2. ASSUME NEW q \in Procs, NEW j \in Blocks, held'[q][j] # Nil
          PROVE  buf'[held'[q][j]].valid = TRUE
      <3>1. held'[q][j] = held[q][j]
        BY <1>5, <2>2
      <3>2. held[q][j] \in Bufs /\ buf[held[q][j]].valid = TRUE
        BY <1>0, <2>2, <3>1, HoldsBuf DEF Flags
      <3> QED
        BY <1>2, <3>1, <3>2
    <2> QED
      BY <2>1, <2>2 DEF Flags
  <1>10. Queue'
    <2>1. \A q \in Procs : /\ io'[q].at = "sleepdisk" <=> io[q].at = "sleepdisk"
                           /\ io[q].at = "sleepdisk" => io'[q].b = io[q].b
      BY <1>4, <1>a
    <2> QED
      BY <1>0, <1>1, <2>1, QueueSame
  <1> QED
    BY <1>2, <1>5, <1>6, <1>7, <1>8, <1>9, <1>10 DEF BufInv

\* A buffer that a process is about to send to the disk is not there.
LEMMA NotQueued ==
  ASSUME TypeOK, References, LockOwners, Queue, NEW p \in Procs,
         io[p].at = "iderw", NEW i \in 1..Len(idequeue)
  PROVE  idequeue[i] # io[p].b
  <1>1. PICK q \in Procs : io[q].at = "sleepdisk" /\ io[q].b = idequeue[i]
    BY DEF Queue
  <1>2. idequeue[i] \in Bufs
    BY DEF TypeOK
  <1>3. io[p].b = idequeue[i] => Owns(p, idequeue[i])
    BY DEF Owns
  <1>4. Owns(q, idequeue[i])
    BY <1>1 DEF Owns
  <1> QED
    BY <1>1, <1>2, <1>3, <1>4 DEF LockOwners

\* iderw() puts a request that is not in the queue behind the others.
LEMMA IderwStep ==
  ASSUME Sizes, BufInv, NEW p \in Procs, iderw(p)
  PROVE  BufInv'
  <1>0. TypeOK /\ References /\ LockOwners /\ Ordered /\ Flags /\ Queue /\ Data
    BY DEF BufInv
  <1>a. io[p].b \in Bufs
    BY <1>0, HasBuf DEF iderw
  <1>b. PICK b \in Bufs : io[p].b = b
    BY <1>a
  <1> DEFINE n == Len(idequeue)
  <1>1. /\ io[p].at = "iderw" /\ io' = [io EXCEPT ![p].at = "sleepdisk"]
        /\ UNCHANGED <<lru, buf, disk, held, latest, bad>>
        /\ idequeue' = Append(idequeue, b)
        /\ device' = IF idequeue = <<>> THEN idestart(idequeue') ELSE device
    BY <1>b DEF iderw
  <1>3. /\ io' \in [Procs -> PcType] /\ io'[p].at = "sleepdisk"
        /\ \A q \in Procs : io'[q].b = io[q].b /\ io'[q].k = io[q].k
        /\ \A q \in Procs : q # p => io'[q] = io[q]
    <2>1. "sleepdisk" \in BufPlaces
      BY DEF BufPlaces
    <2> QED
      BY <1>0, <1>1, <2>1, MoveAt
  <1>4. /\ idequeue' \in Seq(Bufs) /\ n \in Nat /\ Len(idequeue') = n + 1
        /\ idequeue'[n + 1] = b
        /\ \A i \in 1..n : idequeue'[i] = idequeue[i]
        /\ idequeue' # <<>>
        /\ idequeue # <<>> => Head(idequeue') = Head(idequeue)
    BY <1>0, <1>1 DEF TypeOK
  <1>5. \A i \in 1..n : idequeue[i] # b
    BY <1>0, <1>1, <1>b, NotQueued
  <1>6. /\ device' \in {"idle", "busy", "interrupt"} /\ device' # "idle"
        /\ device' = "interrupt" => idequeue # <<>> /\ device = "interrupt"
    BY <1>0, <1>1, <1>4 DEF idestart, TypeOK, Queue
  <1> HIDE DEF n
  <1>n. n = Len(idequeue)
    BY DEF n
  <1>7. TypeOK'
    BY <1>0, <1>1, <1>3, <1>4, <1>6 DEF TypeOK
  <1>8. References'
    <2>1. \A q \in Procs : io'[q].at \in {"idle", "panic"} <=> io[q].at \in {"idle", "panic"}
      BY <1>1, <1>3
    <2>2. \A q \in Procs : ProcRefs(q)'
      BY <1>0, <1>1, <1>3, <2>1, ProcRefsSame
    <2>3. \A q \in Procs, c \in Bufs : (q \in RefersTo(c))' <=> q \in RefersTo(c)
      BY <1>1, <1>3 DEF RefersTo
    <2> QED
      BY <1>0, <1>1, <2>2, <2>3, ReferencesSame
  <1>9. LockOwners'
    <2>1. \A q \in Procs, c \in Bufs : Owns(q, c)' <=> Owns(q, c)
      BY <1>1, <1>3 DEF Owns
    <2>2. \A q \in Procs : io'[q].at = "sleeplock" =>
            io[q].at = "sleeplock" /\ io'[q].b = io[q].b
      BY <1>3
    <2> QED
      BY <1>0, <1>1, <2>1, <2>2, OwnersSame
  <1>10. Ordered' /\ Flags'
    <2>1. \A q \in Procs : io'[q].at \in Waiting =>
            io[q].at \in Waiting /\ io'[q].k = io[q].k /\ held'[q] = held[q]
      BY <1>1, <1>3 DEF Waiting
    <2>2. \A q \in Procs : io'[q].at = "wakedisk" =>
            io[q].at = "wakedisk" /\ io'[q].b = io[q].b
      BY <1>3
    <2> QED
      BY <1>0, <1>1, <2>1, <2>2, OrderedSame, FlagsSame
  <1>11. Queue'
    <2>1. ASSUME NEW q \in Procs, io'[q].at = "sleepdisk"
          PROVE  \E i \in 1..Len(idequeue') : idequeue'[i] = io'[q].b
      <3>1. CASE q = p
        <4>1. n + 1 \in 1..Len(idequeue')
          BY <1>4
        <4> QED
          BY <1>3, <1>4, <1>b, <3>1, <4>1
      <3>2. CASE q # p
        <4>1. PICK i \in 1..n : idequeue[i] = io[q].b
          BY <1>0, <1>3, <1>n, <2>1, <3>2 DEF Queue
        <4>2. i \in 1..Len(idequeue') /\ idequeue'[i] = idequeue[i]
          BY <1>4, <4>1
        <4> QED
          BY <1>3, <4>1, <4>2
      <3> QED
        BY <3>1, <3>2
    <2>2. ASSUME NEW i \in 1..Len(idequeue')
          PROVE  \E q \in Procs : io'[q].at = "sleepdisk" /\ io'[q].b = idequeue'[i]
      <3>1. CASE i = n + 1
        BY <1>3, <1>4, <1>b, <3>1
      <3>2. CASE i # n + 1
        <4>1. i \in 1..n
          BY <1>4, <2>2, <3>2
        <4>2. PICK q \in Procs : io[q].at = "sleepdisk" /\ io[q].b = idequeue[i]
          BY <1>0, <1>n, <4>1 DEF Queue
        <4>3. io'[q].at = "sleepdisk"
          BY <1>3, <4>2
        <4> QED
          BY <1>3, <1>4, <4>1, <4>2, <4>3
      <3> QED
        BY <3>1, <3>2
    <2>3. ASSUME NEW i \in 1..Len(idequeue'), NEW j \in 1..Len(idequeue'),
                 idequeue'[i] = idequeue'[j]
          PROVE  i = j
      <3>1. (i = n + 1 \/ i \in 1..n) /\ (j = n + 1 \/ j \in 1..n)
        BY <1>4
      <3>2. \A x, y \in 1..n : idequeue[x] = idequeue[y] => x = y
        BY <1>0, <1>n DEF Queue
      <3>3. CASE i = n + 1 /\ j = n + 1
        BY <3>3
      <3>4. CASE i \in 1..n /\ j \in 1..n
        BY <1>4, <2>3, <3>2, <3>4
      <3>5. CASE i = n + 1 /\ j \in 1..n
        BY <1>4, <1>5, <2>3, <3>5
      <3>6. CASE i \in 1..n /\ j = n + 1
        BY <1>4, <1>5, <2>3, <3>6
      <3> QED
        BY <3>1, <3>3, <3>4, <3>5, <3>6
    <2> QED
      BY <1>4, <1>6, <2>1, <2>2, <2>3 DEF Queue
  <1>12. Data'
    BY <1>0, <1>1, <1>4, <1>6 DEF Data
  <1> QED
    BY <1>7, <1>8, <1>9, <1>10, <1>11, <1>12 DEF BufInv

\* The disk does what it is told: a dirty buffer is written as it is.
LEMMA DiskStep ==
  ASSUME Sizes, BufInv, Disk
  PROVE  BufInv'
  <1>0. TypeOK /\ References /\ LockOwners /\ Ordered /\ Flags /\ Queue /\ Data
    BY DEF BufInv
  <1> DEFINE h == Head(idequeue)
             m == buf[h].block
  <1>1. /\ device = "busy" /\ device' = "interrupt"
        /\ disk' = IF buf[h].dirty THEN [disk EXCEPT ![m] = buf[h].data] ELSE disk
        /\ UNCHANGED <<lru, buf, idequeue, io, held, latest, bad>>
    BY DEF Disk
  <1>2. idequeue # <<>>
    BY <1>0, <1>1 DEF Queue
  <1>3. h \in Bufs /\ m \in Blocks
    BY <1>0, <1>2, HeadUsed
  <1>4. buf[h] \in BufType
    BY <1>0, <1>3 DEF TypeOK
  <1>5. /\ disk' \in [Blocks -> Values]
        /\ buf[h].dirty = TRUE => disk'[m] = buf[h].data
        /\ \A k \in Blocks : disk'[k] = disk[k] \/ (k = m /\ buf[h].dirty = TRUE)
    BY <1>0, <1>1, <1>3, <1>4 DEF TypeOK, BufType
  <1> HIDE DEF h, m
  <1>6. TypeOK'
    BY <1>0, <1>1, <1>5 DEF TypeOK
  <1>7. References' /\ LockOwners' /\ Ordered' /\ Flags'
    BY <1>0, <1>1 DEF References, ProcRefs, RefersTo, LockOwners, Owns, Ordered, Flags
  <1>8. Queue'
    BY <1>0, <1>1, <1>2 DEF Queue
  <1>9. Data'
    <2>1. ASSUME NEW k \in Blocks
          PROVE  disk'[k] = latest[k] \/ \E c \in Bufs : buf[c].block = k /\ buf[c].dirty = TRUE
      <3>1. CASE disk'[k] = disk[k]
        BY <1>0, <3>1 DEF Data
      <3>2. CASE k = m /\ buf[h].dirty = TRUE
        BY <1>3, <3>2 DEF m
      <3> QED
        BY <1>5, <3>1, <3>2
    <2> QED
      BY <1>0, <1>1, <1>5, <2>1 DEF Data, h, m
  <1> QED
    BY <1>6, <1>7, <1>8, <1>9 DEF BufInv

\* What ideintr() does to the buffers: only the first one of the queue changes.
LEMMA IdeintrData ==
  ASSUME Sizes, BufInv, ideintr
  PROVE  /\ buf' \in [Bufs -> BufType] /\ bad' \subseteq Bufs
         /\ \A c \in Bufs : c # Head(idequeue) => buf'[c] = buf[c] /\ (c \in bad' <=> c \in bad)
         /\ \A c \in Bufs : /\ buf'[c].block = buf[c].block /\ buf'[c].locked = buf[c].locked
                            /\ buf'[c].refcnt = buf[c].refcnt
         /\ buf'[Head(idequeue)].valid = TRUE
         /\ buf'[Head(idequeue)].dirty = FALSE
         /\ Data'
  <1>0. TypeOK /\ References /\ Queue /\ Data
    BY DEF BufInv
  <1> DEFINE h == Head(idequeue)
             m == buf[h].block
  <1>1. /\ device = "interrupt" /\ idequeue' = Tail(idequeue)
        /\ device' = idestart(idequeue')
        /\ UNCHANGED <<lru, disk, held, latest>>
    BY DEF ideintr
  <1>2. PICK ok \in idewait(m) :
          /\ buf' = [buf EXCEPT ![h].valid = TRUE, ![h].dirty = FALSE,
               ![h].data = IF buf[h].dirty \/ ~ok THEN @ ELSE disk[m]]
          /\ bad' = IF ~buf[h].dirty /\ ~ok THEN bad \cup {h} ELSE bad \ {h}
    BY DEF ideintr
  <1>3. idequeue # <<>>
    BY <1>0, <1>1 DEF Queue
  <1>4. h \in Bufs /\ m \in Blocks
    BY <1>0, <1>3, HeadUsed
  <1>5. buf[h] \in BufType /\ disk[m] \in Values
    BY <1>0, <1>4 DEF TypeOK
  <1>6. /\ buf' \in [Bufs -> BufType]
        /\ \A c \in Bufs : c # h => buf'[c] = buf[c]
    <2>1. (IF buf[h].dirty \/ ~ok THEN buf[h].data ELSE disk[m]) \in Values
      BY <1>5 DEF BufType
    <2> QED
      BY <1>0, <1>2, <1>4, <1>5, <2>1 DEF TypeOK, BufType
  <1>7. /\ buf'[h].block = m /\ buf'[h].locked = buf[h].locked
        /\ buf'[h].refcnt = buf[h].refcnt
        /\ buf'[h].data = IF buf[h].dirty \/ ~ok THEN buf[h].data ELSE disk[m]
    BY <1>0, <1>2, <1>4, <1>5 DEF TypeOK, BufType
  <1>8. buf'[h].valid = TRUE /\ buf'[h].dirty = FALSE
    BY <1>0, <1>2, <1>4, <1>5 DEF TypeOK, BufType
  <1>9. /\ bad' \subseteq Bufs
        /\ \A c \in Bufs : c # h => (c \in bad' <=> c \in bad)
        /\ h \in bad' <=> (~buf[h].dirty /\ ~ok)
    BY <1>0, <1>2, <1>4 DEF TypeOK
  <1>10. \A c \in Bufs : c # h => buf[c].block # m
    BY <1>0, <1>4 DEF References, Sizes, NoBlock
  <1> HIDE DEF h, m
  <1>h. buf[h].block = m /\ h = Head(idequeue)
    BY DEF h, m
  <1>11. ASSUME buf[h].dirty = TRUE
         PROVE  disk[m] = latest[m] /\ buf[h].data = latest[m]
    <2>1. disk[m] = buf[h].data
      BY <1>0, <1>1, <1>h, <1>11 DEF Data
    <2>2. buf[h].valid = TRUE /\ h \notin bad
      BY <1>0, <1>4, <1>11 DEF Data
    <2>3. m # NoBlock
      BY <1>4 DEF Sizes, NoBlock
    <2> QED
      BY <1>0, <1>4, <1>h, <2>1, <2>2, <2>3 DEF Data
  <1>12. disk[m] = latest[m]
    <2>1. CASE \E c \in Bufs : buf[c].block = m /\ buf[c].dirty = TRUE
      BY <1>10, <1>11, <2>1
    <2>2. CASE ~(\E c \in Bufs : buf[c].block = m /\ buf[c].dirty = TRUE)
      BY <1>0, <1>4, <2>2 DEF Data
    <2> QED
      BY <2>1, <2>2
  <1>13. h \notin bad' => buf'[h].data = latest[m]
    <2>1. CASE buf[h].dirty = TRUE
      BY <1>7, <1>11, <2>1
    <2>2. CASE buf[h].dirty = FALSE
      BY <1>7, <1>9, <1>12, <2>2
    <2> QED
      BY <1>5, <2>1, <2>2 DEF BufType
  <1>14. Data'
    <2>1. ASSUME NEW c \in Bufs, buf'[c].valid = TRUE, c \notin bad', buf'[c].block # NoBlock
          PROVE  buf'[c].data = latest[buf'[c].block]
      <3>1. CASE c = h
        BY <1>7, <1>13, <2>1, <3>1
      <3>2. CASE c # h
        BY <1>0, <1>6, <1>9, <2>1, <3>2 DEF Data
      <3> QED
        BY <3>1, <3>2
    <2>2. ASSUME NEW c \in Bufs, buf'[c].dirty = TRUE
          PROVE  buf'[c].valid = TRUE /\ c \notin bad'
      <3>1. c # h
        BY <1>8, <2>2
      <3> QED
        BY <1>0, <1>6, <1>9, <2>2, <3>1 DEF Data
    <2>3. ASSUME NEW k \in Blocks
          PROVE  disk[k] = latest[k] \/ \E c \in Bufs : buf'[c].block = k /\ buf'[c].dirty = TRUE
      <3>1. CASE k = m
        BY <1>12, <3>1
      <3>2. CASE k # m
        <4>1. disk[k] = latest[k] \/ \E c \in Bufs : buf[c].block = k /\ buf[c].dirty = TRUE
          BY <1>0 DEF Data
        <4>2. ASSUME NEW c \in Bufs, buf[c].block = k PROVE buf'[c] = buf[c]
          BY <1>6, <1>h, <3>2, <4>2
        <4> QED
          BY <4>1, <4>2
      <3> QED
        BY <3>1, <3>2
    <2>4. device' # "interrupt"
      BY <1>1 DEF idestart
    <2> QED
      BY <1>1, <2>1, <2>2, <2>3, <2>4 DEF Data
  <1> QED
    BY <1>6, <1>7, <1>8, <1>9, <1>14, <1>h

\* ideintr(): the first request is done, and its process woken.
LEMMA IdeintrStep ==
  ASSUME Sizes, BufInv, ideintr
  PROVE  BufInv'
  <1>0. TypeOK /\ References /\ LockOwners /\ Ordered /\ Flags /\ Queue /\ Data
    BY DEF BufInv
  <1> DEFINE h == Head(idequeue)
             n == Len(idequeue)
  <1>1. /\ device = "interrupt" /\ idequeue' = Tail(idequeue)
        /\ device' = idestart(idequeue')
        /\ UNCHANGED <<lru, disk, held, latest>>
        /\ io' = Move(io, "sleepdisk", h, "wakedisk")
    BY DEF ideintr
  <1>2. idequeue # <<>>
    BY <1>0, <1>1 DEF Queue
  <1>3. h \in Bufs /\ h = idequeue[1]
    BY <1>0, <1>2 DEF TypeOK
  <1>4. /\ io' \in [Procs -> PcType]
        /\ \A q \in Procs : /\ io'[q].b = io[q].b /\ io'[q].k = io[q].k
                            /\ io'[q].at = (IF io[q].at = "sleepdisk" /\ io[q].b = h
                                              THEN "wakedisk" ELSE io[q].at)
    <2>1. io \in [Procs -> PcType] /\ "wakedisk" \in BufPlaces
      BY <1>0 DEF TypeOK, BufPlaces
    <2> QED
      BY <1>1, <2>1, MoveAll
  <1>5. /\ idequeue' \in Seq(Bufs) /\ n \in Nat \ {0} /\ Len(idequeue') = n - 1
        /\ \A i \in 1..(n - 1) : idequeue'[i] = idequeue[i + 1]
    BY <1>0, <1>1, <1>2 DEF TypeOK
  <1>6. /\ buf' \in [Bufs -> BufType] /\ bad' \subseteq Bufs
        /\ \A c \in Bufs : c # h => buf'[c] = buf[c]
        /\ \A c \in Bufs : /\ buf'[c].block = buf[c].block /\ buf'[c].locked = buf[c].locked
                           /\ buf'[c].refcnt = buf[c].refcnt
        /\ buf'[h].valid = TRUE
        /\ buf'[h].dirty = FALSE
        /\ Data'
    BY IdeintrData
  <1> HIDE DEF h, n
  <1>n. n = Len(idequeue)
    BY DEF n
  <1>7. TypeOK'
    <2>1. device' \in {"idle", "busy", "interrupt"}
      BY <1>1 DEF idestart
    <2> QED
      BY <1>0, <1>1, <1>4, <1>5, <1>6, <2>1 DEF TypeOK
  <1>8. References'
    <2>1. \A q \in Procs : io'[q].at \in {"idle", "panic"} <=> io[q].at \in {"idle", "panic"}
      BY <1>4
    <2>2. \A q \in Procs : ProcRefs(q)'
      BY <1>0, <1>1, <1>4, <1>6, <2>1, ProcRefsSame
    <2>3. \A q \in Procs, c \in Bufs : (q \in RefersTo(c))' <=> q \in RefersTo(c)
      BY <1>1, <1>4 DEF RefersTo
    <2> QED
      BY <1>0, <1>6, <2>2, <2>3, ReferencesSame
  <1>9. LockOwners' /\ Ordered'
    <2>1. \A q \in Procs, c \in Bufs : Owns(q, c)' <=> Owns(q, c)
      BY <1>1, <1>4 DEF Owns
    <2>2. \A q \in Procs : io'[q].at = "sleeplock" =>
            io[q].at = "sleeplock" /\ io'[q].b = io[q].b
      BY <1>4
    <2>3. \A q \in Procs : io'[q].at \in Waiting =>
            io[q].at \in Waiting /\ io'[q].k = io[q].k /\ held'[q] = held[q]
      BY <1>1, <1>4 DEF Waiting
    <2> QED
      BY <1>0, <1>6, <2>1, <2>2, <2>3, OwnersSame, OrderedSame
  <1>10. Flags'
    <2>1. ASSUME NEW q \in Procs, io'[q].at = "wakedisk"
          PROVE  buf'[io'[q].b].valid = TRUE /\ buf'[io'[q].b].dirty = FALSE
      <3>1. CASE io[q].b = h
        BY <1>4, <1>6, <3>1
      <3>2. CASE io[q].b # h
        <4>1. io[q].at = "wakedisk"
          BY <1>4, <2>1, <3>2
        <4>2. io[q].b \in Bufs /\ buf[io[q].b].valid = TRUE /\ buf[io[q].b].dirty = FALSE
          BY <1>0, <4>1, HasBuf DEF Flags
        <4> QED
          BY <1>4, <1>6, <3>2, <4>2
      <3> QED
        BY <3>1, <3>2
    <2>2. ASSUME NEW q \in Procs, NEW j \in Blocks, held[q][j] # Nil
          PROVE  buf'[held[q][j]].valid = TRUE
      <3>1. held[q][j] \in Bufs /\ buf[held[q][j]].valid = TRUE
        BY <1>0, <2>2, HoldsBuf DEF Flags
      <3> QED
        BY <1>6, <3>1
    <2> QED
      BY <1>1, <2>1, <2>2 DEF Flags
  <1>11. Queue'
    <2>1. ASSUME NEW q \in Procs, io'[q].at = "sleepdisk"
          PROVE  \E i \in 1..Len(idequeue') : idequeue'[i] = io'[q].b
      <3>1. io[q].at = "sleepdisk" /\ io[q].b # h
        BY <1>4, <2>1
      <3>2. PICK i \in 1..n : idequeue[i] = io[q].b
        BY <1>0, <1>n, <3>1 DEF Queue
      <3>3. i - 1 \in 1..(n - 1) /\ (i - 1) + 1 = i
        BY <1>3, <1>5, <3>1, <3>2
      <3>4. idequeue'[i - 1] = idequeue[(i - 1) + 1]
        BY <1>5, <3>3
      <3> QED
        BY <1>4, <1>5, <3>2, <3>3, <3>4
    <2>2. ASSUME NEW i \in 1..Len(idequeue')
          PROVE  \E q \in Procs : io'[q].at = "sleepdisk" /\ io'[q].b = idequeue'[i]
      <3>1. i \in 1..(n - 1) /\ i + 1 \in 1..n /\ 1 \in 1..n /\ i + 1 # 1
        BY <1>5, <2>2
      <3>2. PICK q \in Procs : io[q].at = "sleepdisk" /\ io[q].b = idequeue[i + 1]
        BY <1>0, <1>n, <3>1 DEF Queue
      <3>3. idequeue[i + 1] # h
        BY <1>0, <1>3, <1>n, <3>1 DEF Queue
      <3>4. io'[q].at = "sleepdisk" /\ io'[q].b = idequeue[i + 1]
        BY <1>4, <3>2, <3>3
      <3> QED
        BY <1>5, <3>1, <3>4
    <2>3. ASSUME NEW i \in 1..Len(idequeue'), NEW j \in 1..Len(idequeue'),
                 idequeue'[i] = idequeue'[j]
          PROVE  i = j
      <3>1. /\ i \in 1..(n - 1) /\ i + 1 \in 1..n
            /\ j \in 1..(n - 1) /\ j + 1 \in 1..n
        BY <1>5
      <3>2. idequeue[i + 1] = idequeue[j + 1]
        BY <1>5, <2>3, <3>1
      <3>3. i + 1 = j + 1
        BY <1>0, <1>n, <3>1, <3>2 DEF Queue
      <3> QED
        BY <3>1, <3>3
    <2>4. device' = "idle" <=> idequeue' = <<>>
      BY <1>1 DEF idestart
    <2> QED
      BY <2>1, <2>2, <2>3, <2>4 DEF Queue
  <1> QED
    BY <1>6, <1>7, <1>8, <1>9, <1>10, <1>11 DEF BufInv

\* releasesleep(): the owner gives the lock back, and everybody who sleeps on
\* it tries again.
LEMMA ReleasesleepStep ==
  ASSUME Sizes, BufInv, NEW p \in Procs, NEW k \in Blocks, releasesleep(p, k)
  PROVE  BufInv'
  <1>0. TypeOK /\ References /\ LockOwners /\ Ordered /\ Flags /\ Queue /\ Data
    BY DEF BufInv
  <1>a. io[p].at = "idle" /\ held[p][k] \in Bufs /\ held[p][k] # Nil
    BY <1>0, HoldsBuf DEF releasesleep
  <1>b. PICK b \in Bufs : held[p][k] = b
    BY <1>a
  <1> DEFINE r == [at |-> "brelse", b |-> b, k |-> k]
             at == [io EXCEPT ![p] = r]
  <1>1. /\ UNCHANGED <<lru, idequeue, device, disk, latest, bad>>
        /\ buf' = [buf EXCEPT ![b].locked = FALSE]
        /\ io' = Move(at, "sleeplock", b, "acquiresleep")
        /\ held' = [held EXCEPT ![p][k] = Nil]
    BY <1>b DEF releasesleep
  <1>2. buf[b] \in BufType /\ Owns(p, b)
    BY <1>0, <1>a, <1>b, HoldsBuf
  <1>4. /\ buf' \in [Bufs -> BufType] /\ buf'[b].locked = FALSE
        /\ \A c \in Bufs : c # b => buf'[c] = buf[c]
        /\ \A c \in Bufs : /\ buf'[c].block = buf[c].block /\ buf'[c].valid = buf[c].valid
                           /\ buf'[c].dirty = buf[c].dirty /\ buf'[c].data = buf[c].data
                           /\ buf'[c].refcnt = buf[c].refcnt
    BY <1>0, <1>1, <1>2 DEF TypeOK, BufType
  <1>5. /\ at \in [Procs -> PcType] /\ at[p] = r /\ r.at = "brelse" /\ r.b = b /\ r.k = k
        /\ \A q \in Procs : q # p => at[q] = io[q]
    <2>1. io \in [Procs -> PcType]
      BY <1>0 DEF TypeOK
    <2>2. r \in PcType /\ r.at = "brelse" /\ r.b = b /\ r.k = k
      BY DEF PcType, BufPlaces
    <2> HIDE DEF r
    <2> QED
      BY <2>1, <2>2
  <1> HIDE DEF at, r
  <1>6. /\ io' \in [Procs -> PcType]
        /\ \A q \in Procs : /\ io'[q].b = at[q].b /\ io'[q].k = at[q].k
                            /\ io'[q].at = (IF at[q].at = "sleeplock" /\ at[q].b = b
                                              THEN "acquiresleep" ELSE at[q].at)
    <2>1. "acquiresleep" \in BufPlaces
      BY DEF BufPlaces
    <2> QED
      BY <1>1, <1>5, <2>1, MoveAll
  <1>7. /\ io'[p].at = "brelse" /\ io'[p].b = b /\ io'[p].k = k
        /\ \A q \in Procs : q # p => io'[q].b = io[q].b /\ io'[q].k = io[q].k
        /\ \A q \in Procs : q # p =>
             \/ io'[q].at = io[q].at /\ ~(io[q].at = "sleeplock" /\ io[q].b = b)
             \/ io'[q].at = "acquiresleep" /\ io[q].at = "sleeplock"
    BY <1>5, <1>6
  <1>8. /\ held' \in HeldType /\ References'
        /\ \A q \in Procs : q # p => held'[q] = held[q]
        /\ \A q \in Procs, j \in Blocks : held'[q][j] # Nil => held'[q][j] = held[q][j]
        /\ \A q \in Procs, c \in Bufs :
             Owns(q, c)' <=> Owns(q, c) /\ (q = p /\ c = b => "brelse" \in Busy)
    <2>1. \A q \in Procs : q # p =>
            /\ io'[q].at \in {"idle", "panic"} <=> io[q].at \in {"idle", "panic"}
            /\ io'[q].at \in Busy <=> io[q].at \in Busy
      BY <1>7 DEF Busy
    <2>2. Turns(p, k, b, "brelse")
      BY <1>1, <1>4, <1>7, <1>a, <1>b, <2>1 DEF Turns
    <2> QED
      BY <1>0, <2>2, TurnEffect
  <1>9. TypeOK'
    BY <1>0, <1>1, <1>4, <1>6, <1>8 DEF TypeOK
  <1>10. LockOwners'
    <2>1. \A q \in Procs, c \in Bufs : Owns(q, c)' => Owns(q, c) /\ c # b
      BY <1>0, <1>2, <1>8 DEF LockOwners, Busy
    <2>2. ASSUME NEW q \in Procs, io'[q].at = "sleeplock" PROVE buf'[io'[q].b].locked = TRUE
      <3>1. q # p /\ io[q].at = "sleeplock" /\ io'[q].b = io[q].b /\ io[q].b # b
        BY <1>7, <2>2
      <3>2. io[q].b \in Bufs /\ buf[io[q].b].locked = TRUE
        BY <1>0, <3>1, HasBuf DEF LockOwners
      <3> QED
        BY <1>4, <3>1, <3>2
    <2>3. \A q \in Procs, c \in Bufs : Owns(q, c)' => buf'[c].locked = TRUE
      BY <1>0, <1>4, <2>1 DEF LockOwners
    <2>4. \A q, w \in Procs, c \in Bufs : Owns(q, c)' /\ Owns(w, c)' => q = w
      BY <1>0, <2>1 DEF LockOwners
    <2>5. ASSUME NEW c \in Bufs, buf'[c].locked = TRUE PROVE \E q \in Procs : Owns(q, c)'
      <3>1. c # b /\ buf[c].locked = TRUE
        BY <1>4, <2>5
      <3> QED
        BY <1>0, <1>8, <3>1 DEF LockOwners
    <2> QED
      BY <2>2, <2>3, <2>4, <2>5 DEF LockOwners
  <1>11. Ordered'
    <2>1. \A q \in Procs : io'[q].at \in Waiting =>
            io[q].at \in Waiting /\ io'[q].k = io[q].k /\ held'[q] = held[q]
      BY <1>7, <1>8 DEF Waiting
    <2> QED
      BY <1>0, <2>1, OrderedSame
  <1>12. Flags'
    <2>1. \A q \in Procs : io'[q].at = "wakedisk" =>
            io[q].at = "wakedisk" /\ io'[q].b = io[q].b
      BY <1>7
    <2> QED
      BY <1>0, <1>4, <1>8, <2>1, FlagsSame
  <1>13. Queue'
    <2>1. \A q \in Procs : /\ io'[q].at = "sleepdisk" <=> io[q].at = "sleepdisk"
                           /\ io[q].at = "sleepdisk" => io'[q].b = io[q].b
      BY <1>7, <1>a
    <2> QED
      BY <1>0, <1>1, <2>1, QueueSame
  <1>14. Data'
    BY <1>0, <1>1, <1>4, DataSame
  <1> QED
    BY <1>8, <1>9, <1>10, <1>11, <1>12, <1>13, <1>14 DEF BufInv

\* The rest of brelse(): one reference less, and the list may change its order.
LEMMA BrelseStep ==
  ASSUME Sizes, BufInv, NEW p \in Procs, brelse(p)
  PROVE  BufInv'
  <1>0. TypeOK /\ References /\ LockOwners /\ Ordered /\ Flags /\ Queue /\ Data
    BY DEF BufInv
  <1>a. io[p].at = "brelse" /\ io[p].b \in Bufs
    BY <1>0, HasBuf DEF brelse
  <1>b. PICK b \in Bufs : io[p].b = b
    BY <1>a
  <1>1. /\ io[p].at = "brelse" /\ UNCHANGED <<idequeue, device, disk, held, latest, bad>>
        /\ buf' = [buf EXCEPT ![b].refcnt = @ - 1]
        /\ lru' = IF buf[b].refcnt = 1 THEN InFront(b) ELSE lru
        /\ io' = [io EXCEPT ![p] = Idle]
    BY <1>b DEF brelse
  <1>2. b \in Bufs /\ buf[b] \in BufType
    BY <1>0 DEF TypeOK
  <1>3. b # Nil /\ \A c \in Bufs : c # Nil
    BY <1>2 DEF Bufs, Nil, Sizes
  <1>4. Idle \in PcType /\ Idle.at = "idle" /\ Idle.b = Nil
    BY DEF Idle, PcType, BufPlaces
  <1>5. /\ io' \in [Procs -> PcType] /\ io'[p] = Idle
        /\ \A q \in Procs : q # p => io'[q] = io[q]
    BY <1>0, <1>1, <1>4 DEF TypeOK
  <1>6. /\ p \in RefersTo(b) /\ Cardinality(RefersTo(b)) \in Nat
        /\ Cardinality(RefersTo(b) \ {p}) = Cardinality(RefersTo(b)) - 1
        /\ Cardinality(RefersTo(b) \ {p}) \in Nat
    <2>1. IsFiniteSet(RefersTo(b)) /\ p \in RefersTo(b)
      BY <1>0, <1>b, NoUsers DEF RefersTo
    <2>2. /\ IsFiniteSet(RefersTo(b) \ {p})
          /\ Cardinality(RefersTo(b) \ {p}) = Cardinality(RefersTo(b)) - 1
      BY <2>1, FS_RemoveElement
    <2> QED
      BY <2>1, <2>2, FS_CardinalityType
  <1>7. buf[b].refcnt = Cardinality(RefersTo(b)) /\ buf[b].refcnt - 1 \in Nat
    BY <1>0, <1>2, <1>6 DEF References
  <1>8. /\ buf' \in [Bufs -> BufType] /\ buf'[b].refcnt = buf[b].refcnt - 1
        /\ \A c \in Bufs : c # b => buf'[c] = buf[c]
        /\ \A c \in Bufs : /\ buf'[c].block = buf[c].block /\ buf'[c].valid = buf[c].valid
                           /\ buf'[c].dirty = buf[c].dirty /\ buf'[c].data = buf[c].data
                           /\ buf'[c].locked = buf[c].locked
    BY <1>0, <1>1, <1>2, <1>7 DEF TypeOK, BufType
  <1>9. lru' \in [Bufs -> Bufs] /\ \A c \in Bufs : \E i \in Bufs : lru'[i] = c
    <2>1. CASE lru' = InFront(b)
      BY <1>0, <1>2, <2>1, InFrontType
    <2>2. CASE lru' = lru
      BY <1>0, <2>2 DEF TypeOK
    <2> QED
      BY <1>1, <2>1, <2>2
  <1>10. TypeOK'
    BY <1>0, <1>1, <1>5, <1>8, <1>9 DEF TypeOK
  <1>11. References'
    <2>1. RefersTo(b)' = RefersTo(b) \ {p}
      <3>1. io'[p].b # b /\ \A j \in Blocks : held[p][j] # b
        BY <1>0, <1>3, <1>4, <1>5, <1>b, HeldApart
      <3> QED
        BY <1>1, <1>5, <3>1 DEF RefersTo
    <2>2. \A c \in Bufs : c # b => RefersTo(c)' = RefersTo(c)
      BY <1>1, <1>3, <1>4, <1>5, <1>b DEF RefersTo
    <2>3. ASSUME NEW c \in Bufs PROVE buf'[c].refcnt = Cardinality(RefersTo(c)')
      <3>1. CASE c = b
        BY <1>6, <1>7, <1>8, <2>1, <3>1
      <3>2. CASE c # b
        BY <1>0, <1>8, <2>2, <3>2 DEF References
      <3> QED
        BY <3>1, <3>2
    <2>4. ASSUME NEW q \in Procs PROVE ProcRefs(q)'
      <3>1. CASE q = p
        <4>1. \A j \in Blocks : held[p][j] # Nil => held[p][j] \in Bufs /\ buf[held[p][j]].block = j
          BY <1>0, HoldsBuf
        <4> QED
          BY <1>1, <1>4, <1>5, <1>8, <3>1, <4>1 DEF ProcRefs
      <3>2. CASE q # p
        BY <1>0, <1>1, <1>5, <1>8, <3>2, ProcRefsSame
      <3> QED
        BY <3>1, <3>2
    <2>5. \A c, e \in Bufs :
            c # e /\ buf'[c].block = buf'[e].block => buf'[c].block = NoBlock
      BY <1>0, <1>8 DEF References
    <2> QED
      BY <2>3, <2>4, <2>5 DEF References
  <1>12. LockOwners' /\ Ordered'
    <2>1. ASSUME NEW q \in Procs, NEW c \in Bufs PROVE Owns(q, c)' <=> Owns(q, c)
      <3>1. CASE q = p
        <4>1. /\ io'[q].at \notin {"iderw", "sleepdisk", "wakedisk"}
              /\ io[q].at \notin {"iderw", "sleepdisk", "wakedisk"}
          BY <1>1, <1>4, <1>5, <3>1
        <4> QED
          BY <1>1, <4>1 DEF Owns
      <3>2. CASE q # p
        BY <1>1, <1>5, <3>2 DEF Owns
      <3> QED
        BY <3>1, <3>2
    <2>2. \A q \in Procs : io'[q].at = "sleeplock" =>
            io[q].at = "sleeplock" /\ io'[q].b = io[q].b
      BY <1>4, <1>5
    <2>3. \A q \in Procs : io'[q].at \in Waiting =>
            io[q].at \in Waiting /\ io'[q].k = io[q].k /\ held'[q] = held[q]
      BY <1>1, <1>4, <1>5 DEF Waiting
    <2> QED
      BY <1>0, <1>8, <2>1, <2>2, <2>3, OwnersSame, OrderedSame
  <1>13. Flags'
    <2>1. \A q \in Procs : io'[q].at = "wakedisk" =>
            io[q].at = "wakedisk" /\ io'[q].b = io[q].b
      BY <1>4, <1>5
    <2> QED
      BY <1>0, <1>1, <1>8, <2>1, FlagsSame
  <1>14. Queue'
    <2>1. \A q \in Procs : /\ io'[q].at = "sleepdisk" <=> io[q].at = "sleepdisk"
                           /\ io[q].at = "sleepdisk" => io'[q].b = io[q].b
      BY <1>1, <1>4, <1>5
    <2> QED
      BY <1>0, <1>1, <2>1, QueueSame
  <1>15. Data'
    BY <1>0, <1>1, <1>8, DataSame
  <1> QED
    BY <1>10, <1>11, <1>12, <1>13, <1>14, <1>15 DEF BufInv

-----------------------------------------------------------------------------
\* After binit() the invariant holds.
LEMMA InitInv ==
  ASSUME Sizes, BufInit
  PROVE  BufInv
  <1> DEFINE e == [block |-> NoBlock, refcnt |-> 0, valid |-> FALSE, dirty |-> FALSE,
                   data |-> 0, locked |-> FALSE]
  <1>1. NBUF \in Nat /\ NBUF # 0 /\ MAXVAL \in Nat
    BY DEF Sizes
  <1>2. e \in BufType
    BY <1>1 DEF BufType, Values, NoBlock
  <1>3. /\ buf \in [Bufs -> BufType]
        /\ \A b \in Bufs : /\ buf[b].block = NoBlock /\ buf[b].refcnt = 0
                           /\ buf[b].valid = FALSE /\ buf[b].dirty = FALSE
                           /\ buf[b].locked = FALSE
    BY <1>2 DEF BufInit
  <1>4. Idle \in PcType /\ Idle.at = "idle" /\ Idle.b = Nil
    BY DEF Idle, PcType, BufPlaces
  <1>5. io \in [Procs -> PcType] /\ \A p \in Procs : io[p].at = "idle" /\ io[p].b = Nil
    BY <1>4 DEF BufInit
  <1>h. held \in HeldType /\ \A p \in Procs, k \in Blocks : held[p][k] = Nil
    BY DEF BufInit, HeldType
  <1>6. lru \in [Bufs -> Bufs] /\ \A b \in Bufs : \E i \in Bufs : lru[i] = b
    <2>1. lru = [i \in Bufs |-> NBUF + 1 - i]
      BY DEF BufInit
    <2>2. \A b \in Bufs : NBUF + 1 - b \in Bufs /\ NBUF + 1 - (NBUF + 1 - b) = b
      BY <1>1 DEF Bufs
    <2> QED
      BY <2>1, <2>2
  <1>7. TypeOK
    <2>1. disk \in [Blocks -> Values] /\ latest \in [Blocks -> Values]
      BY <1>1 DEF BufInit, Values
    <2>2. idequeue \in Seq(Bufs) /\ device \in {"idle", "busy", "interrupt"} /\ bad \subseteq Bufs
      BY DEF BufInit
    <2> QED
      BY <1>3, <1>5, <1>6, <1>h, <2>1, <2>2 DEF TypeOK
  <1>8. References
    <2>1. \A b \in Bufs : b # Nil
      BY <1>1 DEF Bufs, Nil
    <2>2. \A b \in Bufs : RefersTo(b) = {}
      BY <1>5, <1>h, <2>1 DEF RefersTo
    <2> QED
      BY <1>3, <1>5, <1>h, <2>2, FS_EmptySet DEF References, ProcRefs
  <1>9. LockOwners /\ Ordered /\ Flags
    <2>1. \A b \in Bufs : b # Nil
      BY <1>1 DEF Bufs, Nil
    <2>2. \A p \in Procs, b \in Bufs : ~Owns(p, b)
      BY <1>5, <1>h, <2>1 DEF Owns
    <2> QED
      BY <1>3, <1>5, <1>h, <2>2 DEF LockOwners, Ordered, Waiting, Flags
  <1>10. Queue
    <2>1. idequeue = <<>> /\ device = "idle"
      BY DEF BufInit
    <2> QED
      BY <1>5, <2>1 DEF Queue
  <1>11. Data
    BY <1>3 DEF Data, BufInit
  <1> QED
    BY <1>7, <1>8, <1>9, <1>10, <1>11 DEF BufInv

\* A step of a process, of the disk or of its interrupt keeps the invariant.
LEMMA NextInv ==
  ASSUME Sizes, BufInv, [BufNext]_bufvars
  PROVE  BufInv'
  <1>1. ASSUME NEW p \in Procs, NEW k \in Blocks, bget(p, k) PROVE BufInv'
    BY <1>1, BgetStep
  <1>2. ASSUME NEW p \in Procs, acquiresleep(p) PROVE BufInv'
    BY <1>2, AcquiresleepStep
  <1>3. ASSUME NEW p \in Procs, NEW k \in Blocks, log_write(p, k) PROVE BufInv'
    BY <1>3, LogWriteStep
  <1>4. ASSUME NEW p \in Procs, NEW k \in Blocks, bwrite(p, k) PROVE BufInv'
    BY <1>4, BwriteStep
  <1>5. ASSUME NEW p \in Procs, iderw(p) PROVE BufInv'
    BY <1>5, IderwStep
  <1>6. ASSUME NEW p \in Procs, wakedisk(p) PROVE BufInv'
    BY <1>6, WakediskStep
  <1>7. ASSUME NEW p \in Procs, NEW k \in Blocks, releasesleep(p, k) PROVE BufInv'
    BY <1>7, ReleasesleepStep
  <1>8. ASSUME NEW p \in Procs, brelse(p) PROVE BufInv'
    BY <1>8, BrelseStep
  <1>9. CASE Disk
    BY <1>9, DiskStep
  <1>10. CASE ideintr
    BY <1>10, IdeintrStep
  <1>11. CASE UNCHANGED bufvars
    <2>0. UNCHANGED <<lru, buf, idequeue, device, disk, io, held, latest, bad>>
      BY <1>11 DEF bufvars
    <2>1. TypeOK' /\ Queue' /\ Flags' /\ Data'
      <3>1. TypeOK'
        BY <2>0 DEF BufInv, TypeOK
      <3>2. Queue' /\ Flags'
        BY <2>0 DEF BufInv, Queue, Flags
      <3>3. Data'
        BY <2>0 DEF BufInv, Data
      <3> QED
        BY <3>1, <3>2, <3>3
    <2>2. References'
      <3>1. \A b \in Bufs : RefersTo(b)' = RefersTo(b)
        BY <2>0 DEF RefersTo
      <3>2. \A p \in Procs : ProcRefs(p)' = ProcRefs(p)
        BY <2>0 DEF ProcRefs
      <3> QED
        BY <2>0, <3>1, <3>2 DEF BufInv, References
    <2>3. LockOwners'
      <3>1. \A p \in Procs, b \in Bufs : Owns(p, b)' = Owns(p, b)
        BY <2>0 DEF Owns
      <3> QED
        BY <2>0, <3>1 DEF BufInv, LockOwners
    <2>4. Ordered'
      BY <2>0 DEF BufInv, Ordered
    <2> QED
      BY <2>1, <2>2, <2>3, <2>4 DEF BufInv
  <1>12. ASSUME NEW p \in Procs, panic(p) PROVE BufInv'
    BY <1>11, <1>12 DEF panic
  <1> QED
    BY <1>1, <1>2, <1>3, <1>4, <1>5, <1>6, <1>7, <1>8, <1>9, <1>10, <1>11, <1>12 DEF BufNext

\* BufInv is an invariant of the buffer cache, the sleep locks and the driver,
\* for any number of processes, buffers and blocks.
THEOREM Invariance ==
  BufSpec => []BufInv
  <1>1. BufInit => BufInv
    BY SizesAssumption, InitInv
  <1>2. BufInv /\ [BufNext]_bufvars => BufInv'
    BY SizesAssumption, NextInv
  <1> QED
    BY <1>1, <1>2, PTL DEF BufSpec

\* bget() never puts a block into two buffers, a process that slept in
\* acquiresleep() or iderw() wakes up with the block it asked for, and no two
\* processes own a buffer at once, although a process may own two of them.
THEOREM OneCopySafe ==
  BufSpec => []OneCopy
  <1>1. BufInv => OneCopy
    <2> SUFFICES ASSUME BufInv PROVE OneCopy
      OBVIOUS
    <2>0. TypeOK /\ References /\ LockOwners
      BY DEF BufInv
    <2>1. \A p \in Procs, k \in Blocks : held[p][k] # Nil => buf[held[p][k]].block = k
      BY <2>0, HoldsBuf
    <2> QED
      BY <2>0, <2>1 DEF OneCopy, References, LockOwners
  <1> QED
    BY <1>1, Invariance, PTL

\* bread() returns what was last written to the block, by whichever process
\* and through whichever buffer, unless the disk has failed to read it.
THEOREM FreshSafe ==
  BufSpec => []Fresh
  <1>1. BufInv => Fresh
    <2> SUFFICES ASSUME BufInv, NEW p \in Procs, NEW k \in Blocks,
                        held[p][k] \notin bad \cup {Nil}
                 PROVE  buf[held[p][k]].data = latest[k]
      BY DEF Fresh
    <2>0. TypeOK /\ References /\ Flags /\ Data
      BY DEF BufInv
    <2>1. held[p][k] \in Bufs /\ buf[held[p][k]].block = k
      BY <2>0, HoldsBuf
    <2>2. buf[held[p][k]].valid = TRUE
      BY <2>0 DEF Flags
    <2>3. k # NoBlock
      BY SizesAssumption, NotNil
    <2> QED
      BY <2>0, <2>1, <2>2, <2>3 DEF Data
  <1> QED
    BY <1>1, Invariance, PTL

\* bget() recycles no buffer with contents that log_write() or bwrite() has put
\* into it and that are not on the disk yet.
THEOREM PinnedSafe ==
  BufSpec => []PinnedStays
  <1>1. BufInv => PinnedStays
    <2> SUFFICES ASSUME BufInv, NEW k \in Blocks, disk[k] # latest[k]
                 PROVE  \E b \in Bufs : buf[b].block = k /\ buf[b].dirty /\ buf[b].data = latest[k]
      BY DEF PinnedStays
    <2>0. TypeOK /\ Data
      BY DEF BufInv
    <2>1. PICK b \in Bufs : buf[b].block = k /\ buf[b].dirty = TRUE
      BY <2>0 DEF Data
    <2>2. buf[b].valid = TRUE /\ b \notin bad
      BY <2>0, <2>1 DEF Data
    <2>3. k # NoBlock
      BY SizesAssumption, NotNil
    <2>4. buf[b].data = latest[k]
      BY <2>0, <2>1, <2>2, <2>3 DEF Data
    <2> QED
      BY <2>1, <2>4
  <1> QED
    BY <1>1, Invariance, PTL

\* No wakeup() is lost in ideintr() or releasesleep(): who sleeps in iderw()
\* has a request at a disk that works, who sleeps in acquiresleep() waits for
\* a process that owns the lock, and that sleeps on a lock itself only for a
\* block of a higher level: the waiting goes up, and does not end in a circle.
THEOREM WakeupSafe ==
  BufSpec => []NoLostWakeup
  <1>1. BufInv => NoLostWakeup
    <2> SUFFICES ASSUME BufInv PROVE NoLostWakeup
      OBVIOUS
    <2>0. TypeOK /\ References /\ LockOwners /\ Ordered /\ Queue
      BY DEF BufInv
    <2>1. /\ \A p \in Procs : io[p].at = "sleepdisk" =>
               \E i \in 1..Len(idequeue) : idequeue[i] = io[p].b
          /\ idequeue # <<>> => device # "idle"
      BY <2>0 DEF Queue
    <2>2. ASSUME NEW p \in Procs, io[p].at = "sleeplock"
          PROVE  \E q \in Procs : /\ Owns(q, io[p].b)
                                  /\ io[q].at = "sleeplock" => Level(io[p].k) < Level(io[q].k)
      <3>1. io[p].b \in Bufs /\ buf[io[p].b].block = io[p].k /\ buf[io[p].b].locked = TRUE
        BY <2>0, <2>2, HasBuf DEF LockOwners
      <3>2. PICK q \in Procs : Owns(q, io[p].b)
        BY <2>0, <3>1 DEF LockOwners
      <3>3. ASSUME io[q].at = "sleeplock" PROVE Level(io[p].k) < Level(io[q].k)
        <4>1. PICK j \in Blocks : held[q][j] = io[p].b
          BY <3>2, <3>3 DEF Owns
        <4>2. held[q][j] # Nil
          BY <3>1, <4>1, SizesAssumption, NotNil
        <4>3. j = io[p].k
          BY <2>0, <3>1, <4>1, <4>2, HoldsBuf
        <4> QED
          BY <2>0, <3>3, <4>2, <4>3 DEF Ordered, Waiting
      <3> QED
        BY <3>2, <3>3
    <2> QED
      BY <2>1, <2>2 DEF NoLostWakeup
  <1> QED
    BY <1>1, Invariance, PTL

\* The counts of bget() and brelse() are the numbers of processes that have the
\* buffers, wait for them or let go of them.
THEOREM CountsExact ==
  BufSpec => []Counted
  <1>1. BufInv => Counted
    BY DEF BufInv, Counted, References
  <1> QED
    BY <1>1, Invariance, PTL

-----------------------------------------------------------------------------
(***************************************************************************)
(* Proofs about Vm, for any number of pages and processes, any size of the *)
(* address space and of the programs.  Good is the inductive invariant, of *)
(* any memory and processes, so that a step may be taken apart:            *)
(*   LocalOK     what a process has in each of its states, and how far its *)
(*               address spaces are built, from pages that are different;  *)
(*   Forks       which fork() fills which slot;                            *)
(*   ContentsOK  user pages are written before they are mapped;            *)
(*   InOnePlace  every page is free, lost or in exactly one place.         *)
(***************************************************************************)

Kinds == {"user", "grow", "fork", "exec", "stack"}
MaybePage == Pages \cup {NoPage}
Dirs == {PDX(va) : va \in Vas}
KmemType == [Pages -> [free : Nat, data : {"junk", "table", "stack", "zero", "data"}]]
DirType ==
  [dir : MaybePage, ktab : SUBSET Pages, tab : [Dirs -> MaybePage],
   pte : [Vas -> MaybePage], user : [Vas -> BOOLEAN]]
OpType ==
  [kind : Kinds, pg : DirType, a : Nat, end : 0..(KERNBASE \div PGSIZE),
   mem : MaybePage, sz : Nat, child : Slots \cup {0}]
ProcType ==
  [st : {"UNUSED", "EMBRYO", "run", "fault", "ZOMBIE"}, sz : Nat, pgdir : DirType,
   kstack : MaybePage, parent : Slots \cup {0}, op : OpType]

\* The pages of an address space are different, and it starts with its
\* directory.
Distinct(pg) ==
  /\ \A u, v \in Vas : pg.pte[u] = pg.pte[v] /\ pg.pte[u] # NoPage => u = v
  /\ \A c, d \in Dirs : pg.tab[c] = pg.tab[d] /\ pg.tab[c] # NoPage => c = d
  /\ \A u \in Vas : pg.pte[u] # NoPage =>
       /\ pg.pte[u] # pg.dir /\ pg.pte[u] \notin pg.ktab
       /\ \A d \in Dirs : pg.tab[d] # pg.pte[u]
  /\ \A d \in Dirs : pg.tab[d] # NoPage => pg.tab[d] # pg.dir /\ pg.tab[d] \notin pg.ktab
  /\ pg.dir \notin pg.ktab
  /\ pg.dir = NoPage => PageSet(pg) = {}

\* What a process has in each of its states.
LifeOK(r) ==
  /\ r.st = "UNUSED" => r.kstack = NoPage
  /\ r.st \in {"UNUSED", "EMBRYO"} => r.pgdir = NoDir
  /\ r.st = "run" => r.pgdir.dir # NoPage
  /\ r.st # "run" => r.op.kind = "user"
  /\ r.op.kind = "user" => r.op = NoOp
  /\ r.op.kind = "grow" => r.op.pg = NoDir

\* An address space has the pages below n.
Below(pg, n) == \A va \in Vas : pg.pte[va] # NoPage <=> va < n
\* The pages that a size takes.
PagesOf(sz) == PGROUNDUP(sz) \div PGSIZE
\* setupkvm() is done.
KernelPart(pg) == pg.dir # NoPage /\ ~(Cardinality(pg.ktab) < KTABS)

ProgressOK(r) ==
  /\ PagesOf(r.sz) <= KERNBASE \div PGSIZE
  /\ r.st = "run" /\ r.op.kind # "grow" => Below(r.pgdir, PagesOf(r.sz))
  /\ r.op.kind = "grow" => Below(r.pgdir, r.op.a) /\ PagesOf(r.sz) <= r.op.a
  /\ r.op.kind # "grow" => Below(r.op.pg, r.op.a)
  /\ r.op.a <= r.op.end
  /\ r.op.kind \in {"grow", "stack"} => r.op.end = PagesOf(r.op.sz)
  /\ r.op.kind = "fork" => r.op.end = PagesOf(r.sz)
  /\ r.op.mem # NoPage =>
       r.op.a < r.op.end /\ (r.op.kind = "grow" \/ KernelPart(r.op.pg))

LocalOK(r) == Distinct(r.pgdir) /\ Distinct(r.op.pg) /\ LifeOK(r) /\ ProgressOK(r)

\* A fork under way fills a slot of its own.
Forks(pr) ==
  /\ \A p \in Slots : pr[p].op.kind = "fork" =>
       pr[p].op.child \in Slots /\ pr[pr[p].op.child].st = "EMBRYO"
  /\ \A p, q \in Slots :
       /\ pr[p].op.kind = "fork" /\ pr[q].op.kind = "fork"
       /\ pr[p].op.child = pr[q].op.child
       => p = q

\* The user pages of an address space hold zeros or data.
Filled(pg, k) ==
  \A va \in Vas : pg.pte[va] # NoPage => k[pg.pte[va]].data \in {"zero", "data"}
ContentsOK(r, k) ==
  /\ Filled(r.pgdir, k) /\ Filled(r.op.pg, k)
  /\ r.op.mem # NoPage => k[r.op.mem].data \in {"zero", "data"}

\* A process has a page as its stack, in its address space, in the one that it
\* is building, or in its hand.
Places == {"kstack", "pgdir", "pg", "mem"}
Has(r, s, m) ==
  \/ s = "kstack" /\ r.kstack = m
  \/ s = "pgdir" /\ m \in PageSet(r.pgdir)
  \/ s = "pg" /\ m \in PageSet(r.op.pg)
  \/ s = "mem" /\ r.op.mem = m
HasNot(r, m) == \A s \in Places : ~Has(r, s, m)
HasOnce(r, m) == \E s \in Places : \A t \in Places : Has(r, t, m) <=> t = s
Nobody(pr, m) == \A p \in Slots : HasNot(pr[p], m)
OneOwner(pr, m) ==
  \E p \in Slots : HasOnce(pr[p], m) /\ \A q \in Slots \ {p} : HasNot(pr[q], m)

\* A page is free, lost, or in exactly one place.
InOnePlace(k, pr, l, m) ==
  \/ k[m].free = 1 /\ m \notin l /\ Nobody(pr, m)
  \/ k[m].free = 0 /\ m \in l /\ Nobody(pr, m)
  \/ k[m].free = 0 /\ m \notin l /\ OneOwner(pr, m)

\* All this, of the memory k, the processes pr and the lost pages l.
Good(k, pr, l) ==
  /\ k \in KmemType /\ pr \in [Slots -> ProcType] /\ l \subseteq Pages
  /\ \A p \in Slots : LocalOK(pr[p])
  /\ Forks(pr)
  /\ \A p \in Slots : ContentsOK(pr[p], k)
  /\ \A m \in Pages : InOnePlace(k, pr, l, m)

IInv == Good(kmem, proc, lost)

-----------------------------------------------------------------------------
(* The operators of Vm.                                                    *)

\* PGROUNDUP() and the number of pages.
LEMMA Rounding ==
  ASSUME NEW sz \in Nat
  PROVE  /\ PagesOf(sz) \in Nat
         /\ PGROUNDUP(sz) = PagesOf(sz) * PGSIZE
         /\ \A n \in Nat : n * PGSIZE < sz <=> n < PagesOf(sz)
  BY DEF PagesOf, PGROUNDUP, PGSIZE

\* A larger size has at least as many pages, and what fits below KERNBASE has
\* its pages in the user part.
LEMMA PagesFit ==
  ASSUME VmSizes, NEW s \in Nat, NEW t \in Nat
  PROVE  /\ s <= t => PagesOf(s) <= PagesOf(t)
         /\ s <= KERNBASE => PagesOf(s) \in 0..(KERNBASE \div PGSIZE)
         /\ PagesOf(s * PGSIZE) = s
  BY DEF VmSizes, PagesOf, PGROUNDUP, PGSIZE

\* The numbers of the user pages.
LEMMA UserPages ==
  ASSUME VmSizes, NEW va
  PROVE  /\ va \in Vas <=> va \in Nat /\ va < KERNBASE \div PGSIZE
         /\ va \in Vas => va * PGSIZE < KERNBASE /\ PDX(va) \in Dirs
  <1>1. va \in Vas => PDX(va) \in Dirs
    BY DEF Dirs
  <1>2. /\ va \in Vas <=> va \in Nat /\ va < KERNBASE \div PGSIZE
        /\ va \in Vas => va * PGSIZE < KERNBASE
    BY DEF VmSizes, Vas, PGSIZE
  <1> QED
    BY <1>1, <1>2

\* The pages of an address space.
LEMMA InPageSet ==
  ASSUME NEW pg \in DirType, NEW m \in Pages
  PROVE  m \in PageSet(pg) <=> \/ m = pg.dir \/ m \in pg.ktab
                               \/ \E d \in Dirs : pg.tab[d] = m
                               \/ \E va \in Vas : pg.pte[va] = m
  <1>1. m # NoPage
    BY DEF Pages, NoPage
  <1>2. pg.tab \in [Dirs -> MaybePage] /\ pg.pte \in [Vas -> MaybePage]
    BY DEF DirType
  <1> QED
    BY <1>1, <1>2 DEF PageSet, Range

\* An address space has pages only.
LEMMA PageSetType ==
  ASSUME NEW pg \in DirType
  PROVE  PageSet(pg) \subseteq Pages
  BY DEF PageSet, Range, DirType, MaybePage

\* NoDir has none.
LEMMA NoDirEmpty ==
  ASSUME VmSizes
  PROVE  /\ NoDir \in DirType /\ PageSet(NoDir) = {} /\ Distinct(NoDir)
         /\ \A va \in Vas : NoDir.pte[va] = NoPage
  <1>1. /\ NoDir.dir = NoPage /\ NoDir.ktab = {}
        /\ NoDir.tab = [d \in Dirs |-> NoPage]
        /\ NoDir.pte = [va \in Vas |-> NoPage]
        /\ NoDir.user = [va \in Vas |-> TRUE]
    BY DEF NoDir, Dirs
  <1>2. NoDir \in DirType
    BY DEF NoDir, DirType, Dirs, MaybePage
  <1>3. PageSet(NoDir) = {}
    BY <1>1 DEF PageSet, Range
  <1>4. Distinct(NoDir)
    BY <1>1, <1>3 DEF Distinct
  <1> QED
    BY <1>1, <1>2, <1>3, <1>4

\* kfree() of a set of pages.
LEMMA KfreeEffect ==
  ASSUME NEW k \in KmemType, NEW S
  PROVE  /\ kfree(k, S) \in KmemType
         /\ \A m \in Pages : m \notin S => kfree(k, S)[m] = k[m]
         /\ \A m \in Pages : m \in S => kfree(k, S)[m].free = k[m].free + 1
  BY DEF kfree, KmemType

\* kalloc() takes a page that is free.
LEMMA KallocEffect ==
  ASSUME VmSizes, NEW k \in KmemType, CanAlloc(k),
         NEW data \in {"junk", "table", "stack", "zero", "data"}
  PROVE  /\ FreePage(k) \in Pages /\ k[FreePage(k)].free > 0
         /\ kalloc(k, data) \in KmemType
         /\ kalloc(k, data)[FreePage(k)].free = k[FreePage(k)].free - 1
         /\ kalloc(k, data)[FreePage(k)].data = data
         /\ \A m \in Pages : m # FreePage(k) => kalloc(k, data)[m] = k[m]
  <1> DEFINE T == {p \in Pages : k[p].free > 0}
             f == FreePage(k)
  <1>1. T \subseteq Nat /\ T # {}
    BY DEF Pages, CanAlloc
  <1>2. PICK n \in T : \A m \in T : n <= m
    BY <1>1, LeastNumber, Zenon
  <1>3. n \in Pages /\ k[n].free > 0 /\ \A q \in Pages : k[q].free > 0 => n <= q
    BY <1>2
  <1>4. f \in Pages /\ k[f].free > 0
    BY <1>3 DEF FreePage
  <1>5. kalloc(k, data) = [k EXCEPT ![f] = [free |-> @.free - 1, data |-> data]]
    BY DEF kalloc
  <1> HIDE DEF f
  <1>6. k[f].free \in Nat /\ k[f].free - 1 \in Nat
    BY <1>4 DEF KmemType
  <1>7. /\ kalloc(k, data) \in KmemType
        /\ kalloc(k, data)[f].free = k[f].free - 1
        /\ kalloc(k, data)[f].data = data
        /\ \A m \in Pages : m # f => kalloc(k, data)[m] = k[m]
    BY <1>4, <1>5, <1>6 DEF KmemType
  <1> QED
    BY <1>4, <1>7 DEF f

\* Unmapping pages of an address space takes them, and no others, out of it.
LEMMA UnmapEffect ==
  ASSUME NEW pg \in DirType, Distinct(pg), NEW G \in SUBSET Vas,
         NEW new, new = [pg EXCEPT !.pte = [va \in Vas |-> IF va \in G THEN NoPage ELSE @[va]]]
  PROVE  /\ new \in DirType /\ Distinct(new) /\ new.dir = pg.dir
         /\ \A va \in Vas : new.pte[va] = IF va \in G THEN NoPage ELSE pg.pte[va]
         /\ \A m \in Pages : m \in PageSet(new) <=>
              m \in PageSet(pg) /\ ~(\E va \in G : pg.pte[va] = m)
  <1>1. /\ pg.dir \in MaybePage /\ pg.ktab \in SUBSET Pages
        /\ pg.tab \in [Dirs -> MaybePage] /\ pg.pte \in [Vas -> MaybePage]
        /\ pg.user \in [Vas -> BOOLEAN]
    BY DEF DirType
  <1>2. /\ new.dir = pg.dir /\ new.ktab = pg.ktab /\ new.tab = pg.tab
        /\ new.user = pg.user
        /\ new.pte = [va \in Vas |-> IF va \in G THEN NoPage ELSE pg.pte[va]]
    BY DEF DirType
  <1>3. new.pte \in [Vas -> MaybePage]
    BY <1>1, <1>2 DEF MaybePage
  <1>4. new \in DirType
    BY <1>1, <1>3 DEF DirType
  <1>5. \A va \in Vas : new.pte[va] = IF va \in G THEN NoPage ELSE pg.pte[va]
    BY <1>2
  <1>6. ASSUME NEW m \in Pages
        PROVE  m \in PageSet(new) <=> m \in PageSet(pg) /\ ~(\E va \in G : pg.pte[va] = m)
    <2>1. m # NoPage
      BY DEF Pages, NoPage
    <2>2. m \in PageSet(new) <=> \/ m = pg.dir \/ m \in pg.ktab
                                 \/ \E d \in Dirs : pg.tab[d] = m
                                 \/ \E va \in Vas : new.pte[va] = m
      <3>1. m \in PageSet(new) <=> \/ m = new.dir \/ m \in new.ktab
                                   \/ \E d \in Dirs : new.tab[d] = m
                                   \/ \E va \in Vas : new.pte[va] = m
        BY <1>4, InPageSet, Zenon
      <3> QED
        BY <1>2, <3>1, Zenon
    <2>3. m \in PageSet(pg) <=> \/ m = pg.dir \/ m \in pg.ktab
                                \/ \E d \in Dirs : pg.tab[d] = m
                                \/ \E va \in Vas : pg.pte[va] = m
      BY InPageSet
    <2>4. (\E va \in Vas : new.pte[va] = m) <=> \E va \in Vas \ G : pg.pte[va] = m
      BY <1>5, <2>1
    <2>5. ASSUME NEW va \in G, pg.pte[va] = m
          PROVE  /\ m # pg.dir /\ m \notin pg.ktab /\ \A d \in Dirs : pg.tab[d] # m
                 /\ \A u \in Vas : pg.pte[u] = m => u = va
      BY <2>1, <2>5 DEF Distinct
    <2> QED
      BY <2>2, <2>3, <2>4, <2>5
  <1>7. Distinct(new)
    <2>1. pg.dir = NoPage => PageSet(new) = {}
      <3>1. PageSet(new) \subseteq Pages
        BY <1>4, PageSetType
      <3> QED
        BY <1>6, <3>1 DEF Distinct
    <2> QED
      BY <1>2, <1>5, <2>1 DEF Distinct
  <1> QED
    BY <1>2, <1>4, <1>5, <1>6, <1>7

\* deallocuvm() frees the pages that it unmaps, once each.
LEMMA DeallocEffect ==
  ASSUME VmSizes, NEW k \in KmemType, NEW pg \in DirType, Distinct(pg),
         NEW old \in Nat, NEW sz \in Nat
  PROVE  LET d == deallocuvm(k, pg, old, sz)
         IN  /\ d.kmem \in KmemType /\ d.pg \in DirType /\ Distinct(d.pg)
             /\ d.pg.dir = pg.dir
             /\ \A va \in Vas : d.pg.pte[va] =
                  IF PagesOf(sz) <= va /\ va < PagesOf(old) THEN NoPage ELSE pg.pte[va]
             /\ \A m \in Pages : \/ m \in PageSet(pg) /\ m \notin PageSet(d.pg)
                                    /\ d.kmem[m].free = k[m].free + 1
                                 \/ (m \in PageSet(pg) <=> m \in PageSet(d.pg))
                                    /\ d.kmem[m] = k[m]
  <1> DEFINE d == deallocuvm(k, pg, old, sz)
             G == {va \in Vas : PagesOf(sz) <= va /\ va < PagesOf(old)}
             H == {va \in Vas : va * PGSIZE >= PGROUNDUP(sz) /\ va * PGSIZE < old
                                /\ pg.pte[va] # NoPage}
             S == {pg.pte[va] : va \in H}
  <1>1. /\ d.kmem = kfree(k, S)
        /\ d.pg = [pg EXCEPT !.pte = [va \in Vas |-> IF va \in H THEN NoPage ELSE @[va]]]
    BY DEF deallocuvm
  <1>2. ASSUME NEW va \in Vas
        PROVE  va \in H <=> va \in G /\ pg.pte[va] # NoPage
    <2>1. va \in Nat
      BY UserPages
    <2>2. va * PGSIZE < old <=> va < PagesOf(old)
      BY <2>1, Rounding
    <2>3. PGROUNDUP(sz) = PagesOf(sz) * PGSIZE /\ PagesOf(sz) \in Nat
      BY Rounding
    <2>4. va * PGSIZE >= PGROUNDUP(sz) <=> PagesOf(sz) <= va
      BY <2>1, <2>3 DEF PGSIZE
    <2> QED
      BY <2>2, <2>4
  <1>3. H \in SUBSET Vas
    OBVIOUS
  <1> HIDE DEF H, d, G
  <1>4. /\ d.pg \in DirType /\ Distinct(d.pg) /\ d.pg.dir = pg.dir
        /\ \A va \in Vas : d.pg.pte[va] = IF va \in H THEN NoPage ELSE pg.pte[va]
        /\ \A m \in Pages : m \in PageSet(d.pg) <=>
             m \in PageSet(pg) /\ ~(\E va \in H : pg.pte[va] = m)
    BY <1>1, <1>3, UnmapEffect
  <1>5. \A m \in Pages : m \in S <=> \E va \in H : pg.pte[va] = m
    OBVIOUS
  <1>6. /\ d.kmem \in KmemType
        /\ \A m \in Pages : m \notin S => d.kmem[m] = k[m]
        /\ \A m \in Pages : m \in S => d.kmem[m].free = k[m].free + 1
    <2> HIDE DEF S
    <2> QED
      BY <1>1, KfreeEffect
  <1>7. \A va \in Vas : d.pg.pte[va] = IF va \in G THEN NoPage ELSE pg.pte[va]
    BY <1>2, <1>4
  <1>8. \A m \in Pages : (\E va \in H : pg.pte[va] = m) => m \in PageSet(pg)
    BY <1>3, InPageSet
  <1> HIDE DEF S
  <1>9. \A m \in Pages : \/ m \in PageSet(pg) /\ m \notin PageSet(d.pg)
                            /\ d.kmem[m].free = k[m].free + 1
                         \/ (m \in PageSet(pg) <=> m \in PageSet(d.pg))
                            /\ d.kmem[m] = k[m]
    BY <1>4, <1>5, <1>6, <1>8
  <1> QED
    BY <1>4, <1>6, <1>7, <1>9 DEF d, G

\* freevm() frees the pages of an address space, once each.
LEMMA FreevmEffect ==
  ASSUME VmSizes, NEW k \in KmemType, NEW pg \in DirType, Distinct(pg)
  PROVE  /\ freevm(k, pg) \in KmemType
         /\ \A m \in Pages : m \notin PageSet(pg) => freevm(k, pg)[m] = k[m]
         /\ \A m \in Pages : m \in PageSet(pg) => freevm(k, pg)[m].free = k[m].free + 1
  <1> DEFINE d == deallocuvm(k, pg, KERNBASE, 0)
             S == PageSet(d.pg)
  <1>1. freevm(k, pg) = kfree(d.kmem, S)
    BY DEF freevm
  <1>2. KERNBASE \in Nat /\ 0 \in Nat
    BY DEF VmSizes
  <1>3. /\ d.kmem \in KmemType
        /\ \A m \in Pages : \/ m \in PageSet(pg) /\ m \notin S
                               /\ d.kmem[m].free = k[m].free + 1
                            \/ (m \in PageSet(pg) <=> m \in S)
                               /\ d.kmem[m] = k[m]
    BY <1>2, DeallocEffect
  <1> HIDE DEF d, S
  <1>4. /\ kfree(d.kmem, S) \in KmemType
        /\ \A m \in Pages : m \notin S => kfree(d.kmem, S)[m] = d.kmem[m]
        /\ \A m \in Pages : m \in S => kfree(d.kmem, S)[m].free = d.kmem[m].free + 1
    BY <1>3, KfreeEffect
  <1> QED
    BY <1>1, <1>3, <1>4

\* setupkvm(): the first page is the directory.
LEMMA AddDir ==
  ASSUME NEW pg \in DirType, Distinct(pg), pg.dir = NoPage, NEW f \in Pages,
         NEW new, new = [pg EXCEPT !.dir = f]
  PROVE  /\ new \in DirType /\ Distinct(new) /\ new.dir = f /\ new.pte = pg.pte
         /\ \A m \in Pages : m \in PageSet(new) <=> m \in PageSet(pg) \/ m = f
  <1>1. /\ new.dir = f /\ new.ktab = pg.ktab /\ new.tab = pg.tab
        /\ new.user = pg.user /\ new.pte = pg.pte
    BY DEF DirType
  <1>2. new \in DirType
    BY DEF DirType, MaybePage
  <1>3. PageSet(pg) = {} /\ f # NoPage
    BY DEF Distinct, Pages, NoPage
  <1>4. ASSUME NEW m \in Pages PROVE m \in PageSet(new) <=> m \in PageSet(pg) \/ m = f
    <2>1. m \in PageSet(new) <=> \/ m = new.dir \/ m \in new.ktab
                                 \/ \E d \in Dirs : new.tab[d] = m
                                 \/ \E va \in Vas : new.pte[va] = m
      BY <1>2, InPageSet, Zenon
    <2>2. m \in PageSet(pg) <=> \/ m = pg.dir \/ m \in pg.ktab
                                \/ \E d \in Dirs : pg.tab[d] = m
                                \/ \E va \in Vas : pg.pte[va] = m
      BY InPageSet, Zenon
    <2>3. m # NoPage
      BY DEF Pages, NoPage
    <2> QED
      BY <1>1, <2>1, <2>2, <2>3
  <1>5. Distinct(new)
    <2>1. /\ pg.ktab = {}
          /\ \A d \in Dirs : pg.tab[d] = NoPage
          /\ \A va \in Vas : pg.pte[va] = NoPage
      <3>1. pg.ktab \subseteq Pages /\ pg.tab \in [Dirs -> MaybePage]
            /\ pg.pte \in [Vas -> MaybePage]
        BY DEF DirType
      <3>2. \A m \in Pages : /\ m \notin pg.ktab
                             /\ \A d \in Dirs : pg.tab[d] # m
                             /\ \A va \in Vas : pg.pte[va] # m
        BY <1>3, InPageSet
      <3> QED
        BY <3>1, <3>2 DEF MaybePage
    <2> QED
      BY <1>1, <1>3, <2>1 DEF Distinct
  <1> QED
    BY <1>1, <1>2, <1>4, <1>5

\* setupkvm(): a page for a table of the kernel's part.
LEMMA AddKtab ==
  ASSUME NEW pg \in DirType, Distinct(pg), pg.dir # NoPage, NEW f \in Pages,
         f \notin PageSet(pg), NEW new, new = [pg EXCEPT !.ktab = @ \cup {f}]
  PROVE  /\ new \in DirType /\ Distinct(new) /\ new.dir = pg.dir /\ new.pte = pg.pte
         /\ \A m \in Pages : m \in PageSet(new) <=> m \in PageSet(pg) \/ m = f
  <1>1. /\ new.dir = pg.dir /\ new.ktab = pg.ktab \cup {f} /\ new.tab = pg.tab
        /\ new.user = pg.user /\ new.pte = pg.pte
    BY DEF DirType
  <1>2. new \in DirType
    BY DEF DirType
  <1>3. f # NoPage
    BY DEF Pages, NoPage
  <1>4. ASSUME NEW m \in Pages PROVE m \in PageSet(new) <=> m \in PageSet(pg) \/ m = f
    <2>1. m \in PageSet(new) <=> \/ m = new.dir \/ m \in new.ktab
                                 \/ \E d \in Dirs : new.tab[d] = m
                                 \/ \E va \in Vas : new.pte[va] = m
      BY <1>2, InPageSet, Zenon
    <2>2. m \in PageSet(pg) <=> \/ m = pg.dir \/ m \in pg.ktab
                                \/ \E d \in Dirs : pg.tab[d] = m
                                \/ \E va \in Vas : pg.pte[va] = m
      BY InPageSet, Zenon
    <2> QED
      BY <1>1, <2>1, <2>2
  <1>5. Distinct(new)
    <2>1. /\ f # pg.dir
          /\ \A d \in Dirs : pg.tab[d] # f
          /\ \A va \in Vas : pg.pte[va] # f
      BY InPageSet
    <2> QED
      BY <1>1, <1>3, <2>1 DEF Distinct
  <1> QED
    BY <1>1, <1>2, <1>4, <1>5

\* A page table for user pages.
LEMMA AddTab ==
  ASSUME NEW pg \in DirType, Distinct(pg), pg.dir # NoPage, NEW f \in Pages,
         f \notin PageSet(pg), NEW d \in Dirs, pg.tab[d] = NoPage,
         NEW new, new = [pg EXCEPT !.tab[d] = f]
  PROVE  /\ new \in DirType /\ Distinct(new) /\ new.dir = pg.dir /\ new.pte = pg.pte
         /\ \A m \in Pages : m \in PageSet(new) <=> m \in PageSet(pg) \/ m = f
  <1>0. pg.tab \in [Dirs -> MaybePage]
    BY DEF DirType
  <1>1. /\ new.dir = pg.dir /\ new.ktab = pg.ktab /\ new.tab = [pg.tab EXCEPT ![d] = f]
        /\ new.user = pg.user /\ new.pte = pg.pte
    BY DEF DirType
  <1>2. new \in DirType
    <2>1. [pg.tab EXCEPT ![d] = f] \in [Dirs -> MaybePage]
      BY <1>0 DEF MaybePage
    <2> QED
      BY <2>1 DEF DirType
  <1>3. f # NoPage
    BY DEF Pages, NoPage
  <1>t. \A e \in Dirs : new.tab[e] = IF e = d THEN f ELSE pg.tab[e]
    BY <1>0, <1>1
  <1>4. ASSUME NEW m \in Pages PROVE m \in PageSet(new) <=> m \in PageSet(pg) \/ m = f
    <2>1. m \in PageSet(new) <=> \/ m = new.dir \/ m \in new.ktab
                                 \/ \E e \in Dirs : new.tab[e] = m
                                 \/ \E va \in Vas : new.pte[va] = m
      BY <1>2, InPageSet, Zenon
    <2>2. m \in PageSet(pg) <=> \/ m = pg.dir \/ m \in pg.ktab
                                \/ \E e \in Dirs : pg.tab[e] = m
                                \/ \E va \in Vas : pg.pte[va] = m
      BY InPageSet, Zenon
    <2>3. m # NoPage
      BY DEF Pages, NoPage
    <2>4. (\E e \in Dirs : new.tab[e] = m) <=> (\E e \in Dirs : pg.tab[e] = m) \/ m = f
      BY <1>t, <2>3
    <2>5. /\ new.dir = pg.dir /\ new.ktab = pg.ktab /\ new.pte = pg.pte
      BY <1>1
    <2> QED
      BY <2>1, <2>2, <2>4, <2>5, Zenon
  <1>5. Distinct(new)
    <2>1. /\ f # pg.dir /\ f \notin pg.ktab
          /\ \A e \in Dirs : pg.tab[e] # f
          /\ \A va \in Vas : pg.pte[va] # f
      BY InPageSet
    <2>2. new.dir = pg.dir /\ new.ktab = pg.ktab /\ new.pte = pg.pte
      BY <1>1
    <2> QED
      BY <1>3, <1>t, <2>1, <2>2 DEF Distinct
  <1> QED
    BY <1>1, <1>2, <1>4, <1>5

\* An entry changes the entries and their flags only.
LEMMA SetPte ==
  ASSUME NEW pg \in DirType, NEW a \in Vas, NEW f \in Pages, NEW user \in BOOLEAN
  PROVE  LET new == WithEntry(pg, a, f, user)
         IN  /\ new \in DirType /\ new.dir = pg.dir /\ new.ktab = pg.ktab
             /\ new.tab = pg.tab /\ new.pte = [pg.pte EXCEPT ![a] = f]
  <1>1. pg.pte \in [Vas -> MaybePage] /\ pg.user \in [Vas -> BOOLEAN]
    BY DEF DirType
  <1>2. [pg.pte EXCEPT ![a] = f] \in [Vas -> MaybePage]
    BY <1>1 DEF MaybePage
  <1>3. [pg.user EXCEPT ![a] = user] \in [Vas -> BOOLEAN]
    BY <1>1
  <1> QED
    BY <1>2, <1>3 DEF DirType, WithEntry

\* An entry for a user page.
LEMMA AddPte ==
  ASSUME NEW pg \in DirType, Distinct(pg), pg.dir # NoPage, NEW f \in Pages,
         f \notin PageSet(pg), NEW a \in Vas, pg.pte[a] = NoPage,
         NEW new \in DirType, new.dir = pg.dir, new.ktab = pg.ktab, new.tab = pg.tab,
         new.pte = [pg.pte EXCEPT ![a] = f]
  PROVE  /\ Distinct(new)
         /\ \A m \in Pages : m \in PageSet(new) <=> m \in PageSet(pg) \/ m = f
  <1>0. pg.pte \in [Vas -> MaybePage]
    BY DEF DirType
  <1>1. /\ new.dir = pg.dir /\ new.ktab = pg.ktab /\ new.tab = pg.tab
        /\ new.pte = [pg.pte EXCEPT ![a] = f]
    OBVIOUS
  <1>2. new \in DirType
    OBVIOUS
  <1>3. f # NoPage
    BY DEF Pages, NoPage
  <1>t. \A va \in Vas : new.pte[va] = IF va = a THEN f ELSE pg.pte[va]
    BY <1>0, <1>1
  <1>4. ASSUME NEW m \in Pages PROVE m \in PageSet(new) <=> m \in PageSet(pg) \/ m = f
    <2>1. m \in PageSet(new) <=> \/ m = new.dir \/ m \in new.ktab
                                 \/ \E e \in Dirs : new.tab[e] = m
                                 \/ \E va \in Vas : new.pte[va] = m
      BY <1>2, InPageSet, Zenon
    <2>2. m \in PageSet(pg) <=> \/ m = pg.dir \/ m \in pg.ktab
                                \/ \E e \in Dirs : pg.tab[e] = m
                                \/ \E va \in Vas : pg.pte[va] = m
      BY InPageSet, Zenon
    <2>3. m # NoPage
      BY DEF Pages, NoPage
    <2>4. (\E va \in Vas : new.pte[va] = m) <=> (\E va \in Vas : pg.pte[va] = m) \/ m = f
      BY <1>t, <2>3
    <2>5. /\ new.dir = pg.dir /\ new.ktab = pg.ktab /\ new.tab = pg.tab
      BY <1>1
    <2> QED
      BY <2>1, <2>2, <2>4, <2>5, Zenon
  <1>5. Distinct(new)
    <2>1. /\ f # pg.dir /\ f \notin pg.ktab
          /\ \A e \in Dirs : pg.tab[e] # f
          /\ \A va \in Vas : pg.pte[va] # f
      BY InPageSet
    <2>2. new.dir = pg.dir /\ new.ktab = pg.ktab /\ new.tab = pg.tab
      BY <1>1
    <2> QED
      BY <1>3, <1>t, <2>1, <2>2 DEF Distinct
  <1> QED
    BY <1>4, <1>5

-----------------------------------------------------------------------------
(* Steps that change one process.                                          *)

\* What such a step may do with a page m when it turns r into s: nothing, free
\* it, take it, move it within the process, or lose it.
Kept(k, r, l, n, s, o, m) ==
  /\ n[m] = k[m] /\ (m \in o <=> m \in l)
  /\ \A t \in Places : Has(s, t, m) <=> Has(r, t, m)
Freed(k, r, l, n, s, o, m) ==
  /\ n[m].free = k[m].free + 1 /\ (m \in o <=> m \in l)
  /\ ~HasNot(r, m) /\ HasNot(s, m)
Taken(k, r, l, n, s, o, m) ==
  /\ k[m].free > 0 /\ n[m].free = k[m].free - 1 /\ (m \in o <=> m \in l)
  /\ HasOnce(s, m)
Moved(k, r, l, n, s, o, m) ==
  /\ n[m].free = k[m].free /\ (m \in o <=> m \in l)
  /\ ~HasNot(r, m) /\ HasOnce(s, m)
Lost(k, r, l, n, s, o, m) ==
  /\ n[m] = k[m] /\ m \in o
  /\ ~HasNot(r, m) /\ HasNot(s, m)
PageStep(k, r, l, n, s, o, m) ==
  \/ Kept(k, r, l, n, s, o, m) \/ Freed(k, r, l, n, s, o, m)
  \/ Taken(k, r, l, n, s, o, m) \/ Moved(k, r, l, n, s, o, m)
  \/ Lost(k, r, l, n, s, o, m)

\* A page that a process has is in one place.
LEMMA Owned ==
  ASSUME NEW k, NEW pr, NEW l, NEW p \in Slots, NEW m \in Pages,
         InOnePlace(k, pr, l, m), ~HasNot(pr[p], m)
  PROVE  /\ k[m].free = 0 /\ m \notin l /\ HasOnce(pr[p], m)
         /\ \A q \in Slots \ {p} : HasNot(pr[q], m)
  BY DEF InOnePlace, Nobody, OneOwner

\* A page that is free has no owner.
LEMMA Available ==
  ASSUME NEW k, NEW pr, NEW l, NEW m \in Pages,
         InOnePlace(k, pr, l, m), k[m].free > 0
  PROVE  k[m].free = 1 /\ m \notin l /\ Nobody(pr, m)
  BY DEF InOnePlace

\* Such steps keep a page in one place.
LEMMA LedgerStep ==
  ASSUME NEW k, NEW pr, NEW l, NEW n, NEW new, NEW o, NEW p \in Slots, NEW m \in Pages,
         k[m].free \in Nat, InOnePlace(k, pr, l, m),
         \A q \in Slots \ {p} : new[q] = pr[q],
         PageStep(k, pr[p], l, n, new[p], o, m)
  PROVE  InOnePlace(n, new, o, m)
  <1>1. CASE Kept(k, pr[p], l, n, new[p], o, m)
    <2>1. HasNot(pr[p], m) <=> HasNot(new[p], m)
      BY <1>1 DEF Kept, HasNot
    <2>2. HasOnce(pr[p], m) <=> HasOnce(new[p], m)
      BY <1>1 DEF Kept, HasOnce
    <2>3. /\ \A q \in Slots : HasNot(pr[q], m) <=> HasNot(new[q], m)
          /\ \A q \in Slots : HasOnce(pr[q], m) <=> HasOnce(new[q], m)
      BY <2>1, <2>2
    <2>4. (Nobody(pr, m) <=> Nobody(new, m)) /\ (OneOwner(pr, m) <=> OneOwner(new, m))
      BY <2>3 DEF Nobody, OneOwner
    <2> QED
      BY <1>1, <2>4 DEF Kept, InOnePlace
  <1>2. CASE Freed(k, pr[p], l, n, new[p], o, m)
    <2>1. /\ ~HasNot(pr[p], m) /\ HasNot(new[p], m)
          /\ n[m].free = k[m].free + 1 /\ (m \in o <=> m \in l)
      BY <1>2 DEF Freed
    <2>2. /\ k[m].free = 0 /\ m \notin l
          /\ \A q \in Slots \ {p} : HasNot(pr[q], m)
      BY <2>1, Owned
    <2>3. Nobody(new, m)
      BY <2>1, <2>2 DEF Nobody
    <2> QED
      BY <2>1, <2>2, <2>3 DEF InOnePlace
  <1>3. CASE Taken(k, pr[p], l, n, new[p], o, m)
    <2>1. /\ k[m].free > 0 /\ n[m].free = k[m].free - 1 /\ (m \in o <=> m \in l)
          /\ HasOnce(new[p], m)
      BY <1>3 DEF Taken
    <2>2. k[m].free = 1 /\ m \notin l /\ Nobody(pr, m)
      BY <2>1, Available
    <2>3. OneOwner(new, m)
      BY <2>1, <2>2 DEF Nobody, OneOwner
    <2> QED
      BY <2>1, <2>2, <2>3 DEF InOnePlace
  <1>4. CASE Moved(k, pr[p], l, n, new[p], o, m)
    <2>1. /\ n[m].free = k[m].free /\ (m \in o <=> m \in l)
          /\ ~HasNot(pr[p], m) /\ HasOnce(new[p], m)
      BY <1>4 DEF Moved
    <2>2. /\ k[m].free = 0 /\ m \notin l
          /\ \A q \in Slots \ {p} : HasNot(pr[q], m)
      BY <2>1, Owned
    <2>3. OneOwner(new, m)
      BY <2>1, <2>2 DEF OneOwner
    <2> QED
      BY <2>1, <2>2, <2>3 DEF InOnePlace
  <1>5. CASE Lost(k, pr[p], l, n, new[p], o, m)
    <2>1. n[m] = k[m] /\ m \in o /\ ~HasNot(pr[p], m) /\ HasNot(new[p], m)
      BY <1>5 DEF Lost
    <2>2. k[m].free = 0 /\ \A q \in Slots \ {p} : HasNot(pr[q], m)
      BY <2>1, Owned
    <2>3. Nobody(new, m)
      BY <2>1, <2>2 DEF Nobody
    <2> QED
      BY <2>1, <2>2, <2>3 DEF InOnePlace
  <1> QED
    BY <1>1, <1>2, <1>3, <1>4, <1>5 DEF PageStep

\* What a process has in its address spaces and in its hand.
LEMMA UserHas ==
  ASSUME NEW r \in ProcType
  PROVE  /\ \A va \in Vas : r.pgdir.pte[va] # NoPage =>
              r.pgdir.pte[va] \in Pages /\ Has(r, "pgdir", r.pgdir.pte[va])
         /\ \A va \in Vas : r.op.pg.pte[va] # NoPage =>
              r.op.pg.pte[va] \in Pages /\ Has(r, "pg", r.op.pg.pte[va])
         /\ r.op.mem # NoPage => r.op.mem \in Pages /\ Has(r, "mem", r.op.mem)
  <1>1. r.pgdir \in DirType /\ r.op \in OpType
    BY DEF ProcType
  <1>2. r.op.pg \in DirType /\ r.op.mem \in MaybePage
    BY <1>1 DEF OpType
  <1>3. ASSUME NEW pg \in DirType, NEW va \in Vas, pg.pte[va] # NoPage
        PROVE  pg.pte[va] \in Pages /\ pg.pte[va] \in PageSet(pg)
    <2>1. pg.pte \in [Vas -> MaybePage]
      BY DEF DirType
    <2>2. pg.pte[va] \in Pages
      BY <1>3, <2>1 DEF MaybePage
    <2> QED
      BY <2>2, InPageSet
  <1>4. r.op.mem # NoPage => r.op.mem \in Pages
    BY <1>2 DEF MaybePage
  <1> QED
    BY <1>1, <1>2, <1>3, <1>4 DEF Has

\* The pages of the other processes are not written.
LEMMA ContentsStep ==
  ASSUME NEW k, NEW pr \in [Slots -> ProcType], NEW l, NEW n, NEW s, NEW o,
         NEW p \in Slots, NEW q \in Slots \ {p},
         \A m \in Pages : InOnePlace(k, pr, l, m),
         \A m \in Pages : PageStep(k, pr[p], l, n, s, o, m),
         ContentsOK(pr[q], k)
  PROVE  ContentsOK(pr[q], n)
  <1>1. ASSUME NEW m \in Pages, NEW t \in Places, Has(pr[q], t, m)
        PROVE  n[m] = k[m]
    <2>1. ~HasNot(pr[q], m)
      BY <1>1 DEF HasNot
    <2>2. k[m].free = 0 /\ HasNot(pr[p], m)
      BY <2>1, Owned
    <2>3. PageStep(k, pr[p], l, n, s, o, m)
      OBVIOUS
    <2> QED
      BY <2>2, <2>3 DEF PageStep, Kept, Freed, Taken, Moved, Lost
  <1>2. pr[q] \in ProcType /\ {"pgdir", "pg", "mem"} \subseteq Places
    BY DEF Places
  <1>3. /\ \A va \in Vas : pr[q].pgdir.pte[va] # NoPage =>
             n[pr[q].pgdir.pte[va]] = k[pr[q].pgdir.pte[va]]
        /\ \A va \in Vas : pr[q].op.pg.pte[va] # NoPage =>
             n[pr[q].op.pg.pte[va]] = k[pr[q].op.pg.pte[va]]
        /\ pr[q].op.mem # NoPage => n[pr[q].op.mem] = k[pr[q].op.mem]
    BY <1>1, <1>2, UserHas
  <1> QED
    BY <1>3 DEF ContentsOK, Filled

\* The condition on forks: the one of s, if any, fills a slot that no other
\* fills, and the slot itself stays as it is while it is filled.
ForkOK(pr, p, s) ==
  /\ s.op.kind = "fork" =>
       /\ s.op.child \in Slots \ {p} /\ pr[s.op.child].st = "EMBRYO"
       /\ \A q \in Slots \ {p} : pr[q].op.kind = "fork" => pr[q].op.child # s.op.child
  /\ s.st = "EMBRYO" \/ \A q \in Slots \ {p} : pr[q].op.kind = "fork" => pr[q].op.child # p

\* A step that turns process p into s, and memory k into n.
LEMMA UpdateOne ==
  ASSUME NEW k, NEW pr, NEW l, Good(k, pr, l), NEW p \in Slots,
         NEW s \in ProcType, NEW n \in KmemType, NEW o \in SUBSET Pages,
         NEW new, new = [pr EXCEPT ![p] = s],
         LocalOK(s), ContentsOK(s, n), ForkOK(pr, p, s),
         \A m \in Pages : PageStep(k, pr[p], l, n, s, o, m)
  PROVE  Good(n, new, o)
  <1>0. /\ k \in KmemType /\ pr \in [Slots -> ProcType]
        /\ \A q \in Slots : LocalOK(pr[q])
        /\ Forks(pr)
        /\ \A q \in Slots : ContentsOK(pr[q], k)
        /\ \A m \in Pages : InOnePlace(k, pr, l, m)
    BY DEF Good
  <1>1. /\ new \in [Slots -> ProcType] /\ new[p] = s
        /\ \A q \in Slots \ {p} : new[q] = pr[q]
    BY <1>0
  <1>2. \A q \in Slots : LocalOK(new[q])
    BY <1>0, <1>1
  <1>3. Forks(new)
    <2>1. \A q \in Slots : new[q].op.kind = "fork" =>
            new[q].op.child \in Slots /\ new[new[q].op.child].st = "EMBRYO"
      BY <1>0, <1>1 DEF Forks, ForkOK
    <2>2. \A q, r \in Slots :
            /\ new[q].op.kind = "fork" /\ new[r].op.kind = "fork"
            /\ new[q].op.child = new[r].op.child
            => q = r
      BY <1>0, <1>1 DEF Forks, ForkOK
    <2> QED
      BY <2>1, <2>2 DEF Forks
  <1>4. \A q \in Slots : ContentsOK(new[q], n)
    <2>1. ASSUME NEW q \in Slots \ {p} PROVE ContentsOK(pr[q], n)
      BY <1>0, ContentsStep
    <2> QED
      BY <1>1, <2>1
  <1>5. ASSUME NEW m \in Pages PROVE InOnePlace(n, new, o, m)
    <2>1. k[m].free \in Nat
      BY <1>0 DEF KmemType
    <2>2. PageStep(k, pr[p], l, n, new[p], o, m)
      BY <1>1
    <2> QED
      BY <1>0, <1>1, <2>1, <2>2, LedgerStep
  <1> QED
    BY <1>1, <1>2, <1>3, <1>4, <1>5 DEF Good

\* The fields of a process and of its operation.
LEMMA Fields ==
  ASSUME NEW r \in ProcType
  PROVE  /\ r.st \in {"UNUSED", "EMBRYO", "run", "fault", "ZOMBIE"} /\ r.sz \in Nat
         /\ r.pgdir \in DirType /\ r.kstack \in MaybePage
         /\ r.op \in OpType /\ r.op.kind \in Kinds /\ r.op.pg \in DirType
         /\ r.op.a \in Nat /\ r.op.end \in 0..(KERNBASE \div PGSIZE)
         /\ r.op.mem \in MaybePage /\ r.op.sz \in Nat
  <1>1. /\ r.st \in {"UNUSED", "EMBRYO", "run", "fault", "ZOMBIE"} /\ r.sz \in Nat
        /\ r.pgdir \in DirType /\ r.kstack \in MaybePage /\ r.op \in OpType
    BY DEF ProcType
  <1> QED
    BY <1>1 DEF OpType

\* A process with another operation.
LEMMA SetOp ==
  ASSUME NEW r \in ProcType, NEW o \in OpType, NEW s, s = [r EXCEPT !.op = o]
  PROVE  /\ s \in ProcType /\ s.op = o /\ s.st = r.st /\ s.sz = r.sz
         /\ s.pgdir = r.pgdir /\ s.kstack = r.kstack
  BY DEF ProcType

\* No operation.
LEMMA IdleFields ==
  ASSUME VmSizes
  PROVE  /\ NoOp \in OpType /\ NoOp.kind = "user" /\ NoOp.pg = NoDir /\ NoOp.a = 0
         /\ NoOp.end = 0 /\ NoOp.mem = NoPage
         /\ Below(NoDir, 0) /\ Below(NoDir, NoOp.a)
         /\ UnusedSlot \in ProcType /\ UnusedSlot.st = "UNUSED" /\ UnusedSlot.kstack = NoPage
         /\ UnusedSlot.pgdir = NoDir /\ UnusedSlot.op = NoOp /\ UnusedSlot.sz = 0
         /\ PagesOf(0) <= KERNBASE \div PGSIZE
  <1>1. NoDir \in DirType
    BY NoDirEmpty
  <1>2. KERNBASE \div PGSIZE \in Nat
    BY DEF VmSizes, PGSIZE
  <1>3. NoOp \in OpType
    BY <1>1, <1>2 DEF NoOp, OpType, Kinds, MaybePage
  <1>4. /\ NoOp.kind = "user" /\ NoOp.pg = NoDir /\ NoOp.a = 0
        /\ NoOp.end = 0 /\ NoOp.mem = NoPage
    BY DEF NoOp
  <1>5. UnusedSlot \in ProcType
    BY <1>1, <1>3 DEF UnusedSlot, ProcType, MaybePage
  <1>6. /\ UnusedSlot.st = "UNUSED" /\ UnusedSlot.kstack = NoPage
        /\ UnusedSlot.pgdir = NoDir /\ UnusedSlot.op = NoOp /\ UnusedSlot.sz = 0
    BY DEF UnusedSlot
  <1>7. Below(NoDir, 0)
    <2>1. ASSUME NEW va \in Vas PROVE NoDir.pte[va] = NoPage /\ ~(va < 0)
      BY NoDirEmpty, UserPages
    <2> QED
      BY <2>1 DEF Below
  <1>8. PagesOf(0) <= KERNBASE \div PGSIZE
    BY <1>2 DEF PagesOf, PGROUNDUP, PGSIZE
  <1> QED
    BY <1>3, <1>4, <1>5, <1>6, <1>7, <1>8

\* A page that is no part of the user's or the new space, nor in the hand.
LEMMA HasByParts ==
  ASSUME NEW r, NEW m
  PROVE  /\ Has(r, "kstack", m) <=> r.kstack = m
         /\ Has(r, "pgdir", m) <=> m \in PageSet(r.pgdir)
         /\ Has(r, "pg", m) <=> m \in PageSet(r.op.pg)
         /\ Has(r, "mem", m) <=> r.op.mem = m
         /\ HasNot(r, m) <=> /\ r.kstack # m /\ m \notin PageSet(r.pgdir)
                             /\ m \notin PageSet(r.op.pg) /\ r.op.mem # m
  BY DEF Has, HasNot, Places

\* Two processes that have a page in the same places.
LEMMA HasSame ==
  ASSUME NEW r, NEW s, NEW m,
         s.kstack = m <=> r.kstack = m,
         m \in PageSet(s.pgdir) <=> m \in PageSet(r.pgdir),
         m \in PageSet(s.op.pg) <=> m \in PageSet(r.op.pg),
         s.op.mem = m <=> r.op.mem = m
  PROVE  /\ \A t \in Places : Has(s, t, m) <=> Has(r, t, m)
         /\ HasOnce(s, m) <=> HasOnce(r, m)
  <1>1. \A t \in Places : Has(s, t, m) <=> Has(r, t, m)
    BY DEF Has, Places
  <1> QED
    BY <1>1 DEF HasOnce

\* A process in user mode starts an operation.
LEMMA StartOp ==
  ASSUME VmSizes, NEW k, NEW pr, NEW l, Good(k, pr, l), NEW p \in Slots,
         pr[p].st = "run", pr[p].op.kind = "user",
         NEW o \in OpType, o.kind # "user", o.pg = NoDir, o.mem = NoPage,
         NEW new, new = [pr EXCEPT ![p].op = o], o.a <= o.end,
         o.kind # "grow" => o.a = 0,
         o.kind = "grow" => o.a = PagesOf(pr[p].sz),
         o.kind \in {"grow", "stack"} => o.end = PagesOf(o.sz),
         o.kind = "fork" => o.end = PagesOf(pr[p].sz),
         ForkOK(pr, p, [pr[p] EXCEPT !.op = o])
  PROVE  Good(k, new, l)
  <1> DEFINE r == pr[p]
             s == [r EXCEPT !.op = o]
  <1>0. /\ k \in KmemType /\ l \in SUBSET Pages /\ r \in ProcType /\ LocalOK(r)
        /\ ContentsOK(r, k) /\ pr \in [Slots -> ProcType]
    BY DEF Good
  <1>1. new = [pr EXCEPT ![p] = s]
    OBVIOUS
  <1> HIDE DEF r
  <1>2. /\ s \in ProcType /\ s.op = o /\ s.st = r.st /\ s.sz = r.sz
        /\ s.pgdir = r.pgdir /\ s.kstack = r.kstack
    BY <1>0, SetOp
  <1>3. /\ r.st = "run" /\ r.op.kind = "user" /\ ForkOK(pr, p, s)
    BY DEF r
  <1> HIDE DEF s
  <1>4. /\ r.op = NoOp /\ r.op.pg = NoDir /\ r.op.mem = NoPage /\ r.pgdir.dir # NoPage
        /\ Distinct(r.pgdir) /\ Below(r.pgdir, PagesOf(r.sz))
        /\ PagesOf(r.sz) <= KERNBASE \div PGSIZE
    BY <1>0, <1>3, IdleFields DEF LocalOK, LifeOK, ProgressOK
  <1>5. LocalOK(s)
    <2>1. Distinct(s.pgdir) /\ Distinct(s.op.pg)
      BY <1>2, <1>4, NoDirEmpty
    <2>2. LifeOK(s)
      BY <1>2, <1>3, <1>4 DEF LifeOK
    <2>3. Below(NoDir, 0) /\ PagesOf(r.sz) \in Nat
      BY <1>0, IdleFields, Rounding, Fields
    <2>4. ProgressOK(s)
      BY <1>2, <1>3, <1>4, <2>3 DEF ProgressOK, r
    <2> QED
      BY <2>1, <2>2, <2>4 DEF LocalOK
  <1>6. ContentsOK(s, k)
    <2>1. Filled(NoDir, k)
      BY NoDirEmpty DEF Filled
    <2> QED
      BY <1>0, <1>2, <2>1 DEF ContentsOK
  <1>7. ASSUME NEW m \in Pages PROVE PageStep(k, r, l, k, s, l, m)
    <2>1. \A t \in Places : Has(s, t, m) <=> Has(r, t, m)
      BY <1>2, <1>4, HasSame
    <2> QED
      BY <2>1 DEF PageStep, Kept
  <1> QED
    BY <1>0, <1>1, <1>2, <1>3, <1>5, <1>6, <1>7, UpdateOne DEF r

\* No fork fills the slot of a process that is not an embryo.
LEMMA NotFilled ==
  ASSUME NEW k, NEW pr, NEW l, Good(k, pr, l), NEW p \in Slots, pr[p].st # "EMBRYO"
  PROVE  \A q \in Slots : pr[q].op.kind = "fork" => pr[q].op.child # p
  BY DEF Good, Forks

\* sbrk() with a larger break.
LEMMA SbrkMoreStep ==
  ASSUME VmSizes, IInv, NEW p \in Slots, NEW n \in Amounts, sbrkMore(p, n)
  PROVE  Good(kmem', proc', lost')
  <1> DEFINE sz == proc[p].sz
             o == [NoOp EXCEPT !.kind = "grow", !.a = PGROUNDUP(sz) \div PGSIZE,
                               !.end = PGROUNDUP(sz + n) \div PGSIZE, !.sz = sz + n]
  <1>1. /\ proc[p].st = "run" /\ proc[p].op.kind = "user" /\ sz + n < KERNBASE
        /\ proc' = [proc EXCEPT ![p].op = o] /\ kmem' = kmem /\ lost' = lost
    BY DEF sbrkMore, User, Op
  <1>2. Good(kmem, proc, lost) /\ sz \in Nat /\ n \in Nat /\ sz + n \in Nat /\ proc[p] \in ProcType
    <2>1. Good(kmem, proc, lost) /\ proc[p] \in ProcType
      BY DEF IInv, Good
    <2> QED
      BY <2>1, Fields DEF VmSizes
  <1> HIDE DEF sz
  <1>3. /\ o.kind = "grow" /\ o.pg = NoDir /\ o.mem = NoPage /\ o.sz = sz + n
        /\ o.a = PagesOf(sz) /\ o.end = PagesOf(sz + n) /\ o.child = 0
    BY DEF NoOp, PagesOf
  <1>4. /\ PagesOf(sz) \in Nat /\ PagesOf(sz + n) \in 0..(KERNBASE \div PGSIZE)
        /\ PagesOf(sz) <= PagesOf(sz + n)
    <2>1. sz <= sz + n /\ sz + n <= KERNBASE
      BY <1>1, <1>2 DEF VmSizes
    <2> QED
      BY <1>2, <2>1, Rounding, PagesFit
  <1>5. o \in OpType
    BY <1>2, <1>4, NoDirEmpty DEF NoOp, PagesOf, OpType, Kinds, MaybePage
  <1> HIDE DEF o
  <1>6. ForkOK(proc, p, [proc[p] EXCEPT !.op = o])
    <2>1. [proc[p] EXCEPT !.op = o].op = o
      BY <1>2, <1>5, SetOp
    <2> QED
      BY <1>1, <1>2, <1>3, <2>1, NotFilled DEF ForkOK
  <1>7. Good(kmem, proc', lost)
    <2>1. /\ o.kind # "user" /\ o.a <= o.end /\ o.a = PagesOf(proc[p].sz)
          /\ o.end = PagesOf(o.sz)
      BY <1>3, <1>4 DEF sz
    <2> QED
      BY <1>1, <1>2, <1>3, <1>5, <1>6, <2>1, StartOp
  <1> QED
    BY <1>1, <1>7

\* exec().
LEMMA ExecStep ==
  ASSUME VmSizes, IInv, NEW p \in Slots, NEW image \in Images, exec(p, image)
  PROVE  Good(kmem', proc', lost')
  <1> DEFINE o == [NoOp EXCEPT !.kind = "exec", !.end = PGROUNDUP(image) \div PGSIZE,
                               !.sz = image]
  <1>1. /\ proc[p].st = "run" /\ proc[p].op.kind = "user"
        /\ proc' = [proc EXCEPT ![p].op = o] /\ kmem' = kmem /\ lost' = lost
    BY DEF exec, User, Op
  <1>2. Good(kmem, proc, lost) /\ proc[p] \in ProcType
    BY DEF IInv, Good
  <1>3. /\ o.kind = "exec" /\ o.pg = NoDir /\ o.mem = NoPage /\ o.sz = image
        /\ o.a = 0 /\ o.end = PagesOf(image)
    BY DEF NoOp, PagesOf
  <1>4. image \in Nat /\ PagesOf(image) \in 0..(KERNBASE \div PGSIZE)
    <2>1. image \in Nat /\ image <= KERNBASE
      BY DEF VmSizes
    <2> QED
      BY <2>1, PagesFit
  <1>5. o \in OpType
    BY <1>4, NoDirEmpty DEF NoOp, PagesOf, OpType, Kinds, MaybePage
  <1> HIDE DEF o
  <1>6. ForkOK(proc, p, [proc[p] EXCEPT !.op = o])
    <2>1. [proc[p] EXCEPT !.op = o].op = o
      BY <1>2, <1>5, SetOp
    <2> QED
      BY <1>1, <1>2, <1>3, <2>1, NotFilled DEF ForkOK
  <1>7. Good(kmem, proc', lost)
    <2>1. o.kind # "user" /\ o.a <= o.end /\ o.kind \notin {"grow", "stack", "fork"}
      BY <1>3, <1>4
    <2> QED
      BY <1>1, <1>2, <1>3, <1>5, <1>6, <2>1, StartOp
  <1> QED
    BY <1>1, <1>7

\* A process that stays in its state and keeps its fork, or ends it.
LEMMA SameFork ==
  ASSUME NEW k, NEW pr, NEW l, Good(k, pr, l), NEW p \in Slots, NEW s,
         pr[p].st # "EMBRYO" \/ s.st = "EMBRYO",
         pr[p].op.kind = "fork" => pr[p].st # "EMBRYO",
         s.op.kind = "fork" => pr[p].op.kind = "fork" /\ s.op.child = pr[p].op.child
  PROVE  ForkOK(pr, p, s)
  <1>1. Forks(pr)
    BY DEF Good
  <1> QED
    BY <1>1 DEF Forks, ForkOK

\* fork(): a slot, a stack, and the copy begins.
LEMMA ForkStep ==
  ASSUME VmSizes, IInv, NEW p \in Slots, fork(p)
  PROVE  Good(kmem', proc', lost')
  <1> DEFINE f == FreePage(kmem)
             n == kalloc(kmem, "stack")
             E == [UnusedSlot EXCEPT !.st = "EMBRYO", !.kstack = f, !.parent = p]
  <1>1. PICK c \in Slots :
          /\ proc[c].st = "UNUSED" /\ CanAlloc(kmem) /\ kmem' = n
          /\ proc' = [proc EXCEPT
               ![c] = E,
               ![p].op = [NoOp EXCEPT !.kind = "fork", !.end = PGROUNDUP(proc[p].sz) \div PGSIZE,
                                      !.sz = proc[p].sz, !.child = c]]
    BY DEF fork
  <1> DEFINE o == [NoOp EXCEPT !.kind = "fork", !.end = PGROUNDUP(proc[p].sz) \div PGSIZE,
                               !.sz = proc[p].sz, !.child = c]
             mid == [proc EXCEPT ![c] = E]
  <1>2. /\ proc[p].st = "run" /\ proc[p].op.kind = "user" /\ lost' = lost
        /\ proc' = [mid EXCEPT ![p].op = o]
    BY <1>1 DEF fork, User, Op
  <1>3. /\ Good(kmem, proc, lost) /\ proc \in [Slots -> ProcType] /\ kmem \in KmemType
        /\ lost \in SUBSET Pages
        /\ proc[p] \in ProcType /\ proc[c] \in ProcType /\ LocalOK(proc[c]) /\ LocalOK(proc[p])
        /\ \A m \in Pages : InOnePlace(kmem, proc, lost, m)
    BY DEF IInv, Good
  <1>4. /\ f \in Pages /\ kmem[f].free > 0 /\ n \in KmemType
        /\ n[f].free = kmem[f].free - 1
        /\ \A m \in Pages : m # f => n[m] = kmem[m]
    BY <1>1, <1>3, KallocEffect
  <1> HIDE DEF f, n
  <1>5. /\ E \in ProcType /\ E.st = "EMBRYO" /\ E.kstack = f /\ E.pgdir = NoDir /\ E.op = NoOp
        /\ E.sz = 0
    BY <1>4, NoDirEmpty, IdleFields DEF UnusedSlot, ProcType, MaybePage
  <1>6. /\ proc[c].kstack = NoPage /\ proc[c].pgdir = NoDir /\ proc[c].op = NoOp
    BY <1>1, <1>3 DEF LocalOK, LifeOK
  <1> HIDE DEF E
  <1>7. LocalOK(E)
    BY <1>5, IdleFields, NoDirEmpty DEF LocalOK, LifeOK, ProgressOK
  <1>8. ContentsOK(E, n)
    BY <1>5, IdleFields, NoDirEmpty DEF ContentsOK, Filled
  <1>9. ForkOK(proc, c, E)
    BY <1>5, IdleFields DEF ForkOK
  <1>10. ASSUME NEW m \in Pages PROVE PageStep(kmem, proc[c], lost, n, E, lost, m)
    <2>0. m # NoPage /\ PageSet(NoDir) = {} /\ NoOp.pg = NoDir /\ NoOp.mem = NoPage
      BY NoDirEmpty, IdleFields DEF Pages, NoPage
    <2>1. CASE m = f
      <3>1. \A t \in Places : Has(E, t, m) <=> t = "kstack"
        BY <1>5, <2>0, <2>1 DEF Has, Places
      <3>2. HasOnce(E, m)
        BY <3>1 DEF HasOnce, Places
      <3> QED
        BY <1>4, <2>1, <3>2 DEF PageStep, Taken
    <2>2. CASE m # f
      <3>1. \A t \in Places : Has(E, t, m) <=> Has(proc[c], t, m)
        BY <1>5, <1>6, <2>0, <2>2, HasSame
      <3> QED
        BY <1>4, <2>2, <3>1 DEF PageStep, Kept
    <2> QED
      BY <2>1, <2>2
  <1>11. Good(n, mid, lost)
    BY <1>3, <1>4, <1>5, <1>7, <1>8, <1>9, <1>10, UpdateOne
  <1>12. /\ mid[p] = proc[p] /\ mid[c] = E /\ c # p
         /\ \A q \in Slots \ {c} : mid[q] = proc[q]
    BY <1>1, <1>2, <1>3
  <1> HIDE DEF mid
  <1>13. /\ o.kind = "fork" /\ o.pg = NoDir /\ o.mem = NoPage /\ o.sz = proc[p].sz
         /\ o.a = 0 /\ o.end = PagesOf(proc[p].sz) /\ o.child = c
    BY DEF NoOp, PagesOf
  <1>14. proc[p].sz \in Nat /\ PagesOf(proc[p].sz) \in 0..(KERNBASE \div PGSIZE)
    <2>1. proc[p].sz \in Nat
      BY <1>3, Fields
    <2>2. PagesOf(proc[p].sz) <= KERNBASE \div PGSIZE /\ PagesOf(proc[p].sz) \in Nat
      BY <1>3, <2>1, Rounding DEF LocalOK, ProgressOK
    <2>3. KERNBASE \div PGSIZE \in Nat
      BY DEF VmSizes, PGSIZE
    <2> QED
      BY <2>1, <2>2, <2>3
  <1>15. o \in OpType
    BY <1>14, NoDirEmpty DEF NoOp, PagesOf, OpType, Kinds, MaybePage
  <1> HIDE DEF o
  <1>16. ForkOK(mid, p, [mid[p] EXCEPT !.op = o])
    <2>1. [proc[p] EXCEPT !.op = o].op = o
      BY <1>3, <1>15, SetOp
    <2>2. \A q \in Slots : mid[q].op.kind = "fork" =>
            mid[q].op.child # p /\ mid[q].op.child # c
      <3>1. \A q \in Slots : proc[q].op.kind = "fork" =>
              proc[q].op.child # p /\ proc[q].op.child # c
        BY <1>1, <1>2, <1>3, NotFilled
      <3>2. mid[c].op.kind # "fork"
        BY <1>5, <1>12, IdleFields
      <3> QED
        BY <1>12, <3>1, <3>2
    <2> QED
      BY <1>5, <1>12, <1>13, <2>1, <2>2 DEF ForkOK
  <1>17. Good(n, proc', lost)
    <2>1. o.kind # "user" /\ o.a <= o.end /\ o.kind \notin {"grow", "stack"}
      BY <1>13, <1>14
    <2> QED
      BY <1>2, <1>11, <1>12, <1>13, <1>15, <1>16, <2>1, StartOp
  <1> QED
    BY <1>1, <1>2, <1>17

\* Pages of an address space that are not written stay as they are.
LEMMA FilledSame ==
  ASSUME NEW pg \in DirType, NEW k, NEW n, Filled(pg, k),
         \A m \in Pages : m \in PageSet(pg) => n[m] = k[m]
  PROVE  Filled(pg, n)
  <1>1. ASSUME NEW va \in Vas, pg.pte[va] # NoPage
        PROVE  pg.pte[va] \in Pages /\ pg.pte[va] \in PageSet(pg)
    <2>1. pg.pte \in [Vas -> MaybePage]
      BY DEF DirType
    <2>2. pg.pte[va] \in Pages
      BY <1>1, <2>1 DEF MaybePage
    <2> QED
      BY <2>2, InPageSet
  <1> QED
    BY <1>1 DEF Filled

\* A free page belongs to nobody.
LEMMA FreshPage ==
  ASSUME NEW k, NEW pr, NEW l, Good(k, pr, l), NEW f \in Pages, k[f].free > 0,
         NEW p \in Slots
  PROVE  /\ f # NoPage /\ HasNot(pr[p], f) /\ pr[p].kstack # f
         /\ f \notin PageSet(pr[p].pgdir)
         /\ f \notin PageSet(pr[p].op.pg) /\ pr[p].op.mem # f
  <1>1. InOnePlace(k, pr, l, f)
    BY DEF Good
  <1>2. HasNot(pr[p], f)
    BY <1>1, Available DEF Nobody
  <1> QED
    BY <1>2, HasByParts DEF Pages, NoPage

\* setupkvm() with a page.
LEMMA SetupStep ==
  ASSUME VmSizes, IInv, NEW p \in Slots, NeedsKernel(p), CanAlloc(kmem),
         NEW new,
         new = [proc EXCEPT ![p].op.pg = AddKernel(@, FreePage(kmem))]
  PROVE  Good(kalloc(kmem, "table"), new, lost)
  <1> DEFINE f == FreePage(kmem)
             n == kalloc(kmem, "table")
             r == proc[p]
             x == AddKernel(r.op.pg, f)
             o == [r.op EXCEPT !.pg = x]
             s == [r EXCEPT !.op = o]
  <1>0. /\ Good(kmem, proc, lost) /\ proc \in [Slots -> ProcType] /\ kmem \in KmemType
        /\ lost \in SUBSET Pages /\ r \in ProcType /\ LocalOK(r) /\ ContentsOK(r, kmem)
    BY DEF IInv, Good
  <1>1. new = [proc EXCEPT ![p] = s]
    BY Zenon
  <1>2. /\ f \in Pages /\ kmem[f].free > 0 /\ n \in KmemType
        /\ n[f].free = kmem[f].free - 1
        /\ \A m \in Pages : m # f => n[m] = kmem[m]
    BY <1>0, KallocEffect
  <1>3. /\ r.st = "run" /\ r.op.kind \in {"fork", "exec", "stack"}
        /\ ~KernelPart(r.op.pg)
    BY DEF NeedsKernel, Building, Op, KernelPart
  <1> HIDE DEF f, n
  <1>4. /\ f # NoPage /\ r.kstack # f /\ f \notin PageSet(r.pgdir)
        /\ f \notin PageSet(r.op.pg) /\ r.op.mem # f
    BY <1>0, <1>2, FreshPage
  <1> HIDE DEF r
  <1>5. /\ r.pgdir \in DirType /\ r.op \in OpType /\ r.op.pg \in DirType
        /\ Distinct(r.op.pg) /\ Distinct(r.pgdir)
    BY <1>0, Fields DEF LocalOK
  <1>6. /\ x \in DirType /\ Distinct(x) /\ x.pte = r.op.pg.pte
        /\ \A m \in Pages : m \in PageSet(x) <=> m \in PageSet(r.op.pg) \/ m = f
    <2>1. CASE r.op.pg.dir = NoPage
      <3>1. x = [r.op.pg EXCEPT !.dir = f]
        BY <2>1 DEF AddKernel
      <3> HIDE DEF x
      <3> QED
        BY <1>2, <1>5, <2>1, <3>1, AddDir
    <2>2. CASE r.op.pg.dir # NoPage
      <3>1. x = [r.op.pg EXCEPT !.ktab = @ \cup {f}]
        BY <2>2 DEF AddKernel
      <3> HIDE DEF x
      <3> QED
        BY <1>2, <1>4, <1>5, <2>2, <3>1, AddKtab
    <2> QED
      BY <2>1, <2>2
  <1> HIDE DEF x
  <1>7. /\ o \in OpType /\ o.kind = r.op.kind /\ o.pg = x /\ o.a = r.op.a /\ o.end = r.op.end
        /\ o.mem = r.op.mem /\ o.sz = r.op.sz /\ o.child = r.op.child
    BY <1>5, <1>6 DEF OpType
  <1> HIDE DEF o
  <1>8. /\ s \in ProcType /\ s.op = o /\ s.st = r.st /\ s.sz = r.sz
        /\ s.pgdir = r.pgdir /\ s.kstack = r.kstack
    BY <1>0, <1>7, SetOp
  <1> HIDE DEF s
  <1>9. r.op.mem = NoPage
    BY <1>0, <1>3 DEF LocalOK, ProgressOK
  <1>10. LocalOK(s)
    <2>1. LifeOK(s)
      BY <1>0, <1>3, <1>7, <1>8 DEF LocalOK, LifeOK
    <2>2. Below(x, r.op.a) <=> Below(r.op.pg, r.op.a)
      BY <1>6 DEF Below
    <2>3. ProgressOK(s)
      BY <1>0, <1>3, <1>7, <1>8, <1>9, <2>2 DEF LocalOK, ProgressOK
    <2> QED
      BY <1>5, <1>6, <1>7, <1>8, <2>1, <2>3 DEF LocalOK
  <1>11. ContentsOK(s, n)
    <2>1. Filled(r.pgdir, kmem) /\ Filled(r.op.pg, kmem)
      BY <1>0 DEF ContentsOK
    <2>2. /\ \A m \in Pages : m \in PageSet(r.pgdir) => n[m] = kmem[m]
          /\ \A m \in Pages : m \in PageSet(r.op.pg) => n[m] = kmem[m]
      BY <1>2, <1>4
    <2>3. Filled(r.pgdir, n) /\ Filled(r.op.pg, n)
      BY <1>5, <2>1, <2>2, FilledSame
    <2>4. Filled(x, n)
      BY <1>6, <2>3 DEF Filled
    <2> QED
      BY <1>7, <1>8, <1>9, <2>3, <2>4 DEF ContentsOK
  <1>12. ForkOK(proc, p, s)
    BY <1>0, <1>3, <1>7, <1>8, SameFork DEF r
  <1>13. ASSUME NEW m \in Pages PROVE PageStep(kmem, r, lost, n, s, lost, m)
    <2>0. m # NoPage
      BY DEF Pages, NoPage
    <2>1. CASE m = f
      <3>1. \A t \in Places : Has(s, t, m) <=> t = "pg"
        BY <1>4, <1>6, <1>7, <1>8, <2>1 DEF Has, Places
      <3>2. HasOnce(s, m)
        BY <3>1 DEF HasOnce, Places
      <3> QED
        BY <1>2, <2>1, <3>2 DEF PageStep, Taken
    <2>2. CASE m # f
      <3>1. \A t \in Places : Has(s, t, m) <=> Has(r, t, m)
        BY <1>6, <1>7, <1>8, <2>2, HasSame
      <3> QED
        BY <1>2, <2>2, <3>1 DEF PageStep, Kept
    <2> QED
      BY <2>1, <2>2
  <1>14. Good(n, new, lost)
    BY <1>0, <1>1, <1>2, <1>8, <1>10, <1>11, <1>12, <1>13, UpdateOne DEF r
  <1> QED
    BY <1>14 DEF n

\* What copyuvm() and allocuvm() put into a page is user data.
LEMMA NewPageData ==
  ASSUME VmSizes, IInv, NEW p \in Slots, InLoop(p)
  PROVE  NewPage(p) \in {"zero", "data"}
  <1> DEFINE r == proc[p]
  <1>0. r \in ProcType /\ LocalOK(r) /\ ContentsOK(r, kmem)
    BY DEF IInv, Good
  <1>1. r.st = "run" /\ r.op.a < r.op.end
    BY DEF InLoop, Op
  <1>2. NewPage(p) = IF r.op.kind = "fork" THEN kmem[r.pgdir.pte[r.op.a]].data ELSE "zero"
    BY DEF NewPage, Op
  <1> HIDE DEF r
  <1>3. r.op.a \in Nat /\ r.op.end \in 0..(KERNBASE \div PGSIZE) /\ KERNBASE \div PGSIZE \in Nat
    BY <1>0, Fields DEF VmSizes, PGSIZE
  <1>4. r.op.a \in Vas
    BY <1>1, <1>3, UserPages
  <1>5. r.op.kind = "fork" => r.pgdir.pte[r.op.a] # NoPage
    BY <1>0, <1>1, <1>4 DEF LocalOK, ProgressOK, Below
  <1>6. Filled(r.pgdir, kmem)
    BY <1>0 DEF ContentsOK
  <1> QED
    BY <1>2, <1>4, <1>5, <1>6 DEF Filled

\* The loops get a page.
LEMMA AllocStep ==
  ASSUME VmSizes, IInv, NEW p \in Slots, InLoop(p), proc[p].op.mem = NoPage, CanAlloc(kmem),
         NEW new, new = [proc EXCEPT ![p].op.mem = FreePage(kmem)]
  PROVE  Good(kalloc(kmem, NewPage(p)), new, lost)
  <1> DEFINE f == FreePage(kmem)
             n == kalloc(kmem, NewPage(p))
             r == proc[p]
             o == [r.op EXCEPT !.mem = f]
             s == [r EXCEPT !.op = o]
  <1>0. /\ Good(kmem, proc, lost) /\ proc \in [Slots -> ProcType] /\ kmem \in KmemType
        /\ lost \in SUBSET Pages /\ r \in ProcType /\ LocalOK(r) /\ ContentsOK(r, kmem)
    BY DEF IInv, Good
  <1>1. new = [proc EXCEPT ![p] = s]
    OBVIOUS
  <1>a. NewPage(p) \in {"zero", "data"}
    BY NewPageData
  <1>2. /\ f \in Pages /\ kmem[f].free > 0 /\ n \in KmemType
        /\ n[f].free = kmem[f].free - 1 /\ n[f].data = NewPage(p)
        /\ \A m \in Pages : m # f => n[m] = kmem[m]
    BY <1>0, <1>a, KallocEffect
  <1>3. /\ r.st = "run" /\ r.op.kind # "user" /\ r.op.a < r.op.end /\ r.op.mem = NoPage
        /\ r.op.kind \in {"fork", "exec", "stack"} => KernelPart(r.op.pg)
    BY DEF InLoop, NeedsKernel, Building, Op, KernelPart
  <1> HIDE DEF f, n
  <1>4. /\ f # NoPage /\ r.kstack # f /\ f \notin PageSet(r.pgdir)
        /\ f \notin PageSet(r.op.pg) /\ r.op.mem # f
    BY <1>0, <1>2, FreshPage
  <1> HIDE DEF r
  <1>5. /\ r.pgdir \in DirType /\ r.op \in OpType /\ r.op.pg \in DirType
        /\ r.op.kind \in Kinds
    BY <1>0, Fields
  <1>7. /\ o \in OpType /\ o.kind = r.op.kind /\ o.pg = r.op.pg /\ o.a = r.op.a
        /\ o.end = r.op.end /\ o.mem = f /\ o.sz = r.op.sz /\ o.child = r.op.child
    BY <1>2, <1>5 DEF OpType, MaybePage
  <1> HIDE DEF o
  <1>8. /\ s \in ProcType /\ s.op = o /\ s.st = r.st /\ s.sz = r.sz
        /\ s.pgdir = r.pgdir /\ s.kstack = r.kstack
    BY <1>0, <1>7, SetOp
  <1> HIDE DEF s
  <1>10. LocalOK(s)
    <2>1. LifeOK(s)
      BY <1>0, <1>3, <1>7, <1>8 DEF LocalOK, LifeOK
    <2>3. ProgressOK(s)
      BY <1>0, <1>3, <1>5, <1>7, <1>8 DEF LocalOK, ProgressOK, Kinds
    <2> QED
      BY <1>0, <1>7, <1>8, <2>1, <2>3 DEF LocalOK
  <1>11. ContentsOK(s, n)
    <2>1. Filled(r.pgdir, kmem) /\ Filled(r.op.pg, kmem)
      BY <1>0 DEF ContentsOK
    <2>2. /\ \A m \in Pages : m \in PageSet(r.pgdir) => n[m] = kmem[m]
          /\ \A m \in Pages : m \in PageSet(r.op.pg) => n[m] = kmem[m]
      BY <1>2, <1>4
    <2>3. Filled(r.pgdir, n) /\ Filled(r.op.pg, n)
      BY <1>5, <2>1, <2>2, FilledSame
    <2> QED
      BY <1>2, <1>7, <1>8, <1>a, <2>3 DEF ContentsOK
  <1>12. ForkOK(proc, p, s)
    BY <1>0, <1>3, <1>7, <1>8, SameFork DEF r
  <1>13. ASSUME NEW m \in Pages PROVE PageStep(kmem, r, lost, n, s, lost, m)
    <2>0. m # NoPage
      BY DEF Pages, NoPage
    <2>1. CASE m = f
      <3>1. \A t \in Places : Has(s, t, m) <=> t = "mem"
        BY <1>4, <1>7, <1>8, <2>1 DEF Has, Places
      <3>2. HasOnce(s, m)
        BY <3>1 DEF HasOnce, Places
      <3> QED
        BY <1>2, <2>1, <3>2 DEF PageStep, Taken
    <2>2. CASE m # f
      <3>1. \A t \in Places : Has(s, t, m) <=> Has(r, t, m)
        BY <1>3, <1>7, <1>8, <2>0, <2>2, HasSame
      <3> QED
        BY <1>2, <2>2, <3>1 DEF PageStep, Kept
    <2> QED
      BY <2>1, <2>2
  <1>14. Good(n, new, lost)
    BY <1>0, <1>1, <1>2, <1>8, <1>10, <1>11, <1>12, <1>13, UpdateOne DEF r
  <1> QED
    BY <1>14 DEF n


\* mappages() of a page that the address space does not have: the page, and
\* one for a table where that is needed, are added to it.
LEMMA MapEffect ==
  ASSUME VmSizes, NEW k \in KmemType, NEW pg \in DirType, Distinct(pg), pg.dir # NoPage,
         NEW a \in Vas, pg.pte[a] = NoPage, NEW mem \in Pages, mem \notin PageSet(pg),
         k[mem].free = 0, NEW user \in BOOLEAN,
         \A m \in Pages : k[m].free > 0 => m \notin PageSet(pg),
         NeedsTable(pg, a) => CanAlloc(k)
  PROVE  LET x == mappages(k, pg, a, mem, user) IN
         /\ x.kmem \in KmemType /\ x.pg \in DirType /\ Distinct(x.pg) /\ x.pg.dir # NoPage
         /\ \A va \in Vas : x.pg.pte[va] = IF va = a THEN mem ELSE pg.pte[va]
         /\ \A m \in Pages :
              \/ /\ x.kmem[m] = k[m]
                 /\ m \in PageSet(x.pg) <=> m \in PageSet(pg) \/ m = mem
              \/ /\ k[m].free > 0 /\ x.kmem[m].free = k[m].free - 1
                 /\ m \in PageSet(x.pg)
  <1> DEFINE x == mappages(k, pg, a, mem, user)
  <1>1. CASE ~NeedsTable(pg, a)
    <2>1. x.kmem = k /\ x.pg = WithEntry(pg, a, mem, user)
      BY <1>1 DEF mappages
    <2> HIDE DEF x
    <2>2. PICK z : z = x.pg
      OBVIOUS
    <2>3. /\ z \in DirType /\ z.dir = pg.dir /\ z.ktab = pg.ktab
          /\ z.tab = pg.tab /\ z.pte = [pg.pte EXCEPT ![a] = mem]
      BY <2>1, <2>2, SetPte
    <2>4. /\ Distinct(z)
          /\ \A m \in Pages : m \in PageSet(z) <=> m \in PageSet(pg) \/ m = mem
      BY <2>3, AddPte
    <2>5. \A va \in Vas : z.pte[va] = IF va = a THEN mem ELSE pg.pte[va]
      BY <2>3 DEF DirType
    <2> QED
      BY <2>1, <2>2, <2>3, <2>4, <2>5 DEF x
  <1>2. CASE NeedsTable(pg, a)
    <2> DEFINE f == FreePage(k)
               y == [pg EXCEPT !.tab[PDX(a)] = f]
    <2>1. /\ x.kmem = kalloc(k, "table")
          /\ x.pg = WithEntry(y, a, mem, user)
      BY <1>2 DEF mappages
    <2>2. /\ f \in Pages /\ k[f].free > 0
          /\ x.kmem \in KmemType /\ x.kmem[f].free = k[f].free - 1
          /\ \A m \in Pages : m # f => x.kmem[m] = k[m]
      BY <1>2, <2>1, KallocEffect
    <2> HIDE DEF x, f
    <2>3. /\ f # mem /\ f \notin PageSet(pg) /\ PDX(a) \in Dirs /\ pg.tab[PDX(a)] = NoPage
      BY <1>2, <2>2, UserPages DEF NeedsTable
    <2>4. /\ y \in DirType /\ Distinct(y) /\ y.dir = pg.dir /\ y.pte = pg.pte
          /\ \A m \in Pages : m \in PageSet(y) <=> m \in PageSet(pg) \/ m = f
      BY <2>2, <2>3, AddTab
    <2> HIDE DEF y
    <2>5. y.dir # NoPage /\ y.pte[a] = NoPage /\ mem \notin PageSet(y)
      BY <2>3, <2>4
    <2>6. PICK z : z = x.pg
      OBVIOUS
    <2>7. /\ z \in DirType /\ z.dir = y.dir /\ z.ktab = y.ktab
          /\ z.tab = y.tab /\ z.pte = [y.pte EXCEPT ![a] = mem]
      BY <2>1, <2>4, <2>6, SetPte
    <2>8. /\ Distinct(z)
          /\ \A m \in Pages : m \in PageSet(z) <=> m \in PageSet(y) \/ m = mem
      BY <2>4, <2>5, <2>7, AddPte
    <2>a. \A va \in Vas : z.pte[va] = IF va = a THEN mem ELSE pg.pte[va]
      BY <2>4, <2>7 DEF DirType
    <2>9. \A m \in Pages :
              \/ /\ x.kmem[m] = k[m]
                 /\ m \in PageSet(z) <=> m \in PageSet(pg) \/ m = mem
              \/ /\ k[m].free > 0 /\ x.kmem[m].free = k[m].free - 1
                 /\ m \in PageSet(z)
      BY <2>2, <2>4, <2>8
    <2> QED
      BY <2>2, <2>4, <2>5, <2>6, <2>7, <2>8, <2>9, <2>a DEF x
  <1> QED
    BY <1>1, <1>2

\* A page in the hand is in no other place.
LEMMA InHand ==
  ASSUME NEW k, NEW pr, NEW l, Good(k, pr, l), NEW p \in Slots, pr[p].op.mem # NoPage
  PROVE  /\ pr[p].op.mem \in Pages /\ k[pr[p].op.mem].free = 0 /\ ~HasNot(pr[p], pr[p].op.mem)
         /\ pr[p].kstack # pr[p].op.mem /\ pr[p].op.mem \notin PageSet(pr[p].pgdir)
         /\ pr[p].op.mem \notin PageSet(pr[p].op.pg)
  <1> DEFINE r == pr[p]
             m == r.op.mem
  <1>1. r \in ProcType /\ \A x \in Pages : InOnePlace(k, pr, l, x)
    BY DEF Good
  <1>2. m \in Pages /\ Has(r, "mem", m)
    BY <1>1, UserHas
  <1>3. ~HasNot(pr[p], m)
    BY <1>2 DEF HasNot, Places
  <1> HIDE DEF m
  <1>4. k[m].free = 0 /\ HasOnce(pr[p], m)
    BY <1>1, <1>2, <1>3, Owned
  <1>5. \A t \in Places : Has(r, t, m) => t = "mem"
    BY <1>2, <1>4 DEF HasOnce, Places
  <1> HIDE DEF r
  <1>6. ~Has(r, "kstack", m) /\ ~Has(r, "pgdir", m) /\ ~Has(r, "pg", m)
    BY <1>5 DEF Places
  <1>7. r.kstack # m /\ m \notin PageSet(r.pgdir) /\ m \notin PageSet(r.op.pg)
    BY <1>6, HasByParts
  <1> QED
    BY <1>2, <1>3, <1>4, <1>7 DEF r, m

\* The loops map the page in the hand.
LEMMA MapStep ==
  ASSUME VmSizes, IInv, NEW p \in Slots, InLoop(p), proc[p].op.mem # NoPage,
         NEW user \in BOOLEAN, NEW x,
         x = mappages(kmem, Target(p), proc[p].op.a, proc[p].op.mem, user),
         NeedsTable(Target(p), proc[p].op.a) => CanAlloc(kmem),
         NEW new,
         new = [proc EXCEPT ![p] = [WithTarget(p, x.pg) EXCEPT
                                      !.op.a = Op(p).a + 1, !.op.mem = NoPage]]
  PROVE  Good(x.kmem, new, lost)
  <1> DEFINE r == proc[p]
             a == r.op.a
             mem == r.op.mem
             pg == Target(p)
             s == [WithTarget(p, x.pg) EXCEPT !.op.a = Op(p).a + 1, !.op.mem = NoPage]
  <1>0. /\ Good(kmem, proc, lost) /\ proc \in [Slots -> ProcType] /\ kmem \in KmemType
        /\ lost \in SUBSET Pages /\ r \in ProcType /\ LocalOK(r) /\ ContentsOK(r, kmem)
        /\ \A m \in Pages : InOnePlace(kmem, proc, lost, m)
    BY DEF IInv, Good
  <1>1. new = [proc EXCEPT ![p] = s]
    OBVIOUS
  <1>2. /\ r.st = "run" /\ r.op.kind # "user" /\ a < r.op.end
    BY DEF InLoop, Op
  <1>3. pg = IF r.op.kind = "grow" THEN r.pgdir ELSE r.op.pg
    BY DEF Target, Op
  <1>4. /\ mem \in Pages /\ kmem[mem].free = 0 /\ ~HasNot(r, mem)
        /\ r.kstack # mem /\ mem \notin PageSet(r.pgdir) /\ mem \notin PageSet(r.op.pg)
    BY <1>0, InHand
  <1>5. ASSUME NEW m \in Pages, kmem[m].free > 0
        PROVE  /\ m # NoPage /\ r.kstack # m /\ m \notin PageSet(r.pgdir)
               /\ m \notin PageSet(r.op.pg) /\ r.op.mem # m
    BY <1>0, <1>5, FreshPage
  <1>6. x = mappages(kmem, pg, a, mem, user) /\ (NeedsTable(pg, a) => CanAlloc(kmem))
    OBVIOUS
  <1>7. s = IF r.op.kind = "grow"
              THEN [r EXCEPT !.pgdir = x.pg, !.op = [r.op EXCEPT !.a = a + 1, !.mem = NoPage]]
              ELSE [r EXCEPT !.op = [r.op EXCEPT !.pg = x.pg, !.a = a + 1, !.mem = NoPage]]
    BY <1>0 DEF WithTarget, Op, ProcType, OpType
  <1> HIDE DEF r, a, mem, pg, s
  <1>8. /\ r.pgdir \in DirType /\ r.op.pg \in DirType /\ r.op \in OpType /\ r.op.kind \in Kinds
        /\ a \in Nat /\ r.op.end \in 0..(KERNBASE \div PGSIZE)
    BY <1>0, Fields DEF a
  <1>9. /\ a \in Vas /\ a + 1 \in Nat /\ a + 1 <= r.op.end
    <2>1. KERNBASE \div PGSIZE \in Nat
      BY DEF VmSizes, PGSIZE
    <2>2. a < KERNBASE \div PGSIZE
      BY <1>2, <1>8, <2>1
    <2> QED
      BY <1>2, <1>8, <2>2, UserPages
  <1>10. /\ pg \in DirType /\ Distinct(pg) /\ pg.dir # NoPage /\ Below(pg, a)
         /\ mem \notin PageSet(pg) /\ Filled(pg, kmem)
    <2>1. mem # NoPage
      BY DEF mem, r
    <2>2. CASE r.op.kind = "grow"
      BY <1>0, <1>2, <1>3, <1>4, <1>8, <2>2 DEF LocalOK, LifeOK, ProgressOK, ContentsOK, a
    <2>3. CASE r.op.kind # "grow"
      BY <1>0, <1>2, <1>3, <1>4, <1>8, <2>1, <2>3
      DEF LocalOK, LifeOK, ProgressOK, ContentsOK, KernelPart, a, mem
    <2> QED
      BY <2>2, <2>3
  <1>11. pg.pte[a] = NoPage /\ \A m \in Pages : kmem[m].free > 0 => m \notin PageSet(pg)
    BY <1>3, <1>5, <1>8, <1>9, <1>10 DEF Below
  <1>12. /\ x.kmem \in KmemType /\ x.pg \in DirType /\ Distinct(x.pg) /\ x.pg.dir # NoPage
         /\ \A va \in Vas : x.pg.pte[va] = IF va = a THEN mem ELSE pg.pte[va]
         /\ \A m \in Pages :
              \/ /\ x.kmem[m] = kmem[m]
                 /\ m \in PageSet(x.pg) <=> m \in PageSet(pg) \/ m = mem
              \/ /\ kmem[m].free > 0 /\ x.kmem[m].free = kmem[m].free - 1
                 /\ m \in PageSet(x.pg)
    BY <1>0, <1>4, <1>6, <1>9, <1>10, <1>11, MapEffect
  <1>13. PICK n, y : n = x.kmem /\ y = x.pg
    OBVIOUS
  <1>14. /\ s \in ProcType /\ s.st = r.st /\ s.sz = r.sz /\ s.kstack = r.kstack
         /\ s.op.kind = r.op.kind /\ s.op.a = a + 1 /\ s.op.end = r.op.end
         /\ s.op.mem = NoPage /\ s.op.sz = r.op.sz /\ s.op.child = r.op.child
         /\ s.pgdir = IF r.op.kind = "grow" THEN y ELSE r.pgdir
         /\ s.op.pg = IF r.op.kind = "grow" THEN r.op.pg ELSE y
    <2>1. y \in DirType
      BY <1>12, <1>13
    <2>2. CASE r.op.kind = "grow"
      <3> DEFINE o == [r.op EXCEPT !.a = a + 1, !.mem = NoPage]
      <3>1. /\ o \in OpType /\ o.kind = r.op.kind /\ o.pg = r.op.pg /\ o.a = a + 1
            /\ o.end = r.op.end /\ o.mem = NoPage /\ o.sz = r.op.sz /\ o.child = r.op.child
        BY <1>8, <1>9 DEF OpType, MaybePage
      <3>2. s = [r EXCEPT !.pgdir = y, !.op = o]
        BY <1>7, <1>13, <2>2
      <3> HIDE DEF o
      <3>3. /\ s \in ProcType /\ s.st = r.st /\ s.sz = r.sz /\ s.kstack = r.kstack
            /\ s.pgdir = y /\ s.op = o
        BY <1>0, <2>1, <3>1, <3>2 DEF ProcType
      <3> QED
        BY <2>2, <3>1, <3>3
    <2>3. CASE r.op.kind # "grow"
      <3> DEFINE o == [r.op EXCEPT !.pg = y, !.a = a + 1, !.mem = NoPage]
      <3>1. /\ o \in OpType /\ o.kind = r.op.kind /\ o.pg = y /\ o.a = a + 1
            /\ o.end = r.op.end /\ o.mem = NoPage /\ o.sz = r.op.sz /\ o.child = r.op.child
        BY <1>8, <1>9, <2>1 DEF OpType, MaybePage
      <3>2. s = [r EXCEPT !.op = o]
        BY <1>7, <1>13, <2>3
      <3> HIDE DEF o
      <3>3. /\ s \in ProcType /\ s.st = r.st /\ s.sz = r.sz /\ s.kstack = r.kstack
            /\ s.pgdir = r.pgdir /\ s.op = o
        BY <1>0, <3>1, <3>2, SetOp
      <3> QED
        BY <2>3, <3>1, <3>3
    <2> QED
      BY <2>2, <2>3
  <1>15. LocalOK(s)
    <2>1. Distinct(s.pgdir) /\ Distinct(s.op.pg)
      BY <1>0, <1>12, <1>13, <1>14 DEF LocalOK
    <2>2. LifeOK(s)
      BY <1>0, <1>2, <1>12, <1>13, <1>14 DEF LocalOK, LifeOK
    <2>3. Below(y, a + 1)
      <3>1. ASSUME NEW va \in Vas PROVE y.pte[va] # NoPage <=> va < a + 1
        <4>1. va \in Nat /\ (pg.pte[va] # NoPage <=> va < a) /\ mem # NoPage
          BY <1>4, <1>10, UserPages DEF Below, Pages, NoPage
        <4>2. y.pte[va] = IF va = a THEN mem ELSE pg.pte[va]
          BY <1>12, <1>13
        <4>3. a \in Nat
          BY <1>8
        <4>4. y.pte[va] # NoPage <=> va = a \/ va < a
          BY <4>1, <4>2
        <4> QED
          BY <4>1, <4>3, <4>4
      <3> QED
        BY <3>1 DEF Below
    <2>4. r.op.kind = "grow" => PagesOf(r.sz) <= a + 1
      <3>1. PagesOf(r.sz) \in Nat
        BY <1>0, Fields, Rounding
      <3> QED
        BY <1>0, <1>8, <3>1 DEF LocalOK, ProgressOK, a
    <2>5. ProgressOK(s)
      BY <1>0, <1>2, <1>9, <1>14, <2>3, <2>4 DEF LocalOK, ProgressOK
    <2> QED
      BY <2>1, <2>2, <2>5 DEF LocalOK
  <1>16. ContentsOK(s, n)
    <2>1. Filled(r.pgdir, kmem) /\ Filled(r.op.pg, kmem)
          /\ kmem[mem].data \in {"zero", "data"}
      BY <1>0 DEF ContentsOK, mem, r
    <2>2. /\ \A m \in Pages : m \in PageSet(r.pgdir) => n[m] = kmem[m]
          /\ \A m \in Pages : m \in PageSet(r.op.pg) => n[m] = kmem[m]
          /\ n[mem] = kmem[mem]
      <3>1. \A m \in Pages : n[m] = kmem[m] \/ kmem[m].free > 0
        BY <1>12, <1>13
      <3>2. \A m \in Pages : m \in PageSet(r.pgdir) \/ m \in PageSet(r.op.pg) \/ m = mem =>
              ~(kmem[m].free > 0)
        BY <1>4, <1>5
      <3> QED
        BY <1>4, <3>1, <3>2
    <2>3. Filled(r.pgdir, n) /\ Filled(r.op.pg, n)
      BY <1>8, <2>1, <2>2, FilledSame
    <2>4. Filled(pg, n)
      BY <1>3, <2>3
    <2>5. Filled(y, n)
      <3>1. ASSUME NEW va \in Vas, y.pte[va] # NoPage
            PROVE  n[y.pte[va]].data \in {"zero", "data"}
        <4>1. y.pte[va] = IF va = a THEN mem ELSE pg.pte[va]
          BY <1>12, <1>13
        <4>2. CASE va = a
          BY <2>1, <2>2, <4>1, <4>2
        <4>3. CASE va # a
          BY <2>4, <3>1, <4>1, <4>3 DEF Filled
        <4> QED
          BY <4>2, <4>3
      <3> QED
        BY <3>1 DEF Filled
    <2> QED
      BY <1>14, <2>3, <2>5 DEF ContentsOK
  <1>17. ForkOK(proc, p, s)
    BY <1>0, <1>2, <1>14, SameFork DEF r
  <1>18. ASSUME NEW m \in Pages PROVE PageStep(kmem, r, lost, n, s, lost, m)
    <2>0. m # NoPage
      BY DEF Pages, NoPage
    <2> DEFINE t0 == IF r.op.kind = "grow" THEN "pgdir" ELSE "pg"
    <2>a. t0 \in Places
      BY DEF Places
    <2>1. CASE kmem[m].free > 0 /\ n[m].free = kmem[m].free - 1 /\ m \in PageSet(y)
      <3>1. \A t \in Places : Has(s, t, m) <=> t = t0
        BY <1>5, <1>14, <2>0, <2>1 DEF Has, Places
      <3>2. HasOnce(s, m)
        BY <2>a, <3>1 DEF HasOnce
      <3> QED
        BY <2>1, <3>2 DEF PageStep, Taken
    <2>2. CASE n[m] = kmem[m] /\ m = mem /\ m \in PageSet(y)
      <3>1. \A t \in Places : Has(s, t, m) <=> t = t0
        BY <1>4, <1>14, <2>0, <2>2 DEF Has, Places
      <3>2. HasOnce(s, m)
        BY <2>a, <3>1 DEF HasOnce
      <3> QED
        BY <1>4, <2>2, <3>2 DEF PageStep, Moved
    <2>3. CASE n[m] = kmem[m] /\ m # mem /\ (m \in PageSet(y) <=> m \in PageSet(pg))
      <3>0. r.op.mem # m
        BY <2>3 DEF mem
      <3>1. \A t \in Places : Has(s, t, m) <=> Has(r, t, m)
        BY <1>3, <1>14, <2>0, <2>3, <3>0, HasSame
      <3> QED
        BY <2>3, <3>1 DEF PageStep, Kept
    <2> QED
      BY <1>12, <1>13, <2>1, <2>2, <2>3
  <1>19. n \in KmemType
    BY <1>12, <1>13
  <1>20. Good(n, new, lost)
    BY <1>0, <1>1, <1>14, <1>15, <1>16, <1>17, <1>18, <1>19, UpdateOne DEF r
  <1> QED
    BY <1>13, <1>20

\* The end of growproc().
LEMMA GrownStep ==
  ASSUME VmSizes, IInv, NEW p \in Slots, Grown(p)
  PROVE  Good(kmem', proc', lost')
  <1> DEFINE r == proc[p]
             s == [r EXCEPT !.sz = r.op.sz, !.op = NoOp]
  <1>0. /\ Good(kmem, proc, lost) /\ proc \in [Slots -> ProcType] /\ kmem \in KmemType
        /\ lost \in SUBSET Pages /\ r \in ProcType /\ LocalOK(r) /\ ContentsOK(r, kmem)
    BY DEF IInv, Good
  <1>1. /\ proc' = [proc EXCEPT ![p] = s] /\ kmem' = kmem /\ lost' = lost
        /\ r.st = "run" /\ r.op.kind = "grow" /\ r.op.a >= r.op.end
    BY <1>0 DEF Grown, Built, Op
  <1> HIDE DEF r
  <1>2. /\ r.op.sz \in Nat /\ r.op.a \in Nat /\ r.op.end \in 0..(KERNBASE \div PGSIZE)
        /\ KERNBASE \div PGSIZE \in Nat
    BY <1>0, Fields DEF VmSizes, PGSIZE
  <1>3. /\ s \in ProcType /\ s.st = r.st /\ s.sz = r.op.sz /\ s.pgdir = r.pgdir
        /\ s.kstack = r.kstack /\ s.op = NoOp
    BY <1>0, <1>2, IdleFields DEF ProcType
  <1> HIDE DEF s
  <1>4. /\ r.op.a = r.op.end /\ r.op.pg = NoDir /\ r.op.mem = NoPage
        /\ PagesOf(r.op.sz) = r.op.end /\ Below(r.pgdir, r.op.a)
    BY <1>0, <1>1, <1>2 DEF LocalOK, LifeOK, ProgressOK
  <1>5. LocalOK(s)
    <2>1. LifeOK(s) /\ Distinct(s.pgdir) /\ Distinct(s.op.pg)
      BY <1>0, <1>1, <1>3, IdleFields, NoDirEmpty DEF LocalOK, LifeOK
    <2>2. PagesOf(s.sz) <= KERNBASE \div PGSIZE
      BY <1>2, <1>3, <1>4
    <2>3. ProgressOK(s)
      BY <1>3, <1>4, <2>2, IdleFields DEF ProgressOK
    <2> QED
      BY <2>1, <2>3 DEF LocalOK
  <1>6. ContentsOK(s, kmem)
    BY <1>0, <1>3, IdleFields, NoDirEmpty DEF ContentsOK, Filled
  <1>7. ForkOK(proc, p, s)
    BY <1>0, <1>1, <1>3, IdleFields, SameFork DEF r
  <1>8. ASSUME NEW m \in Pages PROVE PageStep(kmem, r, lost, kmem, s, lost, m)
    <2>1. \A t \in Places : Has(s, t, m) <=> Has(r, t, m)
      BY <1>3, <1>4, IdleFields, HasSame
    <2> QED
      BY <2>1 DEF PageStep, Kept
  <1>9. Good(kmem, proc', lost)
    BY <1>0, <1>1, <1>3, <1>5, <1>6, <1>7, <1>8, UpdateOne DEF r
  <1> QED
    BY <1>1, <1>9

\* loaduvm() reads the image, and the stack is asked for.
LEMMA LoadStep ==
  ASSUME VmSizes, IInv, NEW p \in Slots, Built(p, "exec"),
         (proc[p].op.end + 2) * PGSIZE < KERNBASE,
         NEW n,
         n = [m \in Pages |-> IF m \in Range(Op(p).pg.pte)
                                THEN [kmem[m] EXCEPT !.data = "data"] ELSE kmem[m]],
         NEW new,
         new = [proc EXCEPT ![p].op.kind = "stack", ![p].op.end = Op(p).end + 2,
                            ![p].op.sz = (Op(p).end + 2) * PGSIZE]
  PROVE  Good(n, new, lost)
  <1> DEFINE r == proc[p]
             e == r.op.end + 2
             o == [r.op EXCEPT !.kind = "stack", !.end = e, !.sz = e * PGSIZE]
             s == [r EXCEPT !.op = o]
             S == Range(r.op.pg.pte)
  <1>0. /\ Good(kmem, proc, lost) /\ proc \in [Slots -> ProcType] /\ kmem \in KmemType
        /\ lost \in SUBSET Pages /\ r \in ProcType /\ LocalOK(r) /\ ContentsOK(r, kmem)
        /\ \A m \in Pages : InOnePlace(kmem, proc, lost, m)
    BY DEF IInv, Good
  <1>1. /\ new = [proc EXCEPT ![p] = s]
        /\ n = [m \in Pages |-> IF m \in S THEN [kmem[m] EXCEPT !.data = "data"] ELSE kmem[m]]
        /\ r.st = "run" /\ r.op.kind = "exec" /\ r.op.a >= r.op.end /\ e * PGSIZE < KERNBASE
    BY <1>0 DEF Built, Op
  <1> HIDE DEF r, S
  <1>2. /\ r.op.a \in Nat /\ r.op.end \in 0..(KERNBASE \div PGSIZE) /\ r.op \in OpType
        /\ KERNBASE \div PGSIZE \in Nat /\ KERNBASE \in Nat
        /\ r.op.pg \in DirType /\ r.pgdir \in DirType
    BY <1>0, Fields DEF VmSizes, PGSIZE
  <1>3. /\ e \in 0..(KERNBASE \div PGSIZE) /\ e * PGSIZE \in Nat /\ PagesOf(e * PGSIZE) = e
        /\ r.op.end <= e /\ e \in Nat
    <2>1. e \in Nat /\ e * PGSIZE \in Nat /\ r.op.end <= e
      BY <1>2 DEF PGSIZE
    <2>2. PagesOf(e * PGSIZE) = e
      BY <2>1, PagesFit
    <2>3. PagesOf(e * PGSIZE) \in 0..(KERNBASE \div PGSIZE)
      BY <1>1, <1>2, <2>1, PagesFit
    <2> QED
      BY <2>1, <2>2, <2>3
  <1> HIDE DEF e
  <1>4. /\ o \in OpType /\ o.kind = "stack" /\ o.pg = r.op.pg /\ o.a = r.op.a /\ o.end = e
        /\ o.mem = r.op.mem /\ o.sz = e * PGSIZE
    BY <1>2, <1>3 DEF OpType, Kinds
  <1> HIDE DEF o
  <1>5. /\ s \in ProcType /\ s.op = o /\ s.st = r.st /\ s.sz = r.sz
        /\ s.pgdir = r.pgdir /\ s.kstack = r.kstack
    BY <1>0, <1>4, SetOp
  <1> HIDE DEF s
  <1>6. r.op.mem = NoPage /\ r.op.a <= e
    BY <1>0, <1>1, <1>2, <1>3 DEF LocalOK, ProgressOK
  <1>7. LocalOK(s)
    <2>1. LifeOK(s) /\ Distinct(s.pgdir) /\ Distinct(s.op.pg)
      BY <1>0, <1>1, <1>4, <1>5 DEF LocalOK, LifeOK
    <2>2. ProgressOK(s)
      BY <1>0, <1>1, <1>3, <1>4, <1>5, <1>6 DEF LocalOK, ProgressOK
    <2> QED
      BY <2>1, <2>2 DEF LocalOK
  <1>8. /\ n \in KmemType
        /\ \A m \in Pages : m \notin S => n[m] = kmem[m]
        /\ \A m \in Pages : m \in S => n[m].free = kmem[m].free /\ n[m].data = "data"
    BY <1>0, <1>1 DEF KmemType
  <1>9. ContentsOK(s, n)
    <2>1. Filled(r.pgdir, kmem) /\ Filled(r.op.pg, kmem)
      BY <1>0 DEF ContentsOK
    <2>2. ASSUME NEW pg \in DirType, Filled(pg, kmem) PROVE Filled(pg, n)
      <3>1. ASSUME NEW va \in Vas, pg.pte[va] # NoPage
            PROVE  n[pg.pte[va]].data \in {"zero", "data"}
        <4>1. pg.pte \in [Vas -> MaybePage]
          BY DEF DirType
        <4>2. pg.pte[va] \in Pages
          BY <3>1, <4>1 DEF MaybePage
        <4>3. kmem[pg.pte[va]].data \in {"zero", "data"}
          BY <2>2, <3>1 DEF Filled
        <4> QED
          BY <1>8, <4>2, <4>3
      <3> QED
        BY <3>1 DEF Filled
    <2> QED
      BY <1>2, <1>4, <1>5, <1>6, <2>1, <2>2 DEF ContentsOK
  <1>10. ForkOK(proc, p, s)
    BY <1>0, <1>1, <1>4, <1>5, SameFork DEF r
  <1>11. ASSUME NEW m \in Pages PROVE PageStep(kmem, r, lost, n, s, lost, m)
    <2>1. /\ \A t \in Places : Has(s, t, m) <=> Has(r, t, m)
          /\ HasOnce(s, m) <=> HasOnce(r, m)
      BY <1>4, <1>5, HasSame
    <2>2. CASE m \notin S
      BY <1>8, <2>1, <2>2 DEF PageStep, Kept
    <2>3. CASE m \in S
      <3>1. r.op.pg.pte \in [Vas -> MaybePage]
        BY <1>2 DEF DirType
      <3>2. \E va \in Vas : r.op.pg.pte[va] = m
        BY <2>3, <3>1 DEF S, Range
      <3>3. m \in PageSet(r.op.pg)
        BY <1>2, <3>2, InPageSet
      <3>4. ~HasNot(r, m)
        BY <3>3, HasByParts
      <3>5. HasOnce(r, m)
        BY <1>0, <3>4, Owned DEF r
      <3> QED
        BY <1>8, <2>1, <2>3, <3>4, <3>5 DEF PageStep, Moved
    <2> QED
      BY <2>2, <2>3
  <1> QED
    BY <1>0, <1>1, <1>5, <1>7, <1>8, <1>9, <1>10, <1>11, UpdateOne DEF r

\* clearpteu() leaves the pages.
LEMMA ClearEffect ==
  ASSUME NEW pg \in DirType, Distinct(pg), NEW va
  PROVE  LET new == clearpteu(pg, va)
         IN  /\ new \in DirType /\ Distinct(new) /\ new.dir = pg.dir /\ new.pte = pg.pte
             /\ PageSet(new) = PageSet(pg)
  <1> DEFINE new == clearpteu(pg, va)
  <1>1. pg.user \in [Vas -> BOOLEAN]
    BY DEF DirType
  <1>2. [pg.user EXCEPT ![va] = FALSE] \in [Vas -> BOOLEAN]
    BY <1>1
  <1>3. /\ new \in DirType /\ new.dir = pg.dir /\ new.ktab = pg.ktab /\ new.tab = pg.tab
        /\ new.pte = pg.pte
    BY <1>2 DEF DirType, clearpteu
  <1> HIDE DEF new
  <1>4. PageSet(new) = PageSet(pg)
    BY <1>3 DEF PageSet
  <1>5. Distinct(new)
    BY <1>3, <1>4 DEF Distinct
  <1> QED
    BY <1>3, <1>4, <1>5 DEF new

\* A page that a process has in one place is in no other of its places.
LEMMA Apart ==
  ASSUME NEW k, NEW pr, NEW l, Good(k, pr, l), NEW p \in Slots, NEW m \in Pages
  PROVE  /\ m \in PageSet(pr[p].pgdir) =>
              pr[p].kstack # m /\ m \notin PageSet(pr[p].op.pg) /\ pr[p].op.mem # m
         /\ m \in PageSet(pr[p].op.pg) => pr[p].kstack # m /\ pr[p].op.mem # m
         /\ pr[p].kstack = m => pr[p].op.mem # m
  <1> DEFINE r == pr[p]
  <1>1. InOnePlace(k, pr, l, m)
    BY DEF Good
  <1>2. HasNot(r, m) \/ HasOnce(r, m)
    BY <1>1, Owned
  <1> HIDE DEF r
  <1>3. \A t, u \in Places : Has(r, t, m) /\ Has(r, u, m) => t = u
    BY <1>2 DEF HasNot, HasOnce
  <1>4. /\ ~(Has(r, "pgdir", m) /\ Has(r, "kstack", m))
        /\ ~(Has(r, "pgdir", m) /\ Has(r, "pg", m))
        /\ ~(Has(r, "pgdir", m) /\ Has(r, "mem", m))
        /\ ~(Has(r, "pg", m) /\ Has(r, "kstack", m))
        /\ ~(Has(r, "pg", m) /\ Has(r, "mem", m))
        /\ ~(Has(r, "kstack", m) /\ Has(r, "mem", m))
    BY <1>3 DEF Places
  <1> QED
    BY <1>4, HasByParts DEF r

\* The end of exec().
LEMMA CommitStep ==
  ASSUME VmSizes, IInv, NEW p \in Slots, Built(p, "stack"),
         NEW new,
         new = [proc EXCEPT ![p].pgdir = clearpteu(Op(p).pg, Op(p).end - 2),
                            ![p].sz = Op(p).sz, ![p].op = NoOp]
  PROVE  Good(freevm(kmem, proc[p].pgdir), new, lost)
  <1> DEFINE r == proc[p]
             n == freevm(kmem, r.pgdir)
             x == clearpteu(r.op.pg, r.op.end - 2)
             s == [r EXCEPT !.pgdir = x, !.sz = r.op.sz, !.op = NoOp]
  <1>0. /\ Good(kmem, proc, lost) /\ proc \in [Slots -> ProcType] /\ kmem \in KmemType
        /\ lost \in SUBSET Pages /\ r \in ProcType /\ LocalOK(r) /\ ContentsOK(r, kmem)
    BY DEF IInv, Good
  <1>1. /\ new = [proc EXCEPT ![p] = s]
        /\ r.st = "run" /\ r.op.kind = "stack" /\ r.op.a >= r.op.end /\ KernelPart(r.op.pg)
    BY <1>0 DEF Built, NeedsKernel, Building, KernelPart, Op
  <1>2. \A m \in Pages :
         /\ m \in PageSet(r.pgdir) =>
              r.kstack # m /\ m \notin PageSet(r.op.pg) /\ r.op.mem # m
         /\ m \in PageSet(r.op.pg) => r.kstack # m /\ r.op.mem # m
         /\ r.kstack = m => r.op.mem # m
    BY <1>0, Apart
  <1> HIDE DEF r
  <1>3. /\ r.op.a \in Nat /\ r.op.end \in 0..(KERNBASE \div PGSIZE) /\ r.op.sz \in Nat
        /\ KERNBASE \div PGSIZE \in Nat /\ r.op.pg \in DirType /\ r.pgdir \in DirType
    BY <1>0, Fields DEF VmSizes, PGSIZE
  <1>4. /\ Distinct(r.pgdir) /\ Distinct(r.op.pg) /\ r.op.mem = NoPage /\ r.op.a = r.op.end
        /\ r.op.end = PagesOf(r.op.sz) /\ Below(r.op.pg, r.op.a) /\ r.op.pg.dir # NoPage
    BY <1>0, <1>1, <1>3 DEF LocalOK, ProgressOK, KernelPart
  <1>5. /\ n \in KmemType
        /\ \A m \in Pages : m \notin PageSet(r.pgdir) => n[m] = kmem[m]
        /\ \A m \in Pages : m \in PageSet(r.pgdir) => n[m].free = kmem[m].free + 1
    BY <1>0, <1>3, <1>4, FreevmEffect
  <1> HIDE DEF n
  <1>6. /\ x \in DirType /\ Distinct(x) /\ x.dir = r.op.pg.dir /\ x.pte = r.op.pg.pte
        /\ PageSet(x) = PageSet(r.op.pg)
    BY <1>3, <1>4, ClearEffect
  <1> HIDE DEF x
  <1>7. /\ s \in ProcType /\ s.st = r.st /\ s.sz = r.op.sz /\ s.pgdir = x
        /\ s.kstack = r.kstack /\ s.op = NoOp
    BY <1>0, <1>3, <1>6, IdleFields DEF ProcType
  <1> HIDE DEF s
  <1>8. LocalOK(s)
    <2>1. LifeOK(s) /\ Distinct(s.pgdir) /\ Distinct(s.op.pg)
      BY <1>1, <1>4, <1>6, <1>7, IdleFields, NoDirEmpty DEF LifeOK
    <2>2. Below(x, PagesOf(s.sz)) /\ PagesOf(s.sz) <= KERNBASE \div PGSIZE
      BY <1>3, <1>4, <1>6, <1>7 DEF Below
    <2>3. ProgressOK(s)
      BY <1>7, <2>2, IdleFields DEF ProgressOK
    <2> QED
      BY <2>1, <2>3 DEF LocalOK
  <1>9. ContentsOK(s, n)
    <2>1. Filled(r.op.pg, kmem)
      BY <1>0 DEF ContentsOK
    <2>2. \A m \in Pages : m \in PageSet(r.op.pg) => n[m] = kmem[m]
      BY <1>2, <1>5
    <2>3. Filled(r.op.pg, n)
      BY <1>3, <2>1, <2>2, FilledSame
    <2>4. Filled(x, n) /\ Filled(NoDir, n)
      BY <1>6, <2>3, NoDirEmpty DEF Filled
    <2> QED
      BY <1>7, <2>4, IdleFields DEF ContentsOK
  <1>10. ForkOK(proc, p, s)
    BY <1>0, <1>1, <1>7, IdleFields, SameFork DEF r
  <1>11. ASSUME NEW m \in Pages PROVE PageStep(kmem, r, lost, n, s, lost, m)
    <2>0. m # NoPage /\ PageSet(NoDir) = {} /\ NoOp.pg = NoDir /\ NoOp.mem = NoPage
      BY NoDirEmpty, IdleFields DEF Pages, NoPage
    <2>1. CASE m \in PageSet(r.pgdir)
      <3>1. ~HasNot(r, m)
        BY <2>1, HasByParts
      <3>2. HasNot(s, m)
        BY <1>2, <1>6, <1>7, <2>0, <2>1, HasByParts
      <3> QED
        BY <1>5, <2>1, <3>1, <3>2 DEF PageStep, Freed
    <2>2. CASE m \notin PageSet(r.pgdir) /\ m \in PageSet(r.op.pg)
      <3>1. ~HasNot(r, m)
        BY <2>2, HasByParts
      <3>2. \A t \in Places : Has(s, t, m) <=> t = "pgdir"
        BY <1>2, <1>6, <1>7, <2>0, <2>2 DEF Has, Places
      <3>3. HasOnce(s, m)
        BY <3>2 DEF HasOnce, Places
      <3> QED
        BY <1>5, <2>2, <3>1, <3>3 DEF PageStep, Moved
    <2>3. CASE m \notin PageSet(r.pgdir) /\ m \notin PageSet(r.op.pg)
      <3>1. \A t \in Places : Has(s, t, m) <=> Has(r, t, m)
        BY <1>4, <1>6, <1>7, <2>0, <2>3, HasSame
      <3> QED
        BY <1>5, <2>3, <3>1 DEF PageStep, Kept
    <2> QED
      BY <2>1, <2>2, <2>3
  <1>12. Good(n, new, lost)
    BY <1>0, <1>1, <1>5, <1>7, <1>8, <1>9, <1>10, <1>11, UpdateOne DEF r
  <1> QED
    BY <1>12 DEF n, r

\* sbrk() with a smaller break.
LEMMA SbrkLessStep ==
  ASSUME VmSizes, IInv, NEW p \in Slots, NEW by \in Shrink, sbrkLess(p, by)
  PROVE  Good(kmem', proc', lost')
  <1> DEFINE r == proc[p]
             less == r.sz - by
             d == deallocuvm(kmem, r.pgdir, r.sz, less)
  <1>0. /\ Good(kmem, proc, lost) /\ proc \in [Slots -> ProcType] /\ kmem \in KmemType
        /\ lost \in SUBSET Pages /\ r \in ProcType /\ LocalOK(r) /\ ContentsOK(r, kmem)
    BY DEF IInv, Good
  <1>1. PICK n, x : n = d.kmem /\ x = d.pg
    OBVIOUS
  <1> DEFINE sz == IF less = 0 THEN r.sz ELSE less
             st == IF less = 0 THEN "fault" ELSE r.st
             s == [r EXCEPT !.pgdir = x, !.sz = sz, !.st = st]
  <1>2. /\ proc' = [proc EXCEPT ![p] = s] /\ kmem' = n /\ lost' = lost
        /\ r.st = "run" /\ r.op.kind = "user" /\ less >= 0
    BY <1>0, <1>1 DEF sbrkLess, User, Op
  <1>3. \A m \in Pages : m \in PageSet(r.pgdir) =>
          r.kstack # m /\ m \notin PageSet(r.op.pg) /\ r.op.mem # m
    BY <1>0, Apart
  <1> HIDE DEF r
  <1>4. /\ r.sz \in Nat /\ by \in Nat /\ less \in Nat /\ less <= r.sz
        /\ r.pgdir \in DirType /\ Distinct(r.pgdir)
        /\ KERNBASE \div PGSIZE \in Nat
    <2>1. r.sz \in Nat /\ by \in Nat /\ r.pgdir \in DirType
      BY <1>0, Fields DEF VmSizes
    <2> QED
      BY <1>0, <1>2, <2>1 DEF LocalOK, VmSizes, PGSIZE
  <1> HIDE DEF less
  <1>5. /\ n \in KmemType /\ x \in DirType /\ Distinct(x) /\ x.dir = r.pgdir.dir
        /\ \A va \in Vas : x.pte[va] =
             IF PagesOf(less) <= va /\ va < PagesOf(r.sz) THEN NoPage ELSE r.pgdir.pte[va]
        /\ \A m \in Pages : \/ m \in PageSet(r.pgdir) /\ m \notin PageSet(x)
                               /\ n[m].free = kmem[m].free + 1
                            \/ (m \in PageSet(r.pgdir) <=> m \in PageSet(x))
                               /\ n[m] = kmem[m]
    <2>1. /\ d.kmem \in KmemType /\ d.pg \in DirType /\ Distinct(d.pg)
          /\ d.pg.dir = r.pgdir.dir
          /\ \A va \in Vas : d.pg.pte[va] =
               IF PagesOf(less) <= va /\ va < PagesOf(r.sz) THEN NoPage ELSE r.pgdir.pte[va]
          /\ \A m \in Pages : \/ m \in PageSet(r.pgdir) /\ m \notin PageSet(d.pg)
                                 /\ d.kmem[m].free = kmem[m].free + 1
                              \/ (m \in PageSet(r.pgdir) <=> m \in PageSet(d.pg))
                                 /\ d.kmem[m] = kmem[m]
      BY <1>0, <1>4, DeallocEffect, ZenonT(60)
    <2> HIDE DEF d
    <2> QED
      BY <1>1, <2>1
  <1> HIDE DEF d
  <1>6. /\ s \in ProcType /\ s.st = st /\ s.sz = sz /\ s.pgdir = x
        /\ s.kstack = r.kstack /\ s.op = r.op
    <2>1. sz \in Nat /\ st \in {"fault", "run"}
      BY <1>2, <1>4
    <2> HIDE DEF sz, st
    <2> QED
      BY <1>0, <1>5, <2>1 DEF ProcType
  <1>7. st \in {"fault", "run"} /\ sz \in Nat /\ (st = "run" => sz = less)
        /\ PagesOf(sz) <= KERNBASE \div PGSIZE
    <2>1. PagesOf(r.sz) <= KERNBASE \div PGSIZE
      BY <1>0 DEF LocalOK, ProgressOK
    <2>2. PagesOf(less) <= PagesOf(r.sz) /\ PagesOf(less) \in Nat /\ PagesOf(r.sz) \in Nat
      BY <1>4, PagesFit, Rounding
    <2> QED
      BY <1>2, <1>4, <2>1, <2>2
  <1> HIDE DEF s, sz, st
  <1>8. LocalOK(s)
    <2>1. LifeOK(s) /\ Distinct(s.pgdir) /\ Distinct(s.op.pg)
      BY <1>0, <1>2, <1>5, <1>6, <1>7 DEF LocalOK, LifeOK
    <2>2. Below(x, PagesOf(less))
      <3>1. ASSUME NEW va \in Vas PROVE x.pte[va] # NoPage <=> va < PagesOf(less)
        <4>1. r.pgdir.pte[va] # NoPage <=> va < PagesOf(r.sz)
          BY <1>0, <1>2 DEF LocalOK, ProgressOK, Below
        <4>2. /\ va \in Nat /\ PagesOf(less) \in Nat /\ PagesOf(r.sz) \in Nat
              /\ PagesOf(less) <= PagesOf(r.sz)
          BY <1>4, PagesFit, Rounding, UserPages
        <4>3. x.pte[va] =
                IF PagesOf(less) <= va /\ va < PagesOf(r.sz) THEN NoPage ELSE r.pgdir.pte[va]
          BY <1>5
        <4> QED
          BY <4>1, <4>2, <4>3
      <3> QED
        BY <3>1 DEF Below
    <2>3. ProgressOK(s)
      BY <1>0, <1>2, <1>6, <1>7, <2>2 DEF LocalOK, ProgressOK
    <2> QED
      BY <2>1, <2>3 DEF LocalOK
  <1>9. ContentsOK(s, n)
    <2>1. Filled(r.pgdir, kmem) /\ r.op = NoOp
      BY <1>0, <1>2 DEF ContentsOK, LocalOK, LifeOK
    <2>2. Filled(x, kmem)
      BY <1>5, <2>1 DEF Filled
    <2>3. \A m \in Pages : m \in PageSet(x) => n[m] = kmem[m]
      BY <1>5
    <2>4. Filled(x, n)
      BY <1>5, <2>2, <2>3, FilledSame
    <2> QED
      BY <1>6, <2>1, <2>4, IdleFields, NoDirEmpty DEF ContentsOK, Filled
  <1>10. ForkOK(proc, p, s)
    BY <1>0, <1>2, <1>6, SameFork DEF r
  <1>11. ASSUME NEW m \in Pages PROVE PageStep(kmem, r, lost, n, s, lost, m)
    <2>1. CASE m \in PageSet(r.pgdir) /\ m \notin PageSet(x) /\ n[m].free = kmem[m].free + 1
      <3>1. ~HasNot(r, m)
        BY <2>1, HasByParts
      <3>2. HasNot(s, m)
        BY <1>3, <1>6, <2>1, HasByParts
      <3> QED
        BY <2>1, <3>1, <3>2 DEF PageStep, Freed
    <2>2. CASE (m \in PageSet(r.pgdir) <=> m \in PageSet(x)) /\ n[m] = kmem[m]
      <3>1. \A t \in Places : Has(s, t, m) <=> Has(r, t, m)
        BY <1>6, <2>2, HasSame
      <3> QED
        BY <2>2, <3>1 DEF PageStep, Kept
    <2> QED
      BY <1>5, <2>1, <2>2
  <1>12. Good(n, proc', lost)
    BY <1>0, <1>2, <1>5, <1>6, <1>8, <1>9, <1>10, <1>11, UpdateOne DEF r
  <1> QED
    BY <1>2, <1>12

\* A slot is given back: it is UNUSED, and its pages are free.
LEMMA ReleaseStep ==
  ASSUME VmSizes, NEW k, NEW pr, NEW l, Good(k, pr, l), NEW c \in Slots,
         pr[c].st # "run",
         \A q \in Slots \ {c} : pr[q].op.kind = "fork" => pr[q].op.child # c,
         NEW n \in KmemType,
         \A m \in Pages : m # pr[c].kstack /\ m \notin PageSet(pr[c].pgdir) => n[m] = k[m],
         \A m \in Pages : m = pr[c].kstack \/ m \in PageSet(pr[c].pgdir) =>
                            n[m].free = k[m].free + 1
  PROVE  Good(n, [pr EXCEPT ![c] = UnusedSlot], l)
  <1> DEFINE r == pr[c]
             new == [pr EXCEPT ![c] = UnusedSlot]
  <1>0. /\ pr \in [Slots -> ProcType] /\ l \in SUBSET Pages /\ LocalOK(r) /\ r \in ProcType
    BY DEF Good
  <1>1. r.op = NoOp
    BY <1>0 DEF LocalOK, LifeOK
  <1>2. LocalOK(UnusedSlot)
    BY IdleFields, NoDirEmpty DEF LocalOK, LifeOK, ProgressOK
  <1>3. ContentsOK(UnusedSlot, n)
    BY IdleFields, NoDirEmpty DEF ContentsOK, Filled
  <1>4. ForkOK(pr, c, UnusedSlot)
    BY IdleFields DEF ForkOK
  <1>5. ASSUME NEW m \in Pages PROVE PageStep(k, r, l, n, UnusedSlot, l, m)
    <2>0. /\ m # NoPage /\ PageSet(NoDir) = {} /\ NoOp.pg = NoDir /\ NoOp.mem = NoPage
          /\ UnusedSlot.pgdir = NoDir /\ UnusedSlot.op = NoOp /\ UnusedSlot.kstack = NoPage
      BY NoDirEmpty, IdleFields DEF Pages, NoPage
    <2>1. HasNot(UnusedSlot, m)
      BY <2>0, HasByParts
    <2>2. CASE m = r.kstack \/ m \in PageSet(r.pgdir)
      <3>1. ~HasNot(r, m)
        BY <2>2, HasByParts
      <3> QED
        BY <2>1, <2>2, <3>1 DEF PageStep, Freed
    <2>3. CASE m # r.kstack /\ m \notin PageSet(r.pgdir)
      <3>1. \A t \in Places : Has(UnusedSlot, t, m) <=> Has(r, t, m)
        BY <1>1, <2>0, <2>3, HasSame
      <3> QED
        BY <2>3, <3>1 DEF PageStep, Kept
    <2> QED
      BY <2>2, <2>3
  <1>6. UnusedSlot \in ProcType
    BY IdleFields
  <1> QED
    BY <1>0, <1>2, <1>3, <1>4, <1>5, <1>6, UpdateOne

\* wait() of a zombie.
LEMMA WaitStep ==
  ASSUME VmSizes, IInv, NEW p \in Slots, wait(p)
  PROVE  Good(kmem', proc', lost')
  <1>1. PICK c \in Slots :
          /\ proc[c].st = "ZOMBIE"
          /\ kmem' = freevm(kfree(kmem, {proc[c].kstack}), proc[c].pgdir)
          /\ proc' = [proc EXCEPT ![c] = UnusedSlot] /\ lost' = lost
    BY DEF wait
  <1> DEFINE r == proc[c]
             h == kfree(kmem, {r.kstack})
             n == freevm(h, r.pgdir)
  <1>0. /\ Good(kmem, proc, lost) /\ kmem \in KmemType /\ r \in ProcType /\ LocalOK(r)
    BY DEF IInv, Good
  <1>2. /\ h \in KmemType
        /\ \A m \in Pages : m \notin {r.kstack} => h[m] = kmem[m]
        /\ \A m \in Pages : m \in {r.kstack} => h[m].free = kmem[m].free + 1
    BY <1>0, KfreeEffect
  <1> HIDE DEF h
  <1>3. r.pgdir \in DirType /\ Distinct(r.pgdir)
    BY <1>0, Fields DEF LocalOK
  <1>4. /\ n \in KmemType
        /\ \A m \in Pages : m \notin PageSet(r.pgdir) => n[m] = h[m]
        /\ \A m \in Pages : m \in PageSet(r.pgdir) => n[m].free = h[m].free + 1
    BY <1>2, <1>3, FreevmEffect
  <1>5. \A m \in Pages : m \in PageSet(r.pgdir) => r.kstack # m
    BY <1>0, Apart
  <1> HIDE DEF n
  <1>6. /\ \A m \in Pages : m # r.kstack /\ m \notin PageSet(r.pgdir) => n[m] = kmem[m]
        /\ \A m \in Pages : m = r.kstack \/ m \in PageSet(r.pgdir) =>
             n[m].free = kmem[m].free + 1
    <2>1. ASSUME NEW m \in Pages, m # r.kstack, m \notin PageSet(r.pgdir)
          PROVE  n[m] = kmem[m]
      BY <1>2, <1>4, <2>1
    <2>2. ASSUME NEW m \in Pages, m = r.kstack PROVE n[m].free = kmem[m].free + 1
      BY <1>2, <1>4, <1>5, <2>2
    <2>3. ASSUME NEW m \in Pages, m \in PageSet(r.pgdir) PROVE n[m].free = kmem[m].free + 1
      BY <1>2, <1>4, <1>5, <2>3
    <2> QED
      BY <2>1, <2>2, <2>3
  <1>7. \A q \in Slots \ {c} : proc[q].op.kind = "fork" => proc[q].op.child # c
    BY <1>0, <1>1, NotFilled
  <1>8. Good(n, [proc EXCEPT ![c] = UnusedSlot], lost)
    BY <1>0, <1>1, <1>4, <1>6, <1>7, ReleaseStep
  <1> QED
    BY <1>1, <1>8 DEF n, h

\* Processes that differ in their parents only are as good.
LEMMA Reparented ==
  ASSUME NEW k, NEW pr, NEW l, Good(k, pr, l), NEW new \in [Slots -> ProcType],
         \A q \in Slots : /\ new[q].st = pr[q].st /\ new[q].sz = pr[q].sz
                          /\ new[q].pgdir = pr[q].pgdir /\ new[q].kstack = pr[q].kstack
                          /\ new[q].op = pr[q].op
  PROVE  Good(k, new, l)
  <1>0. /\ k \in KmemType /\ l \subseteq Pages
        /\ \A q \in Slots : LocalOK(pr[q])
        /\ Forks(pr)
        /\ \A q \in Slots : ContentsOK(pr[q], k)
        /\ \A m \in Pages : InOnePlace(k, pr, l, m)
    BY DEF Good
  <1>1. ASSUME NEW q \in Slots PROVE LocalOK(new[q])
    <2>1. LocalOK(pr[q])
      BY <1>0
    <2> QED
      BY <2>1 DEF LocalOK, LifeOK, ProgressOK
  <1>2. Forks(new)
    BY <1>0 DEF Forks
  <1>3. ASSUME NEW q \in Slots PROVE ContentsOK(new[q], k)
    BY <1>0 DEF ContentsOK
  <1>4. ASSUME NEW m \in Pages PROVE InOnePlace(k, new, l, m)
    <2>1. ASSUME NEW q \in Slots
          PROVE  /\ HasNot(new[q], m) <=> HasNot(pr[q], m)
                 /\ HasOnce(new[q], m) <=> HasOnce(pr[q], m)
      <3>1. \A t \in Places : Has(new[q], t, m) <=> Has(pr[q], t, m)
        BY HasSame
      <3> QED
        BY <3>1 DEF HasNot, HasOnce
    <2>2. (Nobody(new, m) <=> Nobody(pr, m)) /\ (OneOwner(new, m) <=> OneOwner(pr, m))
      BY <2>1 DEF Nobody, OneOwner
    <2> QED
      BY <1>0, <2>2 DEF InOnePlace
  <1> QED
    BY <1>0, <1>1, <1>2, <1>3, <1>4 DEF Good

\* exit().
LEMMA ExitStep ==
  ASSUME VmSizes, IInv, NEW p \in Slots, exit(p)
  PROVE  Good(kmem', proc', lost')
  <1> DEFINE r == proc[p]
             s == [r EXCEPT !.st = "ZOMBIE"]
             mid == [proc EXCEPT ![p] = s]
  <1>0. /\ Good(kmem, proc, lost) /\ proc \in [Slots -> ProcType] /\ kmem \in KmemType
        /\ lost \in SUBSET Pages /\ r \in ProcType /\ LocalOK(r) /\ ContentsOK(r, kmem)
    BY DEF IInv, Good
  <1>1. /\ kmem' = kmem /\ lost' = lost
        /\ r.op.kind = "user" /\ r.st # "EMBRYO"
        /\ proc' = [q \in Slots |->
             IF q = p THEN s
             ELSE IF proc[q].parent = p THEN [proc[q] EXCEPT !.parent = 1] ELSE proc[q]]
    BY <1>0 DEF exit, User, Op, LocalOK, LifeOK
  <1>2. /\ s \in ProcType /\ s.st = "ZOMBIE" /\ s.sz = r.sz /\ s.pgdir = r.pgdir
        /\ s.kstack = r.kstack /\ s.op = r.op
    BY <1>0 DEF ProcType
  <1> HIDE DEF r, s
  <1>3. LocalOK(s)
    BY <1>0, <1>1, <1>2 DEF LocalOK, LifeOK, ProgressOK
  <1>4. ContentsOK(s, kmem)
    BY <1>0, <1>2 DEF ContentsOK
  <1>5. ForkOK(proc, p, s)
    BY <1>0, <1>1, <1>2, SameFork DEF r
  <1>6. ASSUME NEW m \in Pages PROVE PageStep(kmem, r, lost, kmem, s, lost, m)
    <2>1. \A t \in Places : Has(s, t, m) <=> Has(r, t, m)
      BY <1>2, HasSame
    <2> QED
      BY <2>1 DEF PageStep, Kept
  <1>7. Good(kmem, mid, lost)
    BY <1>0, <1>2, <1>3, <1>4, <1>5, <1>6, UpdateOne DEF r
  <1>8. ASSUME NEW q \in Slots
        PROVE  /\ proc'[q] \in ProcType
               /\ proc'[q].st = mid[q].st /\ proc'[q].sz = mid[q].sz
               /\ proc'[q].pgdir = mid[q].pgdir /\ proc'[q].kstack = mid[q].kstack
               /\ proc'[q].op = mid[q].op
    <2>1. CASE q = p
      BY <1>0, <1>1, <1>2, <2>1
    <2>2. CASE q # p
      <3>1. proc[q] \in ProcType /\ 1 \in Slots /\ mid[q] = proc[q]
        BY <1>0, <2>2 DEF Slots, VmSizes
      <3>2. proc'[q] = proc[q] \/ proc'[q] = [proc[q] EXCEPT !.parent = 1]
        BY <1>1, <2>2
      <3> QED
        BY <3>1, <3>2 DEF ProcType
    <2> QED
      BY <2>1, <2>2
  <1>9. proc' \in [Slots -> ProcType]
    <2>1. proc' = [q \in Slots |-> proc'[q]]
      BY <1>1
    <2> QED
      BY <1>8, <2>1
  <1>10. Good(kmem, proc', lost)
    <2> HIDE DEF mid
    <2> QED
      BY <1>7, <1>8, <1>9, Reparented
  <1> QED
    BY <1>1, <1>10

\* An operation is given up: what it has built so far is freed.
Builders == {"fork", "exec", "stack"}
Emptied(k, pg, n) == n = IF pg.dir = NoPage THEN k ELSE freevm(k, pg)

\* Freeing what a fork, an exec or a stack set-up had built (the "bad:" exits) keeps
\* every page accounted for.
LEMMA GiveUp ==
  ASSUME VmSizes, NEW k, NEW pr, NEW l, Good(k, pr, l), NEW p \in Slots,
         pr[p].st = "run", pr[p].op.kind \in Builders, pr[p].op.mem = NoPage,
         NEW n, Emptied(k, pr[p].op.pg, n),
         NEW last, last = [pr EXCEPT ![p].op = NoOp]
  PROVE  n \in KmemType /\ Good(n, last, l)
  <1> DEFINE r == pr[p]
             s == [r EXCEPT !.op = NoOp]
             new == [pr EXCEPT ![p] = s]
  <1>0. /\ pr \in [Slots -> ProcType] /\ k \in KmemType /\ l \in SUBSET Pages
        /\ r \in ProcType /\ LocalOK(r) /\ ContentsOK(r, k)
    BY DEF Good
  <1>1. last = new
    BY <1>0
  <1>2. \A m \in Pages : m \in PageSet(r.op.pg) =>
          r.kstack # m /\ m \notin PageSet(r.pgdir) /\ r.op.mem # m
    BY Apart
  <1>3. /\ r.pgdir \in DirType /\ r.op.pg \in DirType /\ Distinct(r.op.pg)
    BY <1>0, Fields DEF LocalOK
  <1>4. /\ n \in KmemType
        /\ \A m \in Pages : m \notin PageSet(r.op.pg) => n[m] = k[m]
        /\ \A m \in Pages : m \in PageSet(r.op.pg) => n[m].free = k[m].free + 1
    <2>1. CASE r.op.pg.dir = NoPage
      <3>1. PageSet(r.op.pg) = {} /\ n = k
        BY <1>3, <2>1 DEF Distinct, Emptied
      <3> QED
        BY <1>0, <3>1
    <2>2. CASE r.op.pg.dir # NoPage
      <3>1. n = freevm(k, r.op.pg)
        BY <2>2 DEF Emptied
      <3> HIDE DEF r
      <3> QED
        BY <1>0, <1>3, <3>1, FreevmEffect
    <2> QED
      BY <2>1, <2>2
  <1>5. r.st = "run" /\ r.op.kind \in {"fork", "exec", "stack"} /\ r.op.mem = NoPage
    BY DEF Builders
  <1> HIDE DEF r
  <1>6. /\ s \in ProcType /\ s.op = NoOp /\ s.st = r.st /\ s.sz = r.sz
        /\ s.pgdir = r.pgdir /\ s.kstack = r.kstack
    BY <1>0, IdleFields, SetOp
  <1> HIDE DEF s
  <1>7. LocalOK(s)
    BY <1>0, <1>5, <1>6, IdleFields, NoDirEmpty DEF LocalOK, LifeOK, ProgressOK
  <1>8. ContentsOK(s, n)
    <2>1. Filled(r.pgdir, k)
      BY <1>0 DEF ContentsOK
    <2>2. \A m \in Pages : m \in PageSet(r.pgdir) => n[m] = k[m]
      BY <1>2, <1>4
    <2>3. Filled(r.pgdir, n)
      BY <1>3, <2>1, <2>2, FilledSame
    <2> QED
      BY <1>6, <2>3, IdleFields, NoDirEmpty DEF ContentsOK, Filled
  <1>9. ForkOK(pr, p, s)
    BY <1>5, <1>6, IdleFields, SameFork DEF r
  <1>10. ASSUME NEW m \in Pages PROVE PageStep(k, r, l, n, s, l, m)
    <2>0. m # NoPage /\ PageSet(NoDir) = {} /\ NoOp.pg = NoDir /\ NoOp.mem = NoPage
      BY NoDirEmpty, IdleFields DEF Pages, NoPage
    <2>1. CASE m \in PageSet(r.op.pg)
      <3>1. ~HasNot(r, m)
        BY <2>1, HasByParts
      <3>2. HasNot(s, m)
        BY <1>2, <1>6, <2>0, <2>1, HasByParts
      <3> QED
        BY <1>4, <2>1, <3>1, <3>2 DEF PageStep, Freed
    <2>2. CASE m \notin PageSet(r.op.pg)
      <3>1. \A t \in Places : Has(s, t, m) <=> Has(r, t, m)
        BY <1>5, <1>6, <2>0, <2>2, HasSame
      <3> QED
        BY <1>4, <2>2, <3>1 DEF PageStep, Kept
    <2> QED
      BY <2>1, <2>2
  <1>11. Good(n, new, l)
    BY <1>0, <1>4, <1>6, <1>7, <1>8, <1>9, <1>10, UpdateOne DEF r
  <1> QED
    BY <1>1, <1>4, <1>11

\* allocuvm() of sbrk() is given up: the pages above the old size go.
LEMMA GrowFails ==
  ASSUME VmSizes, NEW k, NEW pr, NEW l, Good(k, pr, l), NEW p \in Slots,
         pr[p].st = "run", pr[p].op.kind = "grow", pr[p].op.mem = NoPage,
         NEW d, d = deallocuvm(k, pr[p].pgdir, pr[p].op.sz, pr[p].sz)
  PROVE  Good(d.kmem, [pr EXCEPT ![p].pgdir = d.pg, ![p].op = NoOp], l)
  <1> DEFINE r == pr[p]
  <1>0. /\ pr \in [Slots -> ProcType] /\ k \in KmemType /\ l \in SUBSET Pages
        /\ r \in ProcType /\ LocalOK(r) /\ ContentsOK(r, k)
    BY DEF Good
  <1>1. PICK n, x : n = d.kmem /\ x = d.pg
    OBVIOUS
  <1> DEFINE s == [r EXCEPT !.pgdir = x, !.op = NoOp]
             new == [pr EXCEPT ![p] = s]
  <1>2. [pr EXCEPT ![p].pgdir = d.pg, ![p].op = NoOp] = new
    BY <1>0, <1>1
  <1>3. \A m \in Pages : m \in PageSet(r.pgdir) =>
          r.kstack # m /\ m \notin PageSet(r.op.pg) /\ r.op.mem # m
    BY Apart
  <1>4. /\ r.st = "run" /\ r.op.kind = "grow" /\ r.op.mem = NoPage
        /\ d = deallocuvm(k, r.pgdir, r.op.sz, r.sz)
    OBVIOUS
  <1> HIDE DEF r
  <1>5. /\ r.sz \in Nat /\ r.op.sz \in Nat /\ r.op.a \in Nat /\ r.op.end \in Nat
        /\ r.pgdir \in DirType
        /\ Distinct(r.pgdir) /\ r.op.pg = NoDir /\ Below(r.pgdir, r.op.a)
        /\ PagesOf(r.sz) <= r.op.a /\ r.op.a <= r.op.end /\ r.op.end = PagesOf(r.op.sz)
        /\ r.pgdir.dir # NoPage
    <2>1. /\ r.sz \in Nat /\ r.op.sz \in Nat /\ r.pgdir \in DirType /\ r.op.a \in Nat
          /\ r.op.end \in Nat
      BY <1>0, Fields
    <2> QED
      BY <1>0, <1>4, <2>1 DEF LocalOK, LifeOK, ProgressOK
  <1>6. /\ n \in KmemType /\ x \in DirType /\ Distinct(x) /\ x.dir = r.pgdir.dir
        /\ \A va \in Vas : x.pte[va] =
             IF PagesOf(r.sz) <= va /\ va < PagesOf(r.op.sz) THEN NoPage ELSE r.pgdir.pte[va]
        /\ \A m \in Pages : \/ m \in PageSet(r.pgdir) /\ m \notin PageSet(x)
                               /\ n[m].free = k[m].free + 1
                            \/ (m \in PageSet(r.pgdir) <=> m \in PageSet(x))
                               /\ n[m] = k[m]
    <2>0. /\ k \in KmemType /\ r.pgdir \in DirType /\ Distinct(r.pgdir)
          /\ r.op.sz \in Nat /\ r.sz \in Nat
      BY <1>0, <1>5
    <2> DEFINE e == deallocuvm(k, r.pgdir, r.op.sz, r.sz)
    <2>1. /\ e.kmem \in KmemType /\ e.pg \in DirType /\ Distinct(e.pg)
          /\ e.pg.dir = r.pgdir.dir
          /\ \A va \in Vas : e.pg.pte[va] =
               IF PagesOf(r.sz) <= va /\ va < PagesOf(r.op.sz) THEN NoPage ELSE r.pgdir.pte[va]
          /\ \A m \in Pages : \/ m \in PageSet(r.pgdir) /\ m \notin PageSet(e.pg)
                                 /\ e.kmem[m].free = k[m].free + 1
                              \/ (m \in PageSet(r.pgdir) <=> m \in PageSet(e.pg))
                                 /\ e.kmem[m] = k[m]
      BY <2>0, DeallocEffect
    <2>2. e = d
      BY <1>4
    <2> HIDE DEF e
    <2> QED
      BY <1>1, <2>1, <2>2
  <1>7. /\ s \in ProcType /\ s.st = r.st /\ s.sz = r.sz /\ s.pgdir = x
        /\ s.kstack = r.kstack /\ s.op = NoOp
    BY <1>0, <1>6, IdleFields DEF ProcType
  <1> HIDE DEF s
  <1>8. LocalOK(s)
    <2>1. LifeOK(s) /\ Distinct(s.pgdir) /\ Distinct(s.op.pg)
      BY <1>4, <1>5, <1>6, <1>7, IdleFields, NoDirEmpty DEF LifeOK
    <2>2. Below(x, PagesOf(r.sz))
      <3>1. ASSUME NEW va \in Vas PROVE x.pte[va] # NoPage <=> va < PagesOf(r.sz)
        <4>1. r.pgdir.pte[va] # NoPage <=> va < r.op.a
          BY <1>5 DEF Below
        <4>2. va \in Nat /\ PagesOf(r.sz) \in Nat
          BY <1>5, Rounding, UserPages
        <4>3. x.pte[va] =
                IF PagesOf(r.sz) <= va /\ va < r.op.end THEN NoPage ELSE r.pgdir.pte[va]
          BY <1>5, <1>6
        <4> QED
          BY <1>5, <4>1, <4>2, <4>3
      <3> QED
        BY <3>1 DEF Below
    <2>3. ProgressOK(s)
      BY <1>0, <1>7, <2>2, IdleFields DEF LocalOK, ProgressOK
    <2> QED
      BY <2>1, <2>3 DEF LocalOK
  <1>9. ContentsOK(s, n)
    <2>1. Filled(r.pgdir, k)
      BY <1>0 DEF ContentsOK
    <2>2. Filled(x, k)
      BY <1>6, <2>1 DEF Filled
    <2>3. \A m \in Pages : m \in PageSet(x) => n[m] = k[m]
      BY <1>6
    <2>4. Filled(x, n)
      BY <1>6, <2>2, <2>3, FilledSame
    <2> QED
      BY <1>7, <2>4, IdleFields, NoDirEmpty DEF ContentsOK, Filled
  <1>10. ForkOK(pr, p, s)
    BY <1>4, <1>7, IdleFields, SameFork DEF r
  <1>11. ASSUME NEW m \in Pages PROVE PageStep(k, r, l, n, s, l, m)
    <2>0. m # NoPage /\ PageSet(NoDir) = {} /\ NoOp.pg = NoDir /\ NoOp.mem = NoPage
      BY NoDirEmpty, IdleFields DEF Pages, NoPage
    <2>1. CASE m \in PageSet(r.pgdir) /\ m \notin PageSet(x) /\ n[m].free = k[m].free + 1
      <3>1. ~HasNot(r, m)
        BY <2>1, HasByParts
      <3>2. HasNot(s, m)
        BY <1>3, <1>7, <2>0, <2>1, HasByParts
      <3> QED
        BY <2>1, <3>1, <3>2 DEF PageStep, Freed
    <2>2. CASE (m \in PageSet(r.pgdir) <=> m \in PageSet(x)) /\ n[m] = k[m]
      <3>1. \A t \in Places : Has(s, t, m) <=> Has(r, t, m)
        BY <1>4, <1>5, <1>7, <2>0, <2>2, HasSame
      <3> QED
        BY <2>2, <3>1 DEF PageStep, Kept
    <2> QED
      BY <1>6, <2>1, <2>2
  <1>12. Good(n, new, l)
    BY <1>0, <1>6, <1>7, <1>8, <1>9, <1>10, <1>11, UpdateOne DEF r
  <1> QED
    BY <1>1, <1>2, <1>12

\* The page in the hand is freed, or lost.
LEMMA DropPage ==
  ASSUME VmSizes, IInv, NEW p \in Slots, proc[p].st = "run", proc[p].op.mem # NoPage,
         NEW n \in KmemType, NEW o \in SUBSET Pages,
         \A m \in Pages \ {proc[p].op.mem} : n[m] = kmem[m] /\ (m \in o <=> m \in lost),
         LET m == proc[p].op.mem IN
           \/ n[m].free = kmem[m].free + 1 /\ (m \in o <=> m \in lost)
           \/ n[m] = kmem[m] /\ m \in o
  PROVE  Good(n, [proc EXCEPT ![p].op.mem = NoPage], o)
  <1> DEFINE r == proc[p]
             mem == r.op.mem
             q == [r.op EXCEPT !.mem = NoPage]
             s == [r EXCEPT !.op = q]
             new == [proc EXCEPT ![p] = s]
  <1>0. /\ Good(kmem, proc, lost) /\ proc \in [Slots -> ProcType]
        /\ r \in ProcType /\ LocalOK(r) /\ ContentsOK(r, kmem)
    BY DEF IInv, Good
  <1>1. [proc EXCEPT ![p].op.mem = NoPage] = new
    OBVIOUS
  <1>2. /\ mem \in Pages /\ ~HasNot(r, mem)
        /\ r.kstack # mem /\ mem \notin PageSet(r.pgdir) /\ mem \notin PageSet(r.op.pg)
    BY <1>0, InHand
  <1>3. /\ r.st = "run" /\ mem # NoPage
        /\ \A m \in Pages \ {mem} : n[m] = kmem[m] /\ (m \in o <=> m \in lost)
        /\ \/ n[mem].free = kmem[mem].free + 1 /\ (mem \in o <=> mem \in lost)
           \/ n[mem] = kmem[mem] /\ mem \in o
    OBVIOUS
  <1> HIDE DEF r, mem
  <1>4. r.op \in OpType /\ r.pgdir \in DirType /\ r.op.pg \in DirType
    BY <1>0, Fields
  <1>5. /\ q \in OpType /\ q.kind = r.op.kind /\ q.pg = r.op.pg /\ q.a = r.op.a
        /\ q.end = r.op.end /\ q.mem = NoPage /\ q.sz = r.op.sz /\ q.child = r.op.child
    BY <1>4 DEF OpType, MaybePage
  <1>6. r.op.kind # "user"
    BY <1>0, <1>3, IdleFields DEF LocalOK, LifeOK, mem
  <1> HIDE DEF q
  <1>7. /\ s \in ProcType /\ s.op = q /\ s.st = r.st /\ s.sz = r.sz
        /\ s.pgdir = r.pgdir /\ s.kstack = r.kstack
    BY <1>0, <1>5, SetOp
  <1> HIDE DEF s
  <1>8. LocalOK(s)
    BY <1>0, <1>3, <1>5, <1>6, <1>7 DEF LocalOK, LifeOK, ProgressOK
  <1>9. ContentsOK(s, n)
    <2>1. Filled(r.pgdir, kmem) /\ Filled(r.op.pg, kmem)
      BY <1>0 DEF ContentsOK
    <2>2. /\ \A m \in Pages : m \in PageSet(r.pgdir) => n[m] = kmem[m]
          /\ \A m \in Pages : m \in PageSet(r.op.pg) => n[m] = kmem[m]
      BY <1>2, <1>3
    <2>3. Filled(r.pgdir, n) /\ Filled(r.op.pg, n)
      BY <1>4, <2>1, <2>2, FilledSame
    <2> QED
      BY <1>5, <1>7, <2>3 DEF ContentsOK
  <1>10. ForkOK(proc, p, s)
    BY <1>0, <1>3, <1>5, <1>7, SameFork DEF r
  <1>11. ASSUME NEW m \in Pages PROVE PageStep(kmem, r, lost, n, s, o, m)
    <2>0. m # NoPage
      BY DEF Pages, NoPage
    <2>1. CASE m = mem
      <3>1. HasNot(s, m)
        BY <1>2, <1>5, <1>7, <2>0, <2>1, HasByParts
      <3> QED
        BY <1>2, <1>3, <2>1, <3>1 DEF PageStep, Freed, Lost
    <2>2. CASE m # mem
      <3>1. r.op.mem # m
        BY <2>2 DEF mem
      <3>2. \A t \in Places : Has(s, t, m) <=> Has(r, t, m)
        BY <1>5, <1>7, <2>0, <3>1, HasSame, ZenonT(60)
      <3> QED
        BY <1>3, <2>2, <3>2 DEF PageStep, Kept
    <2> QED
      BY <2>1, <2>2
  <1>12. Good(n, new, o)
    BY <1>0, <1>7, <1>8, <1>9, <1>10, <1>11, UpdateOne DEF r
  <1> QED
    BY <1>1, <1>12

\* The error paths, when the hand is empty: mid are the processes then, and k
\* the memory.
LEMMA BadStep ==
  ASSUME VmSizes, IInv, NEW p \in Slots, proc[p].st = "run", proc[p].op.kind # "user",
         NEW k, NEW l, NEW mid, Good(k, mid, l),
         mid = [proc EXCEPT ![p].op.mem = NoPage]
  PROVE  Good(Abandoned(p, k).kmem, Abandoned(p, k).proc, l)
  <1> DEFINE r == proc[p]
             s == mid[p]
             freed == IF r.op.pg.dir = NoPage THEN k ELSE freevm(k, r.op.pg)
  <1>0. /\ proc \in [Slots -> ProcType] /\ r \in ProcType /\ r.op \in OpType
        /\ mid \in [Slots -> ProcType]
    <2>1. proc \in [Slots -> ProcType] /\ r \in ProcType /\ mid \in [Slots -> ProcType]
      BY DEF IInv, Good
    <2> QED
      BY <2>1, Fields
  <1>1. /\ \A q \in Slots \ {p} : mid[q] = proc[q]
        /\ s = [r EXCEPT !.op = [r.op EXCEPT !.mem = NoPage]]
    BY <1>0
  <1>2. /\ s.st = "run" /\ s.sz = r.sz /\ s.pgdir = r.pgdir /\ s.op.kind = r.op.kind
        /\ s.op.pg = r.op.pg /\ s.op.sz = r.op.sz /\ s.op.mem = NoPage
        /\ s.op.child = r.op.child
    BY <1>0, <1>1 DEF ProcType, OpType
  <1>3. CASE r.op.kind = "grow"
    <2> DEFINE d == deallocuvm(k, r.pgdir, r.op.sz, r.sz)
               new == [proc EXCEPT ![p].pgdir = d.pg, ![p].op = NoOp]
    <2>1. Abandoned(p, k) = [kmem |-> d.kmem, proc |-> new]
      BY <1>3 DEF Abandoned, Op
    <2>2. d = deallocuvm(k, mid[p].pgdir, mid[p].op.sz, mid[p].sz)
      BY <1>2
    <2> HIDE DEF d
    <2>3. Good(d.kmem, [mid EXCEPT ![p].pgdir = d.pg, ![p].op = NoOp], l)
      BY <1>2, <1>3, <2>2, GrowFails
    <2>4. [mid EXCEPT ![p].pgdir = d.pg, ![p].op = NoOp] = new
      <3>1. [s EXCEPT !.pgdir = d.pg, !.op = NoOp] = [r EXCEPT !.pgdir = d.pg, !.op = NoOp]
        BY <1>0, <1>1 DEF ProcType
      <3> QED
        BY <1>0, <1>1, <3>1
    <2> QED
      BY <2>1, <2>3, <2>4
  <1>4. CASE r.op.kind \in {"fork", "exec", "stack"}
    <2> DEFINE new == [proc EXCEPT ![p].op = NoOp]
    <2>1. /\ Emptied(k, mid[p].op.pg, freed)
          /\ mid[p].st = "run" /\ mid[p].op.kind \in Builders /\ mid[p].op.mem = NoPage
      BY <1>2, <1>4 DEF Emptied, Builders
    <2> HIDE DEF freed
    <2>3. new = [mid EXCEPT ![p].op = NoOp]
      <3>1. [s EXCEPT !.op = NoOp] = [r EXCEPT !.op = NoOp]
        BY <1>0, <1>1 DEF ProcType
      <3> QED
        BY <1>0, <1>1, <3>1
    <2>2. freed \in KmemType /\ Good(freed, new, l)
      <3> HIDE DEF new, r, s
      <3> QED
        BY <2>1, <2>3, GiveUp, Zenon
    <2>4. Good(freed, new, l)
      BY <2>2
    <2>5. CASE r.op.kind # "fork"
      <3>1. Abandoned(p, k) = [kmem |-> freed, proc |-> new]
        BY <1>4, <2>5 DEF Abandoned, Op, freed
      <3> QED
        BY <2>4, <3>1
    <2>6. CASE r.op.kind = "fork"
      <3> DEFINE c == r.op.child
                 n == kfree(freed, {proc[c].kstack})
                 last == [new EXCEPT ![c] = UnusedSlot]
      <3>1. Abandoned(p, k) = [kmem |-> n, proc |-> [proc EXCEPT ![c] = UnusedSlot, ![p].op = NoOp]]
        BY <2>6 DEF Abandoned, Op, freed
      <3>2. /\ c \in Slots /\ proc[c].st = "EMBRYO" /\ c # p
            /\ \A q \in Slots \ {p} : proc[q].op.kind = "fork" => proc[q].op.child # c
        BY <2>6 DEF IInv, Good, Forks
      <3> HIDE DEF c
      <3>3. [proc EXCEPT ![c] = UnusedSlot, ![p].op = NoOp] = last
        BY <1>0, <3>2
      <3>4. new[c] = proc[c] /\ proc[c].pgdir = NoDir /\ new[p].op = NoOp
            /\ \A q \in Slots \ {p} : new[q] = proc[q]
        <4>1. LocalOK(proc[c])
          BY <3>2 DEF IInv, Good
        <4>2. new[p] = [r EXCEPT !.op = NoOp] /\ \A q \in Slots \ {p} : new[q] = proc[q]
          BY <1>0
        <4>3. [r EXCEPT !.op = NoOp].op = NoOp
          BY <1>0 DEF ProcType
        <4> QED
          BY <3>2, <4>1, <4>2, <4>3 DEF LocalOK, LifeOK
      <3> HIDE DEF new
      <3>5. \A q \in Slots \ {c} : new[q].op.kind = "fork" => new[q].op.child # c
        BY <3>2, <3>4, IdleFields
      <3>6. /\ n \in KmemType
            /\ \A m \in Pages : m \notin {proc[c].kstack} => n[m] = freed[m]
            /\ \A m \in Pages : m \in {proc[c].kstack} => n[m].free = freed[m].free + 1
        BY <2>2, KfreeEffect
      <3> HIDE DEF n
      <3>7. /\ \A m \in Pages : m # new[c].kstack /\ m \notin PageSet(new[c].pgdir) =>
                 n[m] = freed[m]
            /\ \A m \in Pages : m = new[c].kstack \/ m \in PageSet(new[c].pgdir) =>
                 n[m].free = freed[m].free + 1
        BY <3>4, <3>6, NoDirEmpty
      <3>8. Good(n, last, l)
        BY <2>4, <3>2, <3>4, <3>5, <3>6, <3>7, ReleaseStep
      <3> QED
        BY <3>1, <3>3, <3>8
    <2> QED
      BY <2>5, <2>6
  <1>5. r.op.kind \in Kinds
    BY <1>0, Fields
  <1> QED
    BY <1>3, <1>4, <1>5 DEF Kinds

\* Nothing is in the hand: the error path from here.
LEMMA BadNow ==
  ASSUME VmSizes, IInv, NEW p \in Slots, proc[p].st = "run", proc[p].op.kind # "user",
         proc[p].op.mem = NoPage, Bad(p, kmem), lost' = lost
  PROVE  Good(kmem', proc', lost')
  <1>1. Good(kmem, proc, lost) /\ proc \in [Slots -> ProcType]
    BY DEF IInv, Good
  <1>2. proc[p] \in ProcType /\ proc[p].op \in OpType
    BY <1>1, Fields
  <1>3. proc = [proc EXCEPT ![p].op.mem = NoPage]
    <2>1. [proc[p].op EXCEPT !.mem = NoPage] = proc[p].op
      BY <1>2 DEF OpType
    <2>2. [proc[p] EXCEPT !.op = [proc[p].op EXCEPT !.mem = NoPage]] = proc[p]
      BY <1>2, <2>1 DEF ProcType
    <2> QED
      BY <1>1, <2>2
  <1>4. Good(Abandoned(p, kmem).kmem, Abandoned(p, kmem).proc, lost)
    BY <1>1, <1>3, BadStep
  <1> QED
    BY <1>4 DEF Bad

\* The end of fork(): the address space goes to the child.  It is as if the
\* parent freed its pages and the child took them.
LEMMA ForkedStep ==
  ASSUME VmSizes, IInv, NEW p \in Slots, Forked(p)
  PROVE  Good(kmem', proc', lost')
  <1> DEFINE r == proc[p]
  <1>0. /\ Good(kmem, proc, lost) /\ proc \in [Slots -> ProcType] /\ kmem \in KmemType
        /\ lost \in SUBSET Pages /\ r \in ProcType /\ LocalOK(r) /\ ContentsOK(r, kmem)
    BY DEF IInv, Good
  <1>1. /\ r.st = "run" /\ r.op.kind = "fork" /\ r.op.pg.dir # NoPage
        /\ r.op.a >= r.op.end /\ kmem' = kmem /\ lost' = lost
        /\ proc' = [proc EXCEPT ![r.op.child].st = "run", ![r.op.child].sz = r.sz,
                                ![r.op.child].pgdir = r.op.pg, ![p].op = NoOp]
    BY DEF Forked, Built, NeedsKernel, Building, Op
  <1>2. PICK c \in Slots :
          /\ c = r.op.child /\ proc[c].st = "EMBRYO" /\ c # p
          /\ \A q \in Slots \ {p} : proc[q].op.kind = "fork" => proc[q].op.child # c
    <2>1. Forks(proc)
      BY <1>0 DEF Good
    <2>2. r.op.child \in Slots /\ proc[r.op.child].st = "EMBRYO"
      BY <1>1, <2>1 DEF Forks
    <2>3. \A q \in Slots \ {p} : proc[q].op.kind = "fork" => proc[q].op.child # r.op.child
      BY <1>1, <2>1 DEF Forks
    <2>4. r.op.child # p
      BY <1>1, <2>2
    <2> QED
      BY <2>2, <2>3, <2>4
  <1>3. /\ r.op.pg \in DirType /\ r.sz \in Nat /\ r.op.a \in Nat /\ r.op.end \in Nat
    BY <1>0, Fields
  <1>4. /\ Distinct(r.op.pg) /\ Below(r.op.pg, PagesOf(r.sz))
        /\ PagesOf(r.sz) <= KERNBASE \div PGSIZE /\ Filled(r.op.pg, kmem) /\ r.op.mem = NoPage
    <2>1. r.op.a <= r.op.end /\ r.op.end = PagesOf(r.sz) /\ Below(r.op.pg, r.op.a)
          /\ (r.op.mem # NoPage => r.op.a < r.op.end)
      BY <1>0, <1>1 DEF LocalOK, ProgressOK
    <2>2. r.op.a = PagesOf(r.sz) /\ r.op.mem = NoPage
      <3> HIDE DEF r
      <3>0. r.op.a >= r.op.end
        BY <1>1
      <3>1. r.op.a = r.op.end /\ ~(r.op.a < r.op.end)
        BY <1>3, <2>1, <3>0
      <3> QED
        BY <2>1, <3>1
    <2> QED
      BY <1>0, <2>1, <2>2 DEF LocalOK, ProgressOK, ContentsOK
  <1> DEFINE n == freevm(kmem, r.op.pg)
             mid == [proc EXCEPT ![p].op = NoOp]
             b == proc[c]
             s == [b EXCEPT !.st = "run", !.sz = r.sz, !.pgdir = r.op.pg]
             last == [mid EXCEPT ![c] = s]
  <1>5. /\ n \in KmemType
        /\ \A m \in Pages : m \notin PageSet(r.op.pg) => n[m] = kmem[m]
        /\ \A m \in Pages : m \in PageSet(r.op.pg) => n[m].free = kmem[m].free + 1
    BY <1>0, <1>3, <1>4, FreevmEffect
  <1>6. Good(n, mid, lost)
    <2>1. Emptied(kmem, proc[p].op.pg, n) /\ proc[p].op.kind \in Builders
      BY <1>1 DEF Emptied, Builders
    <2>2. proc[p].st = "run" /\ proc[p].op.mem = NoPage
      BY <1>1, <1>4
    <2> HIDE DEF n, r, mid
    <2>3. mid = [proc EXCEPT ![p].op = NoOp]
      BY DEF mid
    <2> QED
      BY <1>0, <2>1, <2>2, <2>3, GiveUp, Zenon
  <1>7. /\ b \in ProcType /\ b.st = "EMBRYO" /\ b.pgdir = NoDir /\ b.op = NoOp
    <2>1. b \in ProcType /\ LocalOK(b)
      BY <1>0 DEF Good
    <2> QED
      BY <1>2, <2>1 DEF LocalOK, LifeOK
  <1>8. /\ s \in ProcType /\ s.st = "run" /\ s.sz = r.sz /\ s.pgdir = r.op.pg
        /\ s.kstack = b.kstack /\ s.op = NoOp
    BY <1>3, <1>7 DEF ProcType
  <1>9. proc' = last /\ mid[c] = b /\ mid[p].op = NoOp
        /\ \A q \in Slots \ {p} : mid[q] = proc[q]
    <2>1. mid[c] = b /\ \A q \in Slots \ {p} : mid[q] = proc[q]
      BY <1>0, <1>2
    <2>2. mid[p] = [r EXCEPT !.op = NoOp]
      BY <1>0
    <2>3. [r EXCEPT !.op = NoOp].op = NoOp
      BY <1>0 DEF ProcType
    <2>4. proc' = [proc EXCEPT ![c].st = "run", ![c].sz = r.sz,
                               ![c].pgdir = r.op.pg, ![p].op = NoOp]
      BY <1>1, <1>2
    <2>5. proc' = last
      BY <1>0, <1>2, <2>4
    <2> QED
      BY <2>1, <2>2, <2>3, <2>5
  <1>10. ASSUME NEW m \in Pages, m \in PageSet(r.op.pg) PROVE b.kstack # m
    <2>1. ~HasNot(proc[p], m) /\ InOnePlace(kmem, proc, lost, m)
      BY <1>0, <1>10, HasByParts DEF Good
    <2>2. \A q \in Slots \ {p} : HasNot(proc[q], m)
      BY <2>1, Owned
    <2>3. HasNot(proc[c], m)
      BY <1>2, <2>2
    <2> QED
      BY <2>3, HasByParts
  <1> HIDE DEF n, mid, b, s
  <1>11. LocalOK(s)
    <2>1. LifeOK(s) /\ Distinct(s.pgdir) /\ Distinct(s.op.pg)
      BY <1>1, <1>4, <1>8, IdleFields, NoDirEmpty DEF LifeOK
    <2>2. ProgressOK(s)
      BY <1>4, <1>8, IdleFields DEF ProgressOK
    <2> QED
      BY <2>1, <2>2 DEF LocalOK
  <1>12. ContentsOK(s, kmem)
    BY <1>4, <1>8, IdleFields, NoDirEmpty DEF ContentsOK, Filled
  <1>13. ForkOK(mid, c, s)
    BY <1>2, <1>8, <1>9, IdleFields DEF ForkOK
  <1>14. ASSUME NEW m \in Pages PROVE PageStep(n, mid[c], lost, kmem, s, lost, m)
    <2>0. m # NoPage /\ PageSet(NoDir) = {} /\ NoOp.pg = NoDir /\ NoOp.mem = NoPage
      BY NoDirEmpty, IdleFields DEF Pages, NoPage
    <2>1. CASE m \in PageSet(r.op.pg)
      <3>1. /\ Has(s, "pgdir", m) /\ ~Has(s, "kstack", m) /\ ~Has(s, "pg", m)
            /\ ~Has(s, "mem", m)
        BY <1>8, <1>10, <2>0, <2>1, HasByParts
      <3>2. HasOnce(s, m)
        BY <3>1 DEF HasOnce, Places
      <3>3. n[m].free = kmem[m].free + 1 /\ kmem[m].free \in Nat
        BY <1>0, <1>5, <2>1 DEF KmemType
      <3>4. n[m].free > 0 /\ kmem[m].free = n[m].free - 1
        BY <3>3
      <3> QED
        BY <3>2, <3>4 DEF PageStep, Taken
    <2>2. CASE m \notin PageSet(r.op.pg)
      <3>1. \A t \in Places : Has(s, t, m) <=> Has(b, t, m)
        BY <1>7, <1>8, <2>0, <2>2, HasSame
      <3> QED
        BY <1>5, <1>9, <2>2, <3>1 DEF PageStep, Kept
    <2> QED
      BY <2>1, <2>2
  <1>15. Good(kmem, last, lost)
    BY <1>0, <1>6, <1>8, <1>11, <1>12, <1>13, <1>14, UpdateOne
  <1> QED
    BY <1>1, <1>9, <1>15

\* mappages() fails: the page in the hand goes, then the error path.
LEMMA MapFailsStep ==
  ASSUME VmSizes, IInv, NEW p \in Slots, InLoop(p), proc[p].op.mem # NoPage, MapFails(p)
  PROVE  Good(kmem', proc', lost')
  <1> DEFINE mem == proc[p].op.mem
             mid == [proc EXCEPT ![p].op.mem = NoPage]
  <1>0. /\ Good(kmem, proc, lost) /\ kmem \in KmemType /\ lost \in SUBSET Pages
        /\ proc[p].st = "run" /\ proc[p].op.kind # "user"
    BY DEF IInv, Good, InLoop, Op
  <1>1. mem \in Pages
    BY <1>0, InHand
  <1>2. PICK k, o : /\ Bad(p, k) /\ lost' = o /\ Good(k, mid, o)
    <2>1. CASE proc[p].op.kind = "fork"
      <3>1. Bad(p, kmem) /\ lost' = lost \cup {mem}
        BY <2>1 DEF MapFails, Op
      <3>2. PICK o : o = lost \cup {mem}
        OBVIOUS
      <3>3. /\ o \in SUBSET Pages
            /\ \A m \in Pages \ {mem} : m \in o <=> m \in lost
            /\ mem \in o
        BY <1>0, <1>1, <3>2
      <3>4. Good(kmem, mid, o)
        BY <1>0, <3>3, DropPage
      <3> QED
        BY <3>1, <3>2, <3>4
    <2>2. CASE proc[p].op.kind # "fork"
      <3>1. Bad(p, kfree(kmem, {mem})) /\ lost' = lost
        BY <2>2 DEF MapFails, Op
      <3>2. PICK k : k = kfree(kmem, {mem})
        OBVIOUS
      <3>3. /\ k \in KmemType
            /\ \A m \in Pages : m \notin {mem} => k[m] = kmem[m]
            /\ \A m \in Pages : m \in {mem} => k[m].free = kmem[m].free + 1
        BY <1>0, <3>2, KfreeEffect
      <3>4. /\ \A m \in Pages \ {mem} : k[m] = kmem[m]
            /\ k[mem].free = kmem[mem].free + 1
        BY <1>1, <3>3
      <3>5. Good(k, mid, lost)
        BY <1>0, <3>3, <3>4, DropPage
      <3> QED
        BY <3>1, <3>2, <3>5
    <2> QED
      BY <2>1, <2>2
  <1>3. Good(Abandoned(p, k).kmem, Abandoned(p, k).proc, o)
    BY <1>0, <1>2, BadStep
  <1> QED
    BY <1>2, <1>3 DEF Bad

\* Where an operation can fail without a page in its hand, it has none.
LEMMA EmptyHand ==
  ASSUME VmSizes, IInv, NEW p \in Slots,
         NeedsKernel(p) \/ \E kind \in {"exec", "stack"} : Built(p, kind)
  PROVE  proc[p].st = "run" /\ proc[p].op.kind # "user" /\ proc[p].op.mem = NoPage
  <1> DEFINE r == proc[p]
  <1>1. /\ r \in ProcType
        /\ r.op.mem # NoPage =>
             r.op.a < r.op.end /\ (r.op.kind = "grow" \/ KernelPart(r.op.pg))
    BY DEF IInv, Good, LocalOK, ProgressOK
  <1>2. r.op.a \in Nat /\ r.op.end \in Nat
    BY <1>1, Fields
  <1>3. CASE NeedsKernel(p)
    <2>1. r.st = "run" /\ r.op.kind \in {"fork", "exec", "stack"} /\ ~KernelPart(r.op.pg)
      BY <1>3 DEF NeedsKernel, Building, Op, KernelPart
    <2> QED
      BY <1>1, <2>1
  <1>4. CASE \E kind \in {"exec", "stack"} : Built(p, kind)
    <2>1. r.st = "run" /\ r.op.kind \in {"exec", "stack"} /\ r.op.a >= r.op.end
      BY <1>4 DEF Built, Op
    <2> HIDE DEF r
    <2>2. ~(r.op.a < r.op.end)
      BY <1>2, <2>1
    <2> QED
      BY <1>1, <2>1, <2>2 DEF r
  <1> QED
    BY <1>3, <1>4

\* setupkvm().
LEMMA SetupkvmStep ==
  ASSUME VmSizes, IInv, NEW p \in Slots, setupkvm(p)
  PROVE  Good(kmem', proc', lost')
  <1>1. NeedsKernel(p) /\ lost' = lost
    BY DEF setupkvm
  <1>2. CASE ~CanAlloc(kmem) /\ Bad(p, kmem)
    BY <1>1, <1>2, EmptyHand, BadNow
  <1>3. CASE /\ CanAlloc(kmem) /\ kmem' = kalloc(kmem, "table")
             /\ proc' = [proc EXCEPT ![p].op.pg = AddKernel(@, FreePage(kmem))]
    <2>1. PICK new : new = [proc EXCEPT ![p].op.pg = AddKernel(@, FreePage(kmem))]
      OBVIOUS
    <2>2. Good(kalloc(kmem, "table"), new, lost)
      BY <1>1, <1>3, <2>1, SetupStep
    <2> QED
      BY <1>1, <1>3, <2>1, <2>2
  <1> QED
    BY <1>2, <1>3 DEF setupkvm

\* A page for the loop of allocuvm() or copyuvm().
LEMMA AllocPageStep ==
  ASSUME VmSizes, IInv, NEW p \in Slots, AllocPage(p)
  PROVE  Good(kmem', proc', lost')
  <1>1. /\ InLoop(p) /\ proc[p].op.mem = NoPage /\ lost' = lost
        /\ proc[p].st = "run" /\ proc[p].op.kind # "user"
    BY DEF AllocPage, InLoop, Op
  <1>2. CASE ~CanAlloc(kmem) /\ Bad(p, kmem)
    BY <1>1, <1>2, BadNow
  <1>3. CASE /\ CanAlloc(kmem) /\ kmem' = kalloc(kmem, NewPage(p))
             /\ proc' = [proc EXCEPT ![p].op.mem = FreePage(kmem)]
    <2>1. PICK new : new = [proc EXCEPT ![p].op.mem = FreePage(kmem)]
      OBVIOUS
    <2>2. Good(kalloc(kmem, NewPage(p)), new, lost)
      BY <1>1, <1>3, <2>1, AllocStep
    <2> QED
      BY <1>1, <1>3, <2>1, <2>2
  <1> QED
    BY <1>2, <1>3 DEF AllocPage

\* Its mapping.
LEMMA MapPageStep ==
  ASSUME VmSizes, IInv, NEW p \in Slots, MapPage(p)
  PROVE  Good(kmem', proc', lost')
  <1>1. InLoop(p) /\ proc[p].op.mem # NoPage
    BY DEF MapPage, Op
  <1>2. CASE MapFails(p)
    BY <1>1, <1>2, MapFailsStep
  <1>3. CASE ~MapFails(p)
    <2>1. PICK user : user = IF Op(p).kind = "fork" THEN proc[p].pgdir.user[Op(p).a] ELSE TRUE
      OBVIOUS
    <2>2. PICK x : x = mappages(kmem, Target(p), proc[p].op.a, proc[p].op.mem, user)
      OBVIOUS
    <2>3. PICK new : new = [proc EXCEPT ![p] = [WithTarget(p, x.pg) EXCEPT
                                                  !.op.a = Op(p).a + 1, !.op.mem = NoPage]]
      OBVIOUS
    <2>4. /\ NeedsTable(Target(p), proc[p].op.a) => CanAlloc(kmem)
          /\ kmem' = x.kmem /\ proc' = new /\ lost' = lost
      BY <1>3, <2>1, <2>2, <2>3 DEF MapPage, Op
    <2>5. user \in BOOLEAN
      <3>1. proc[p] \in ProcType /\ LocalOK(proc[p])
        BY DEF IInv, Good
      <3>2. /\ proc[p].pgdir \in DirType /\ proc[p].op.a \in Nat
            /\ proc[p].op.end \in 0..(KERNBASE \div PGSIZE)
        BY <3>1, Fields
      <3>3. proc[p].op.a < proc[p].op.end
        BY <1>1 DEF InLoop, Op
      <3>4. KERNBASE \div PGSIZE \in Nat
        BY DEF VmSizes, PGSIZE
      <3>5. proc[p].op.a \in Vas
        BY <3>2, <3>3, <3>4, UserPages
      <3>6. proc[p].pgdir.user \in [Vas -> BOOLEAN]
        BY <3>2 DEF DirType
      <3>7. proc[p].pgdir.user[proc[p].op.a] \in BOOLEAN
        BY <3>5, <3>6
      <3> QED
        BY <2>1, <3>7 DEF Op
    <2>6. Good(x.kmem, new, lost)
      BY <1>1, <2>2, <2>3, <2>4, <2>5, MapStep
    <2> QED
      BY <2>4, <2>6
  <1> QED
    BY <1>2, <1>3

\* loaduvm().
LEMMA LoaduvmStep ==
  ASSUME VmSizes, IInv, NEW p \in Slots, loaduvm(p)
  PROVE  Good(kmem', proc', lost')
  <1>1. Built(p, "exec") /\ lost' = lost
    BY DEF loaduvm
  <1>2. CASE Bad(p, kmem)
    BY <1>1, <1>2, EmptyHand, BadNow
  <1>3. CASE ~Bad(p, kmem)
    <2>1. PICK n : n = [m \in Pages |-> IF m \in Range(Op(p).pg.pte)
                                          THEN [kmem[m] EXCEPT !.data = "data"] ELSE kmem[m]]
      OBVIOUS
    <2>2. PICK new : new = [proc EXCEPT ![p].op.kind = "stack", ![p].op.end = Op(p).end + 2,
                                        ![p].op.sz = (Op(p).end + 2) * PGSIZE]
      OBVIOUS
    <2>3. (proc[p].op.end + 2) * PGSIZE < KERNBASE /\ kmem' = n /\ proc' = new
      BY <1>3, <2>1, <2>2 DEF loaduvm, Op
    <2>4. Good(n, new, lost)
      BY <1>1, <2>1, <2>2, <2>3, LoadStep
    <2> QED
      BY <1>1, <2>3, <2>4
  <1> QED
    BY <1>2, <1>3

\* The end of exec().
LEMMA ExecEnds ==
  ASSUME VmSizes, IInv, NEW p \in Slots, commit(p)
  PROVE  Good(kmem', proc', lost')
  <1>1. Built(p, "stack") /\ lost' = lost
    BY DEF commit
  <1>2. CASE Bad(p, kmem)
    BY <1>1, <1>2, EmptyHand, BadNow
  <1>3. CASE ~Bad(p, kmem)
    <2>1. PICK new : new = [proc EXCEPT ![p].pgdir = clearpteu(Op(p).pg, Op(p).end - 2),
                                        ![p].sz = Op(p).sz, ![p].op = NoOp]
      OBVIOUS
    <2>2. proc' = new /\ kmem' = freevm(kmem, proc[p].pgdir)
      BY <1>3, <2>1 DEF commit
    <2>3. Good(freevm(kmem, proc[p].pgdir), new, lost)
      BY <1>1, <2>1, CommitStep
    <2> QED
      BY <1>1, <2>2, <2>3
  <1> QED
    BY <1>2, <1>3

-----------------------------------------------------------------------------
\* Every step keeps the invariant.
LEMMA VmStep ==
  ASSUME VmSizes, IInv, [VmNext]_vmvars
  PROVE  IInv'
  <1>1. ASSUME VmNext PROVE Good(kmem', proc', lost')
    <2>1. PICK p \in Slots :
            \/ \E n \in Shrink : sbrkLess(p, n)
            \/ \E n \in Amounts : sbrkMore(p, n)
            \/ fork(p)
            \/ \E image \in Images : exec(p, image)
            \/ setupkvm(p) \/ AllocPage(p) \/ MapPage(p) \/ Grown(p) \/ Forked(p)
            \/ loaduvm(p) \/ commit(p) \/ exit(p) \/ wait(p)
      BY <1>1 DEF VmNext
    <2>2. CASE \E n \in Shrink : sbrkLess(p, n)
      BY <2>2, SbrkLessStep
    <2>3. CASE \E n \in Amounts : sbrkMore(p, n)
      BY <2>3, SbrkMoreStep
    <2>4. CASE fork(p) \/ Forked(p)
      BY <2>4, ForkStep, ForkedStep
    <2>5. CASE \E image \in Images : exec(p, image)
      BY <2>5, ExecStep
    <2>6. CASE setupkvm(p) \/ AllocPage(p) \/ MapPage(p)
      BY <2>6, SetupkvmStep, AllocPageStep, MapPageStep
    <2>7. CASE Grown(p) \/ loaduvm(p) \/ commit(p)
      BY <2>7, GrownStep, LoaduvmStep, ExecEnds
    <2>8. CASE exit(p) \/ wait(p)
      BY <2>8, ExitStep, WaitStep
    <2> QED
      BY <2>1, <2>2, <2>3, <2>4, <2>5, <2>6, <2>7, <2>8
  <1>2. CASE UNCHANGED vmvars
    <2>1. kmem' = kmem /\ proc' = proc /\ lost' = lost
      BY <1>2 DEF vmvars
    <2>2. Good(kmem, proc, lost)
      BY DEF IInv
    <2> QED
      BY <2>1, <2>2 DEF IInv
  <1>3. CASE VmNext
    BY <1>1, <1>3 DEF IInv
  <1> QED
    BY <1>2, <1>3

\* The address space of the first process.
LEMMA InitDirOK ==
  ASSUME VmSizes
  PROVE  /\ InitDir \in DirType /\ Distinct(InitDir) /\ InitDir.dir = 2 /\ Below(InitDir, 1)
         /\ \A va \in Vas : InitDir.pte[va] # NoPage => InitDir.pte[va] = 4
         /\ \A m \in Pages : m \in PageSet(InitDir) <=> m \in 2..(4 + KTABS)
  <1>1. /\ 0 \in Vas /\ 0 \in Dirs /\ 1 \in Pages /\ 2 \in Pages /\ 3 \in Pages /\ 4 \in Pages
        /\ 5..(4 + KTABS) \subseteq Pages
    <2>1. KERNBASE \div PGSIZE > 0 /\ KERNBASE \div PGSIZE \in Nat
      BY DEF VmSizes, PGSIZE
    <2>2. 0 \in Vas /\ PDX(0) = 0
      BY <2>1 DEF Vas, PDX, VmSizes
    <2>3. 0 \in Dirs
      BY <2>2 DEF Dirs
    <2> QED
      BY <2>2, <2>3 DEF Pages, VmSizes
  <1>2. /\ NoDir.tab = [d \in Dirs |-> NoPage] /\ NoDir.pte = [va \in Vas |-> NoPage]
        /\ NoDir \in DirType
    BY NoDirEmpty DEF NoDir, Dirs
  <1> DEFINE t == [d \in Dirs |-> IF d = 0 THEN 3 ELSE NoPage]
             e == [va \in Vas |-> IF va = 0 THEN 4 ELSE NoPage]
  <1>3. /\ InitDir.dir = 2 /\ InitDir.ktab = 5..(4 + KTABS) /\ InitDir.tab = t
        /\ InitDir.pte = e /\ InitDir.user = NoDir.user
        /\ InitDir = [dir |-> 2, ktab |-> 5..(4 + KTABS), tab |-> t, pte |-> e,
                      user |-> NoDir.user]
    <2>1. /\ t = [NoDir.tab EXCEPT ![0] = 3] /\ e = [NoDir.pte EXCEPT ![0] = 4]
      BY <1>1, <1>2
    <2> HIDE DEF t, e
    <2>2. InitDir = [NoDir EXCEPT !.dir = 2, !.ktab = 5..(4 + KTABS), !.tab = t, !.pte = e]
      BY <1>2, <2>1 DEF InitDir, DirType
    <2> QED
      BY <1>2, <2>2 DEF DirType
  <1>4. InitDir \in DirType
    <2>1. t \in [Dirs -> MaybePage] /\ e \in [Vas -> MaybePage]
      BY <1>1 DEF MaybePage
    <2>2. NoDir.user \in [Vas -> BOOLEAN]
      BY <1>2 DEF DirType
    <2> HIDE DEF t, e
    <2> QED
      BY <1>1, <1>3, <2>1, <2>2 DEF DirType, MaybePage
  <1>5. /\ \A d \in Dirs : InitDir.tab[d] = IF d = 0 THEN 3 ELSE NoPage
        /\ \A va \in Vas : InitDir.pte[va] = IF va = 0 THEN 4 ELSE NoPage
    BY <1>3
  <1> HIDE DEF t, e
  <1>6. Distinct(InitDir)
    BY <1>3, <1>5 DEF Distinct, NoPage
  <1>7. Below(InitDir, 1)
    <2>1. \A va \in Vas : va \in Nat
      BY UserPages
    <2> QED
      BY <1>5, <2>1 DEF Below, NoPage
  <1>8. ASSUME NEW m \in Pages PROVE m \in PageSet(InitDir) <=> m \in 2..(4 + KTABS)
    <2>1. m \in PageSet(InitDir) <=> \/ m = 2 \/ m \in 5..(4 + KTABS)
                                     \/ \E d \in Dirs : InitDir.tab[d] = m
                                     \/ \E va \in Vas : InitDir.pte[va] = m
      BY <1>3, <1>4, InPageSet
    <2>2. m \in Nat /\ m # NoPage /\ KTABS \in Nat
      BY DEF Pages, NoPage, VmSizes
    <2>3. (\E d \in Dirs : InitDir.tab[d] = m) <=> m = 3
      BY <1>1, <1>5, <2>2
    <2>4. (\E va \in Vas : InitDir.pte[va] = m) <=> m = 4
      BY <1>1, <1>5, <2>2
    <2> QED
      BY <2>1, <2>2, <2>3, <2>4
  <1> QED
    BY <1>3, <1>4, <1>5, <1>6, <1>7, <1>8

\* The initial state.
LEMMA InitGood ==
  ASSUME VmSizes, VmInit
  PROVE  IInv
  <1> DEFINE s == [UnusedSlot EXCEPT !.st = "run", !.sz = PGSIZE, !.pgdir = InitDir, !.kstack = 1]
  <1>1. /\ kmem = [p \in Pages |-> IF p <= 4 + KTABS THEN [free |-> 0, data |-> "data"]
                                   ELSE [free |-> 1, data |-> "junk"]]
        /\ proc = [p \in Slots |-> IF p = 1 THEN s ELSE UnusedSlot]
        /\ lost = {}
    BY DEF VmInit
  <1>2. 1 \in Slots /\ 1 \in Pages /\ 4 \in Pages /\ 4 <= 4 + KTABS
    BY DEF Slots, Pages, VmSizes
  <1>3. /\ s \in ProcType /\ s.st = "run" /\ s.sz = PGSIZE /\ s.pgdir = InitDir
        /\ s.kstack = 1 /\ s.op = NoOp
    BY <1>2, IdleFields, InitDirOK DEF ProcType, MaybePage, PGSIZE
  <1> HIDE DEF s
  <1>4. /\ proc \in [Slots -> ProcType] /\ proc[1] = s
        /\ \A p \in Slots \ {1} : proc[p] = UnusedSlot
    BY <1>1, <1>2, <1>3, IdleFields
  <1>5. /\ kmem \in KmemType /\ lost \subseteq Pages
        /\ \A m \in Pages : kmem[m] = IF m <= 4 + KTABS THEN [free |-> 0, data |-> "data"]
                                      ELSE [free |-> 1, data |-> "junk"]
    BY <1>1 DEF KmemType
  <1>6. LocalOK(s)
    <2>1. LifeOK(s) /\ Distinct(s.pgdir) /\ Distinct(s.op.pg)
      BY <1>3, IdleFields, InitDirOK, NoDirEmpty DEF LifeOK, NoPage
    <2>2. PagesOf(s.sz) = 1 /\ 1 <= KERNBASE \div PGSIZE
      BY <1>3 DEF PagesOf, PGROUNDUP, PGSIZE, VmSizes
    <2>3. ProgressOK(s)
      BY <1>3, <2>2, IdleFields, InitDirOK DEF ProgressOK
    <2> QED
      BY <2>1, <2>3 DEF LocalOK
  <1>7. LocalOK(UnusedSlot)
    BY IdleFields, NoDirEmpty DEF LocalOK, LifeOK, ProgressOK
  <1>8. ContentsOK(s, kmem)
    <2>1. kmem[4].data = "data"
      BY <1>2, <1>5
    <2> QED
      BY <1>3, <2>1, IdleFields, InitDirOK, NoDirEmpty DEF ContentsOK, Filled
  <1>9. ContentsOK(UnusedSlot, kmem)
    BY IdleFields, NoDirEmpty DEF ContentsOK, Filled
  <1>10. Forks(proc)
    <2>1. \A p \in Slots : proc[p].op.kind = "user"
      BY <1>3, <1>4, IdleFields
    <2> QED
      BY <2>1 DEF Forks
  <1>11. ASSUME NEW m \in Pages PROVE InOnePlace(kmem, proc, lost, m)
    <2>0. /\ m \in Nat /\ m > 0 /\ m # NoPage /\ PageSet(NoDir) = {} /\ KTABS \in Nat
          /\ m \notin lost
      BY <1>1, NoDirEmpty DEF Pages, NoPage, VmSizes
    <2>1. \A p \in Slots \ {1} : HasNot(proc[p], m)
      BY <1>4, <2>0, IdleFields, HasByParts
    <2>2. /\ Has(s, "kstack", m) <=> m = 1
          /\ Has(s, "pgdir", m) <=> m \in 2..(4 + KTABS)
          /\ ~Has(s, "pg", m) /\ ~Has(s, "mem", m)
      BY <1>3, <2>0, IdleFields, InitDirOK, HasByParts
    <2>3. CASE m <= 4 + KTABS
      <3>1. HasOnce(s, m)
        <4>1. CASE m = 1
          BY <2>2, <4>1 DEF HasOnce, Places
        <4>2. CASE m \in 2..(4 + KTABS)
          BY <2>2, <4>2 DEF HasOnce, Places
        <4> QED
          BY <2>0, <2>3, <4>1, <4>2
      <3>2. OneOwner(proc, m)
        BY <1>2, <1>4, <2>1, <3>1 DEF OneOwner
      <3>3. kmem[m].free = 0
        BY <1>5, <2>3
      <3> QED
        BY <2>0, <3>2, <3>3 DEF InOnePlace
    <2>4. CASE ~(m <= 4 + KTABS)
      <3>1. HasNot(s, m)
        BY <2>0, <2>2, <2>4 DEF HasNot, Places
      <3>2. Nobody(proc, m)
        BY <1>4, <2>1, <3>1 DEF Nobody
      <3>3. kmem[m].free = 1
        BY <1>5, <2>4
      <3> QED
        BY <2>0, <3>2, <3>3 DEF InOnePlace
    <2> QED
      BY <2>3, <2>4
  <1>12. \A p \in Slots : LocalOK(proc[p]) /\ ContentsOK(proc[p], kmem)
    BY <1>4, <1>6, <1>7, <1>8, <1>9
  <1> QED
    BY <1>4, <1>5, <1>10, <1>11, <1>12 DEF IInv, Good

-----------------------------------------------------------------------------
\* The pages of fork(), exec(), sbrk(), exit() and wait() are where Good says,
\* in every state and wherever kalloc() fails.
THEOREM VmInductive == VmSpec => []IInv
  <1>1. VmInit => IInv
    BY VmSizesAssumption, InitGood
  <1>2. IInv /\ [VmNext]_vmvars => IInv'
    BY VmSizesAssumption, VmStep
  <1> QED
    BY <1>1, <1>2, PTL DEF VmSpec

\* Every physical page is in the free list once or has one owner, for any
\* memory: kalloc() may fail at every call of fork(), exec() and sbrk(), and
\* their error paths free everything once, except copyuvm()'s, which forgets
\* the page that it cannot map.
THEOREM PagesAccounted == VmSpec => []Accounted
  <1>0. VmSizes
    BY VmSizesAssumption
  <1>1. ASSUME IInv PROVE Accounted
    <2> SUFFICES ASSUME NEW m \in Pages
                 PROVE  kmem[m].free + Owners(m) = IF m \in lost THEN 0 ELSE 1
      BY DEF Accounted
    <2> DEFINE A == {p \in Slots : proc[p].kstack = m}
               B == {p \in Slots : m \in PageSet(proc[p].pgdir)}
               C == {p \in Slots : m \in PageSet(proc[p].op.pg)}
               D == {p \in Slots : proc[p].op.mem = m}
    <2>1. Owners(m) = Cardinality(A) + Cardinality(B) + Cardinality(C) + Cardinality(D)
      BY DEF Owners, Op
    <2>2. /\ A = {p \in Slots : Has(proc[p], "kstack", m)}
          /\ B = {p \in Slots : Has(proc[p], "pgdir", m)}
          /\ C = {p \in Slots : Has(proc[p], "pg", m)}
          /\ D = {p \in Slots : Has(proc[p], "mem", m)}
      BY HasByParts
    <2> HIDE DEF A, B, C, D
    <2>3. InOnePlace(kmem, proc, lost, m)
      BY <1>1 DEF IInv, Good
    <2>4. ASSUME Nobody(proc, m) PROVE Owners(m) = 0
      <3>1. A = {} /\ B = {} /\ C = {} /\ D = {}
        BY <2>2, <2>4 DEF Nobody, HasNot, Places
      <3>2. Cardinality({}) = 0
        BY FS_EmptySet
      <3> QED
        BY <2>1, <3>1, <3>2
    <2>5. ASSUME OneOwner(proc, m) PROVE Owners(m) = 1
      <3>1. PICK p \in Slots : HasOnce(proc[p], m) /\ \A q \in Slots \ {p} : HasNot(proc[q], m)
        BY <2>5 DEF OneOwner
      <3>2. PICK s \in Places : \A t \in Places : Has(proc[p], t, m) <=> t = s
        BY <3>1 DEF HasOnce
      <3>3. \A t \in Places :
              {q \in Slots : Has(proc[q], t, m)} = IF t = s THEN {p} ELSE {}
        BY <3>1, <3>2 DEF HasNot
      <3>4. Cardinality({}) = 0 /\ Cardinality({p}) = 1
        BY FS_EmptySet, FS_Singleton
      <3>5. /\ Cardinality(A) = IF s = "kstack" THEN 1 ELSE 0
            /\ Cardinality(B) = IF s = "pgdir" THEN 1 ELSE 0
            /\ Cardinality(C) = IF s = "pg" THEN 1 ELSE 0
            /\ Cardinality(D) = IF s = "mem" THEN 1 ELSE 0
        BY <2>2, <3>3, <3>4 DEF Places
      <3> QED
        BY <2>1, <3>2, <3>5 DEF Places
    <2> QED
      BY <2>3, <2>4, <2>5 DEF InOnePlace
  <1> QED
    BY <1>1, VmInductive, PTL

\* A process in user mode has all the pages below its size and none above it,
\* and none of them shows what another use of the page left in it: allocuvm()
\* clears a page, and copyuvm() and loaduvm() fill it, before the process runs.
THEOREM PagesPresent == VmSpec => []Present
  <1>0. VmSizes
    BY VmSizesAssumption
  <1>1. ASSUME IInv PROVE Present
    <2> SUFFICES ASSUME NEW p \in Slots, User(p), NEW va \in Vas
                 PROVE  LET m == proc[p].pgdir.pte[va] IN
                        /\ (m # NoPage) <=> (va * PGSIZE < proc[p].sz)
                        /\ m # NoPage => kmem[m].data \notin {"junk", "table", "stack"}
      BY DEF Present
    <2>1. proc[p] \in ProcType /\ LocalOK(proc[p]) /\ ContentsOK(proc[p], kmem)
      BY <1>1 DEF IInv, Good
    <2>2. Below(proc[p].pgdir, PagesOf(proc[p].sz)) /\ Filled(proc[p].pgdir, kmem)
      BY <2>1 DEF LocalOK, ProgressOK, ContentsOK, User, Op
    <2>3. va \in Nat /\ proc[p].sz \in Nat
      BY <1>0, <2>1, Fields, UserPages
    <2>4. va * PGSIZE < proc[p].sz <=> va < PagesOf(proc[p].sz)
      BY <1>0, <2>3, Rounding
    <2>5. proc[p].pgdir.pte[va] # NoPage <=> va < PagesOf(proc[p].sz)
      BY <2>2 DEF Below
    <2>6. proc[p].pgdir.pte[va] # NoPage =>
            kmem[proc[p].pgdir.pte[va]].data \in {"zero", "data"}
      BY <2>2 DEF Filled
    <2> QED
      BY <2>4, <2>5, <2>6
  <1> QED
    BY <1>1, VmInductive, PTL

\* Both: every page is free once or has one owner, except those that copyuvm()
\* could not map and lost (vm.c:335), and every process has its pages, through
\* any interleaving of calls that may run out of memory.
THEOREM MemoryRight == VmSpec => []PagesRight
  BY PagesAccounted, PagesPresent, PTL DEF PagesRight
=============================================================================
