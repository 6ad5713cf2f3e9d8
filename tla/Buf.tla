--------------------------------- MODULE Buf ---------------------------------
(***************************************************************************)
(* The buffer cache (bio.c), its sleep locks (sleeplock.c) and the IDE     *)
(* driver (ide.c): processes read and write blocks while the disk works on *)
(* the requests one by one and interrupts when it has done one.            *)
(* A process may hold one buffer while it asks for another, as bmap(),     *)
(* itrunc(), write_log() and install_trans() do; and what log_write() has  *)
(* changed stays in the cache, after brelse() too, until it is written.    *)
(***************************************************************************)
EXTENDS Integers, Sequences, FiniteSets

CONSTANTS
  Procs,        \* processes
  Blocks,       \* block numbers
  LogBlocks,    \* blocks of the log
  LastBlocks,   \* blocks that are asked for with another one held
  NBUF,         \* buffers
  MAXVAL,       \* the contents of a block are 0..MAXVAL
  FAIL          \* blocks that the disk may fail to read

VARIABLES
  lru,          \* the buffers of the list, most recently used first
  buf,          \* buffers
  idequeue,     \* requests, the first one at the disk
  device,       \* the disk is working on the first request, or has interrupted
  disk,         \* contents of the disk
  io,           \* where a process is, with which buffer, for which block
  held,         \* the buffer that bread() has returned to a process for a block
  latest,       \* what was last written to each block, as the processes see it
  bad           \* buffers whose read has failed: the driver reports no error

bufvars == <<lru, buf, idequeue, device, disk, io, held, latest, bad>>

Bufs == 1..NBUF
NoBlock == 0
Nil == 0
Values == 0..MAXVAL
\* There are buffers, a block in use has a number, and the process table is
\* finite.
Sizes ==
  /\ NBUF \in Nat \ {0} /\ MAXVAL \in Nat
  /\ Blocks \subseteq Nat \ {0}
  /\ IsFiniteSet(Procs)
ASSUME SizesAssumption == Sizes

\* The order in which the code asks for blocks when it holds one: write_log()
\* and install_trans() hold a block of the log; bmap() and itrunc() hold an
\* indirect block when balloc(), bzero() and bfree() ask for a block of the
\* bitmap or for one that was free until then; and these hold nothing else.
Level(k) == IF k \in LogBlocks THEN 0 ELSE IF k \in LastBlocks THEN 2 ELSE 1

Idle == [at |-> "idle", b |-> Nil, k |-> NoBlock]

\* wakeup(): who sleeps on a buffer goes on.
Move(at, from, b, to) ==
  [p \in Procs |-> IF at[p].at = from /\ at[p].b = b THEN [at[p] EXCEPT !.at = to] ELSE at[p]]

\* binit(): each buffer is put in front.
BufInit ==
  /\ lru = [i \in Bufs |-> NBUF + 1 - i]
  /\ buf = [b \in Bufs |-> [block |-> NoBlock, refcnt |-> 0, valid |-> FALSE, dirty |-> FALSE,
                            data |-> 0, locked |-> FALSE]]
  /\ idequeue = <<>> /\ device = "idle"
  /\ disk = [k \in Blocks |-> 0] /\ latest = disk
  /\ io = [p \in Procs |-> Idle] /\ held = [p \in Procs |-> [k \in Blocks |-> Nil]]
  /\ bad = {}

-----------------------------------------------------------------------------
Cached(k) == {b \in Bufs : buf[b].block = k}
\* Mutant of Unused: what log_write() has put into the cache is taken.
UnusedDirty == {b \in Bufs : buf[b].refcnt = 0}
\* Mutant of Unused: a buffer that somebody waits for is taken.
UnusedUnlocked == {b \in Bufs : ~buf[b].locked /\ ~buf[b].dirty}
\* Buffers that may be recycled, and the least recently used of them.
Unused == {b \in Bufs : buf[b].refcnt = 0 /\ ~buf[b].dirty}
Oldest(S) == lru[CHOOSE i \in Bufs : lru[i] \in S /\ \A j \in (i + 1)..NBUF : lru[j] \notin S]

\* The process goes for the buffer's sleep lock.
Take(p, k, b, new) ==
  /\ buf' = [buf EXCEPT ![b] = new]
  /\ io' = [io EXCEPT ![p] = [at |-> "acquiresleep", b |-> b, k |-> k]]

\* Mutant of Recycle: the old contents pass for the block's.
RecycleValid(p, k) ==
  LET b == Oldest(Unused) IN
  Take(p, k, b, [buf[b] EXCEPT !.block = k, !.refcnt = 1])

\* bget() of a block that is not cached: a buffer is recycled.
Recycle(p, k) ==
  LET b == Oldest(Unused) IN
  Take(p, k, b, [buf[b] EXCEPT !.block = k, !.refcnt = 1, !.valid = FALSE, !.dirty = FALSE])

\* A process may ask for a block: it holds none, or one that is asked for
\* before.
MayAsk(p, k) ==
  LET mine == {j \in Blocks : held[p][j] # Nil} IN
  io[p].at = "idle" /\ Cardinality(mine) <= 1 /\ \A j \in mine : Level(j) < Level(k)

\* Mutant of bget: a buffer that is cached is not counted.
bgetUncounted(p, k) ==
  /\ MayAsk(p, k)
  /\ \/ \E b \in Cached(k) : Take(p, k, b, buf[b])
     \/ Cached(k) = {} /\ Unused # {} /\ Recycle(p, k)
  /\ UNCHANGED <<lru, idequeue, device, disk, held, latest, bad>>

\* bget(), up to the sleep lock: all under bcache.lock.
bget(p, k) ==
  /\ MayAsk(p, k)
  /\ \/ \E b \in Cached(k) : Take(p, k, b, [buf[b] EXCEPT !.refcnt = @ + 1])
     \/ /\ Cached(k) = {}
        /\ IF Unused # {} THEN Recycle(p, k)
           ELSE io' = [io EXCEPT ![p].at = "panic"] /\ UNCHANGED buf
  /\ UNCHANGED <<lru, idequeue, device, disk, held, latest, bad>>

\* panic(): for(;;).
panic(p) == io[p].at = "panic" /\ UNCHANGED bufvars

\* bread() or bwrite() is done.
Return(p) ==
  /\ held' = [held EXCEPT ![p][io[p].k] = io[p].b]
  /\ io' = [io EXCEPT ![p] = Idle]

\* bread(): a buffer that is not valid is read first.
bread(p) ==
  IF buf[io[p].b].valid THEN Return(p)
  ELSE io' = [io EXCEPT ![p].at = "iderw"] /\ UNCHANGED held

\* acquiresleep(): take the lock, or sleep on it and try again when woken.
acquiresleep(p) ==
  /\ io[p].at = "acquiresleep"
  /\ LET b == io[p].b IN
     IF buf[b].locked
       THEN io' = [io EXCEPT ![p].at = "sleeplock"] /\ UNCHANGED <<buf, held>>
       ELSE buf' = [buf EXCEPT ![b].locked = TRUE] /\ bread(p)
  /\ UNCHANGED <<lru, idequeue, device, disk, latest, bad>>

\* The holder has changed the data, and marks the buffer dirty.
Change(k, b) ==
  \E v \in Values :
    /\ buf' = [buf EXCEPT ![b].data = v, ![b].dirty = TRUE]
    /\ latest' = [latest EXCEPT ![k] = v]
    /\ bad' = bad \ {b}

\* log_write(): the buffer stays as it is, in the cache.
log_write(p, k) ==
  /\ io[p].at = "idle" /\ held[p][k] # Nil
  /\ Change(k, held[p][k])
  /\ UNCHANGED <<lru, idequeue, device, disk, io, held>>

\* The process turns to a buffer that it holds.
Turn(p, k, to) ==
  /\ io[p].at = "idle" /\ held[p][k] # Nil
  /\ io' = [io EXCEPT ![p] = [at |-> to, b |-> held[p][k], k |-> k]]
  /\ held' = [held EXCEPT ![p][k] = Nil]

\* bwrite(), up to iderw().
bwrite(p, k) ==
  /\ Turn(p, k, "iderw")
  /\ Change(k, held[p][k])
  /\ UNCHANGED <<lru, idequeue, device, disk>>

\* idestart(): the registers of the disk are set.
idestart(queue) == IF queue = <<>> THEN "idle" ELSE "busy"

\* iderw(): into the queue, and to sleep; idelock is held until then.
iderw(p) ==
  /\ io[p].at = "iderw"
  /\ idequeue' = Append(idequeue, io[p].b)
  /\ device' = IF idequeue = <<>> THEN idestart(idequeue') ELSE device
  /\ io' = [io EXCEPT ![p].at = "sleepdisk"]
  /\ UNCHANGED <<lru, buf, disk, held, latest, bad>>

\* The disk has done what it was told, and interrupts.
Disk ==
  /\ device = "busy"
  /\ LET b == buf[Head(idequeue)] IN
     disk' = IF b.dirty THEN [disk EXCEPT ![b.block] = b.data] ELSE disk
  /\ device' = "interrupt"
  /\ UNCHANGED <<lru, buf, idequeue, io, held, latest, bad>>

\* idewait(1): the disk may report an error for a block.
idewait(k) == {TRUE} \cup (IF k \in FAIL THEN {FALSE} ELSE {})

\* Mutant of ideintr: nobody is woken.
ideintrQuiet ==
  /\ device = "interrupt"
  /\ LET b == Head(idequeue) IN
     buf' = [buf EXCEPT ![b].valid = TRUE, ![b].dirty = FALSE,
                        ![b].data = IF buf[b].dirty THEN @ ELSE disk[buf[b].block]]
  /\ idequeue' = Tail(idequeue)
  /\ device' = idestart(idequeue')
  /\ UNCHANGED <<lru, disk, io, held, latest, bad>>

\* ideintr(): the data of a read, unless the disk reports an error; the
\* buffer is valid either way.  Who sleeps on it goes on, and the next request
\* is started.
ideintr ==
  /\ device = "interrupt"
  /\ LET b == Head(idequeue) IN
     /\ \E ok \in idewait(buf[b].block) :
          /\ buf' = [buf EXCEPT ![b].valid = TRUE, ![b].dirty = FALSE,
               ![b].data = IF buf[b].dirty \/ ~ok THEN @ ELSE disk[buf[b].block]]
          /\ bad' = IF ~buf[b].dirty /\ ~ok THEN bad \cup {b} ELSE bad \ {b}
     /\ io' = Move(io, "sleepdisk", b, "wakedisk")
  /\ idequeue' = Tail(idequeue)
  /\ device' = idestart(idequeue')
  /\ UNCHANGED <<lru, disk, held, latest>>

\* The loop in iderw(), after sleep().
wakedisk(p) ==
  /\ io[p].at = "wakedisk"
  /\ LET b == buf[io[p].b] IN
     IF b.valid /\ ~b.dirty THEN Return(p)
     ELSE io' = [io EXCEPT ![p].at = "sleepdisk"] /\ UNCHANGED held
  /\ UNCHANGED <<lru, buf, idequeue, device, disk, latest, bad>>

\* releasesleep() in brelse(): who sleeps on the lock is woken.
releasesleep(p, k) ==
  /\ io[p].at = "idle" /\ held[p][k] # Nil
  /\ LET b == held[p][k] IN
     /\ buf' = [buf EXCEPT ![b].locked = FALSE]
     /\ io' = Move([io EXCEPT ![p] = [at |-> "brelse", b |-> b, k |-> k]],
                   "sleeplock", b, "acquiresleep")
  /\ held' = [held EXCEPT ![p][k] = Nil]
  /\ UNCHANGED <<lru, idequeue, device, disk, latest, bad>>

\* The list with b taken out and put in front.
InFront(b) ==
  LET at == CHOOSE i \in Bufs : lru[i] = b
  IN  [i \in Bufs |-> IF i = 1 THEN b ELSE IF i <= at THEN lru[i - 1] ELSE lru[i]]

\* The rest of brelse(), under bcache.lock: an unused buffer goes to the front.
brelse(p) ==
  /\ io[p].at = "brelse"
  /\ LET b == io[p].b IN
     /\ buf' = [buf EXCEPT ![b].refcnt = @ - 1]
     /\ lru' = IF buf[b].refcnt = 1 THEN InFront(b) ELSE lru
  /\ io' = [io EXCEPT ![p] = Idle]
  /\ UNCHANGED <<idequeue, device, disk, held, latest, bad>>

BufNext ==
  \/ \E p \in Procs :
       \/ \E k \in Blocks : bget(p, k) \/ log_write(p, k) \/ bwrite(p, k) \/ releasesleep(p, k)
       \/ acquiresleep(p) \/ iderw(p) \/ wakedisk(p) \/ brelse(p) \/ panic(p)
  \/ Disk \/ ideintr

BufSpec == BufInit /\ [][BufNext]_bufvars

-----------------------------------------------------------------------------
\* Who owns the buffer's sleep lock: bread() has returned it to the process,
\* or the process is at the disk with it.
Owns(p, b) ==
  \/ \E k \in Blocks : held[p][k] = b
  \/ io[p].b = b /\ io[p].at \in {"iderw", "sleepdisk", "wakedisk"}

\* A block is in one buffer at most, so that a lock on the buffer is a lock
\* on the block; and although the cache is unlocked while a process sleeps,
\* the process gets the block it has asked for, and one process at a time.
OneCopy ==
  /\ \A p \in Procs, k \in Blocks : held[p][k] # Nil => buf[held[p][k]].block = k
  /\ \A b, c \in Bufs : b # c /\ buf[b].block = buf[c].block => buf[b].block = NoBlock
  /\ \A p, q \in Procs, b \in Bufs : Owns(p, b) /\ Owns(q, b) => p = q

\* Who holds a buffer holds the block's last contents, through whatever
\* recycling and queueing it went, unless the disk has failed to read it.
Fresh == \A p \in Procs, k \in Blocks : held[p][k] \notin bad \cup {Nil} =>
           buf[held[p][k]].data = latest[k]

\* What log_write() and bwrite() have changed is not lost when buffers run
\* short: a block's last contents are on the disk, or in a buffer that bget()
\* does not recycle although nobody may refer to it.
PinnedStays ==
  \A k \in Blocks : disk[k] # latest[k] =>
    \E b \in Bufs : buf[b].block = k /\ buf[b].dirty /\ buf[b].data = latest[k]

\* Nobody sleeps for ever: for a request that is asleep the disk is at work
\* or has interrupted; and a lock that is slept on has an owner, which sleeps
\* on a lock itself only for a block that is asked for later, so that no two
\* wait for each other.  (bget() may panic for want of a buffer, and its
\* process then keeps what it holds.)
NoLostWakeup ==
  /\ \A p \in Procs : io[p].at = "sleepdisk" =>
       \E i \in 1..Len(idequeue) : idequeue[i] = io[p].b
  /\ idequeue # <<>> => device # "idle"
  /\ \A p \in Procs : io[p].at = "sleeplock" =>
       \E q \in Procs : /\ Owns(q, io[p].b)
                        /\ io[q].at = "sleeplock" => Level(io[p].k) < Level(io[q].k)

\* Who refers to a buffer: it holds it, or is on its way to it or from it.
RefersTo(b) == {p \in Procs : io[p].b = b \/ \E k \in Blocks : held[p][k] = b}

\* Reference counts are exact, whoever waits, leaves, or has two buffers: no
\* buffer is recycled under a process, and none is kept for nobody.
Counted == \A b \in Bufs : buf[b].refcnt = Cardinality(RefersTo(b))
=============================================================================
