-------------------------------- MODULE Log --------------------------------
(***************************************************************************)
(* The write-ahead log of log.c: group commit, absorption, crash recovery. *)
(*                                                                         *)
(* A step is a critical section of log.lock or one block written to the    *)
(* disk; bwrite() of a block is atomic (BSIZE is one sector).  A crash can *)
(* fall between any two steps, during recovery too, and loses everything   *)
(* but the disk.  The buffer cache is seen from the log: a cached block    *)
(* that is not B_DIRTY and not held may be evicted at any time.  The log's *)
(* own blocks are always in the cache as they are on disk, so they are not *)
(* cached here.                                                            *)
(***************************************************************************)
EXTENDS Integers, Sequences, FiniteSets

CONSTANTS
  Proc, Block, Val, Zero,   \* as in AtomicDisk
  None,         \* no block, or a block that is not in the cache
  LOGSIZE,      \* capacity of the in-memory header
  MAXOPBLOCKS,  \* what begin_op() reserves for an operation
  nlog,         \* log.size: the blocks of the on-disk log, header included
  OpBlocks      \* blocks that one operation writes, at most

\* mkfs makes the log LOGSIZE blocks long, so that it holds one data block
\* less; no operation of sysfile.c or file.c fills its reservation.
ASSUME LogAssumption ==
  /\ LOGSIZE \in Nat /\ MAXOPBLOCKS \in Nat /\ OpBlocks \in Nat
  /\ nlog = LOGSIZE
  /\ OpBlocks < MAXOPBLOCKS
  /\ MAXOPBLOCKS < LOGSIZE
  /\ Zero \in Val
  /\ None \notin Val \cup Block

VARIABLES
  disk, logd, head,         \* on disk: home blocks, log blocks, log header
  lh, outstanding,          \* struct log
  committing,
  buf, dirty,               \* buffer cache: contents, B_DIRTY blocks
  pc, wblk, used,           \* each process: where, block held by log_write(),
                            \* blocks its operation has written
  tail,                     \* loop variable of write_log() and install_trans()
  rc                        \* the machine: up, in recovery or panicked

onDisk == <<disk, logd, head>>
inLog == <<lh, outstanding, committing>>
cache == <<buf, dirty>>
threads == <<pc, wblk, used>>
vars == <<onDisk, inLog, cache, threads, tail, rc>>

TypeOK ==
  /\ disk \in [Block -> Val]
  /\ logd \in [1..(nlog - 1) -> Val]
  /\ head \in Seq(Block) /\ Len(head) < nlog
  /\ lh \in Seq(Block) /\ Len(lh) < nlog
  /\ outstanding \in Nat
  /\ committing \in {0, 1}
  /\ buf \in [Block -> Val \cup {None}]
  /\ dirty \subseteq Block
  /\ pc \in [Proc -> {"idle", "begin", "asleep", "op", "append",
                      "wlog", "whead", "install", "clear", "done"}]
  /\ wblk \in [Proc -> Block \cup {None}]
  /\ used \in [Proc -> SUBSET Block]
  /\ tail \in 1..nlog
  /\ rc \in {"up", "read", "install", "clear", "panic"}

\* mkfs's disk, with an empty log, at boot.
Init ==
  /\ disk = [b \in Block |-> Zero]
  /\ logd = [i \in 1..(nlog - 1) |-> Zero]
  /\ head = <<>>
  /\ lh = <<>>
  /\ outstanding = 0
  /\ committing = 0
  /\ buf = [b \in Block |-> None]
  /\ dirty = {}
  /\ pc = [p \in Proc |-> "idle"]
  /\ wblk = [p \in Proc |-> None]
  /\ used = [p \in Proc |-> {}]
  /\ tail = 1
  /\ rc = "read"

-----------------------------------------------------------------------------
(* Recovery: recover_from_log(), run before any process uses the disk.     *)

\* read_head().
ReadHead ==
  /\ rc = "read"
  /\ lh' = head
  /\ rc' = "install"
  /\ tail' = 1
  /\ UNCHANGED <<onDisk, outstanding, committing, cache, threads>>

\* One turn of install_trans(): the log block goes to its home, through the
\* cache, and the buffer is clean again.
InstallBlock ==
  /\ tail <= Len(lh)
  /\ disk' = [disk EXCEPT ![lh[tail]] = logd[tail]]
  /\ buf' = [buf EXCEPT ![lh[tail]] = logd[tail]]
  /\ dirty' = dirty \ {lh[tail]}
  /\ tail' = tail + 1
  /\ UNCHANGED <<logd, head>>

RecoverInstall ==
  /\ rc = "install"
  /\ \/ InstallBlock /\ UNCHANGED rc
     \/ /\ tail > Len(lh)
        /\ rc' = "clear"
        /\ tail' = 1
        /\ UNCHANGED <<onDisk, cache>>
  /\ UNCHANGED <<inLog, threads>>

\* Mutant of ClearLog: the second write_head() is forgotten.
ClearInMemory ==
  /\ lh' = <<>>
  /\ UNCHANGED onDisk

\* lh.n = 0 and write_head().
ClearLog ==
  /\ lh' = <<>>
  /\ head' = <<>>
  /\ UNCHANGED <<disk, logd>>

RecoverClear ==
  /\ rc = "clear"
  /\ ClearLog
  /\ rc' = "up"
  /\ UNCHANGED <<outstanding, committing, cache, threads, tail>>

\* Power is lost: the disk is all that is left.
Crash ==
  /\ lh' = <<>>
  /\ outstanding' = 0
  /\ committing' = 0
  /\ buf' = [b \in Block |-> None]
  /\ dirty' = {}
  /\ pc' = [p \in Proc |-> "idle"]
  /\ wblk' = [p \in Proc |-> None]
  /\ used' = [p \in Proc |-> {}]
  /\ tail' = 1
  /\ rc' = "read"
  /\ UNCHANGED onDisk

-----------------------------------------------------------------------------
(* The processes.                                                          *)

At(p, where) == rc = "up" /\ pc[p] = where
Goto(p, where) == pc' = [pc EXCEPT ![p] = where]

\* wakeup(&log), with p going on at where.
WakeAll(p, where) ==
  pc' = [q \in Proc |-> IF q = p THEN where
                        ELSE IF pc[q] = "asleep" THEN "begin" ELSE pc[q]]

\* A system call that is going to use the file system.
Call(p) ==
  /\ At(p, "idle")
  /\ Goto(p, "begin")
  /\ UNCHANGED <<onDisk, inLog, cache, wblk, used, tail, rc>>

\* Mutant of HasRoom: the new operation itself is not counted.
HasRoomOffByOne == Len(lh) + outstanding * MAXOPBLOCKS <= LOGSIZE

\* begin_op()'s estimate: the log can take a full reservation more.
HasRoom == Len(lh) + (outstanding + 1) * MAXOPBLOCKS <= LOGSIZE

MayBegin == committing = 0 /\ HasRoom

\* One turn of begin_op()'s loop.
BeginOp(p) ==
  /\ At(p, "begin")
  /\ \/ /\ ~MayBegin
        /\ Goto(p, "asleep")
        /\ UNCHANGED outstanding
     \/ /\ MayBegin
        /\ Goto(p, "op")
        /\ outstanding' = outstanding + 1
  /\ UNCHANGED <<onDisk, lh, committing, cache, wblk, used, tail, rc>>

Held == {wblk[p] : p \in Proc} \ {None}

\* The panics at the head of log_write(), tested without log.lock.
TooBig == Len(lh) >= LOGSIZE \/ Len(lh) >= nlog - 1
OutsideTrans == outstanding < 1

\* bread() a block, change it, and enter log_write(), which may panic.  The
\* block's sleep lock is held until brelse().
Write(p) ==
  \E b \in Block \ Held, v \in Val :
    /\ At(p, "op")
    /\ Cardinality(used[p] \cup {b}) <= OpBlocks
    /\ buf' = [buf EXCEPT ![b] = v]
    /\ used' = [used EXCEPT ![p] = @ \cup {b}]
    /\ \/ /\ TooBig \/ OutsideTrans
          /\ rc' = "panic"
          /\ UNCHANGED <<pc, wblk>>
       \/ /\ ~(TooBig \/ OutsideTrans)
          /\ Goto(p, "append")
          /\ wblk' = [wblk EXCEPT ![p] = b]
          /\ UNCHANGED rc
    /\ UNCHANGED <<onDisk, inLog, dirty, tail>>

\* The header after log_write() of block b: a block logged already is
\* absorbed.
LhAfter(b) == IF \E i \in 1..Len(lh) : lh[i] = b THEN lh ELSE Append(lh, b)

\* Mutant of LogWrite: B_DIRTY is not set, so the block is not pinned.
LogWriteUnpinned(p) ==
  /\ At(p, "append")
  /\ lh' = LhAfter(wblk[p])
  /\ wblk' = [wblk EXCEPT ![p] = None]
  /\ Goto(p, "op")
  /\ UNCHANGED <<onDisk, outstanding, committing, cache, used, tail, rc>>

\* The rest of log_write() and brelse().
LogWrite(p) ==
  /\ At(p, "append")
  /\ lh' = LhAfter(wblk[p])
  /\ dirty' = dirty \cup {wblk[p]}
  /\ wblk' = [wblk EXCEPT ![p] = None]
  /\ Goto(p, "op")
  /\ UNCHANGED <<onDisk, outstanding, committing, buf, used, tail, rc>>

\* end_op() up to the release of the lock: the last operation commits, the
\* others only wake those waiting for space.
EndOp(p) ==
  /\ At(p, "op")
  /\ outstanding' = outstanding - 1
  /\ used' = [used EXCEPT ![p] = {}]
  /\ \/ /\ committing = 1
        /\ rc' = "panic"
        /\ UNCHANGED <<pc, committing>>
     \/ /\ committing = 0 /\ outstanding = 1
        /\ committing' = 1
        /\ Goto(p, IF lh = <<>> THEN "done" ELSE "wlog")
        /\ UNCHANGED rc
     \/ /\ committing = 0 /\ outstanding # 1
        /\ WakeAll(p, "idle")
        /\ UNCHANGED <<committing, rc>>
  /\ UNCHANGED <<onDisk, lh, cache, wblk, tail>>

\* The contents of a block as bread() returns it.
Contents(b) == IF buf[b] = None THEN disk[b] ELSE buf[b]

\* One turn of write_log(): the block as it is in the cache goes to the log.
WriteLog(p) ==
  /\ At(p, "wlog")
  /\ \/ /\ tail <= Len(lh)
        /\ logd' = [logd EXCEPT ![tail] = Contents(lh[tail])]
        /\ tail' = tail + 1
        /\ UNCHANGED pc
     \/ /\ tail > Len(lh)
        /\ Goto(p, "whead")
        /\ tail' = 1
        /\ UNCHANGED logd
  /\ UNCHANGED <<disk, head, inLog, cache, wblk, used, rc>>

\* write_head(): the commit point.
WriteHead(p) ==
  /\ At(p, "whead")
  /\ head' = lh
  /\ Goto(p, "install")
  /\ UNCHANGED <<disk, logd, inLog, cache, wblk, used, tail, rc>>

\* Mutant of InstallTrans: the last block is left out.
InstallTransShort(p) ==
  /\ At(p, "install")
  /\ \/ InstallBlock /\ tail < Len(lh) /\ UNCHANGED pc
     \/ /\ tail >= Len(lh)
        /\ Goto(p, "clear")
        /\ tail' = 1
        /\ UNCHANGED <<onDisk, cache>>
  /\ UNCHANGED <<inLog, wblk, used, rc>>

\* install_trans() in a commit.
InstallTrans(p) ==
  /\ At(p, "install")
  /\ \/ InstallBlock /\ UNCHANGED pc
     \/ /\ tail > Len(lh)
        /\ Goto(p, "clear")
        /\ tail' = 1
        /\ UNCHANGED <<onDisk, cache>>
  /\ UNCHANGED <<inLog, wblk, used, rc>>

\* lh.n = 0 and write_head() in a commit.
EraseLog(p) ==
  /\ At(p, "clear")
  /\ ClearLog
  /\ Goto(p, "done")
  /\ UNCHANGED <<outstanding, committing, cache, wblk, used, tail, rc>>

\* Mutant of CommitDone: nobody is woken.
CommitDoneSilent(p) ==
  /\ At(p, "done")
  /\ committing' = 0
  /\ Goto(p, "idle")
  /\ UNCHANGED <<onDisk, lh, outstanding, cache, wblk, used, tail, rc>>

\* The end of end_op(), with the lock again.
CommitDone(p) ==
  /\ At(p, "done")
  /\ committing' = 0
  /\ WakeAll(p, "idle")
  /\ UNCHANGED <<onDisk, lh, outstanding, cache, wblk, used, tail, rc>>

-----------------------------------------------------------------------------
(* The cache.                                                              *)

\* bread() of a block for reading, by anyone.
Read(b) ==
  /\ rc = "up"
  /\ buf[b] = None
  /\ buf' = [buf EXCEPT ![b] = disk[b]]
  /\ UNCHANGED <<onDisk, inLog, dirty, threads, tail, rc>>

\* What bget() may recycle: no reference and not dirty.
Evictable(b) == b \notin Held \cup dirty

Evict(b) ==
  /\ rc = "up"
  /\ buf[b] # None
  /\ Evictable(b)
  /\ buf' = [buf EXCEPT ![b] = None]
  /\ UNCHANGED <<onDisk, inLog, dirty, threads, tail, rc>>

-----------------------------------------------------------------------------
Recovery == ReadHead \/ RecoverInstall \/ RecoverClear

\* What a process inside begin_op(), end_op() or log_write() does next.
Advance(p) ==
  \/ BeginOp(p) \/ LogWrite(p)
  \/ WriteLog(p) \/ WriteHead(p) \/ InstallTrans(p) \/ EraseLog(p)
  \/ CommitDone(p)

Next ==
  \/ Recovery \/ Crash
  \/ \E p \in Proc : Call(p) \/ Write(p) \/ EndOp(p) \/ Advance(p)
  \/ \E b \in Block : Read(b) \/ Evict(b)

Spec == Init /\ [][Next]_vars

\* Threads in the kernel go on (the scheduler is fair, the disk answers) and
\* every operation ends after finitely many writes; nobody has to start one.
FairSpec ==
  /\ Spec
  /\ WF_vars(Recovery)
  /\ \A p \in Proc : WF_vars(Advance(p)) /\ SF_vars(EndOp(p))

-----------------------------------------------------------------------------
(* Properties.                                                             *)

InOp(p) == pc[p] \in {"op", "append"}

\* What recovery would leave in block b after a crash now.
Recovered ==
  [b \in Block |->
     IF \E i \in 1..Len(head) : head[i] = b
       THEN logd[CHOOSE i \in 1..Len(head) : head[i] = b]
       ELSE disk[b]]

\* What readers see: the cache over the disk, or the recovered disk while the
\* machine is down.
Visible == IF rc = "up" THEN [b \in Block |-> Contents(b)] ELSE Recovered

\* The log implements an atomic disk: a crash at any point, in a commit or in
\* recovery, leaves all updates of a group or none of them, and never those
\* of an operation under way.
Atomic == INSTANCE AtomicDisk WITH
  mem <- Visible,
  dur <- Recovered,
  active <- {p \in Proc : InOp(p)}
Atomicity == Atomic!Spec

\* When no operation and no commit is under way, everything is durable: the
\* last end_op() does not return before its group is on disk.
DurableWhenQuiet ==
  (rc = "up" /\ \A p \in Proc : pc[p] \in {"idle", "begin", "asleep"})
    => Recovered = Visible

\* Of the running operations, the blocks they have written that are logged.
Logged ==
  {w \in Proc \X Block : /\ InOp(w[1]) /\ w[2] \in used[w[1]]
                         /\ \E i \in 1..Len(lh) : lh[i] = w[2]}

\* The log is never overrun: what is logged and what the running operations
\* may still log fit together, so that log_write()'s unlocked test is enough
\* and no panic of log_write() or end_op() is reached.
Reservation ==
  /\ rc # "panic"
  /\ Len(lh) + MAXOPBLOCKS * Cardinality({p \in Proc : InOp(p)})
       - Cardinality(Logged) <= LOGSIZE

\* A block changed since the last commit is pinned in the cache or held, and
\* every clean cached block is as on disk: eviction loses nothing.
CacheCoherent ==
  rc = "up" => \A b \in Block \ (Held \cup dirty) : buf[b] \in {None, disk[b]}

\* Whoever sleeps in begin_op() is woken.
SleeperWoken ==
  \A p \in Proc : pc[p] = "asleep" ~> pc[p] # "asleep"
=============================================================================
