----------------------------- MODULE LogProofs -----------------------------
(***************************************************************************)
(* Proofs about Log, for any number of processes, blocks and values and    *)
(* any sizes that satisfy LogAssumption.  IInv is the inductive invariant: *)
(*   Threads     who holds a buffer and who commits;                       *)
(*   Operations  outstanding counts the operations, and what each has      *)
(*               written is logged or about to be;                         *)
(*   Space       the reservations of the running operations fit;           *)
(*   Headers     how the header on disk follows the one in memory;         *)
(*   Copies      which copies of a block agree, at each step of a commit   *)
(*               and of recovery.                                          *)
(***************************************************************************)
EXTENDS Log, Numbers, FiniteSetTheorems

\* The operations under way.
Ops == {p \in Proc : InOp(p)}

\* Sequence s has the entry b.
Has(s, b) == \E i \in 1..Len(s) : s[i] = b

\* Where commit() is while the log holds blocks.
Flush == {"wlog", "whead", "install", "clear"}

\* A buffer is held by one process only, from its change to log_write(); one
\* process commits, while no operation is under way; and recovery is alone.
Threads ==
  /\ \A p \in Proc : wblk[p] # None <=> pc[p] = "append"
  /\ \A p, q \in Proc : wblk[p] = wblk[q] /\ wblk[p] # None => p = q
  /\ \A p, q \in Proc :
       pc[p] \in Flush \cup {"done"} =>
         /\ committing = 1
         /\ pc[q] \in Flush \cup {"done"} => p = q
  /\ committing = 1 => Ops = {}
  /\ rc # "up" => \A p \in Proc : pc[p] = "idle"

Operations ==
  /\ \A p \in Proc :
       /\ ~InOp(p) => used[p] = {}
       /\ pc[p] = "append" => wblk[p] \in used[p]
       /\ \A b \in used[p] : Has(lh, b) \/ b = wblk[p]
       /\ IsFiniteSet(used[p]) /\ Cardinality(used[p]) <= OpBlocks
  /\ IsFiniteSet(Ops) /\ outstanding = Cardinality(Ops)

\* The second bound holds because no operation fills its reservation; it is
\* what keeps log_write() off its panic, as the log has a block less than the
\* header has entries.
Space ==
  /\ rc # "panic"
  /\ Len(lh) + (MAXOPBLOCKS * outstanding) <= LOGSIZE + Cardinality(Logged)
  /\ outstanding > 0 =>
       (Len(lh) + ((MAXOPBLOCKS - 1) * outstanding)) + 2
         <= LOGSIZE + Cardinality(Logged)

Injective(s) == \A i, j \in 1..Len(s) : s[i] = s[j] => i = j

Headers ==
  /\ Injective(lh) /\ Injective(head)
  /\ rc = "read" => lh = <<>>
  /\ rc \in {"install", "clear"} => lh = head
  /\ \A p \in Proc : pc[p] \in {"install", "clear"} => lh = head
  /\ rc = "up" /\ (\A p \in Proc : pc[p] \notin {"install", "clear"})
       => head = <<>>
  /\ rc = "up" /\ Ops = {} /\ (\A p \in Proc : pc[p] \notin Flush)
       => lh = <<>>
  /\ rc # "install" /\ (\A p \in Proc : pc[p] \notin {"wlog", "install"})
       => tail = 1

\* Block b is logged and has not been installed.
Unsaved(b) ==
  \E i \in 1..Len(lh) :
    /\ lh[i] = b
    /\ \A p \in Proc : pc[p] # "clear" /\ (pc[p] = "install" => tail <= i)

\* A dirty block is logged and not yet installed; recovery has no cache.
Pinned ==
  /\ rc # "up" => dirty = {}
  /\ \A b \in dirty : Unsaved(b)

\* A cached block that is neither held nor dirty is as on disk.
Clean == \A b \in Block : b \in Held \cup dirty \/ buf[b] \in {None, disk[b]}

\* What a read of each block returns.
Seen == [b \in Block |-> Contents(b)]

\* The log blocks that write_log() has written are the blocks as they are
\* read, and the homes that install_trans() has written are the log blocks.
Written ==
  \A i \in 1..Len(lh) :
    /\ \A p \in Proc :
         /\ pc[p] = "wlog" /\ i < tail => logd[i] = Seen[lh[i]]
         /\ pc[p] \in {"whead", "install", "clear"} => logd[i] = Seen[lh[i]]
         /\ pc[p] = "install" /\ i < tail => disk[lh[i]] = logd[i]
         /\ pc[p] = "clear" => disk[lh[i]] = logd[i]
    /\ rc = "install" /\ i < tail => disk[lh[i]] = logd[i]
    /\ rc = "clear" => disk[lh[i]] = logd[i]

Copies == Pinned /\ Clean /\ Written

IInv == TypeOK /\ Threads /\ Operations /\ Space /\ Headers /\ Copies

-----------------------------------------------------------------------------
(* Counting.                                                               *)

\* One more and one less of a multiple.
LEMMA Times ==
  ASSUME NEW k \in Nat, NEW n \in Nat
  PROVE  /\ k * n \in Nat
         /\ k * (n + 1) = (k * n) + k
         /\ n > 0 => k * (n - 1) = (k * n) - k
  OBVIOUS

\* Sets of at most k elements, one for each element of S, have at most k|S|
\* elements together, counted apart.
LEMMA Pairs ==
  ASSUME NEW S, IsFiniteSet(S), NEW U, NEW k \in Nat,
         \A p \in S : IsFiniteSet(U[p]) /\ Cardinality(U[p]) <= k
  PROVE  LET P == UNION {{p} \X U[p] : p \in S}
         IN  IsFiniteSet(P) /\ Cardinality(P) <= k * Cardinality(S)
  <1> DEFINE P(R) == UNION {{p} \X U[p] : p \in R}
             Small(R) == IsFiniteSet(P(R)) /\ Cardinality(P(R)) <= k * Cardinality(R)
             N == Cardinality(S)
             T == {n \in Nat : \A R \in SUBSET S : Cardinality(R) = n => Small(R)}
  <1>0. N \in Nat
    BY FS_CardinalityType
  <1>1. 0 \in T
    <2> SUFFICES ASSUME NEW R \in SUBSET S, Cardinality(R) = 0 PROVE Small(R)
      OBVIOUS
    <2>1. R = {}
      BY FS_Subset, FS_EmptySet
    <2>2. P(R) = {}
      BY <2>1
    <2> HIDE DEF P
    <2>3. IsFiniteSet(P(R)) /\ Cardinality(P(R)) = 0 /\ k * 0 = 0
      BY <2>2, FS_EmptySet
    <2> QED
      BY <2>3
  <1>2. ASSUME NEW n \in 0..(N - 1), n \in T PROVE n + 1 \in T
    <2> SUFFICES ASSUME NEW R \in SUBSET S, Cardinality(R) = n + 1 PROVE Small(R)
      OBVIOUS
    <2>1. IsFiniteSet(R) /\ R # {}
      BY FS_Subset, FS_EmptySet
    <2>2. PICK x : x \in R
      BY <2>1
    <2> DEFINE Q == R \ {x}
               A == P(Q)
               B == {x} \X U[x]
    <2>3. Cardinality(Q) = n
      <3>1. Cardinality(Q) = IF x \in R THEN Cardinality(R) - 1 ELSE Cardinality(R)
        BY <2>1, FS_RemoveElement, Zenon
      <3> HIDE DEF Q
      <3> QED
        BY <2>2, <3>1
    <2>4. Q \in SUBSET S
      OBVIOUS
    <2>5. Small(Q)
      <3> HIDE DEF Small, Q
      <3> QED
        BY <1>2, <2>3, <2>4
    <2>6. IsFiniteSet(A) /\ Cardinality(A) <= k * n
      BY <2>3, <2>5
    <2>7. IsFiniteSet(B) /\ Cardinality(B) <= k
      <3>1. IsFiniteSet(U[x]) /\ Cardinality(U[x]) <= k
        BY <2>2
      <3>2. Cardinality(U[x]) \in Nat
        BY <3>1, FS_CardinalityType
      <3>3. IsFiniteSet({x}) /\ Cardinality({x}) = 1
        BY FS_Singleton
      <3>4. IsFiniteSet(B) /\ Cardinality(B) = Cardinality({x}) * Cardinality(U[x])
        BY <3>1, <3>3, FS_Product
      <3> QED
        BY <3>1, <3>2, <3>3, <3>4
    <2>8. P(R) = A \cup B
      BY <2>2
    <2> HIDE DEF A, B, P, Q
    <2>9. /\ IsFiniteSet(A \cup B)
          /\ Cardinality(A \cup B) =
                 Cardinality(A) + Cardinality(B) - Cardinality(A \cap B)
      BY <2>6, <2>7, FS_Union, Zenon
    <2>10. Cardinality(A) \in Nat /\ Cardinality(B) \in Nat /\ Cardinality(A \cap B) \in Nat
      BY <2>6, <2>7, FS_CardinalityType, FS_Intersection
    <2>11. k * (n + 1) = (k * n) + k /\ k * n \in Nat
      BY Times
    <2>12. Cardinality(P(R)) <= k * (n + 1)
      BY <2>6, <2>7, <2>8, <2>9, <2>10, <2>11
    <2>13. IsFiniteSet(P(R))
      BY <2>8, <2>9, Zenon
    <2> QED
      BY <2>12, <2>13
  <1>3. 0..N \subseteq T
    <2> HIDE DEF T
    <2> QED
      BY <1>0, <1>1, <1>2, UpTo
  <1>4. N \in T
    BY <1>0, <1>3
  <1>5. Small(S)
    BY <1>4
  <1> QED
    BY <1>5

\* What the running operations have logged is less than their reservations by
\* a block for each of them.
LEMMA LoggedBound ==
  ASSUME TypeOK, Operations
  PROVE  /\ outstanding \in Nat
         /\ IsFiniteSet(Logged)
         /\ Cardinality(Logged) \in Nat
         /\ Cardinality(Logged) <= (MAXOPBLOCKS - 1) * outstanding
  <1> DEFINE k == MAXOPBLOCKS - 1
             P == UNION {{p} \X used[p] : p \in Ops}
  <1>1. k \in Nat /\ OpBlocks \in Nat /\ OpBlocks <= k
    BY LogAssumption
  <1>2. IsFiniteSet(Ops) /\ outstanding = Cardinality(Ops)
    BY DEF Operations
  <1>3. \A p \in Ops : IsFiniteSet(used[p]) /\ Cardinality(used[p]) <= k
    <2> SUFFICES ASSUME NEW p \in Ops
                 PROVE  IsFiniteSet(used[p]) /\ Cardinality(used[p]) <= k
      OBVIOUS
    <2>1. IsFiniteSet(used[p]) /\ Cardinality(used[p]) <= OpBlocks
      BY DEF Operations, Ops
    <2>2. Cardinality(used[p]) \in Nat
      BY <2>1, FS_CardinalityType
    <2> QED
      BY <1>1, <2>1, <2>2
  <1>4. IsFiniteSet(P) /\ Cardinality(P) <= k * Cardinality(Ops)
    <2> HIDE DEF k
    <2> QED
      BY <1>1, <1>2, <1>3, Pairs
  <1>5. Logged \in SUBSET P
    BY DEF Logged, Ops
  <1>6. IsFiniteSet(Logged) /\ Cardinality(Logged) <= Cardinality(P)
    <2> HIDE DEF P
    <2> QED
      BY <1>4, <1>5, FS_Subset
  <1>7. Cardinality(Logged) \in Nat /\ Cardinality(P) \in Nat /\ outstanding \in Nat
    BY <1>2, <1>4, <1>6, FS_CardinalityType
  <1>8. k * outstanding \in Nat
    BY <1>1, <1>7, Times
  <1> QED
    BY <1>2, <1>4, <1>6, <1>7, <1>8

\* While an operation is under way the log has room for a block, so that
\* neither panic of log_write() is reached.
LEMMA Room ==
  ASSUME IInv, NEW p \in Proc, InOp(p)
  PROVE  /\ outstanding > 0
         /\ Len(lh) + 2 <= LOGSIZE
         /\ ~TooBig /\ ~OutsideTrans
         /\ committing = 0
  <1>0. TypeOK /\ Operations /\ Space /\ Threads
    BY DEF IInv
  <1>1. p \in Ops
    BY DEF Ops
  <1>2. outstanding > 0
    <2>1. IsFiniteSet(Ops) /\ outstanding = Cardinality(Ops)
      BY <1>0 DEF Operations
    <2>2. Cardinality(Ops) # 0
      BY <1>1, <2>1, FS_EmptySet
    <2>3. Cardinality(Ops) \in Nat
      BY <2>1, FS_CardinalityType
    <2> QED
      BY <2>1, <2>2, <2>3
  <1>3. /\ outstanding \in Nat
        /\ Cardinality(Logged) \in Nat
        /\ Cardinality(Logged) <= (MAXOPBLOCKS - 1) * outstanding
    BY <1>0, LoggedBound
  <1>4. (Len(lh) + ((MAXOPBLOCKS - 1) * outstanding)) + 2
          <= LOGSIZE + Cardinality(Logged)
    BY <1>0, <1>2 DEF Space
  <1>5. Len(lh) \in Nat
    BY <1>0 DEF TypeOK
  <1>6. MAXOPBLOCKS - 1 \in Nat /\ LOGSIZE \in Nat /\ nlog = LOGSIZE
    BY LogAssumption
  <1>7. (MAXOPBLOCKS - 1) * outstanding \in Nat
    BY <1>3, <1>6, Times
  <1>8. Len(lh) + 2 <= LOGSIZE
    BY <1>3, <1>4, <1>5, <1>6, <1>7
  <1>9. ~TooBig /\ ~OutsideTrans
    BY <1>2, <1>3, <1>5, <1>6, <1>8 DEF TooBig, OutsideTrans
  <1>10. committing = 0
    BY <1>0, <1>1 DEF Threads, TypeOK
  <1> QED
    BY <1>2, <1>8, <1>9, <1>10

-----------------------------------------------------------------------------
(* The actions without the panics.                                         *)

\* A change of a block enters log_write().
LEMMA WriteEffect ==
  ASSUME IInv, NEW p \in Proc, Write(p)
  PROVE  \E b \in Block \ Held, v \in Val :
           /\ rc = "up" /\ pc[p] = "op"
           /\ Cardinality(used[p] \cup {b}) <= OpBlocks
           /\ buf' = [buf EXCEPT ![b] = v]
           /\ used' = [used EXCEPT ![p] = @ \cup {b}]
           /\ pc' = [pc EXCEPT ![p] = "append"]
           /\ wblk' = [wblk EXCEPT ![p] = b]
           /\ UNCHANGED <<onDisk, inLog, dirty, tail, rc>>
  <1>1. InOp(p)
    BY DEF Write, At, InOp
  <1>2. ~TooBig /\ ~OutsideTrans
    BY <1>1, Room
  <1> QED
    BY <1>2 DEF Write, At, Goto

\* end_op() commits or goes on.
LEMMA EndEffect ==
  ASSUME IInv, NEW p \in Proc, EndOp(p)
  PROVE  /\ rc = "up" /\ pc[p] = "op" /\ committing = 0
         /\ outstanding' = outstanding - 1
         /\ used' = [used EXCEPT ![p] = {}]
         /\ \/ /\ outstanding = 1
               /\ committing' = 1
               /\ pc' = [pc EXCEPT ![p] = IF lh = <<>> THEN "done" ELSE "wlog"]
            \/ /\ outstanding # 1
               /\ committing' = 0
               /\ WakeAll(p, "idle")
         /\ UNCHANGED <<onDisk, lh, cache, wblk, tail, rc>>
  <1>1. InOp(p)
    BY DEF EndOp, At, InOp
  <1>2. committing = 0
    BY <1>1, Room
  <1> QED
    BY <1>2 DEF EndOp, At, Goto

-----------------------------------------------------------------------------
(* Types.                                                                  *)

\* The types are right at boot.
LEMMA TypeInit ==
  ASSUME Init
  PROVE  TypeOK
  <1>1. nlog \in Nat /\ 1 <= nlog /\ Zero \in Val
    BY LogAssumption
  <1> QED
    BY <1>1 DEF Init, TypeOK

\* Installing a block keeps the types.
LEMMA TypeInstall ==
  ASSUME TypeOK, InstallBlock
  PROVE  /\ disk' \in [Block -> Val]
         /\ buf' \in [Block -> Val \cup {None}]
         /\ dirty' \subseteq Block
         /\ tail' \in 1..nlog
         /\ UNCHANGED <<logd, head>>
  <1>1. nlog \in Nat /\ tail \in 1..nlog /\ Len(lh) \in Nat /\ Len(lh) < nlog
    BY LogAssumption DEF TypeOK
  <1>2. tail <= Len(lh)
    BY DEF InstallBlock
  <1>3. tail \in 1..(nlog - 1) /\ tail \in 1..Len(lh) /\ tail + 1 \in 1..nlog
    BY <1>1, <1>2
  <1>4. logd[tail] \in Val /\ lh[tail] \in Block
    BY <1>3 DEF TypeOK
  <1> QED
    BY <1>3, <1>4 DEF InstallBlock, TypeOK

\* Every step keeps the types.
LEMMA TypeStep ==
  ASSUME IInv, [Next]_vars
  PROVE  TypeOK'
  <1>0. TypeOK
    BY DEF IInv
  <1>N. nlog \in Nat /\ 1 <= nlog /\ nlog = LOGSIZE
    BY LogAssumption
  <1>1. CASE ReadHead
    BY <1>0, <1>1, <1>N DEF ReadHead, TypeOK, onDisk, cache, threads
  <1>2. CASE RecoverInstall
    <2>1. CASE InstallBlock /\ UNCHANGED rc
      BY <1>0, <1>2, <2>1, TypeInstall DEF RecoverInstall, TypeOK, inLog, threads
    <2>2. CASE tail' = 1 /\ rc' = "clear" /\ UNCHANGED <<onDisk, cache>>
      BY <1>0, <1>2, <1>N, <2>2
        DEF RecoverInstall, TypeOK, inLog, threads, onDisk, cache
    <2> QED
      BY <1>2, <2>1, <2>2 DEF RecoverInstall
  <1>3. CASE RecoverClear
    BY <1>0, <1>3, <1>N DEF RecoverClear, ClearLog, TypeOK, cache, threads
  <1>4. CASE Crash
    BY <1>0, <1>4, <1>N DEF Crash, TypeOK, onDisk
  <1>5. ASSUME NEW p \in Proc, Call(p) PROVE TypeOK'
    BY <1>0, <1>5 DEF Call, At, Goto, TypeOK, onDisk, inLog, cache
  <1>6. ASSUME NEW p \in Proc, Write(p) PROVE TypeOK'
    <2>1. PICK b \in Block \ Held, v \in Val :
            /\ buf' = [buf EXCEPT ![b] = v]
            /\ used' = [used EXCEPT ![p] = @ \cup {b}]
            /\ pc' = [pc EXCEPT ![p] = "append"]
            /\ wblk' = [wblk EXCEPT ![p] = b]
            /\ UNCHANGED <<onDisk, inLog, dirty, tail, rc>>
      BY <1>6, WriteEffect, ZenonT(40)
    <2>2. /\ buf' \in [Block -> Val \cup {None}] /\ used' \in [Proc -> SUBSET Block]
          /\ wblk' \in [Proc -> Block \cup {None}]
      BY <1>0, <2>1 DEF TypeOK
    <2>3. pc' \in [Proc -> {"idle", "begin", "asleep", "op", "append",
                           "wlog", "whead", "install", "clear", "done"}]
      BY <1>0, <2>1 DEF TypeOK
    <2>4. UNCHANGED <<onDisk, inLog, dirty, tail, rc>>
      BY <2>1
    <2> QED
      BY <1>0, <2>2, <2>3, <2>4 DEF TypeOK, onDisk, inLog
  <1>7. ASSUME NEW p \in Proc, EndOp(p) PROVE TypeOK'
    <2>1. InOp(p)
      BY <1>7 DEF EndOp, At, InOp
    <2>2. outstanding - 1 \in Nat
      BY <1>0, <2>1, Room DEF TypeOK
    <2> QED
      <3>1. /\ outstanding' = outstanding - 1
            /\ used' = [used EXCEPT ![p] = {}]
            /\ UNCHANGED <<onDisk, lh, cache, wblk, tail, rc>>
        BY <1>7, EndEffect, Zenon
      <3>2. \/ /\ committing' = 1
               /\ pc' = [pc EXCEPT ![p] = IF lh = <<>> THEN "done" ELSE "wlog"]
            \/ committing' = 0 /\ WakeAll(p, "idle")
        BY <1>7, EndEffect, Zenon
      <3>3. committing' \in {0, 1} /\ pc' \in [Proc ->
              {"idle", "begin", "asleep", "op", "append",
               "wlog", "whead", "install", "clear", "done"}]
        BY <1>0, <3>2 DEF WakeAll, TypeOK
      <3> QED
        BY <1>0, <2>2, <3>1, <3>3 DEF TypeOK, onDisk, cache
  <1>8. ASSUME NEW p \in Proc, BeginOp(p) PROVE TypeOK'
    <2>1. /\ \/ pc' = [pc EXCEPT ![p] = "asleep"] /\ outstanding' = outstanding
             \/ pc' = [pc EXCEPT ![p] = "op"] /\ outstanding' = outstanding + 1
          /\ UNCHANGED <<onDisk, lh, committing, cache, wblk, used, tail, rc>>
      BY <1>8 DEF BeginOp, Goto
    <2>2. outstanding' \in Nat
      BY <1>0, <2>1 DEF TypeOK
    <2> QED
      BY <1>0, <2>1, <2>2 DEF TypeOK, onDisk, cache
  <1>9. ASSUME NEW p \in Proc, LogWrite(p) PROVE TypeOK'
    <2>1. InOp(p) /\ pc[p] = "append"
      BY <1>9 DEF LogWrite, At, InOp
    <2>2. Len(lh) + 2 <= LOGSIZE
      BY <2>1, Room
    <2>3. wblk[p] \in Block
      BY <1>0, <2>1 DEF IInv, Threads, TypeOK
    <2>4. LhAfter(wblk[p]) \in Seq(Block) /\ Len(LhAfter(wblk[p])) < nlog
      BY <1>0, <1>N, <2>2, <2>3 DEF LhAfter, TypeOK
    <2> QED
      BY <1>0, <1>9, <2>3, <2>4 DEF LogWrite, At, Goto, TypeOK, onDisk
  <1>10. ASSUME NEW p \in Proc, WriteLog(p) PROVE TypeOK'
    <2>1. CASE tail <= Len(lh)
      <3>1. tail \in 1..Len(lh) /\ tail + 1 \in 1..nlog
        BY <1>0, <1>N, <2>1 DEF TypeOK
      <3>2. Contents(lh[tail]) \in Val
        BY <1>0, <3>1 DEF Contents, TypeOK
      <3> QED
        BY <1>0, <1>10, <2>1, <3>1, <3>2 DEF WriteLog, TypeOK, inLog, cache
    <2>2. CASE ~(tail <= Len(lh))
      <3>0. tail \in Int /\ Len(lh) \in Int
        BY <1>0, <1>N DEF TypeOK
      <3>1. /\ tail' = 1 /\ pc' = [pc EXCEPT ![p] = "whead"]
            /\ UNCHANGED <<onDisk, inLog, cache, wblk, used, rc>>
        BY <1>10, <2>2, <3>0 DEF WriteLog, Goto, onDisk
      <3>2. tail' \in 1..nlog
        BY <1>N, <3>1
      <3>3. pc' \in [Proc -> {"idle", "begin", "asleep", "op", "append",
                             "wlog", "whead", "install", "clear", "done"}]
        BY <1>0, <3>1 DEF TypeOK
      <3> QED
        BY <1>0, <3>1, <3>2, <3>3 DEF TypeOK, onDisk, inLog, cache
    <2> QED
      BY <2>1, <2>2
  <1>11. ASSUME NEW p \in Proc, WriteHead(p) PROVE TypeOK'
    BY <1>0, <1>11 DEF WriteHead, Goto, TypeOK, inLog, cache
  <1>12. ASSUME NEW p \in Proc, InstallTrans(p) PROVE TypeOK'
    <2>1. CASE InstallBlock /\ UNCHANGED pc
      BY <1>0, <1>12, <2>1, TypeInstall DEF InstallTrans, TypeOK, inLog
    <2>2. CASE tail' = 1 /\ Goto(p, "clear") /\ UNCHANGED <<onDisk, cache>>
      BY <1>0, <1>12, <1>N, <2>2
        DEF InstallTrans, Goto, TypeOK, inLog, onDisk, cache
    <2> QED
      BY <1>12, <2>1, <2>2 DEF InstallTrans
  <1>13. ASSUME NEW p \in Proc, EraseLog(p) PROVE TypeOK'
    BY <1>0, <1>13, <1>N DEF EraseLog, ClearLog, Goto, TypeOK, cache
  <1>14. ASSUME NEW p \in Proc, CommitDone(p) PROVE TypeOK'
    BY <1>0, <1>14 DEF CommitDone, WakeAll, TypeOK, onDisk, cache
  <1>15. ASSUME NEW b \in Block, Read(b) PROVE TypeOK'
    BY <1>0, <1>15 DEF Read, TypeOK, onDisk, inLog, threads
  <1>16. ASSUME NEW b \in Block, Evict(b) PROVE TypeOK'
    BY <1>0, <1>16 DEF Evict, TypeOK, onDisk, inLog, threads
  <1>17. CASE UNCHANGED vars
    BY <1>0, <1>17 DEF TypeOK, vars, onDisk, inLog, cache, threads
  <1> QED
    BY <1>1, <1>2, <1>3, <1>4, <1>5, <1>6, <1>7, <1>8, <1>9, <1>10, <1>11,
       <1>12, <1>13, <1>14, <1>15, <1>16, <1>17
    DEF Next, Recovery, Advance

-----------------------------------------------------------------------------
(* Threads.                                                                *)

\* A step that moves no process keeps Threads.
LEMMA ThreadsSame ==
  ASSUME Threads, UNCHANGED <<pc, wblk, committing>>, rc' \in {rc, "up"}
  PROVE  Threads'
  BY DEF Threads, Ops, InOp

\* The operation that ends last leaves none under way.
LEMMA LastOp ==
  ASSUME Operations, NEW p \in Ops, outstanding = 1
  PROVE  Ops = {p}
  <1>1. IsFiniteSet(Ops) /\ Cardinality(Ops) = 1
    BY DEF Operations
  <1>2. \E x : Ops = {x}
    BY <1>1, FS_Singleton
  <1> QED
    BY <1>2

\* Every step keeps Threads.
LEMMA ThreadsStep ==
  ASSUME IInv, [Next]_vars
  PROVE  Threads'
  <1>0. TypeOK /\ Threads /\ Operations /\ Headers
    BY DEF IInv
  <1>1. CASE ReadHead
    BY <1>0, <1>1 DEF ReadHead, Threads, Ops, InOp, threads
  <1>2. CASE RecoverInstall
    <2>1. UNCHANGED <<pc, wblk, committing>> /\ rc # "up"
      BY <1>2 DEF RecoverInstall, inLog, threads
    <2> QED
      BY <1>0, <2>1 DEF Threads, Ops, InOp
  <1>3. CASE RecoverClear
    BY <1>0, <1>3, ThreadsSame DEF RecoverClear, threads
  <1>4. CASE Crash
    <2>1. /\ wblk' = [p \in Proc |-> None] /\ pc' = [p \in Proc |-> "idle"]
          /\ committing' = 0
      BY <1>4 DEF Crash
    <2> QED
      BY <2>1 DEF Threads, Ops, InOp, Flush
  <1>5. ASSUME NEW p \in Proc, Call(p) PROVE Threads'
    <2>1. /\ rc = "up" /\ pc[p] = "idle" /\ pc' = [pc EXCEPT ![p] = "begin"]
          /\ UNCHANGED <<wblk, committing, rc>>
      BY <1>5 DEF Call, At, Goto, inLog
    <2> QED
      BY <1>0, <2>1 DEF Threads, Ops, InOp, Flush, TypeOK
  <1>6. ASSUME NEW p \in Proc, Write(p) PROVE Threads'
    <2>1. PICK b \in Block \ Held :
            /\ rc = "up" /\ pc[p] = "op"
            /\ pc' = [pc EXCEPT ![p] = "append"]
            /\ wblk' = [wblk EXCEPT ![p] = b]
            /\ UNCHANGED <<onDisk, inLog, dirty, tail, rc>>
      BY <1>6, WriteEffect, Zenon
    <2>2. UNCHANGED <<committing, rc>>
      BY <2>1 DEF inLog
    <2>3. b # None /\ \A q \in Proc : wblk[q] # b
      BY LogAssumption DEF Held
    <2>4. wblk[p] = None
      BY <1>0, <2>1 DEF Threads
    <2>5. Ops' = Ops
      BY <1>0, <2>1 DEF Ops, InOp, TypeOK
    <2>6. \A q \in Proc : wblk'[q] = (IF q = p THEN b ELSE wblk[q])
      BY <1>0, <2>1 DEF TypeOK
    <2>7. \A q \in Proc : pc'[q] = (IF q = p THEN "append" ELSE pc[q])
      BY <1>0, <2>1 DEF TypeOK
    <2> QED
      BY <1>0, <2>1, <2>2, <2>3, <2>4, <2>5, <2>6, <2>7 DEF Threads, Flush
  <1>7. ASSUME NEW p \in Proc, EndOp(p) PROVE Threads'
    <2>1. /\ rc = "up" /\ pc[p] = "op" /\ committing = 0
          /\ UNCHANGED <<onDisk, lh, cache, wblk, tail, rc>>
      BY <1>7, EndEffect, Zenon
    <2>2. wblk[p] = None /\ \A q \in Proc : pc[q] \notin Flush \cup {"done"}
      BY <1>0, <2>1 DEF Threads
    <2>3. CASE outstanding = 1
      <3>1. /\ committing' = 1
            /\ pc' = [pc EXCEPT ![p] = IF lh = <<>> THEN "done" ELSE "wlog"]
        BY <1>7, <2>3, EndEffect, Zenon
      <3>2. Ops = {p}
        BY <1>0, <2>1, <2>3, LastOp DEF Ops, InOp
      <3>3. Ops' = {}
        BY <1>0, <3>1, <3>2 DEF Ops, InOp, TypeOK
      <3> QED
        BY <1>0, <2>1, <2>2, <3>1, <3>3 DEF Threads, Flush, TypeOK
    <2>4. CASE outstanding # 1
      <3>1. /\ committing' = 0
            /\ WakeAll(p, "idle")
        BY <1>7, <2>4, EndEffect, Zenon
      <3> QED
        BY <1>0, <2>1, <2>2, <3>1 DEF Threads, Flush, TypeOK, WakeAll
    <2> QED
      BY <2>3, <2>4
  <1>8. ASSUME NEW p \in Proc, BeginOp(p) PROVE Threads'
    <2>1. /\ rc = "up" /\ pc[p] = "begin"
          /\ UNCHANGED <<wblk, committing, rc>>
          /\ \/ pc' = [pc EXCEPT ![p] = "asleep"]
             \/ committing = 0 /\ pc' = [pc EXCEPT ![p] = "op"]
      BY <1>8 DEF BeginOp, At, Goto, MayBegin
    <2> QED
      BY <1>0, <2>1 DEF Threads, Ops, InOp, Flush, TypeOK
  <1>9. ASSUME NEW p \in Proc, LogWrite(p) PROVE Threads'
    <2>1. /\ rc = "up" /\ pc[p] = "append"
          /\ pc' = [pc EXCEPT ![p] = "op"]
          /\ wblk' = [wblk EXCEPT ![p] = None]
          /\ UNCHANGED <<committing, rc>>
      BY <1>9 DEF LogWrite, At, Goto
    <2>2. Ops' = Ops
      BY <1>0, <2>1 DEF Ops, InOp, TypeOK
    <2>3. \A q \in Proc : wblk'[q] = (IF q = p THEN None ELSE wblk[q])
      BY <1>0, <2>1 DEF TypeOK
    <2>4. \A q \in Proc : pc'[q] = (IF q = p THEN "op" ELSE pc[q])
      BY <1>0, <2>1 DEF TypeOK
    <2> QED
      BY <1>0, <2>1, <2>2, <2>3, <2>4 DEF Threads, Flush
  <1>10. ASSUME NEW p \in Proc,
                WriteLog(p) \/ WriteHead(p) \/ InstallTrans(p) \/ EraseLog(p)
         PROVE  Threads'
    <2>1. PICK to \in {"wlog", "whead", "install", "clear", "done"} :
            pc' = [pc EXCEPT ![p] = to]
      <3>1. UNCHANGED pc => pc' = [pc EXCEPT ![p] = pc[p]]
        BY <1>0 DEF TypeOK
      <3> QED
        BY <1>10, <3>1
          DEF WriteLog, WriteHead, InstallTrans, EraseLog, At, Goto
    <2>2. /\ rc = "up" /\ pc[p] \in Flush
          /\ UNCHANGED <<wblk, committing, rc>>
      BY <1>10
        DEF WriteLog, WriteHead, InstallTrans, EraseLog, At, inLog, Flush
    <2> QED
      BY <1>0, <2>1, <2>2 DEF Threads, Ops, InOp, Flush, TypeOK
  <1>11. ASSUME NEW p \in Proc, CommitDone(p) PROVE Threads'
    <2>1. /\ rc = "up" /\ pc[p] = "done" /\ committing' = 0
          /\ WakeAll(p, "idle")
          /\ UNCHANGED <<wblk, rc>>
      BY <1>11 DEF CommitDone, At
    <2> QED
      BY <1>0, <2>1 DEF Threads, Flush, TypeOK, WakeAll
  <1>12. ASSUME NEW b \in Block, Read(b) \/ Evict(b) PROVE Threads'
    BY <1>0, <1>12, ThreadsSame DEF Read, Evict, inLog, threads
  <1>13. CASE UNCHANGED vars
    BY <1>0, <1>13, ThreadsSame DEF vars, inLog, threads
  <1> QED
    BY <1>1, <1>2, <1>3, <1>4, <1>5, <1>6, <1>7, <1>8, <1>9, <1>10, <1>11,
       <1>12, <1>13
    DEF Next, Recovery, Advance

-----------------------------------------------------------------------------
(* Operations.                                                             *)

\* A step outside the operations, that forgets no logged block of theirs,
\* keeps Operations.
LEMMA OperationsSame ==
  ASSUME Operations, UNCHANGED <<used, wblk, outstanding>>, Ops' = Ops,
         \A p \in Proc : pc'[p] = "append" => pc[p] = "append",
         lh' = lh \/ Ops = {}
  PROVE  Operations'
  <1>1. \A p \in Proc : InOp(p)' <=> InOp(p)
    BY DEF Ops
  <1>2. ASSUME NEW p \in Proc
        PROVE  /\ ~InOp(p)' => used'[p] = {}
               /\ pc'[p] = "append" => wblk'[p] \in used'[p]
               /\ IsFiniteSet(used'[p]) /\ Cardinality(used'[p]) <= OpBlocks
    BY <1>1 DEF Operations
  <1>3. ASSUME NEW p \in Proc, NEW b \in used'[p]
        PROVE  Has(lh', b) \/ b = wblk'[p]
    <2>1. Has(lh, b) \/ b = wblk[p]
      BY DEF Operations
    <2>2. Ops # {}
      BY <1>3 DEF Operations, Ops
    <2>3. lh' = lh
      BY <2>2
    <2> QED
      BY <2>1, <2>3 DEF Has
  <1>4. IsFiniteSet(Ops') /\ outstanding' = Cardinality(Ops')
    BY DEF Operations
  <1> QED
    BY <1>2, <1>3, <1>4 DEF Operations

\* log_write() leaves its block in the header, and no other new one.
LEMMA LogAfter ==
  ASSUME TypeOK, NEW p \in Proc, wblk[p] \in Block, lh' = LhAfter(wblk[p])
  PROVE  \A c : Has(lh', c) <=> Has(lh, c) \/ c = wblk[p]
  <1>1. CASE Has(lh, wblk[p])
    BY <1>1 DEF Has, LhAfter
  <1>2. CASE ~Has(lh, wblk[p])
    <2>1. lh' = Append(lh, wblk[p]) /\ lh \in Seq(Block)
      BY <1>2 DEF Has, LhAfter, TypeOK
    <2>2. Len(lh') = Len(lh) + 1 /\ Len(lh) \in Nat
      BY <2>1
    <2>3. lh'[Len(lh) + 1] = wblk[p] /\ \A i \in 1..Len(lh) : lh'[i] = lh[i]
      BY <2>1
    <2> QED
      BY <2>2, <2>3 DEF Has
  <1> QED
    BY <1>1, <1>2

\* Nobody is in an operation during recovery and during a commit.
LEMMA NoOps ==
  ASSUME Threads, rc # "up" \/ \E p \in Proc : pc[p] \in Flush \cup {"done"}
  PROVE  Ops = {}
  BY DEF Threads, Ops, InOp

\* Every step keeps Operations.
LEMMA OperationsStep ==
  ASSUME IInv, [Next]_vars
  PROVE  Operations'
  <1>0. TypeOK /\ Threads /\ Operations
    BY DEF IInv
  <1>1. CASE Recovery
    <2>1. rc # "up" /\ UNCHANGED <<used, wblk, outstanding, pc>>
      BY <1>1 DEF Recovery, ReadHead, RecoverInstall, RecoverClear, inLog, threads
    <2>2. Ops = {} /\ Ops' = Ops
      BY <1>0, <2>1, NoOps DEF Ops, InOp
    <2> QED
      BY <1>0, <2>1, <2>2, OperationsSame
  <1>2. CASE Crash
    <2>1. /\ used' = [p \in Proc |-> {}] /\ pc' = [p \in Proc |-> "idle"]
          /\ outstanding' = 0
      BY <1>2 DEF Crash
    <2>2. Ops' = {}
      BY <2>1 DEF Ops, InOp
    <2>3. OpBlocks \in Nat
      BY LogAssumption
    <2>4. IsFiniteSet({}) /\ Cardinality({}) = 0
      BY FS_EmptySet
    <2> QED
      BY <2>1, <2>2, <2>3, <2>4 DEF Operations
  <1>3. ASSUME NEW p \in Proc, Call(p) PROVE Operations'
    <2>1. /\ pc[p] = "idle" /\ pc' = [pc EXCEPT ![p] = "begin"]
          /\ UNCHANGED <<wblk, used, outstanding, lh>>
      BY <1>3 DEF Call, At, Goto, inLog
    <2>2. Ops' = Ops /\ \A q \in Proc : pc'[q] = "append" => pc[q] = "append"
      BY <1>0, <2>1 DEF Ops, InOp, TypeOK
    <2> QED
      BY <1>0, <2>1, <2>2, OperationsSame
  <1>4. ASSUME NEW p \in Proc, Write(p) PROVE Operations'
    <2>1. PICK b \in Block \ Held :
            /\ rc = "up" /\ pc[p] = "op"
            /\ Cardinality(used[p] \cup {b}) <= OpBlocks
            /\ used' = [used EXCEPT ![p] = @ \cup {b}]
            /\ pc' = [pc EXCEPT ![p] = "append"]
            /\ wblk' = [wblk EXCEPT ![p] = b]
            /\ UNCHANGED <<onDisk, inLog, dirty, tail, rc>>
      BY <1>4, WriteEffect, Zenon
    <2>2. UNCHANGED <<lh, outstanding>>
      BY <2>1 DEF inLog
    <2>3. Ops' = Ops /\ \A q \in Proc : InOp(q)' <=> InOp(q)
      BY <1>0, <2>1 DEF Ops, InOp, TypeOK
    <2>4. wblk[p] = None
      BY <1>0, <2>1 DEF Threads
    <2>5. \A c : Has(lh', c) <=> Has(lh, c)
      BY <2>2 DEF Has
    <2>6. \A q \in Proc : /\ wblk'[q] = (IF q = p THEN b ELSE wblk[q])
                          /\ used'[q] = (IF q = p THEN used[p] \cup {b} ELSE used[q])
                          /\ pc'[q] = (IF q = p THEN "append" ELSE pc[q])
      BY <1>0, <2>1 DEF TypeOK
    <2>7. IsFiniteSet(used[p] \cup {b})
      BY <1>0, FS_AddElement DEF Operations
    <2>8. InOp(p)
      BY <2>1 DEF InOp
    <2>9. ASSUME NEW q \in Proc
          PROVE  /\ ~InOp(q)' => used'[q] = {}
                 /\ pc'[q] = "append" => wblk'[q] \in used'[q]
                 /\ IsFiniteSet(used'[q]) /\ Cardinality(used'[q]) <= OpBlocks
      BY <1>0, <2>1, <2>3, <2>6, <2>7, <2>8 DEF Operations
    <2>10. ASSUME NEW q \in Proc, NEW c \in used'[q]
           PROVE  Has(lh', c) \/ c = wblk'[q]
      <3>1. CASE q = p
        <4>1. c = b \/ c \in used[p]
          BY <2>6, <3>1
        <4>2. c \in used[p] => Has(lh, c)
          BY <1>0, <2>4, LogAssumption DEF Operations, TypeOK
        <4> QED
          BY <2>5, <2>6, <3>1, <4>1, <4>2
      <3>2. CASE q # p
        BY <1>0, <2>5, <2>6, <3>2 DEF Operations
      <3> QED
        BY <3>1, <3>2
    <2>11. IsFiniteSet(Ops') /\ outstanding' = Cardinality(Ops')
      BY <1>0, <2>2, <2>3 DEF Operations
    <2> QED
      BY <2>9, <2>10, <2>11 DEF Operations
  <1>5. ASSUME NEW p \in Proc, EndOp(p) PROVE Operations'
    <2>1. /\ pc[p] = "op"
          /\ outstanding' = outstanding - 1
          /\ used' = [used EXCEPT ![p] = {}]
          /\ UNCHANGED <<onDisk, lh, cache, wblk, tail, rc>>
      BY <1>5, EndEffect, Zenon
    <2>2. \/ pc' = [pc EXCEPT ![p] = IF lh = <<>> THEN "done" ELSE "wlog"]
          \/ WakeAll(p, "idle")
      BY <1>5, EndEffect, Zenon
    <2>3. ~InOp(p)' /\ pc'[p] # "append"
      BY <1>0, <2>2 DEF WakeAll, InOp, TypeOK
    <2>4. ASSUME NEW q \in Proc, q # p
          PROVE  /\ InOp(q)' <=> InOp(q)
                 /\ pc'[q] = "append" => pc[q] = "append"
      BY <1>0, <2>2, <2>4 DEF WakeAll, InOp, TypeOK
    <2>5. Ops' = Ops \ {p}
      BY <2>3, <2>4 DEF Ops
    <2>6. p \in Ops
      BY <2>1 DEF Ops, InOp
    <2>7. IsFiniteSet(Ops') /\ outstanding' = Cardinality(Ops')
      <3>1. /\ IsFiniteSet(Ops \ {p})
            /\ Cardinality(Ops \ {p}) =
                 IF p \in Ops THEN Cardinality(Ops) - 1 ELSE Cardinality(Ops)
        BY <1>0, FS_RemoveElement, Zenon DEF Operations
      <3>2. outstanding = Cardinality(Ops)
        BY <1>0 DEF Operations
      <3> QED
        BY <2>1, <2>5, <2>6, <3>1, <3>2
    <2>8. \A c : Has(lh', c) <=> Has(lh, c)
      BY <2>1 DEF Has
    <2>9. \A q \in Proc : /\ wblk'[q] = wblk[q]
                          /\ used'[q] = (IF q = p THEN {} ELSE used[q])
      BY <1>0, <2>1 DEF TypeOK
    <2>10. IsFiniteSet({}) /\ Cardinality({}) = 0 /\ OpBlocks \in Nat
      BY FS_EmptySet, LogAssumption
    <2>11. ASSUME NEW q \in Proc
           PROVE  /\ ~InOp(q)' => used'[q] = {}
                  /\ pc'[q] = "append" => wblk'[q] \in used'[q]
                  /\ IsFiniteSet(used'[q]) /\ Cardinality(used'[q]) <= OpBlocks
                  /\ \A c \in used'[q] : Has(lh', c) \/ c = wblk'[q]
      BY <1>0, <2>3, <2>4, <2>8, <2>9, <2>10 DEF Operations
    <2> QED
      BY <2>7, <2>11 DEF Operations
  <1>6. ASSUME NEW p \in Proc, BeginOp(p) PROVE Operations'
    <2>1. /\ pc[p] = "begin"
          /\ UNCHANGED <<wblk, used, lh>>
          /\ \/ pc' = [pc EXCEPT ![p] = "asleep"] /\ outstanding' = outstanding
             \/ pc' = [pc EXCEPT ![p] = "op"] /\ outstanding' = outstanding + 1
      BY <1>6 DEF BeginOp, At, Goto
    <2>2. CASE pc' = [pc EXCEPT ![p] = "asleep"] /\ outstanding' = outstanding
      <3>1. Ops' = Ops /\ \A q \in Proc : pc'[q] = "append" => pc[q] = "append"
        BY <1>0, <2>1, <2>2 DEF Ops, InOp, TypeOK
      <3> QED
        BY <1>0, <2>1, <2>2, <3>1, OperationsSame
    <2>3. CASE pc' = [pc EXCEPT ![p] = "op"] /\ outstanding' = outstanding + 1
      <3>1. ASSUME NEW q \in Proc
            PROVE  /\ q # p => (InOp(q)' <=> InOp(q))
                   /\ pc'[q] = "append" => pc[q] = "append"
        BY <1>0, <2>1, <2>3 DEF InOp, TypeOK
      <3>2. InOp(p)' /\ ~InOp(p)
        BY <1>0, <2>1, <2>3 DEF InOp, TypeOK
      <3>3. Ops' = Ops \cup {p} /\ p \notin Ops
        BY <3>1, <3>2 DEF Ops
      <3>4. IsFiniteSet(Ops') /\ outstanding' = Cardinality(Ops')
        <4>1. /\ IsFiniteSet(Ops \cup {p})
              /\ Cardinality(Ops \cup {p}) =
                   IF p \in Ops THEN Cardinality(Ops) ELSE Cardinality(Ops)+1
          BY <1>0, FS_AddElement, Zenon DEF Operations
        <4>2. outstanding = Cardinality(Ops)
          BY <1>0 DEF Operations
        <4> QED
          BY <2>3, <3>3, <4>1, <4>2
      <3>5. \A c : Has(lh', c) <=> Has(lh, c)
        BY <2>1 DEF Has
      <3>6. ASSUME NEW q \in Proc
            PROVE  /\ ~InOp(q)' => used'[q] = {}
                   /\ pc'[q] = "append" => wblk'[q] \in used'[q]
                   /\ IsFiniteSet(used'[q]) /\ Cardinality(used'[q]) <= OpBlocks
                   /\ \A c \in used'[q] : Has(lh', c) \/ c = wblk'[q]
        BY <1>0, <2>1, <3>1, <3>2, <3>5 DEF Operations
      <3> QED
        BY <3>4, <3>6 DEF Operations
    <2> QED
      BY <2>1, <2>2, <2>3
  <1>7. ASSUME NEW p \in Proc, LogWrite(p) PROVE Operations'
    <2>1. /\ pc[p] = "append"
          /\ lh' = LhAfter(wblk[p])
          /\ pc' = [pc EXCEPT ![p] = "op"]
          /\ wblk' = [wblk EXCEPT ![p] = None]
          /\ UNCHANGED <<used, outstanding>>
      BY <1>7 DEF LogWrite, At, Goto
    <2>2. wblk[p] \in Block
      BY <1>0, <2>1 DEF Threads, TypeOK
    <2>3. Has(lh', wblk[p]) /\ \A c : Has(lh, c) => Has(lh', c)
      BY <1>0, <2>1, <2>2, LogAfter
    <2>4. Ops' = Ops /\ \A q \in Proc : InOp(q)' <=> InOp(q)
      BY <1>0, <2>1 DEF Ops, InOp, TypeOK
    <2>5. \A q \in Proc : /\ wblk'[q] = (IF q = p THEN None ELSE wblk[q])
                          /\ pc'[q] = (IF q = p THEN "op" ELSE pc[q])
      BY <1>0, <2>1 DEF TypeOK
    <2>6. ASSUME NEW q \in Proc
          PROVE  /\ ~InOp(q)' => used'[q] = {}
                 /\ pc'[q] = "append" => wblk'[q] \in used'[q]
                 /\ IsFiniteSet(used'[q]) /\ Cardinality(used'[q]) <= OpBlocks
                 /\ \A c \in used'[q] : Has(lh', c) \/ c = wblk'[q]
      BY <1>0, <2>1, <2>3, <2>4, <2>5 DEF Operations
    <2>7. IsFiniteSet(Ops') /\ outstanding' = Cardinality(Ops')
      BY <1>0, <2>1, <2>4 DEF Operations
    <2> QED
      BY <2>6, <2>7 DEF Operations
  <1>8. ASSUME NEW p \in Proc,
               \/ WriteLog(p) \/ WriteHead(p) \/ InstallTrans(p)
               \/ EraseLog(p) \/ CommitDone(p)
        PROVE  Operations'
    <2>1. /\ pc[p] \in Flush \cup {"done"}
          /\ UNCHANGED <<used, wblk, outstanding>>
      BY <1>8 DEF WriteLog, WriteHead, InstallTrans, EraseLog, CommitDone,
                  At, inLog, Flush
    <2>2. \/ UNCHANGED pc
          \/ \E to \in {"whead", "install", "clear", "done"} :
               pc' = [pc EXCEPT ![p] = to]
          \/ WakeAll(p, "idle")
      BY <1>8 DEF WriteLog, WriteHead, InstallTrans, EraseLog, CommitDone, Goto
    <2>3. Ops = {}
      BY <1>0, <2>1, NoOps
    <2>4. ASSUME NEW q \in Proc
          PROVE  (InOp(q)' => InOp(q)) /\ (pc'[q] = "append" => pc[q] = "append")
      <3>1. CASE UNCHANGED pc
        BY <3>1 DEF InOp
      <3>2. CASE WakeAll(p, "idle")
        BY <1>0, <3>2 DEF InOp, WakeAll, TypeOK
      <3>3. ASSUME NEW to \in {"whead", "install", "clear", "done"},
                   pc' = [pc EXCEPT ![p] = to]
            PROVE  (InOp(q)' => InOp(q)) /\ (pc'[q] = "append" => pc[q] = "append")
        BY <1>0, <3>3 DEF InOp, TypeOK
      <3> QED
        BY <2>2, <3>1, <3>2, <3>3
    <2>5. Ops' = Ops
      BY <2>3, <2>4 DEF Ops
    <2> QED
      BY <1>0, <2>1, <2>3, <2>4, <2>5, OperationsSame
  <1>9. ASSUME UNCHANGED <<inLog, threads>> PROVE Operations'
    <2>1. UNCHANGED <<used, wblk, outstanding, pc, lh>>
      BY <1>9 DEF inLog, threads
    <2>2. Ops' = Ops
      BY <2>1 DEF Ops, InOp
    <2> QED
      BY <1>0, <2>1, <2>2, OperationsSame
  <1>10. ASSUME NEW b \in Block, Read(b) \/ Evict(b) PROVE Operations'
    BY <1>9, <1>10 DEF Read, Evict
  <1>11. CASE UNCHANGED vars
    BY <1>9, <1>11 DEF vars
  <1> QED
    BY <1>1, <1>2, <1>3, <1>4, <1>5, <1>6, <1>7, <1>8, <1>10, <1>11
    DEF Next, Advance

-----------------------------------------------------------------------------
(* Space.                                                                  *)

\* Without an operation under way nothing is reserved.
LEMMA SpaceIdle ==
  ASSUME TypeOK', Operations', Ops' = {}, rc' # "panic"
  PROVE  Space'
  <1>1. Logged' = {}
    BY DEF Logged, Ops
  <1>2. Cardinality(Logged') = 0 /\ outstanding' = 0
    BY <1>1, FS_EmptySet DEF Operations
  <1>3. Len(lh') \in Nat /\ Len(lh') < LOGSIZE
    BY LogAssumption DEF TypeOK
  <1>4. MAXOPBLOCKS * 0 = 0 /\ LOGSIZE \in Nat
    BY LogAssumption
  <1> QED
    BY <1>2, <1>3, <1>4 DEF Space

\* A step that takes no space and forgets nothing logged keeps Space.
LEMMA SpaceSame ==
  ASSUME IInv, UNCHANGED <<lh, outstanding>>, rc' # "panic",
         Logged \subseteq Logged', IsFiniteSet(Logged')
  PROVE  Space'
  <1>0. TypeOK /\ Operations /\ Space
    BY DEF IInv
  <1>1. /\ outstanding \in Nat
        /\ Cardinality(Logged) \in Nat
    BY <1>0, LoggedBound
  <1>2. Cardinality(Logged) <= Cardinality(Logged') /\ Cardinality(Logged') \in Nat
    BY FS_Subset, FS_CardinalityType
  <1>3. Len(lh) \in Nat /\ LOGSIZE \in Nat /\ MAXOPBLOCKS \in Nat /\ MAXOPBLOCKS - 1 \in Nat
    BY <1>0, LogAssumption DEF TypeOK
  <1>4. MAXOPBLOCKS * outstanding \in Nat /\ (MAXOPBLOCKS - 1) * outstanding \in Nat
    BY <1>1, <1>3, Times
  <1> QED
    BY <1>0, <1>1, <1>2, <1>3, <1>4 DEF Space

\* begin_op() lets an operation start only if its reservation fits.
LEMMA SpaceBegin ==
  ASSUME IInv, NEW p \in Proc, rc = "up", pc[p] = "begin", MayBegin,
         pc' = [pc EXCEPT ![p] = "op"], outstanding' = outstanding + 1,
         UNCHANGED <<lh, used, rc>>
  PROVE  Space'
  <1>0. TypeOK /\ Operations /\ Threads /\ Headers
    BY DEF IInv
  <1>1. Logged' = Logged
    <2>1. used[p] = {} /\ used' = used
      BY <1>0 DEF Operations, InOp
    <2>2. \A q \in Proc : q # p => (InOp(q)' <=> InOp(q))
      BY <1>0 DEF InOp, TypeOK
    <2> QED
      BY <2>1, <2>2 DEF Logged
  <1> DEFINE n == outstanding
             M == MAXOPBLOCKS
             L == Len(lh)
             G == Cardinality(Logged)
  <1>2. n \in Nat /\ G \in Nat
    BY <1>0, LoggedBound
  <1>3. L \in Nat /\ LOGSIZE \in Nat /\ M \in Nat \ {0} /\ M < LOGSIZE
    BY <1>0, LogAssumption DEF TypeOK
  <1>4. /\ M * n \in Nat /\ M * (n + 1) = (M * n) + M
        /\ (M - 1) * n \in Nat /\ (M - 1) * (n + 1) = ((M - 1) * n) + (M - 1)
        /\ (M - 1) * n = (M * n) - n
    BY <1>2, <1>3, Times
  <1>5. L + ((n + 1) * M) <= LOGSIZE
    BY DEF MayBegin, HasRoom
  <1>6. (n + 1) * M = (M * n) + M
    BY <1>2, <1>3
  <1>7. n = 0 => L = 0
    <2> SUFFICES ASSUME n = 0 PROVE L = 0
      OBVIOUS
    <2>1. Ops = {}
      BY <1>0, FS_EmptySet DEF Operations
    <2>2. \A q \in Proc : pc[q] \notin Flush
      BY <1>0 DEF Threads, MayBegin
    <2>3. lh = <<>>
      BY <1>0, <2>1, <2>2 DEF Headers
    <2> QED
      BY <2>3
  <1>8. n = 0 => (M * n) = 0
    BY <1>3
  <1> HIDE DEF n, M, L, G
  <1>9. L + (M * (n + 1)) <= LOGSIZE + G
    BY <1>2, <1>3, <1>4, <1>5, <1>6
  <1>10. (L + ((M - 1) * (n + 1))) + 2 <= LOGSIZE + G
    BY <1>2, <1>3, <1>4, <1>5, <1>6, <1>7, <1>8
  <1> QED
    BY <1>1, <1>9, <1>10 DEF Space, n, M, L, G

\* A block that log_write() adds to the header was reserved.
LEMMA SpaceAppend ==
  ASSUME IInv, NEW p \in Proc, rc = "up", pc[p] = "append",
         pc' = [pc EXCEPT ![p] = "op"], lh' = LhAfter(wblk[p]),
         UNCHANGED <<used, outstanding, rc>>
  PROVE  Space'
  <1>0. TypeOK /\ Operations /\ Space /\ Threads
    BY DEF IInv
  <1>1. wblk[p] \in Block
    BY <1>0 DEF Threads, TypeOK
  <1>2. \A c : Has(lh', c) <=> Has(lh, c) \/ c = wblk[p]
    BY <1>0, <1>1, LogAfter
  <1>3. \A q \in Proc : InOp(q)' <=> InOp(q)
    BY <1>0 DEF InOp, TypeOK
  <1>4. wblk[p] \in used[p] /\ InOp(p)
    BY <1>0 DEF Operations, InOp
  <1>5. outstanding \in Nat /\ IsFiniteSet(Logged) /\ Cardinality(Logged) \in Nat
    BY <1>0, LoggedBound
  <1>6. CASE Has(lh, wblk[p])
    <2>1. lh' = lh
      BY <1>6 DEF LhAfter, Has
    <2>2. Logged' = Logged
      BY <1>3, <2>1 DEF Logged
    <2> QED
      BY <1>5, <2>1, <2>2, SpaceSame
  <1>7. CASE ~Has(lh, wblk[p])
    <2> DEFINE w == <<p, wblk[p]>>
    <2>1. Len(lh') = Len(lh) + 1
      BY <1>0, <1>1, <1>7 DEF LhAfter, Has, TypeOK
    <2>2. w \notin Logged
      BY <1>7 DEF Logged, Has
    <2>3. \A v \in Logged' : v \in Proc \X Block /\ InOp(v[1]) /\ v[2] \in used[v[1]]
                             /\ Has(lh', v[2])
      BY <1>3 DEF Logged, Has
    <2>4. \A v \in Proc \X Block : InOp(v[1]) /\ v[2] \in used[v[1]] /\ Has(lh', v[2])
                                     => v \in Logged'
      BY <1>3 DEF Logged, Has
    <2>5. w \in Logged'
      BY <1>1, <1>2, <1>4, <2>4
    <2>6. Logged \subseteq Logged'
      BY <1>2, <2>4 DEF Logged, Has
    <2> HIDE DEF w
    <2>7. IsFiniteSet(Logged')
      <3>1. \A v \in Logged' : Has(lh, v[2]) \/ v[2] = wblk[p]
        BY <1>2, <2>3
      <3>2. \A v \in Logged' : v[2] = wblk[p] => v \in Ops \X {wblk[p]}
        BY <2>3 DEF Ops
      <3>3. \A v \in Logged' : Has(lh, v[2]) => v \in Logged
        BY <2>3 DEF Logged, Has
      <3>4. Logged' \subseteq Logged \cup (Ops \X {wblk[p]})
        BY <3>1, <3>2, <3>3
      <3>5. IsFiniteSet(Ops \X {wblk[p]})
        <4>1. IsFiniteSet(Ops)
          BY <1>0 DEF Operations
        <4>2. IsFiniteSet({wblk[p]})
          BY FS_Singleton
        <4> QED
          BY <4>1, <4>2, FS_Product
      <3>6. IsFiniteSet(Logged \cup (Ops \X {wblk[p]}))
        BY <1>5, <3>5, FS_Union
      <3> QED
        BY <3>4, <3>6, FS_Subset
    <2>8. Cardinality(Logged) + 1 <= Cardinality(Logged') /\ Cardinality(Logged') \in Nat
      <3>1. Logged \cup {w} \in SUBSET Logged'
        BY <2>5, <2>6
      <3>2. Cardinality(Logged \cup {w}) <= Cardinality(Logged')
        BY <2>7, <3>1, FS_Subset
      <3>3. Cardinality(Logged \cup {w}) =
              IF w \in Logged THEN Cardinality(Logged) ELSE Cardinality(Logged)+1
        BY <1>5, FS_AddElement, Zenon
      <3>4. Cardinality(Logged') \in Nat
        BY <2>7, FS_CardinalityType
      <3> QED
        BY <2>2, <3>2, <3>3, <3>4
    <2>9. Len(lh) \in Nat /\ LOGSIZE \in Nat /\ MAXOPBLOCKS \in Nat /\ MAXOPBLOCKS - 1 \in Nat
      BY <1>0, LogAssumption DEF TypeOK
    <2>10. MAXOPBLOCKS * outstanding \in Nat /\ (MAXOPBLOCKS - 1) * outstanding \in Nat
      BY <1>5, <2>9, Times
    <2> QED
      BY <1>0, <1>5, <2>1, <2>8, <2>9, <2>10 DEF Space
  <1> QED
    BY <1>6, <1>7

\* An operation that ends returns more than it has logged.
LEMMA SpaceEnd ==
  ASSUME IInv, NEW p \in Proc, InOp(p), ~InOp(p)',
         \A q \in Proc : q # p => (InOp(q)' <=> InOp(q)),
         outstanding' = outstanding - 1,
         used' = [used EXCEPT ![p] = {}], UNCHANGED <<lh, rc>>
  PROVE  Space'
  <1>0. TypeOK /\ Operations /\ Space
    BY DEF IInv
  <1> DEFINE D == {p} \X used[p]
             n == outstanding
             M == MAXOPBLOCKS
             L == Len(lh)
             G == Cardinality(Logged)
             H == Cardinality(Logged')
             C == Cardinality(Logged \cap D)
  <1>1. Logged' = Logged \ D
    <2>1. \A q \in Proc : used'[q] = (IF q = p THEN {} ELSE used[q])
      BY <1>0 DEF TypeOK
    <2> QED
      BY <2>1 DEF Logged
  <1>2. n \in Nat /\ IsFiniteSet(Logged) /\ G \in Nat
    BY <1>0, LoggedBound
  <1>3. n > 0
    BY Room
  <1>4. C \in Nat /\ C <= M - 1
    <2>1. IsFiniteSet(used[p]) /\ Cardinality(used[p]) <= OpBlocks
      BY <1>0 DEF Operations
    <2>2. IsFiniteSet({p}) /\ Cardinality({p}) = 1
      BY FS_Singleton
    <2>3. Cardinality(used[p]) \in Nat
      BY <2>1, FS_CardinalityType
    <2>4. IsFiniteSet(D) /\ Cardinality(D) = Cardinality({p}) * Cardinality(used[p])
      BY <2>1, <2>2, FS_Product, Zenon
    <2>5. 1 * Cardinality(used[p]) = Cardinality(used[p])
      BY <2>3
    <2>6. Cardinality(D) = Cardinality(used[p])
      BY <2>2, <2>4, <2>5, Zenon
    <2> HIDE DEF D
    <2>7. IsFiniteSet(Logged \cap D) /\ Cardinality(Logged \cap D) <= Cardinality(D)
      BY <2>4, FS_Intersection, Zenon
    <2>8. Cardinality(Logged \cap D) \in Nat
      BY <2>7, FS_CardinalityType
    <2> QED
      BY <2>1, <2>3, <2>6, <2>7, <2>8, LogAssumption
  <1>5. H = G - C
    <2> HIDE DEF D
    <2> QED
      BY <1>1, <1>2, FS_Difference
  <1>6. L \in Nat /\ LOGSIZE \in Nat /\ M \in Nat \ {0}
    BY <1>0, LogAssumption DEF TypeOK
  <1>7. /\ M * n \in Nat /\ M * (n - 1) = (M * n) - M
        /\ (M - 1) * n \in Nat /\ (M - 1) * (n - 1) = ((M - 1) * n) - (M - 1)
    <2>1. M - 1 \in Nat
      BY <1>6
    <2> QED
      BY <1>2, <1>3, <1>6, <2>1, Times
  <1>8. L + (M * n) <= LOGSIZE + G
    BY <1>0 DEF Space
  <1>9. (L + ((M - 1) * n)) + 2 <= LOGSIZE + G
    BY <1>0, <1>3 DEF Space
  <1>10. rc' # "panic" /\ Len(lh') = L /\ outstanding' = n - 1
    BY <1>0 DEF Space
  <1> HIDE DEF n, M, L, G, H, C
  <1>11. L + (M * (n - 1)) <= LOGSIZE + H
    BY <1>2, <1>4, <1>5, <1>6, <1>7, <1>8
  <1>12. (L + ((M - 1) * (n - 1))) + 2 <= LOGSIZE + H
    BY <1>2, <1>4, <1>5, <1>6, <1>7, <1>9
  <1> QED
    BY <1>10, <1>11, <1>12 DEF Space, M, H

\* Every step keeps Space.
LEMMA SpaceStep ==
  ASSUME IInv, [Next]_vars
  PROVE  Space'
  <1>0. TypeOK /\ Threads /\ Operations /\ Space
    BY DEF IInv
  <1>T. TypeOK' /\ Operations'
    BY TypeStep, OperationsStep
  <1>L. IsFiniteSet(Logged)
    BY <1>0, LoggedBound
  <1>1. CASE Recovery
    <2>1. rc # "up" /\ rc' # "panic" /\ UNCHANGED pc
      BY <1>0, <1>1 DEF Recovery, ReadHead, RecoverInstall, RecoverClear, threads, Space
    <2>2. Ops' = {}
      BY <1>0, <2>1, NoOps DEF Ops, InOp
    <2> QED
      BY <1>T, <2>1, <2>2, SpaceIdle
  <1>2. CASE Crash
    <2>1. rc' # "panic" /\ pc' = [p \in Proc |-> "idle"]
      BY <1>2 DEF Crash
    <2>2. Ops' = {}
      BY <2>1 DEF Ops, InOp
    <2> QED
      BY <1>T, <2>1, <2>2, SpaceIdle
  <1>3. ASSUME UNCHANGED <<lh, outstanding, used, rc>>,
               \A q \in Proc : InOp(q)' <=> InOp(q)
        PROVE  Space'
    <2>1. Logged' = Logged
      BY <1>3 DEF Logged
    <2> QED
      BY <1>0, <1>3, <1>L, <2>1, SpaceSame DEF Space
  <1>4. ASSUME NEW p \in Proc, Call(p) PROVE Space'
    <2>1. UNCHANGED <<lh, outstanding, used, rc>>
      BY <1>4 DEF Call, inLog
    <2>2. \A q \in Proc : InOp(q)' <=> InOp(q)
      BY <1>0, <1>4 DEF Call, At, Goto, InOp, TypeOK
    <2> QED
      BY <1>3, <2>1, <2>2
  <1>5. ASSUME NEW p \in Proc, Write(p) PROVE Space'
    <2>1. PICK b \in Block \ Held :
            /\ rc = "up" /\ pc[p] = "op"
            /\ used' = [used EXCEPT ![p] = @ \cup {b}]
            /\ pc' = [pc EXCEPT ![p] = "append"]
            /\ UNCHANGED <<onDisk, inLog, dirty, tail, rc>>
      BY <1>5, WriteEffect, Zenon
    <2>2. UNCHANGED <<lh, outstanding, rc>>
      BY <2>1 DEF inLog
    <2>3. \A q \in Proc : InOp(q)' <=> InOp(q)
      BY <1>0, <2>1 DEF InOp, TypeOK
    <2>4. \A q \in Proc : used'[q] = (IF q = p THEN used[q] \cup {b} ELSE used[q])
      BY <1>0, <2>1 DEF TypeOK
    <2>5. Logged \subseteq Logged' /\ Logged' \subseteq Logged \cup {<<p, b>>}
      <3>1. ASSUME NEW w \in Logged PROVE w \in Logged'
        BY <2>2, <2>3, <2>4 DEF Logged
      <3>2. ASSUME NEW w \in Logged' PROVE w \in Logged \cup {<<p, b>>}
        <4>1. /\ w \in Proc \X Block /\ InOp(w[1])
              /\ \E i \in 1..Len(lh) : lh[i] = w[2]
              /\ w[2] \in used[w[1]] \/ (w[1] = p /\ w[2] = b)
          BY <2>2, <2>3, <2>4 DEF Logged
        <4>2. w = <<w[1], w[2]>>
          BY <4>1
        <4> QED
          BY <4>1, <4>2 DEF Logged
      <3> QED
        BY <3>1, <3>2
    <2>6. IsFiniteSet(Logged \cup {<<p, b>>})
      BY <1>L, FS_AddElement
    <2>7. IsFiniteSet(Logged')
      BY <2>5, <2>6, FS_Subset
    <2> QED
      BY <1>0, <2>2, <2>5, <2>7, SpaceSame DEF Space
  <1>6. ASSUME NEW p \in Proc, EndOp(p) PROVE Space'
    <2>1. /\ pc[p] = "op"
          /\ outstanding' = outstanding - 1
          /\ used' = [used EXCEPT ![p] = {}]
          /\ UNCHANGED <<onDisk, lh, cache, wblk, tail, rc>>
      BY <1>6, EndEffect, Zenon
    <2>2. \/ pc' = [pc EXCEPT ![p] = IF lh = <<>> THEN "done" ELSE "wlog"]
          \/ WakeAll(p, "idle")
      BY <1>6, EndEffect, Zenon
    <2>3. InOp(p) /\ ~InOp(p)'
      BY <1>0, <2>1, <2>2 DEF WakeAll, InOp, TypeOK
    <2>4. \A q \in Proc : q # p => (InOp(q)' <=> InOp(q))
      BY <1>0, <2>2 DEF WakeAll, InOp, TypeOK
    <2> QED
      BY <2>1, <2>3, <2>4, SpaceEnd
  <1>7. ASSUME NEW p \in Proc, BeginOp(p) PROVE Space'
    <2>1. CASE MayBegin
      BY <1>7, <2>1, SpaceBegin DEF BeginOp, At, Goto
    <2>2. CASE ~MayBegin
      <3>1. /\ pc[p] = "begin" /\ pc' = [pc EXCEPT ![p] = "asleep"]
            /\ UNCHANGED <<lh, outstanding, used, rc>>
        BY <1>7, <2>2 DEF BeginOp, At, Goto
      <3>2. \A q \in Proc : InOp(q)' <=> InOp(q)
        BY <1>0, <3>1 DEF InOp, TypeOK
      <3> QED
        BY <1>3, <3>1, <3>2
    <2> QED
      BY <2>1, <2>2
  <1>8. ASSUME NEW p \in Proc, LogWrite(p) PROVE Space'
    BY <1>8, SpaceAppend DEF LogWrite, At, Goto
  <1>9. ASSUME NEW p \in Proc,
               \/ WriteLog(p) \/ WriteHead(p) \/ InstallTrans(p)
               \/ EraseLog(p) \/ CommitDone(p)
        PROVE  Space'
    <2>1. pc[p] \in Flush \cup {"done"} /\ rc = "up" /\ rc' = rc
      BY <1>9 DEF WriteLog, WriteHead, InstallTrans, EraseLog, CommitDone, At, Flush
    <2>2. outstanding' = outstanding
      BY <1>9 DEF WriteLog, WriteHead, InstallTrans, EraseLog, CommitDone, inLog
    <2>3. Ops = {}
      BY <1>0, <2>1, NoOps
    <2>4. outstanding' = Cardinality(Ops') /\ IsFiniteSet(Ops') /\ outstanding = 0
      BY <1>0, <1>T, <2>3, FS_EmptySet DEF Operations
    <2>5. Ops' = {}
      BY <2>2, <2>4, FS_EmptySet
    <2> QED
      BY <1>T, <2>1, <2>5, SpaceIdle
  <1>10. ASSUME UNCHANGED <<inLog, threads, rc>> PROVE Space'
    <2>1. UNCHANGED <<lh, outstanding, used, rc, pc>>
      BY <1>10 DEF inLog, threads
    <2>2. \A q \in Proc : InOp(q)' <=> InOp(q)
      BY <2>1 DEF InOp
    <2> QED
      BY <1>3, <2>1, <2>2
  <1>11. ASSUME NEW b \in Block, Read(b) \/ Evict(b) PROVE Space'
    BY <1>10, <1>11 DEF Read, Evict
  <1>12. CASE UNCHANGED vars
    BY <1>10, <1>12 DEF vars
  <1> QED
    BY <1>1, <1>2, <1>4, <1>5, <1>6, <1>7, <1>8, <1>9, <1>11, <1>12
    DEF Next, Advance

-----------------------------------------------------------------------------
(* Headers.                                                                *)

\* An append of a block that is not in the header keeps it free of
\* duplicates.
LEMMA InjectiveAfter ==
  ASSUME TypeOK, Injective(lh), NEW p \in Proc, wblk[p] \in Block,
         lh' = LhAfter(wblk[p])
  PROVE  Injective(lh')
  <1>1. CASE Has(lh, wblk[p])
    BY <1>1 DEF Has, LhAfter
  <1>2. CASE ~Has(lh, wblk[p])
    <2>1. lh' = Append(lh, wblk[p]) /\ lh \in Seq(Block)
      BY <1>2 DEF Has, LhAfter, TypeOK
    <2>2. Len(lh') = Len(lh) + 1 /\ Len(lh) \in Nat
      BY <2>1
    <2>3. lh'[Len(lh) + 1] = wblk[p] /\ \A i \in 1..Len(lh) : lh'[i] = lh[i]
      BY <2>1
    <2> QED
      BY <1>2, <2>2, <2>3 DEF Has, Injective
  <1> QED
    BY <1>1, <1>2

\* A commit's step is the only one under way.
LEMMA OneCommitter ==
  ASSUME Threads, NEW p \in Proc, pc[p] \in Flush \cup {"done"}
  PROVE  \A q \in Proc : q # p => pc[q] \notin Flush \cup {"done"}
  BY DEF Threads

\* Every step keeps Headers.
LEMMA HeadersStep ==
  ASSUME IInv, [Next]_vars
  PROVE  Headers'
  <1>0. TypeOK /\ Threads /\ Operations /\ Headers
    BY DEF IInv
  <1>E. Injective(<<>>)
    BY DEF Injective
  <1>1. CASE ReadHead
    <2>1. rc = "read" /\ lh' = head /\ rc' = "install" /\ UNCHANGED <<head, pc>>
      BY <1>1 DEF ReadHead, onDisk, threads
    <2> QED
      BY <1>0, <2>1 DEF Headers, Threads
  <1>2. CASE RecoverInstall
    <2>1. rc = "install" /\ UNCHANGED <<lh, head, pc>>
      BY <1>2 DEF RecoverInstall, InstallBlock, inLog, onDisk, threads
    <2>2. rc' = "install" \/ (rc' = "clear" /\ tail' = 1)
      BY <1>2 DEF RecoverInstall
    <2> QED
      BY <1>0, <2>1, <2>2 DEF Headers, Threads
  <1>3. CASE RecoverClear
    <2>1. rc = "clear" /\ lh' = <<>> /\ head' = <<>> /\ rc' = "up" /\ UNCHANGED <<tail, pc>>
      BY <1>3 DEF RecoverClear, ClearLog, threads
    <2>2. tail = 1 /\ \A p \in Proc : pc[p] = "idle"
      BY <1>0, <2>1 DEF Headers, Threads
    <2> QED
      BY <1>E, <2>1, <2>2 DEF Headers
  <1>4. CASE Crash
    <2>1. /\ lh' = <<>> /\ head' = head /\ rc' = "read" /\ tail' = 1
          /\ pc' = [p \in Proc |-> "idle"]
      BY <1>4 DEF Crash, onDisk
    <2> QED
      BY <1>0, <1>E, <2>1 DEF Headers
  <1>5. ASSUME UNCHANGED <<lh, head, tail, rc>>, rc = "up",
               Ops' = {} => Ops = {},
               \A q \in Proc, l \in Flush : pc'[q] = l <=> pc[q] = l
        PROVE  Headers'
    BY <1>0, <1>5 DEF Headers, Flush
  <1>6. ASSUME NEW p \in Proc, Call(p) \/ BeginOp(p) \/ CommitDone(p) PROVE Headers'
    <2>1. rc = "up" /\ UNCHANGED <<lh, head, tail, rc>>
      BY <1>6 DEF Call, BeginOp, CommitDone, At, inLog, onDisk
    <2>2. \/ pc[p] = "idle" /\ pc' = [pc EXCEPT ![p] = "begin"]
          \/ pc[p] = "begin" /\ pc' = [pc EXCEPT ![p] = "asleep"]
          \/ pc[p] = "begin" /\ pc' = [pc EXCEPT ![p] = "op"]
          \/ pc[p] = "done" /\ WakeAll(p, "idle")
      BY <1>6 DEF Call, BeginOp, CommitDone, At, Goto
    <2>3. \A q \in Proc : InOp(q) => InOp(q)'
      BY <1>0, <2>2 DEF WakeAll, InOp, TypeOK
    <2>4. Ops' = {} => Ops = {}
      BY <2>3 DEF Ops
    <2>5. ASSUME NEW q \in Proc, NEW l \in Flush PROVE pc'[q] = l <=> pc[q] = l
      <3>1. CASE WakeAll(p, "idle") /\ pc[p] = "done"
        BY <1>0, <3>1 DEF WakeAll, Flush, TypeOK
      <3>2. ASSUME NEW to \in {"begin", "asleep", "op"}, pc[p] \in {"idle", "begin"},
                   pc' = [pc EXCEPT ![p] = to]
            PROVE  pc'[q] = l <=> pc[q] = l
        BY <1>0, <3>2 DEF Flush, TypeOK
      <3> QED
        BY <2>2, <3>1, <3>2
    <2> QED
      BY <1>5, <2>1, <2>4, <2>5
  <1>7. ASSUME NEW p \in Proc, Write(p) PROVE Headers'
    <2>1. /\ rc = "up" /\ pc[p] = "op"
          /\ pc' = [pc EXCEPT ![p] = "append"]
          /\ UNCHANGED <<onDisk, inLog, dirty, tail, rc>>
      BY <1>7, WriteEffect, Zenon
    <2>2. UNCHANGED <<lh, head, tail, rc>>
      BY <2>1 DEF onDisk, inLog
    <2>3. p \in Ops'
      BY <1>0, <2>1 DEF Ops, InOp, TypeOK
    <2>4. \A q \in Proc, l \in Flush : pc'[q] = l <=> pc[q] = l
      BY <1>0, <2>1 DEF Flush, TypeOK
    <2> QED
      BY <1>5, <2>1, <2>2, <2>3, <2>4
  <1>8. ASSUME NEW p \in Proc, EndOp(p) PROVE Headers'
    <2>1. /\ rc = "up" /\ pc[p] = "op" /\ committing = 0
          /\ UNCHANGED <<onDisk, lh, cache, wblk, tail, rc>>
      BY <1>8, EndEffect, Zenon
    <2>2. UNCHANGED <<lh, head, tail, rc>>
      BY <2>1 DEF onDisk
    <2>3. p \in Ops /\ \A q \in Proc : pc[q] \notin Flush \cup {"done"}
      BY <1>0, <2>1 DEF Ops, InOp, Threads
    <2>4. CASE outstanding = 1
      <3>1. pc' = [pc EXCEPT ![p] = IF lh = <<>> THEN "done" ELSE "wlog"]
        BY <1>8, <2>4, EndEffect, Zenon
      <3>2. \A q \in Proc : pc'[q] = (IF q = p THEN (IF lh = <<>> THEN "done" ELSE "wlog")
                                      ELSE pc[q])
        BY <1>0, <3>1 DEF TypeOK
      <3> QED
        BY <1>0, <2>1, <2>2, <2>3, <3>2 DEF Headers, Flush
    <2>5. CASE outstanding # 1
      <3>1. WakeAll(p, "idle")
        BY <1>8, <2>5, EndEffect, Zenon
      <3>2. \A q \in Proc, l \in Flush : pc'[q] = l <=> pc[q] = l
        BY <1>0, <2>1, <3>1 DEF WakeAll, Flush, TypeOK
      <3>3. Ops' # {}
        <4>1. Operations' /\ outstanding' = outstanding - 1
          BY <1>8, OperationsStep, EndEffect
        <4>2. outstanding # 0 /\ outstanding \in Nat
          BY <1>0, <2>3, FS_EmptySet DEF Operations, TypeOK
        <4>3. Cardinality(Ops') # 0
          BY <2>5, <4>1, <4>2 DEF Operations
        <4> QED
          BY <4>3, FS_EmptySet
      <3> QED
        BY <1>5, <2>1, <2>2, <3>2, <3>3
    <2> QED
      BY <2>4, <2>5
  <1>9. ASSUME NEW p \in Proc, LogWrite(p) PROVE Headers'
    <2>1. /\ rc = "up" /\ pc[p] = "append"
          /\ lh' = LhAfter(wblk[p])
          /\ pc' = [pc EXCEPT ![p] = "op"]
          /\ UNCHANGED <<head, tail, rc>>
      BY <1>9 DEF LogWrite, At, Goto, onDisk
    <2>2. wblk[p] \in Block
      BY <1>0, <2>1 DEF Threads, TypeOK
    <2>3. Injective(lh')
      BY <1>0, <2>1, <2>2, InjectiveAfter DEF Headers
    <2>4. p \in Ops'
      BY <1>0, <2>1 DEF Ops, InOp, TypeOK
    <2>5. p \in Ops
      BY <2>1 DEF Ops, InOp
    <2>6. \A q \in Proc : pc[q] \notin Flush
      BY <1>0, <2>5 DEF Threads
    <2>7. \A q \in Proc : pc'[q] \notin Flush
      BY <1>0, <2>1, <2>6 DEF Flush, TypeOK
    <2> QED
      BY <1>0, <2>1, <2>3, <2>4, <2>6, <2>7 DEF Headers, Flush
  <1>10. ASSUME NEW p \in Proc, WriteLog(p) PROVE Headers'
    <2>1. /\ rc = "up" /\ pc[p] = "wlog"
          /\ UNCHANGED <<lh, head, rc>>
      BY <1>10 DEF WriteLog, At, inLog
    <2>2. \/ UNCHANGED pc
          \/ pc' = [pc EXCEPT ![p] = "whead"] /\ tail' = 1
      BY <1>10 DEF WriteLog, Goto
    <2>3. \A q \in Proc : q # p => pc[q] \notin Flush \cup {"done"}
      BY <1>0, <2>1, OneCommitter DEF Flush
    <2>4. CASE UNCHANGED pc
      BY <1>0, <2>1, <2>4 DEF Headers, Flush, Ops, InOp
    <2>5. CASE pc' = [pc EXCEPT ![p] = "whead"] /\ tail' = 1
      <3>1. \A q \in Proc : pc'[q] = (IF q = p THEN "whead" ELSE pc[q])
        BY <1>0, <2>5 DEF TypeOK
      <3> QED
        BY <1>0, <2>1, <2>3, <2>5, <3>1 DEF Headers, Flush
    <2> QED
      BY <2>2, <2>4, <2>5
  <1>11. ASSUME NEW p \in Proc, WriteHead(p) PROVE Headers'
    <2>1. /\ rc = "up" /\ head' = lh
          /\ pc' = [pc EXCEPT ![p] = "install"]
          /\ UNCHANGED <<lh, rc>>
      BY <1>11 DEF WriteHead, At, Goto, inLog
    <2>2. pc'[p] = "install"
      BY <1>0, <2>1 DEF TypeOK
    <2> QED
      BY <1>0, <2>1, <2>2 DEF Headers, Flush
  <1>12. ASSUME NEW p \in Proc, InstallTrans(p) PROVE Headers'
    <2>1. /\ rc = "up" /\ pc[p] = "install"
          /\ UNCHANGED <<lh, head, rc>>
      BY <1>12 DEF InstallTrans, InstallBlock, At, inLog, onDisk
    <2>2. \/ UNCHANGED pc
          \/ pc' = [pc EXCEPT ![p] = "clear"] /\ tail' = 1
      BY <1>12 DEF InstallTrans, Goto
    <2>3. pc'[p] \in {"install", "clear"}
      BY <1>0, <2>1, <2>2 DEF TypeOK
    <2>4. (\A q \in Proc : pc'[q] \notin {"wlog", "install"}) => tail' = 1
      BY <1>0, <2>1, <2>2 DEF TypeOK
    <2>5. lh = head
      BY <1>0, <2>1 DEF Headers
    <2> QED
      BY <1>0, <2>1, <2>3, <2>4, <2>5 DEF Headers, Flush
  <1>13. ASSUME NEW p \in Proc, EraseLog(p) PROVE Headers'
    <2>1. /\ rc = "up" /\ pc[p] = "clear" /\ lh' = <<>> /\ head' = <<>>
          /\ pc' = [pc EXCEPT ![p] = "done"]
          /\ UNCHANGED <<tail, rc>>
      BY <1>13 DEF EraseLog, ClearLog, At, Goto
    <2>2. \A q \in Proc : q # p => pc[q] \notin Flush \cup {"done"}
      BY <1>0, <2>1, OneCommitter DEF Flush
    <2>3. tail = 1
      BY <1>0, <2>1, <2>2 DEF Headers, Flush
    <2> QED
      BY <1>0, <1>E, <2>1, <2>3 DEF Headers
  <1>14. ASSUME UNCHANGED <<onDisk, inLog, threads, tail, rc>> PROVE Headers'
    <2>1. UNCHANGED <<lh, head, pc, tail, rc>>
      BY <1>14 DEF onDisk, inLog, threads
    <2> QED
      BY <1>0, <2>1 DEF Headers, Ops, InOp
  <1>15. ASSUME NEW b \in Block, Read(b) \/ Evict(b) PROVE Headers'
    BY <1>14, <1>15 DEF Read, Evict
  <1>16. CASE UNCHANGED vars
    BY <1>14, <1>16 DEF vars
  <1> QED
    BY <1>1, <1>2, <1>3, <1>4, <1>6, <1>7, <1>8, <1>9, <1>10, <1>11, <1>12,
       <1>13, <1>15, <1>16
    DEF Next, Recovery, Advance

-----------------------------------------------------------------------------
(* Copies.                                                                 *)

\* What is read does not change when neither the cache nor the disk does.
LEMMA SeenUnchanged ==
  ASSUME UNCHANGED <<buf, disk>>
  PROVE  Seen' = Seen
  BY DEF Seen, Contents

\* In a commit, a block is installed as it is read already.
LEMMA SeenInstall ==
  ASSUME IInv, NEW p \in Proc, rc = "up", pc[p] = "install", InstallBlock
  PROVE  Seen' = Seen
  <1>0. TypeOK /\ Written
    BY DEF IInv, Copies
  <1>1. tail \in 1..Len(lh)
    BY <1>0 DEF InstallBlock, TypeOK
  <1>2. lh[tail] \in Block
    BY <1>0, <1>1 DEF TypeOK
  <1>3. logd[tail] = Seen[lh[tail]]
    BY <1>0, <1>1 DEF Written
  <1>4. logd[tail] # None
    <2>1. tail \in 1..(nlog - 1)
      BY <1>0, <1>1, LogAssumption DEF TypeOK
    <2> QED
      BY <1>0, <2>1, LogAssumption DEF TypeOK
  <1>5. /\ disk' = [disk EXCEPT ![lh[tail]] = logd[tail]]
        /\ buf' = [buf EXCEPT ![lh[tail]] = logd[tail]]
    BY DEF InstallBlock
  <1>6. ASSUME NEW b \in Block PROVE Seen'[b] = Seen[b]
    <2>1. Seen'[b] = (IF buf'[b] = None THEN disk'[b] ELSE buf'[b])
      BY DEF Seen, Contents
    <2>2. Seen[b] = (IF buf[b] = None THEN disk[b] ELSE buf[b])
      BY DEF Seen, Contents
    <2>3. CASE b = lh[tail]
      BY <1>0, <1>2, <1>3, <1>4, <1>5, <2>1, <2>3 DEF TypeOK
    <2>4. CASE b # lh[tail]
      BY <1>0, <1>5, <2>1, <2>2, <2>4 DEF TypeOK
    <2> QED
      BY <2>3, <2>4
  <1>7. Seen' = [b \in Block |-> Seen'[b]] /\ Seen = [b \in Block |-> Seen[b]]
    BY DEF Seen
  <1> QED
    BY <1>6, <1>7

\* Reading a block and evicting one that is not dirty change nothing that is
\* read.
LEMMA SeenCache ==
  ASSUME IInv, NEW c \in Block, Read(c) \/ Evict(c)
  PROVE  Seen' = Seen
  <1>0. TypeOK /\ Clean
    BY DEF IInv, Copies
  <1>1. UNCHANGED disk
    BY DEF Read, Evict, onDisk
  <1>2. \/ buf[c] = None /\ buf' = [buf EXCEPT ![c] = disk[c]]
        \/ c \notin Held \cup dirty /\ buf[c] # None /\ buf' = [buf EXCEPT ![c] = None]
    BY DEF Read, Evict, Evictable
  <1>3. ASSUME NEW b \in Block PROVE Seen'[b] = Seen[b]
    <2>1. Seen'[b] = (IF buf'[b] = None THEN disk[b] ELSE buf'[b])
      BY <1>1 DEF Seen, Contents
    <2>2. Seen[b] = (IF buf[b] = None THEN disk[b] ELSE buf[b])
      BY DEF Seen, Contents
    <2>3. CASE b = c
      <3>1. buf[c] = None \/ buf[c] = disk[c]
        BY <1>0, <1>2 DEF Clean
      <3> QED
        BY <1>0, <1>2, <2>1, <2>2, <2>3, <3>1 DEF TypeOK
    <2>4. CASE b # c
      BY <1>0, <1>2, <2>1, <2>2, <2>4 DEF TypeOK
    <2> QED
      BY <2>3, <2>4
  <1>4. Seen' = [b \in Block |-> Seen'[b]] /\ Seen = [b \in Block |-> Seen[b]]
    BY DEF Seen
  <1> QED
    BY <1>3, <1>4

\* While an operation runs, nothing is being written to the log.
LEMMA OpNoFlush ==
  ASSUME Threads, NEW p \in Proc, InOp(p)
  PROVE  \A q \in Proc : pc[q] \notin Flush \cup {"done"}
  BY DEF Threads, Ops

\* During a commit and during recovery no buffer is held.
LEMMA NothingHeldNow ==
  ASSUME Threads, Ops = {}
  PROVE  Held = {}
  <1>1. ASSUME NEW p \in Proc PROVE wblk[p] = None
    BY DEF Threads, Ops, InOp
  <1> QED
    BY <1>1 DEF Held

\* Every step keeps dirty blocks pinned.
LEMMA PinnedStep ==
  ASSUME IInv, [Next]_vars
  PROVE  Pinned'
  <1>0. TypeOK /\ Threads /\ Headers /\ Pinned
    BY DEF IInv, Copies
  <1>1. CASE Recovery
    <2>1. rc # "up"
      BY <1>1 DEF Recovery, ReadHead, RecoverInstall, RecoverClear
    <2>2. dirty = {}
      BY <1>0, <2>1 DEF Pinned
    <2>3. dirty' = {}
      BY <1>1, <2>2 DEF Recovery, ReadHead, RecoverInstall, RecoverClear, InstallBlock, cache
    <2> QED
      BY <2>3 DEF Pinned
  <1>2. CASE Crash
    BY <1>2 DEF Crash, Pinned
  <1>3. ASSUME rc = "up", UNCHANGED <<lh, dirty, tail, rc>>,
               \A q \in Proc, l \in {"install", "clear"} : pc'[q] = l => pc[q] = l
        PROVE  Pinned'
    BY <1>0, <1>3 DEF Pinned, Unsaved
  <1>4. ASSUME NEW p \in Proc, Call(p) \/ BeginOp(p) \/ CommitDone(p) PROVE Pinned'
    <2>1. rc = "up" /\ UNCHANGED <<lh, dirty, tail, rc>>
      BY <1>4 DEF Call, BeginOp, CommitDone, At, inLog, cache
    <2>2. \/ \E to \in {"begin", "asleep", "op"} : pc' = [pc EXCEPT ![p] = to]
          \/ WakeAll(p, "idle")
      BY <1>4 DEF Call, BeginOp, CommitDone, At, Goto
    <2>3. \A q \in Proc, l \in {"install", "clear"} : pc'[q] = l => pc[q] = l
      BY <1>0, <2>2 DEF WakeAll, TypeOK
    <2> QED
      BY <1>3, <2>1, <2>3
  <1>5. ASSUME NEW p \in Proc, Write(p) PROVE Pinned'
    <2>1. /\ rc = "up" /\ pc' = [pc EXCEPT ![p] = "append"]
          /\ UNCHANGED <<onDisk, inLog, dirty, tail, rc>>
      BY <1>5, WriteEffect, Zenon
    <2>2. \A q \in Proc, l \in {"install", "clear"} : pc'[q] = l => pc[q] = l
      BY <1>0, <2>1 DEF TypeOK
    <2> QED
      BY <1>3, <2>1, <2>2 DEF inLog
  <1>6. ASSUME NEW p \in Proc, EndOp(p) PROVE Pinned'
    <2>1. /\ rc = "up"
          /\ UNCHANGED <<onDisk, lh, cache, wblk, tail, rc>>
      BY <1>6, EndEffect, Zenon
    <2>2. \/ pc' = [pc EXCEPT ![p] = IF lh = <<>> THEN "done" ELSE "wlog"]
          \/ WakeAll(p, "idle")
      BY <1>6, EndEffect, Zenon
    <2>3. \A q \in Proc, l \in {"install", "clear"} : pc'[q] = l => pc[q] = l
      BY <1>0, <2>2 DEF WakeAll, TypeOK
    <2> QED
      BY <1>3, <2>1, <2>3 DEF cache
  <1>7. ASSUME NEW p \in Proc, LogWrite(p) PROVE Pinned'
    <2>1. /\ rc = "up" /\ pc[p] = "append"
          /\ lh' = LhAfter(wblk[p])
          /\ dirty' = dirty \cup {wblk[p]}
          /\ pc' = [pc EXCEPT ![p] = "op"]
          /\ UNCHANGED rc
      BY <1>7 DEF LogWrite, At, Goto
    <2>2. wblk[p] \in Block
      BY <1>0, <2>1 DEF Threads, TypeOK
    <2>3. \A c : Has(lh', c) <=> Has(lh, c) \/ c = wblk[p]
      BY <1>0, <2>1, <2>2, LogAfter
    <2>4. \A q \in Proc : pc[q] \notin {"install", "clear"}
      BY <1>0, <2>1, OpNoFlush DEF InOp, Flush
    <2>5. \A q \in Proc : pc'[q] \notin {"install", "clear"}
      BY <1>0, <2>1, <2>4 DEF TypeOK
    <2>6. \A c \in dirty : Has(lh, c)
      BY <1>0 DEF Pinned, Unsaved, Has
    <2>7. \A c \in dirty' : Has(lh', c)
      BY <2>1, <2>3, <2>6
    <2> QED
      BY <2>1, <2>5, <2>7 DEF Pinned, Unsaved, Has
  <1>8. ASSUME NEW p \in Proc, WriteLog(p) PROVE Pinned'
    <2>1. /\ rc = "up" /\ pc[p] = "wlog" /\ UNCHANGED <<lh, dirty, rc>>
          /\ UNCHANGED pc \/ pc' = [pc EXCEPT ![p] = "whead"]
      BY <1>8 DEF WriteLog, At, Goto, inLog, cache
    <2>2. \A q \in Proc : pc[q] \notin {"install", "clear"}
      BY <1>0, <2>1, OneCommitter DEF Flush
    <2>3. \A q \in Proc : pc'[q] \notin {"install", "clear"}
      BY <1>0, <2>1, <2>2 DEF TypeOK
    <2> QED
      BY <1>0, <2>1, <2>3 DEF Pinned, Unsaved
  <1>9. ASSUME NEW p \in Proc, WriteHead(p) PROVE Pinned'
    <2>1. /\ rc = "up" /\ pc[p] = "whead" /\ UNCHANGED <<lh, dirty, tail, rc>>
          /\ pc' = [pc EXCEPT ![p] = "install"]
      BY <1>9 DEF WriteHead, At, Goto, inLog, cache
    <2>2. \A q \in Proc : pc[q] \notin {"wlog", "install", "clear"}
      BY <1>0, <2>1, OneCommitter DEF Flush
    <2>3. tail = 1
      BY <1>0, <2>1, <2>2 DEF Headers
    <2>4. \A q \in Proc : pc'[q] # "clear"
      BY <1>0, <2>1, <2>2 DEF TypeOK
    <2>5. \A i \in 1..Len(lh) : tail <= i
      BY <1>0, <2>3 DEF TypeOK
    <2> QED
      BY <1>0, <2>1, <2>4, <2>5 DEF Pinned, Unsaved
  <1>10. ASSUME NEW p \in Proc, InstallTrans(p) PROVE Pinned'
    <2>1. rc = "up" /\ pc[p] = "install" /\ UNCHANGED <<lh, rc>>
      BY <1>10 DEF InstallTrans, At, inLog
    <2>2. Len(lh) \in Nat /\ tail \in Nat
      BY <1>0 DEF TypeOK
    <2>3. CASE InstallBlock /\ UNCHANGED pc
      <3>1. tail' = tail + 1 /\ dirty' = dirty \ {lh[tail]}
        BY <2>3 DEF InstallBlock
      <3>2. ASSUME NEW b \in dirty' PROVE Unsaved(b)'
        <4>1. PICK i \in 1..Len(lh) :
                /\ lh[i] = b
                /\ \A q \in Proc : pc[q] # "clear" /\ (pc[q] = "install" => tail <= i)
          BY <1>0, <3>1 DEF Pinned, Unsaved
        <4>2. i # tail /\ tail <= i
          BY <2>1, <3>1, <4>1
        <4>3. tail + 1 <= i
          BY <2>2, <4>2
        <4> QED
          BY <2>1, <2>3, <3>1, <4>1, <4>3 DEF Unsaved
      <3> QED
        BY <2>1, <3>2 DEF Pinned
    <2>4. CASE tail > Len(lh) /\ UNCHANGED <<onDisk, cache>>
      <3>1. dirty = {}
        BY <1>0, <2>1, <2>2, <2>4 DEF Pinned, Unsaved
      <3> QED
        BY <2>1, <2>4, <3>1 DEF Pinned, cache
    <2> QED
      BY <1>10, <2>3, <2>4 DEF InstallTrans
  <1>11. ASSUME NEW p \in Proc, EraseLog(p) PROVE Pinned'
    <2>1. rc = "up" /\ pc[p] = "clear" /\ UNCHANGED <<dirty, rc>>
      BY <1>11 DEF EraseLog, At, cache
    <2>2. dirty = {}
      BY <1>0, <2>1 DEF Pinned, Unsaved
    <2> QED
      BY <2>1, <2>2 DEF Pinned
  <1>12. ASSUME UNCHANGED <<inLog, dirty, threads, tail, rc>> PROVE Pinned'
    <2>1. UNCHANGED <<lh, dirty, pc, tail, rc>>
      BY <1>12 DEF inLog, threads
    <2> QED
      BY <1>0, <2>1 DEF Pinned, Unsaved
  <1>13. ASSUME NEW b \in Block, Read(b) \/ Evict(b) PROVE Pinned'
    BY <1>12, <1>13 DEF Read, Evict
  <1>14. CASE UNCHANGED vars
    BY <1>12, <1>14 DEF vars, cache
  <1> QED
    BY <1>1, <1>2, <1>4, <1>5, <1>6, <1>7, <1>8, <1>9, <1>10, <1>11, <1>13,
       <1>14
    DEF Next, Advance

\* Every step keeps the clean blocks of the cache as on disk.
LEMMA CleanStep ==
  ASSUME IInv, [Next]_vars
  PROVE  Clean'
  <1>0. TypeOK /\ Threads /\ Clean
    BY DEF IInv, Copies
  <1>1. ASSUME UNCHANGED <<buf, disk, dirty, wblk>> PROVE Clean'
    BY <1>0, <1>1 DEF Clean, Held
  <1>2. ASSUME InstallBlock, UNCHANGED wblk PROVE Clean'
    <2>1. lh[tail] \in Block
      BY <1>0, <1>2 DEF InstallBlock, TypeOK
    <2>2. Held' = Held
      BY <1>2 DEF Held
    <2>3. ASSUME NEW b \in Block
          PROVE  b \in Held' \cup dirty' \/ buf'[b] \in {None, disk'[b]}
      <3>1. CASE b = lh[tail]
        BY <1>0, <1>2, <3>1 DEF InstallBlock, TypeOK
      <3>2. CASE b # lh[tail]
        BY <1>0, <1>2, <2>2, <3>2 DEF InstallBlock, TypeOK, Clean
      <3> QED
        BY <3>1, <3>2
    <2> QED
      BY <2>3 DEF Clean
  <1>3. CASE Recovery
    <2>1. \/ UNCHANGED <<buf, disk, dirty, wblk>>
          \/ InstallBlock /\ UNCHANGED wblk
      BY <1>3 DEF Recovery, ReadHead, RecoverInstall, RecoverClear, ClearLog,
                  onDisk, cache, threads
    <2> QED
      BY <1>1, <1>2, <2>1
  <1>4. CASE Crash
    BY <1>4 DEF Crash, Clean
  <1>5. ASSUME NEW p \in Proc,
               \/ Call(p) \/ BeginOp(p) \/ WriteLog(p) \/ WriteHead(p)
               \/ EraseLog(p) \/ CommitDone(p)
        PROVE  Clean'
    <2>1. UNCHANGED <<buf, disk, dirty, wblk>>
      BY <1>5 DEF Call, BeginOp, WriteLog, WriteHead, EraseLog, CommitDone,
                  ClearLog, onDisk, cache
    <2> QED
      BY <1>1, <2>1
  <1>6. ASSUME NEW p \in Proc, EndOp(p) PROVE Clean'
    BY <1>1, <1>6 DEF EndOp, onDisk, cache
  <1>7. ASSUME NEW p \in Proc, Write(p) PROVE Clean'
    <2>1. PICK b \in Block \ Held, v \in Val :
            /\ rc = "up" /\ pc[p] = "op"
            /\ buf' = [buf EXCEPT ![b] = v]
            /\ wblk' = [wblk EXCEPT ![p] = b]
            /\ UNCHANGED <<onDisk, inLog, dirty, tail, rc>>
      BY <1>7, WriteEffect, ZenonT(40)
    <2>a. pc[p] # "append" /\ b \in Block
      BY <2>1
    <2>2. wblk[p] = None /\ b # None
      BY <1>0, <2>a, LogAssumption DEF Threads
    <2>3. \A q \in Proc : wblk'[q] = (IF q = p THEN b ELSE wblk[q])
      BY <1>0, <2>1 DEF TypeOK
    <2>4. Held \subseteq Held' /\ b \in Held'
      BY <2>2, <2>3 DEF Held
    <2>5. UNCHANGED <<disk, dirty>>
      BY <2>1 DEF onDisk
    <2> QED
      BY <1>0, <2>1, <2>4, <2>5 DEF Clean, TypeOK
  <1>8. ASSUME NEW p \in Proc, LogWrite(p) PROVE Clean'
    <2>1. /\ dirty' = dirty \cup {wblk[p]}
          /\ wblk' = [wblk EXCEPT ![p] = None]
          /\ UNCHANGED <<disk, buf>>
      BY <1>8 DEF LogWrite, onDisk
    <2>2. \A q \in Proc : wblk'[q] = (IF q = p THEN None ELSE wblk[q])
      BY <1>0, <2>1 DEF TypeOK
    <2>3. Held \subseteq Held' \cup {wblk[p]}
      BY <2>2 DEF Held
    <2> QED
      BY <1>0, <2>1, <2>3 DEF Clean
  <1>9. ASSUME NEW p \in Proc, InstallTrans(p) PROVE Clean'
    <2>1. \/ UNCHANGED <<buf, disk, dirty, wblk>>
          \/ InstallBlock /\ UNCHANGED wblk
      BY <1>9 DEF InstallTrans, onDisk, cache
    <2> QED
      BY <1>1, <1>2, <2>1
  <1>10. ASSUME NEW c \in Block, Read(c) \/ Evict(c) PROVE Clean'
    <2>1. /\ UNCHANGED <<disk, dirty, wblk>>
          /\ buf' = [buf EXCEPT ![c] = disk[c]] \/ buf' = [buf EXCEPT ![c] = None]
      BY <1>10 DEF Read, Evict, onDisk, threads
    <2>2. Held' = Held
      BY <2>1 DEF Held
    <2> QED
      BY <1>0, <2>1, <2>2 DEF Clean, TypeOK
  <1>11. CASE UNCHANGED vars
    BY <1>1, <1>11 DEF vars, onDisk, cache, threads
  <1> QED
    BY <1>3, <1>4, <1>5, <1>6, <1>7, <1>8, <1>9, <1>10, <1>11
    DEF Next, Advance

\* Every step of a commit and of recovery keeps the copies that it has made.
LEMMA WrittenStep ==
  ASSUME IInv, [Next]_vars
  PROVE  Written'
  <1>0. TypeOK /\ Threads /\ Headers /\ Written
    BY DEF IInv, Copies
  <1>1. Len(lh) \in Nat /\ Len(lh) < nlog /\ tail \in Nat /\ nlog \in Nat
    BY <1>0, LogAssumption DEF TypeOK
  <1>2. \A i \in 1..Len(lh) : lh[i] \in Block
    BY <1>0 DEF TypeOK
  <1>3. ASSUME InstallBlock, UNCHANGED lh, NEW i \in 1..Len(lh)
        PROVE  /\ logd'[i] = logd[i] /\ tail' = tail + 1
               /\ i = tail => disk'[lh[i]] = logd[i]
               /\ i # tail => disk'[lh[i]] = disk[lh[i]]
    <2>1. tail \in 1..Len(lh)
      BY <1>0, <1>1, <1>3 DEF InstallBlock, TypeOK
    <2>2. i # tail => lh[i] # lh[tail]
      BY <1>0, <2>1 DEF Headers, Injective
    <2> QED
      BY <1>0, <1>2, <1>3, <2>1, <2>2 DEF InstallBlock, TypeOK
  <1>4. CASE Recovery
    <2>1. rc # "up" /\ UNCHANGED pc
      BY <1>4 DEF Recovery, ReadHead, RecoverInstall, RecoverClear, threads
    <2>2. \A p \in Proc : pc'[p] = "idle"
      BY <1>0, <2>1 DEF Threads
    <2>3. CASE ReadHead
      BY <2>2, <2>3 DEF ReadHead, Written
    <2>4. CASE RecoverInstall
      <3>1. rc = "install" /\ UNCHANGED lh
        BY <2>4 DEF RecoverInstall, inLog
      <3>2. CASE InstallBlock /\ UNCHANGED rc
        BY <1>0, <1>1, <1>3, <2>2, <3>1, <3>2 DEF Written
      <3>3. CASE tail > Len(lh) /\ rc' = "clear" /\ UNCHANGED <<onDisk, cache>>
        <4>1. \A i \in 1..Len(lh) : disk[lh[i]] = logd[i]
          BY <1>0, <1>1, <3>1, <3>3 DEF Written
        <4> QED
          BY <2>2, <3>1, <3>3, <4>1 DEF Written, onDisk
      <3> QED
        BY <2>4, <3>2, <3>3 DEF RecoverInstall
    <2>5. CASE RecoverClear
      BY <2>5 DEF RecoverClear, ClearLog, Written
    <2> QED
      BY <1>4, <2>3, <2>4, <2>5 DEF Recovery
  <1>5. CASE Crash
    BY <1>5 DEF Crash, Written
  <1>6. ASSUME rc' = "up", \A q \in Proc : pc'[q] \notin Flush PROVE Written'
    BY <1>6 DEF Written, Flush
  <1>7. ASSUME rc = "up", UNCHANGED <<lh, logd, disk, tail, rc>>, Seen' = Seen,
               \A q \in Proc, l \in Flush : pc'[q] = l => pc[q] = l
        PROVE  Written'
    BY <1>0, <1>7 DEF Written, Flush
  <1>8. ASSUME NEW p \in Proc, Call(p) \/ BeginOp(p) \/ CommitDone(p) PROVE Written'
    <2>1. rc = "up" /\ UNCHANGED <<lh, logd, disk, tail, rc, buf>>
      BY <1>8 DEF Call, BeginOp, CommitDone, At, inLog, cache, onDisk
    <2>2. \/ \E to \in {"begin", "asleep", "op"} : pc' = [pc EXCEPT ![p] = to]
          \/ WakeAll(p, "idle")
      BY <1>8 DEF Call, BeginOp, CommitDone, At, Goto
    <2>3. \A q \in Proc, l \in Flush : pc'[q] = l => pc[q] = l
      BY <1>0, <2>2 DEF WakeAll, Flush, TypeOK
    <2>4. Seen' = Seen
      BY <2>1, SeenUnchanged
    <2> QED
      BY <1>7, <2>1, <2>3, <2>4
  <1>9. ASSUME NEW p \in Proc, Write(p) \/ LogWrite(p) PROVE Written'
    <2>1. rc = "up" /\ InOp(p) /\ UNCHANGED rc
          /\ \E to \in {"op", "append"} : pc' = [pc EXCEPT ![p] = to]
      BY <1>9, WriteEffect DEF LogWrite, At, Goto, InOp
    <2>2. \A q \in Proc : pc[q] \notin Flush
      BY <1>0, <2>1, OpNoFlush
    <2>3. \A q \in Proc : pc'[q] \notin Flush
      BY <1>0, <2>1, <2>2 DEF Flush, TypeOK
    <2> QED
      BY <1>6, <2>1, <2>3
  <1>10. ASSUME NEW p \in Proc, EndOp(p) PROVE Written'
    <2>1. /\ rc = "up" /\ pc[p] = "op"
          /\ UNCHANGED <<onDisk, lh, cache, wblk, tail, rc>>
      BY <1>10, EndEffect, Zenon
    <2>2. \/ pc' = [pc EXCEPT ![p] = IF lh = <<>> THEN "done" ELSE "wlog"]
          \/ WakeAll(p, "idle")
      BY <1>10, EndEffect, Zenon
    <2>3. \A q \in Proc : pc[q] \notin Flush
      BY <1>0, <2>1, OpNoFlush DEF InOp
    <2>4. tail' = 1
      BY <1>0, <2>1, <2>3 DEF Headers, Flush
    <2>5. \A q \in Proc : pc'[q] \notin {"whead", "install", "clear"}
      BY <1>0, <2>2, <2>3 DEF WakeAll, Flush, TypeOK
    <2> QED
      BY <2>1, <2>4, <2>5 DEF Written
  <1>11. ASSUME NEW p \in Proc, WriteLog(p) PROVE Written'
    <2>1. /\ rc = "up" /\ pc[p] = "wlog"
          /\ UNCHANGED <<lh, disk, buf, rc>>
      BY <1>11 DEF WriteLog, At, inLog, cache
    <2>2. Seen' = Seen
      BY <2>1, SeenUnchanged
    <2>3. \A q \in Proc : q # p => pc[q] \notin Flush \cup {"done"}
      BY <1>0, <2>1, OneCommitter DEF Flush
    <2>4. CASE tail <= Len(lh)
      <3>1. /\ logd' = [logd EXCEPT ![tail] = Contents(lh[tail])]
            /\ tail' = tail + 1 /\ UNCHANGED pc
        BY <1>1, <1>11, <2>4 DEF WriteLog
      <3>2. tail \in 1..Len(lh)
        BY <1>0, <2>4 DEF TypeOK
      <3>3. Contents(lh[tail]) = Seen[lh[tail]]
        BY <1>2, <3>2 DEF Seen
      <3>4. ASSUME NEW i \in 1..Len(lh), i < tail' PROVE logd'[i] = Seen[lh[i]]
        <4>1. i \in 1..(nlog - 1)
          BY <1>1
        <4>2. CASE i = tail
          BY <1>0, <3>1, <3>3, <4>1, <4>2 DEF TypeOK
        <4>3. CASE i # tail
          <5>1. i < tail
            BY <1>1, <3>1, <3>4, <4>3
          <5>2. logd[i] = Seen[lh[i]]
            BY <1>0, <2>1, <5>1 DEF Written
          <5> QED
            BY <1>0, <3>1, <4>1, <4>3, <5>2 DEF TypeOK
        <4> QED
          BY <4>2, <4>3
      <3>5. \A q \in Proc : pc'[q] \notin {"whead", "install", "clear"}
        BY <2>1, <2>3, <3>1 DEF Flush
      <3> QED
        BY <2>1, <2>2, <3>4, <3>5 DEF Written
    <2>5. CASE ~(tail <= Len(lh))
      <3>1. pc' = [pc EXCEPT ![p] = "whead"] /\ UNCHANGED logd
        BY <1>1, <1>11, <2>5 DEF WriteLog, Goto
      <3>2. \A i \in 1..Len(lh) : logd[i] = Seen[lh[i]]
        BY <1>0, <1>1, <2>1, <2>5 DEF Written
      <3>3. \A q \in Proc : pc'[q] \notin {"wlog", "install", "clear"}
        BY <1>0, <2>3, <3>1 DEF Flush, TypeOK
      <3> QED
        BY <2>1, <2>2, <3>1, <3>2, <3>3 DEF Written
    <2> QED
      BY <2>4, <2>5
  <1>12. ASSUME NEW p \in Proc, WriteHead(p) PROVE Written'
    <2>1. /\ rc = "up" /\ pc[p] = "whead" /\ pc' = [pc EXCEPT ![p] = "install"]
          /\ UNCHANGED <<lh, disk, logd, buf, rc, tail>>
      BY <1>12 DEF WriteHead, At, Goto, inLog, cache
    <2>2. Seen' = Seen
      BY <2>1, SeenUnchanged
    <2>3. \A q \in Proc : q # p => pc[q] \notin Flush \cup {"done"}
      BY <1>0, <2>1, OneCommitter DEF Flush
    <2>4. tail = 1
      BY <1>0, <2>1, <2>3 DEF Headers, Flush
    <2>5. \A i \in 1..Len(lh) : logd[i] = Seen[lh[i]] /\ ~(i < tail)
      BY <1>0, <1>1, <2>1, <2>4 DEF Written
    <2>6. \A q \in Proc : pc'[q] # "clear"
      BY <1>0, <2>1, <2>3 DEF Flush, TypeOK
    <2> QED
      BY <2>1, <2>2, <2>5, <2>6 DEF Written
  <1>13. ASSUME NEW p \in Proc, InstallTrans(p) PROVE Written'
    <2>1. rc = "up" /\ pc[p] = "install" /\ UNCHANGED <<lh, rc>>
      BY <1>13 DEF InstallTrans, At, inLog
    <2>2. \A q \in Proc : q # p => pc[q] \notin Flush \cup {"done"}
      BY <1>0, <2>1, OneCommitter DEF Flush
    <2>3. CASE InstallBlock /\ UNCHANGED pc
      <3>1. Seen' = Seen
        BY <2>1, <2>3, SeenInstall
      <3>2. ASSUME NEW i \in 1..Len(lh) PROVE logd'[i] = Seen[lh[i]]
        BY <1>0, <1>3, <2>1, <2>3 DEF Written
      <3>3. ASSUME NEW i \in 1..Len(lh), i < tail' PROVE disk'[lh[i]] = logd'[i]
        BY <1>0, <1>1, <1>3, <2>1, <2>3, <3>3 DEF Written
      <3>4. \A q \in Proc : pc'[q] \notin {"wlog", "clear"}
        BY <2>1, <2>2, <2>3 DEF Flush
      <3> QED
        BY <2>1, <3>1, <3>2, <3>3, <3>4 DEF Written
    <2>4. CASE tail > Len(lh) /\ Goto(p, "clear") /\ UNCHANGED <<onDisk, cache>>
      <3>1. UNCHANGED <<disk, logd>> /\ Seen' = Seen
        BY <2>4, SeenUnchanged DEF onDisk, cache
      <3>2. \A i \in 1..Len(lh) : logd[i] = Seen[lh[i]] /\ disk[lh[i]] = logd[i]
        BY <1>0, <1>1, <2>1, <2>4 DEF Written
      <3> QED
        BY <2>1, <3>1, <3>2 DEF Written
    <2> QED
      BY <1>13, <2>3, <2>4 DEF InstallTrans
  <1>14. ASSUME NEW p \in Proc, EraseLog(p) PROVE Written'
    BY <1>14 DEF EraseLog, ClearLog, Written
  <1>15. ASSUME NEW b \in Block, Read(b) \/ Evict(b) PROVE Written'
    <2>1. rc = "up" /\ UNCHANGED <<lh, logd, disk, tail, rc, pc>>
      BY <1>15 DEF Read, Evict, onDisk, inLog, threads
    <2>2. Seen' = Seen
      BY <1>15, SeenCache
    <2> QED
      BY <1>7, <2>1, <2>2
  <1>16. CASE UNCHANGED vars
    <2>1. UNCHANGED <<lh, logd, disk, tail, rc, pc, buf>>
      BY <1>16 DEF vars, onDisk, inLog, cache, threads
    <2>2. Seen' = Seen
      BY <2>1, SeenUnchanged
    <2> QED
      BY <1>0, <2>1, <2>2 DEF Written
  <1> QED
    BY <1>4, <1>5, <1>8, <1>9, <1>10, <1>11, <1>12, <1>13, <1>14, <1>15, <1>16
    DEF Next, Advance

-----------------------------------------------------------------------------
(* The inductive invariant and what follows from it.                       *)

\* The inductive invariant holds at boot.
LEMMA InitInv ==
  ASSUME Init
  PROVE  IInv
  <1>1. TypeOK
    BY TypeInit
  <1>2. Ops = {} /\ Held = {}
    BY DEF Init, Ops, InOp, Held
  <1>3. Threads
    BY <1>2 DEF Init, Threads, Flush
  <1>4. IsFiniteSet({}) /\ Cardinality({}) = 0 /\ OpBlocks \in Nat
    BY FS_EmptySet, LogAssumption
  <1>5. Operations
    BY <1>2, <1>4 DEF Init, Operations
  <1>6. Space
    <2>1. Logged = {} /\ Len(lh) = 0 /\ outstanding = 0 /\ rc = "read"
      BY DEF Init, Logged, InOp
    <2>2. MAXOPBLOCKS * 0 = 0 /\ LOGSIZE \in Nat
      BY LogAssumption
    <2> QED
      BY <1>4, <2>1, <2>2 DEF Space
  <1>7. Headers
    BY DEF Init, Headers, Injective
  <1>8. Copies
    BY DEF Init, Copies, Pinned, Clean, Written
  <1> QED
    BY <1>1, <1>3, <1>5, <1>6, <1>7, <1>8 DEF IInv

\* IInv holds in every reachable state.
THEOREM Invariance == Spec => []IInv
  <1>1. Init => IInv
    BY InitInv
  <1>2. IInv /\ [Next]_vars => IInv'
    <2> SUFFICES ASSUME IInv, [Next]_vars PROVE IInv'
      OBVIOUS
    <2>1. Copies'
      BY PinnedStep, CleanStep, WrittenStep DEF Copies
    <2> QED
      BY <2>1, TypeStep, ThreadsStep, OperationsStep, SpaceStep, HeadersStep
        DEF IInv
  <1> QED
    BY <1>1, <1>2, PTL DEF Spec

\* The types of struct log, of the cache and of the disk are right in every
\* reachable state; in particular log_write() never overruns the header.
THEOREM TypeCorrect == Spec => []TypeOK
  <1>1. IInv => TypeOK
    BY DEF IInv
  <1> QED
    BY <1>1, Invariance, PTL

\* begin_op()'s estimate is enough: log_write() and end_op() never panic, and
\* what the operations under way may still log fits.
THEOREM ReservationSafe == Spec => []Reservation
  <1>1. ASSUME IInv PROVE Reservation
    <2>0. TypeOK /\ Operations /\ Space
      BY <1>1 DEF IInv
    <2>1. /\ outstanding \in Nat
          /\ Cardinality(Logged) \in Nat
      BY <2>0, LoggedBound
    <2>2. outstanding = Cardinality({p \in Proc : InOp(p)})
      BY <2>0 DEF Operations, Ops
    <2>3. Len(lh) \in Nat /\ LOGSIZE \in Nat /\ MAXOPBLOCKS \in Nat
      BY <2>0, LogAssumption DEF TypeOK
    <2>4. MAXOPBLOCKS * outstanding \in Nat
      BY <2>1, <2>3, Times
    <2>5. /\ rc # "panic"
          /\ Len(lh) + (MAXOPBLOCKS * outstanding) <= LOGSIZE + Cardinality(Logged)
      BY <2>0 DEF Space
    <2>6. Len(lh) + MAXOPBLOCKS * outstanding - Cardinality(Logged) <= LOGSIZE
      BY <2>1, <2>3, <2>4, <2>5
    <2> QED
      BY <2>2, <2>5, <2>6 DEF Reservation
  <1>2. IInv => Reservation
    BY <1>1
  <1> QED
    BY <1>2, Invariance, PTL

\* Eviction loses nothing: a block of the cache that differs from the disk is
\* dirty or held.
THEOREM CacheSafe == Spec => []CacheCoherent
  <1>1. IInv => CacheCoherent
    BY DEF IInv, Copies, Clean, CacheCoherent
  <1> QED
    BY <1>1, Invariance, PTL

-----------------------------------------------------------------------------
(* The refinement.                                                         *)

\* A block that the header on disk names is recovered from its log block.
LEMMA RecoveredLogged ==
  ASSUME TypeOK, Headers, NEW i \in 1..Len(head)
  PROVE  Recovered[head[i]] = logd[i]
  <1> DEFINE b == head[i]
             k == CHOOSE j \in 1..Len(head) : head[j] = b
  <1>1. k \in 1..Len(head) /\ head[k] = b
    OBVIOUS
  <1>2. k = i
    BY <1>1 DEF Headers, Injective
  <1>3. b \in Block
    BY DEF TypeOK
  <1> QED
    BY <1>2, <1>3 DEF Recovered

\* A block that the header on disk does not name is recovered as it is.
LEMMA RecoveredHome ==
  ASSUME NEW b \in Block, ~Has(head, b)
  PROVE  Recovered[b] = disk[b]
  BY DEF Recovered, Has

\* With an empty header on disk, recovery changes nothing.
LEMMA RecoveredEmpty ==
  ASSUME TypeOK, head = <<>>
  PROVE  Recovered = disk
  BY DEF Recovered, TypeOK

\* Installing a block of the log does not change what recovery would leave.
LEMMA RecoveredInstall ==
  ASSUME TypeOK, Headers, InstallBlock, lh = head
  PROVE  Recovered' = Recovered
  <1>1. UNCHANGED <<logd, head>> /\ \A b \in Block : b # lh[tail] => disk'[b] = disk[b]
    BY DEF InstallBlock, TypeOK
  <1>2. tail \in 1..Len(head)
    BY DEF InstallBlock, TypeOK
  <1>3. \A b \in Block : ~Has(head, b) => disk'[b] = disk[b]
    BY <1>1, <1>2 DEF Has
  <1> QED
    BY <1>1, <1>3 DEF Recovered, Has

\* Nor does erasing the header once everything is installed.
LEMMA RecoveredClear ==
  ASSUME TypeOK, TypeOK', Headers, ClearLog, lh = head,
         \A i \in 1..Len(lh) : disk[lh[i]] = logd[i]
  PROVE  Recovered' = Recovered
  <1>1. head' = <<>> /\ disk' = disk
    BY DEF ClearLog
  <1>2. Recovered' = disk
    <2>1. \A b \in Block : Recovered'[b] = disk[b]
      BY <1>1 DEF Recovered
    <2>2. disk = [b \in Block |-> disk[b]] /\ Recovered' = [b \in Block |-> Recovered'[b]]
      BY DEF TypeOK, Recovered
    <2> QED
      BY <2>1, <2>2
  <1>3. ASSUME NEW b \in Block PROVE Recovered[b] = disk[b]
    <2>1. CASE Has(head, b)
      <3>1. PICK i \in 1..Len(head) : head[i] = b
        BY <2>1 DEF Has
      <3>2. Recovered[b] = logd[i]
        BY <3>1, RecoveredLogged
      <3> QED
        BY <3>1, <3>2
    <2>2. CASE ~Has(head, b)
      BY <2>2, RecoveredHome
    <2> QED
      BY <2>1, <2>2
  <1>4. disk = [b \in Block |-> disk[b]] /\ Recovered = [b \in Block |-> Recovered[b]]
    BY DEF TypeOK, Recovered
  <1> QED
    BY <1>2, <1>3, <1>4

\* With nothing held and nothing dirty, reads see the disk.
LEMMA SeenDisk ==
  ASSUME TypeOK, Clean, Held = {}, dirty = {}
  PROVE  Seen = disk
  <1>1. ASSUME NEW b \in Block PROVE Seen[b] = disk[b]
    BY DEF Clean, Seen, Contents
  <1>2. disk = [b \in Block |-> disk[b]] /\ Seen = [b \in Block |-> Seen[b]]
    BY DEF TypeOK, Seen
  <1> QED
    BY <1>1, <1>2

\* At the commit point, recovery would leave what is read now.
LEMMA CommitPoint ==
  ASSUME IInv, NEW p \in Proc, WriteHead(p)
  PROVE  Recovered' = Seen
  <1>0. TypeOK /\ Threads /\ Headers /\ Pinned /\ Clean /\ Written
    BY DEF IInv, Copies
  <1>1. pc[p] = "whead" /\ head' = lh /\ UNCHANGED <<disk, logd, lh>>
    BY DEF WriteHead, At, inLog
  <1>2. Held = {}
    BY <1>0, <1>1, NoOps, NothingHeldNow DEF Flush
  <1>3. \A b \in dirty : Has(lh, b)
    BY <1>0 DEF Pinned, Unsaved, Has
  <1>4. ASSUME NEW b \in Block PROVE Recovered'[b] = Seen[b]
    <2>1. CASE Has(lh, b)
      <3> DEFINE k == CHOOSE j \in 1..Len(lh) : lh[j] = b
      <3>1. k \in 1..Len(lh) /\ lh[k] = b
        BY <2>1 DEF Has
      <3>2. Recovered'[b] = logd[k]
        BY <1>1, <2>1 DEF Recovered, Has
      <3>3. logd[k] = Seen[lh[k]]
        <4> HIDE DEF k
        <4> QED
          BY <1>0, <1>1, <3>1 DEF Written
      <3> QED
        BY <3>1, <3>2, <3>3
    <2>2. CASE ~Has(lh, b)
      <3>1. Recovered'[b] = disk[b]
        BY <1>1, <2>2 DEF Recovered, Has
      <3>2. buf[b] \in {None, disk[b]}
        BY <1>0, <1>2, <1>3, <2>2 DEF Clean
      <3> QED
        BY <3>1, <3>2 DEF Seen, Contents
    <2> QED
      BY <2>1, <2>2
  <1>5. Recovered' = [b \in Block |-> Recovered'[b]] /\ Seen = [b \in Block |-> Seen[b]]
    BY DEF Recovered, Seen
  <1> QED
    BY <1>4, <1>5

\* Once the last operation and its commit have returned, a crash would lose
\* nothing.
THEOREM Durability == Spec => []DurableWhenQuiet
  <1>1. ASSUME IInv, rc = "up", \A p \in Proc : pc[p] \in {"idle", "begin", "asleep"}
        PROVE  Recovered = Visible
    <2>0. TypeOK /\ Threads /\ Headers /\ Pinned /\ Clean
      BY <1>1 DEF IInv, Copies
    <2>1. Ops = {}
      BY <1>1 DEF Ops, InOp
    <2>2. head = <<>> /\ lh = <<>>
      BY <1>1, <2>0, <2>1 DEF Headers, Flush
    <2>3. dirty = {}
      BY <2>0, <2>2 DEF Pinned, Unsaved
    <2>4. Held = {}
      BY <2>0, <2>1, NothingHeldNow
    <2>5. Seen = disk
      BY <2>0, <2>3, <2>4, SeenDisk
    <2>6. Recovered = disk
      BY <2>0, <2>2, RecoveredEmpty
    <2> QED
      BY <1>1, <2>5, <2>6 DEF Visible, Seen
  <1>2. IInv => DurableWhenQuiet
    BY <1>1 DEF DurableWhenQuiet
  <1> QED
    BY <1>2, Invariance, PTL

\* A step that changes neither the reads, nor what recovery would leave, nor
\* the operations under way is no step of the atomic disk.
LEMMA AtomicSame ==
  ASSUME rc = "up", rc' = "up", Seen' = Seen, Recovered' = Recovered, Ops' = Ops
  PROVE  UNCHANGED Atomic!vars
  BY DEF Atomic!vars, Visible, Seen, Ops

\* Recovery does not show: it is part of the crash.
LEMMA AtomicRecovery ==
  ASSUME IInv, Recovery
  PROVE  UNCHANGED Atomic!vars
  <1>0. TypeOK /\ Threads /\ Headers /\ Pinned /\ Clean /\ Written
    BY DEF IInv, Copies
  <1>1. rc # "up" /\ UNCHANGED pc
    BY DEF Recovery, ReadHead, RecoverInstall, RecoverClear, threads
  <1>2. Ops' = Ops
    BY <1>1 DEF Ops, InOp
  <1>3. CASE ReadHead
    <2>1. Recovered' = Recovered /\ rc' # "up"
      BY <1>3 DEF ReadHead, onDisk, Recovered
    <2> QED
      BY <1>1, <1>2, <2>1 DEF Atomic!vars, Visible, Ops
  <1>4. CASE RecoverInstall
    <2>1. lh = head /\ rc' # "up"
      BY <1>0, <1>4 DEF RecoverInstall, Headers
    <2>2. CASE InstallBlock
      BY <1>0, <1>1, <1>2, <2>1, <2>2, RecoveredInstall DEF Atomic!vars, Visible, Ops
    <2>3. CASE UNCHANGED onDisk
      <3>1. Recovered' = Recovered
        BY <2>3 DEF onDisk, Recovered
      <3> QED
        BY <1>1, <1>2, <2>1, <3>1 DEF Atomic!vars, Visible, Ops
    <2> QED
      BY <1>4, <2>2, <2>3 DEF RecoverInstall
  <1>5. CASE RecoverClear
    <2>1. /\ rc = "clear" /\ ClearLog /\ rc' = "up" /\ head' = <<>>
          /\ UNCHANGED <<disk, logd, buf>>
      BY <1>5 DEF RecoverClear, ClearLog, cache
    <2>2. lh = head /\ \A i \in 1..Len(lh) : disk[lh[i]] = logd[i]
      BY <1>0, <2>1 DEF Headers, Written
    <2>3. TypeOK'
      <3>1. Next
        BY <1>5 DEF Next, Recovery
      <3> QED
        BY <3>1, TypeStep
    <2>4. Recovered' = Recovered
      BY <1>0, <2>1, <2>2, <2>3, RecoveredClear
    <2>5. Ops = {} /\ dirty = {}
      BY <1>0, <1>1, NoOps DEF Pinned
    <2>6. Seen = disk
      BY <1>0, <2>5, NothingHeldNow, SeenDisk
    <2>7. Seen' = disk
      BY <2>1, <2>6, SeenUnchanged
    <2>8. Recovered' = disk
      <3>1. \A b \in Block : Recovered'[b] = disk[b]
        BY <2>1 DEF Recovered
      <3>2. /\ Recovered' = [b \in Block |-> Recovered'[b]]
            /\ disk = [b \in Block |-> disk[b]]
        BY <1>0 DEF Recovered, TypeOK
      <3> QED
        BY <3>1, <3>2
    <2>9. Visible' = Seen' /\ Visible = Recovered
      BY <1>1, <2>1 DEF Visible, Seen
    <2> QED
      BY <1>2, <2>4, <2>7, <2>8, <2>9 DEF Atomic!vars, Ops
  <1> QED
    BY <1>3, <1>4, <1>5 DEF Recovery

\* Every step of the log is a step of the atomic disk or none of it.
LEMMA AtomicStep ==
  ASSUME IInv, [Next]_vars
  PROVE  [Atomic!Next]_Atomic!vars
  <1>0. TypeOK /\ Threads /\ Headers /\ Written
    BY DEF IInv, Copies
  <1>1. CASE Recovery
    BY <1>1, AtomicRecovery
  <1>2. CASE Crash
    <2>1. Recovered' = Recovered /\ rc' = "read"
      BY <1>2 DEF Crash, onDisk, Recovered
    <2>2. Visible' = Recovered
      BY <2>1 DEF Visible
    <2>3. {p \in Proc : InOp(p)}' = {}
      BY <1>2 DEF Crash, InOp
    <2>4. Atomic!Crash
      BY <2>1, <2>2, <2>3 DEF Atomic!Crash
    <2> QED
      BY <2>4 DEF Atomic!Next
  <1>3. ASSUME UNCHANGED <<onDisk, buf>>
        PROVE  Recovered' = Recovered /\ Seen' = Seen
    BY <1>3, SeenUnchanged DEF onDisk, Recovered
  <1>4. ASSUME rc = "up", rc' = "up", UNCHANGED <<onDisk, buf>>
        PROVE  Visible' = Visible /\ Recovered' = Recovered
    <2>1. Visible = Seen /\ Visible' = Seen'
      BY <1>4 DEF Visible, Seen
    <2> QED
      BY <1>3, <1>4, <2>1
  <1>5. ASSUME NEW p \in Proc, Call(p) \/ LogWrite(p) \/ CommitDone(p)
        PROVE  UNCHANGED Atomic!vars
    <2>1. rc = "up" /\ rc' = "up" /\ UNCHANGED <<onDisk, buf>>
      BY <1>5 DEF Call, LogWrite, CommitDone, At, cache
    <2>2. \/ pc[p] = "idle" /\ pc' = [pc EXCEPT ![p] = "begin"]
          \/ pc[p] = "append" /\ pc' = [pc EXCEPT ![p] = "op"]
          \/ pc[p] = "done" /\ WakeAll(p, "idle")
      BY <1>5 DEF Call, LogWrite, CommitDone, At, Goto
    <2>3. ASSUME NEW q \in Proc PROVE InOp(q)' <=> InOp(q)
      BY <1>0, <2>2 DEF WakeAll, InOp, TypeOK
    <2>4. Ops' = Ops
      BY <2>3 DEF Ops
    <2> QED
      BY <1>3, <2>1, <2>4, AtomicSame
  <1>6. ASSUME NEW p \in Proc, BeginOp(p) PROVE [Atomic!Next]_Atomic!vars
    <2>1. /\ rc = "up" /\ rc' = "up" /\ UNCHANGED <<onDisk, buf>>
          /\ pc[p] = "begin"
          /\ \/ pc' = [pc EXCEPT ![p] = "asleep"]
             \/ pc' = [pc EXCEPT ![p] = "op"]
      BY <1>6 DEF BeginOp, At, Goto, cache
    <2>2. CASE pc' = [pc EXCEPT ![p] = "asleep"]
      <3>1. Ops' = Ops
        BY <1>0, <2>1, <2>2 DEF Ops, InOp, TypeOK
      <3> QED
        BY <1>3, <2>1, <3>1, AtomicSame
    <2>3. CASE pc' = [pc EXCEPT ![p] = "op"]
      <3>1. ASSUME NEW q \in Proc PROVE InOp(q)' <=> InOp(q) \/ q = p
        BY <1>0, <2>1, <2>3 DEF InOp, TypeOK
      <3>2. {q \in Proc : InOp(q)}' = {q \in Proc : InOp(q)} \cup {p}
        BY <3>1
      <3>3. Atomic!Begin(p)
        BY <1>4, <2>1, <3>2 DEF Atomic!Begin
      <3> QED
        BY <3>3 DEF Atomic!Next
    <2> QED
      BY <2>1, <2>2, <2>3
  <1>7. ASSUME NEW p \in Proc, EndOp(p) PROVE [Atomic!Next]_Atomic!vars
    <2>1. /\ rc = "up" /\ pc[p] = "op"
          /\ UNCHANGED <<onDisk, lh, cache, wblk, tail, rc>>
      BY <1>7, EndEffect, Zenon
    <2>2. \/ pc' = [pc EXCEPT ![p] = IF lh = <<>> THEN "done" ELSE "wlog"]
          \/ WakeAll(p, "idle")
      BY <1>7, EndEffect, Zenon
    <2>3. ASSUME NEW q \in Proc PROVE InOp(q)' <=> InOp(q) /\ q # p
      BY <1>0, <2>2 DEF WakeAll, InOp, TypeOK
    <2>4. {q \in Proc : InOp(q)}' = {q \in Proc : InOp(q)} \ {p}
      BY <2>3
    <2>5. p \in {q \in Proc : InOp(q)}
      BY <2>1 DEF InOp
    <2>6. Visible' = Visible /\ Recovered' = Recovered
      BY <1>4, <2>1 DEF cache
    <2>7. Atomic!End(p)
      BY <2>4, <2>5, <2>6 DEF Atomic!End
    <2> QED
      BY <2>7 DEF Atomic!Next
  <1>8. ASSUME NEW p \in Proc, Write(p) PROVE [Atomic!Next]_Atomic!vars
    <2>1. PICK b \in Block \ Held, v \in Val :
            /\ rc = "up" /\ pc[p] = "op"
            /\ buf' = [buf EXCEPT ![b] = v]
            /\ pc' = [pc EXCEPT ![p] = "append"]
            /\ UNCHANGED <<onDisk, inLog, dirty, tail, rc>>
      BY <1>8, WriteEffect, ZenonT(40)
    <2>2. UNCHANGED disk /\ Recovered' = Recovered
      BY <2>1 DEF onDisk, Recovered
    <2>3. v # None
      BY LogAssumption
    <2>4. ASSUME NEW c \in Block PROVE Seen'[c] = (IF c = b THEN v ELSE Seen[c])
      <3>1. Seen'[c] = (IF buf'[c] = None THEN disk[c] ELSE buf'[c])
        BY <2>2 DEF Seen, Contents
      <3>2. Seen[c] = (IF buf[c] = None THEN disk[c] ELSE buf[c])
        BY DEF Seen, Contents
      <3> QED
        BY <1>0, <2>1, <2>3, <3>1, <3>2 DEF TypeOK
    <2>5. Seen' = [Seen EXCEPT ![b] = v]
      <3>1. Seen' = [c \in Block |-> Seen'[c]] /\ Seen = [c \in Block |-> Seen[c]]
        BY DEF Seen
      <3> QED
        BY <2>4, <3>1
    <2>6. Visible = Seen /\ Visible' = Seen'
      BY <2>1 DEF Visible, Seen
    <2>7. {q \in Proc : InOp(q)}' = {q \in Proc : InOp(q)} /\ p \in {q \in Proc : InOp(q)}
      BY <1>0, <2>1 DEF InOp, TypeOK
    <2>8. \E c \in Block, w \in Val : Visible' = [Visible EXCEPT ![c] = w]
      BY <2>5, <2>6
    <2>9. Atomic!Write(p)
      BY <2>2, <2>7, <2>8 DEF Atomic!Write
    <2> QED
      BY <2>9 DEF Atomic!Next
  <1>9. ASSUME NEW p \in Proc,
               \/ WriteLog(p) \/ InstallTrans(p) \/ EraseLog(p)
        PROVE  UNCHANGED Atomic!vars
    <2>1. rc = "up" /\ rc' = "up" /\ pc[p] \in Flush
      BY <1>9 DEF WriteLog, InstallTrans, EraseLog, At, Flush
    <2>2. UNCHANGED pc \/ \E to \in {"whead", "clear", "done"} : pc' = [pc EXCEPT ![p] = to]
      BY <1>9 DEF WriteLog, InstallTrans, EraseLog, Goto
    <2>3. ASSUME NEW q \in Proc PROVE InOp(q)' <=> InOp(q)
      <3>1. CASE UNCHANGED pc
        BY <3>1 DEF InOp
      <3>2. ASSUME NEW to \in {"whead", "clear", "done"}, pc' = [pc EXCEPT ![p] = to]
            PROVE  InOp(q)' <=> InOp(q)
        BY <1>0, <2>1, <3>2 DEF InOp, Flush, TypeOK
      <3> QED
        BY <2>2, <3>1, <3>2
    <2>4. Ops' = Ops
      BY <2>3 DEF Ops
    <2>5. CASE WriteLog(p)
      <3>1. pc[p] = "wlog" /\ UNCHANGED <<disk, head, buf>>
        BY <2>5 DEF WriteLog, At, cache
      <3>2. \A q \in Proc : q # p => pc[q] \notin Flush \cup {"done"}
        BY <1>0, <2>1, OneCommitter
      <3>3. head = <<>>
        BY <1>0, <2>1, <3>1, <3>2 DEF Headers, Flush
      <3>4. Recovered' = Recovered
        BY <3>1, <3>3 DEF Recovered
      <3> QED
        BY <2>1, <2>4, <3>1, <3>4, SeenUnchanged, AtomicSame
    <2>6. CASE InstallTrans(p)
      <3>1. pc[p] = "install"
        BY <2>6 DEF InstallTrans, At
      <3>2. lh = head
        BY <1>0, <3>1 DEF Headers
      <3>3. CASE InstallBlock
        <4>1. Seen' = Seen
          BY <2>1, <3>1, <3>3, SeenInstall
        <4>2. Recovered' = Recovered
          BY <1>0, <3>2, <3>3, RecoveredInstall
        <4> QED
          BY <2>1, <2>4, <4>1, <4>2, AtomicSame
      <3>4. CASE UNCHANGED <<onDisk, cache>>
        BY <1>3, <2>1, <2>4, <3>4, AtomicSame DEF cache
      <3> QED
        BY <2>6, <3>3, <3>4 DEF InstallTrans
    <2>7. CASE EraseLog(p)
      <3>1. pc[p] = "clear" /\ ClearLog /\ UNCHANGED <<disk, buf>>
        BY <2>7 DEF EraseLog, At, ClearLog, cache
      <3>2. lh = head /\ \A i \in 1..Len(lh) : disk[lh[i]] = logd[i]
        BY <1>0, <3>1 DEF Headers, Written
      <3>3. TypeOK'
        BY TypeStep
      <3>4. Recovered' = Recovered
        BY <1>0, <3>1, <3>2, <3>3, RecoveredClear
      <3> QED
        BY <2>1, <2>4, <3>1, <3>4, SeenUnchanged, AtomicSame
    <2> QED
      BY <1>9, <2>5, <2>6, <2>7
  <1>10. ASSUME NEW p \in Proc, WriteHead(p) PROVE [Atomic!Next]_Atomic!vars
    <2>1. /\ rc = "up" /\ rc' = "up" /\ pc[p] = "whead"
          /\ pc' = [pc EXCEPT ![p] = "install"] /\ UNCHANGED <<disk, buf>>
      BY <1>10 DEF WriteHead, At, Goto, cache
    <2>2. Visible = Seen /\ Visible' = Seen'
      BY <2>1 DEF Visible, Seen
    <2>3. Visible' = Visible /\ Recovered' = Visible
      BY <1>10, <2>1, <2>2, SeenUnchanged, CommitPoint
    <2>4. Ops = {}
      BY <1>0, <2>1, NoOps DEF Flush
    <2>5. {q \in Proc : InOp(q)} = {} /\ {q \in Proc : InOp(q)}' = {}
      BY <1>0, <2>1, <2>4 DEF Ops, InOp, TypeOK
    <2>6. Atomic!Commit
      BY <2>3, <2>5 DEF Atomic!Commit
    <2> QED
      BY <2>6 DEF Atomic!Next
  <1>11. ASSUME NEW b \in Block, Read(b) \/ Evict(b) PROVE UNCHANGED Atomic!vars
    <2>1. rc = "up" /\ rc' = "up" /\ UNCHANGED <<onDisk, pc>>
      BY <1>11 DEF Read, Evict, threads
    <2>2. Recovered' = Recovered /\ Ops' = Ops
      BY <2>1 DEF onDisk, Recovered, Ops, InOp
    <2> QED
      BY <1>11, <2>1, <2>2, SeenCache, AtomicSame
  <1>12. CASE UNCHANGED vars
    <2>1. UNCHANGED <<disk, logd, head, buf, pc, rc>>
      BY <1>12 DEF vars, onDisk, cache, threads
    <2>2. Recovered' = Recovered /\ Seen' = Seen /\ Ops' = Ops
      BY <2>1, SeenUnchanged DEF Recovered, Ops, InOp
    <2> QED
      BY <2>1, <2>2 DEF Atomic!vars, Visible, Seen, Ops
  <1> QED
    BY <1>1, <1>2, <1>5, <1>6, <1>7, <1>8, <1>9, <1>10, <1>11, <1>12
    DEF Next, Advance

\* A fresh disk is a fresh atomic disk.
LEMMA AtomicInit == Init => Atomic!Init
  <1> SUFFICES ASSUME Init PROVE Atomic!Init
    OBVIOUS
  <1>1. Recovered = [b \in Block |-> Zero]
    BY DEF Init, Recovered
  <1>2. Visible = Recovered
    BY DEF Init, Visible
  <1>3. {p \in Proc : InOp(p)} = {}
    BY DEF Init, InOp
  <1> QED
    BY <1>1, <1>2, <1>3 DEF Atomic!Init

\* log.c implements an atomic disk: wherever the power fails, in a commit, in
\* install_trans() or in recovery itself, all updates of a group of system
\* calls are found after the reboot or none of them.
THEOREM Refinement == Spec => Atomicity
  BY Invariance, AtomicInit, AtomicStep, PTL
  DEF Spec, Atomicity, Atomic!Spec
=============================================================================
