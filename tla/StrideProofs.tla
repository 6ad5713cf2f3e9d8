---------------------------- MODULE StrideProofs ----------------------------
(***************************************************************************)
(* Proofs about Stride, for every process table of up to a hundred slots,  *)
(* every argument of the system calls and both bounds, on one CPU.  IInv   *)
(* is the inductive invariant:                                             *)
(*   Places   where the scheduler and the running thread stand;            *)
(*   Dealt    how far updateTickets() has come;                            *)
(*   Yielded  parents waiting in fork() are alive;                         *)
(*   Kids     their children come first in the round-robin scan.           *)
(* What getminproc()'s loop computes is proved by induction on its turns.  *)
(***************************************************************************)
EXTENDS Stride, Numbers, FiniteSetTheorems

\* Where the CPU stands: it holds the lock and runs nothing in the stride
\* branch before the dispatch, and a thread that has the CPU is RUNNING.
Places ==
  \A c \in CPU :
    /\ sp[c] \in {"top", "update", "pick"} => cur[c] = 0
    /\ sp[c] \in {"update", "pick"} => lock = c
    /\ sp[c] = "top" => scan[c] = 0
    /\ sp[c] = "update" => scan[c] \in 1..NPROC
    /\ sp[c] = "stride" => cur[c] # 0
    /\ sp[c] = "rr" /\ cur[c] # 0 => scan[c] = cur[c] + 1
    /\ cur[c] # 0 /\ lock # c => state[cur[c]] = "RUNNING"

\* updateTickets() has dealt equal shares as far as it has come.
Dealt ==
  \A c \in CPU :
    sp[c] \in {"update", "pick"} =>
      /\ count[c] = Cardinality(Ready)
      /\ \A p \in Ready : (sp[c] = "update" => p < scan[c]) =>
           tickets[p] = TOTAL \div count[c]

\* From position s, the round-robin scan comes to q before it comes to p.
Before(s, q, p) ==
  \/ s <= q /\ q < p
  \/ q < p /\ p < s
  \/ p < s /\ s <= q

\* The child of a fork() under way waits to be dispatched, and when the parent
\* has yielded to it the round-robin scan comes to the child first.
Kids ==
  /\ \A p \in Slot : kid[p] # 0 => state[kid[p]] = "RUNNABLE" /\ kid[p] # p
  /\ \A c \in CPU :
       /\ sp[c] = "stride" /\ lock = c /\ state[cur[c]] = "RUNNING" =>
            \A p \in Slot : kid[p] = 0
       /\ sp[c] \in {"top", "rr"} =>
            \A p \in Slot : pc[p] = "winner" /\ kid[p] # 0 =>
              /\ Before(scan[c], kid[p], p)
              /\ cur[c] = p => state[p] # "RUNNING"

\* A parent that has yielded to its child has not ended.
Yielded == \A p \in Slot : pc[p] = "winner" => state[p] \in {"RUNNABLE", "RUNNING"}

IInv == TypeOK /\ Places /\ Dealt /\ Yielded /\ Kids

-----------------------------------------------------------------------------
(* getminproc().                                                           *)

\* One turn of getminproc()'s loop, with the results of the turns before in g.
Turn(g, n) ==
  IF n = 0 THEN 0
  ELSE IF state[n] # "RUNNABLE" THEN g[n - 1]
  ELSE IF g[n - 1] = 0 \/ pass[n] < pass[g[n - 1]] THEN n
  ELSE g[n - 1]

\* b is the answer for the slots 1..n: the first of those with the least pass.
Answer(b, n) ==
  /\ b = 0 => \A p \in 1..n : state[p] # "RUNNABLE"
  /\ b # 0 => /\ b \in 1..n
              /\ state[b] = "RUNNABLE"
              /\ \A p \in 1..n : state[p] = "RUNNABLE" =>
                   pass[b] < pass[p] \/ (pass[b] = pass[p] /\ b <= p)

\* The loop can be unrolled: the recursive definition has a solution.
LEMMA LoopExists ==
  \E g \in [0..NPROC -> 0..NPROC] : \A n \in 0..NPROC : g[n] = Turn(g, n)
  <1> DEFINE N == NPROC
             Upto(m) == \E g \in [0..m -> 0..N] : \A n \in 0..m : g[n] = Turn(g, n)
             T == {m \in 0..N : Upto(m)}
  <1>0. N \in Nat
    BY StrideAssumption
  <1>1. 0 \in T
    <2> DEFINE g == [n \in 0..0 |-> 0]
    <2>1. g \in [0..0 -> 0..N] /\ \A n \in 0..0 : g[n] = Turn(g, n)
      BY <1>0 DEF Turn
    <2> QED
      BY <1>0, <2>1
  <1>2. ASSUME NEW m \in 0..(N - 1), m \in T PROVE m + 1 \in T
    <2>1. PICK g \in [0..m -> 0..N] : \A n \in 0..m : g[n] = Turn(g, n)
      BY <1>2
    <2> DEFINE h == [n \in 0..(m + 1) |-> IF n = m + 1 THEN Turn(g, n) ELSE g[n]]
    <2>2. m \in Nat /\ m + 1 \in 0..N
      BY <1>0
    <2>3. Turn(g, m + 1) \in 0..N
      BY <2>1, <2>2 DEF Turn
    <2>4. h \in [0..(m + 1) -> 0..N]
      BY <2>1, <2>2, <2>3
    <2>5. \A n \in 0..m : h[n] = g[n]
      BY <2>2
    <2>6. \A n \in 0..(m + 1) : Turn(h, n) = Turn(g, n)
      BY <2>2, <2>5 DEF Turn
    <2>7. \A n \in 0..(m + 1) : h[n] = Turn(h, n)
      BY <2>1, <2>2, <2>5, <2>6
    <2> HIDE DEF h
    <2> QED
      BY <2>2, <2>4, <2>7
  <1>3. 0..N \subseteq T
    <2> HIDE DEF T
    <2> QED
      BY <1>0, <1>1, <1>2, UpTo
  <1>4. N \in T
    <2> HIDE DEF T
    <2> QED
      BY <1>0, <1>3
  <1>5. Upto(N)
    <2> HIDE DEF Upto
    <2> QED
      BY <1>4
  <1> QED
    BY <1>5, Zenon

\* getminproc() returns a RUNNABLE slot with the least pass, the lowest of
\* several, and 0 only when nothing is RUNNABLE.
LEMMA Getminproc ==
  ASSUME TypeOK
  PROVE  Answer(getminproc, NPROC)
  <1> DEFINE F(g) == [n \in 0..NPROC |-> Turn(g, n)]
             best == CHOOSE g : g = F(g)
             T == {n \in 0..NPROC : Answer(best[n], n)}
  <1>0. NPROC \in Nat \ {0}
    BY StrideAssumption
  <1>1. getminproc = best[NPROC]
    BY DEF getminproc, Turn
  <1>2. \E g : g = F(g)
    <2>1. PICK g \in [0..NPROC -> 0..NPROC] : \A n \in 0..NPROC : g[n] = Turn(g, n)
      BY LoopExists
    <2>2. g = F(g)
      BY <2>1
    <2> QED
      BY <2>2
  <1>3. best = F(best)
    BY <1>2, Zenon
  <1> HIDE DEF best
  <1>4. \A n \in 0..NPROC : best[n] = Turn(best, n)
    BY <1>3
  <1>5. 0 \in T
    BY <1>0, <1>4 DEF Turn, Answer
  <1>6. ASSUME NEW n \in 0..(NPROC - 1), n \in T PROVE n + 1 \in T
    <2>1. /\ n \in Nat /\ n + 1 \in 0..NPROC /\ n + 1 \in 1..NPROC
          /\ n + 1 # 0 /\ (n + 1) - 1 = n
      BY <1>0
    <2>2. best[n + 1] = IF state[n + 1] # "RUNNABLE" THEN best[n]
                        ELSE IF best[n] = 0 \/ pass[n + 1] < pass[best[n]]
                          THEN n + 1 ELSE best[n]
      BY <1>4, <2>1 DEF Turn
    <2>3. Answer(best[n], n)
      BY <1>6
    <2>4. \A p \in Slot : pass[p] \in Nat
      BY StrideAssumption DEF TypeOK
    <2>5. Answer(best[n + 1], n + 1)
      <3>1. \A p \in 1..(n + 1) : p \in 1..n \/ p = n + 1
        BY <2>1
      <3>2. \A p \in 1..(n + 1) : pass[p] \in Nat
        <4>1. \A p \in 1..(n + 1) : p \in 1..NPROC
          BY <1>0, <2>1
        <4> QED
          BY <2>4, <4>1 DEF Slot
      <3> DEFINE b == best[n]
      <3> HIDE DEF b
      <3>3. Answer(b, n)
        BY <2>3 DEF b
      <3>4. CASE state[n + 1] # "RUNNABLE"
        <4>1. best[n + 1] = b
          BY <2>2, <3>4 DEF b
        <4>2. Answer(b, n + 1)
          BY <2>1, <3>1, <3>3, <3>4 DEF Answer
        <4> QED
          BY <4>1, <4>2
      <3>5. CASE state[n + 1] = "RUNNABLE" /\ (b = 0 \/ pass[n + 1] < pass[b])
        <4>1. best[n + 1] = n + 1
          BY <2>2, <3>5 DEF b
        <4>2. Answer(n + 1, n + 1)
          BY <2>1, <3>1, <3>2, <3>3, <3>5 DEF Answer
        <4> QED
          BY <4>1, <4>2
      <3>6. CASE state[n + 1] = "RUNNABLE" /\ ~(b = 0 \/ pass[n + 1] < pass[b])
        <4>1. best[n + 1] = b
          BY <2>2, <3>6 DEF b
        <4>2. Answer(b, n + 1)
          BY <2>1, <3>1, <3>2, <3>3, <3>6 DEF Answer
        <4> QED
          BY <4>1, <4>2
      <3> QED
        BY <3>4, <3>5, <3>6
    <2> QED
      BY <2>1, <2>5
  <1>7. 0..NPROC \subseteq T
    <2> HIDE DEF T
    <2> QED
      BY <1>0, <1>5, <1>6, UpTo
  <1> QED
    BY <1>0, <1>1, <1>7

-----------------------------------------------------------------------------
(* The counts and shares.                                                  *)

\* There are at most NPROC ready processes, and a ready one is counted.
LEMMA ReadyCount ==
  /\ IsFiniteSet(Ready) /\ Cardinality(Ready) \in 0..NPROC
  /\ \A p \in Ready : Cardinality(Ready) # 0
  <1>1. NPROC \in Int /\ NPROC > 0
    BY StrideAssumption
  <1>2. IsFiniteSet(1..NPROC) /\ Cardinality(1..NPROC) = NPROC
    BY <1>1, FS_Interval
  <1>3. Ready \in SUBSET (1..NPROC)
    BY DEF Ready, Slot
  <1>4. IsFiniteSet(Ready) /\ Cardinality(Ready) <= NPROC
    BY <1>2, <1>3, FS_Subset
  <1>5. Cardinality(Ready) \in Nat
    BY <1>4, FS_CardinalityType
  <1>6. \A p \in Ready : Cardinality(Ready) # 0
    BY <1>4, FS_EmptySet
  <1> QED
    BY <1>1, <1>4, <1>5, <1>6

\* A hundred tickets give each of at most a hundred processes one.
LEMMA ShareValue ==
  ASSUME NEW n \in 1..NPROC
  PROVE  TOTAL \div n \in Nat \ {0}
  <1>1. n \in 1..100
    BY StrideAssumption
  <1>2. 100 \div n \in Nat \ {0}
    BY <1>1
  <1> QED
    BY <1>2 DEF TOTAL

\* A dispatch costs something that is not negative.
LEMMA StrideValue ==
  ASSUME NEW t \in Int, t > 0
  PROVE  STRIDE1 \div t \in Nat
  <1>1. 1000 \div t \in Nat
    OBVIOUS
  <1> QED
    BY <1>1 DEF STRIDE1

\* In the stride branch the process that getminproc() chose has a share.
LEMMA ChosenShare ==
  ASSUME IInv, NEW c \in CPU, sp[c] = "pick", getminproc # 0
  PROVE  /\ getminproc \in Slot /\ state[getminproc] = "RUNNABLE"
         /\ tickets[getminproc] = TOTAL \div Cardinality(Ready)
         /\ tickets[getminproc] \in Nat \ {0}
  <1> DEFINE p == getminproc
  <1> HIDE DEF p
  <1>1. p \in Slot /\ state[p] = "RUNNABLE"
    BY Getminproc DEF IInv, Answer, Slot, p
  <1>2. p \in Ready
    BY <1>1 DEF Ready
  <1>3. tickets[p] = TOTAL \div Cardinality(Ready)
    BY <1>2 DEF IInv, Dealt
  <1>4. Cardinality(Ready) \in 1..NPROC
    BY <1>2, ReadyCount
  <1>5. TOTAL \div Cardinality(Ready) \in Nat \ {0}
    BY <1>4, ShareValue
  <1> QED
    BY <1>1, <1>3, <1>5 DEF p

-----------------------------------------------------------------------------
(* The invariant at the start.                                             *)

\* The invariant holds when the first process waits to be dispatched.
LEMMA InitIInv == Init => IInv
  <1> SUFFICES ASSUME Init PROVE IInv
    OBVIOUS
  <1>1. TypeOK
    BY StrideAssumption DEF Init, TypeOK, Slot, START, TOTAL, NoCpu
  <1>2. Places
    BY DEF Init, Places
  <1>3. Dealt
    BY DEF Init, Dealt
  <1>4. Yielded
    BY DEF Init, Yielded
  <1>5. Kids
    BY DEF Init, Kids
  <1> QED
    BY <1>1, <1>2, <1>3, <1>4, <1>5 DEF IInv

-----------------------------------------------------------------------------
(* Types.                                                                  *)

\* Every step keeps every variable in its type: tickets stay integers, because
\* nothing is divided by zero, and passes stay below the bound.
LEMMA TypeStep == IInv /\ [Next]_vars => TypeOK'
  <1> SUFFICES ASSUME IInv, [Next]_vars PROVE TypeOK'
    OBVIOUS
  <1>0. TypeOK /\ Places /\ Dealt
    BY DEF IInv
  <1>1. ASSUME NEW c \in CPU, SchedTop(c) PROVE TypeOK'
    BY <1>0, <1>1, ReadyCount, StrideAssumption
    DEF SchedTop, TypeOK, table, threadVars
  <1>2. ASSUME NEW c \in CPU, UpdateTickets(c) PROVE TypeOK'
    <2>1. /\ scan[c] \in 1..NPROC /\ scan[c] \in Slot
          /\ count[c] = Cardinality(Ready)
      BY <1>0, <1>2 DEF UpdateTickets, Places, Dealt, Slot
    <2>2. Share(scan[c], count[c]) \in Int
      <3>1. CASE scan[c] \in Ready
        <4>1. count[c] \in 1..NPROC
          BY <2>1, <3>1, ReadyCount
        <4> QED
          BY <3>1, <4>1, ShareValue DEF Share
      <3>2. CASE scan[c] \notin Ready
        BY <1>0, <2>1, <3>2 DEF Share, TypeOK
      <3> QED
        BY <3>1, <3>2
    <2>3. scan[c] + 1 \in 0..(NPROC + 1)
      BY <2>1, StrideAssumption
    <2> DEFINE sh == Share(scan[c], count[c])
    <2> HIDE DEF sh
    <2>4. tickets' = [tickets EXCEPT ![scan[c]] = sh] /\ sh \in Int
      BY <1>2, <2>2 DEF UpdateTickets, sh
    <2>5. tickets' \in [Slot -> Int]
      BY <1>0, <2>1, <2>4 DEF TypeOK
    <2> QED
      BY <1>0, <1>2, <2>3, <2>5 DEF UpdateTickets, TypeOK, threadVars
  <1>3. ASSUME NEW c \in CPU, StrideDispatch(c) PROVE TypeOK'
    <2> DEFINE p == getminproc
    <2> HIDE DEF p
    <2>1. /\ sp[c] = "pick" /\ p # 0 /\ pass[p] + Stride(p) <= MaxPass
          /\ pass' = [pass EXCEPT ![p] = @ + Stride(p)]
          /\ Run(c, p)
          /\ sp' = [sp EXCEPT ![c] = "stride"]
          /\ UNCHANGED <<tickets, str, winner, lock, scan, count, threadVars>>
      BY <1>3 DEF StrideDispatch, p
    <2>2. p \in Slot /\ tickets[p] \in Nat \ {0}
      BY <2>1, ChosenShare DEF p
    <2>3. Stride(p) \in Nat
      BY <2>2, StrideValue DEF Stride
    <2>4. pass[p] + Stride(p) \in 0..MaxPass
      BY <1>0, <2>1, <2>2, <2>3, StrideAssumption DEF TypeOK
    <2> QED
      BY <1>0, <2>1, <2>2, <2>4, StrideAssumption DEF Run, TypeOK, threadVars
  <1>4. ASSUME NEW c \in CPU, StrideDone(c) PROVE TypeOK'
    BY <1>0, <1>4, StrideAssumption
    DEF StrideDone, TypeOK, table, schedVars, threadVars, NoCpu, START, TOTAL
  <1>5. ASSUME NEW c \in CPU, RRDispatch(c) PROVE TypeOK'
    <2>1. PICK p \in Slot :
            /\ Run(c, p) /\ scan' = [scan EXCEPT ![c] = p + 1]
            /\ UNCHANGED <<tickets, pass, str, winner, lock, sp, count,
                           threadVars>>
      BY <1>5 DEF RRDispatch
    <2>2. p + 1 \in 0..(NPROC + 1)
      BY StrideAssumption DEF Slot
    <2> QED
      BY <1>0, <2>1, <2>2, StrideAssumption DEF Run, TypeOK, threadVars
  <1>6. ASSUME NEW c \in CPU, RRBack(c) PROVE TypeOK'
    BY <1>0, <1>6, StrideAssumption
    DEF RRBack, TypeOK, table, schedVars, threadVars, NoCpu, START, TOTAL
  <1>7. ASSUME NEW c \in CPU, RRDone(c) PROVE TypeOK'
    BY <1>0, <1>7, StrideAssumption
    DEF RRDone, TypeOK, table, schedVars, threadVars, NoCpu, START, TOTAL
  <1>8. ASSUME NEW c \in CPU, Resume(c) PROVE TypeOK'
    BY <1>0, <1>8, StrideAssumption
    DEF Resume, TypeOK, table, schedVars, threadVars, NoCpu, START, TOTAL
  <1>9. ASSUME NEW c \in CPU, Yield(c) PROVE TypeOK'
    BY <1>0, <1>9, StrideAssumption
    DEF Yield, Runs, Leave, TypeOK, table, schedVars, threadVars, NoCpu, START, TOTAL
  <1>10. ASSUME NEW c \in CPU, Block(c) PROVE TypeOK'
    BY <1>0, <1>10, StrideAssumption
    DEF Block, InUser, Runs, Leave, TypeOK, table, schedVars, threadVars, NoCpu, START, TOTAL
  <1>11. ASSUME NEW c \in CPU, Fork(c) PROVE TypeOK'
    BY <1>0, <1>11, StrideAssumption
    DEF Fork, InUser, Runs, First, TypeOK, table, schedVars, threadVars, NoCpu, START, TOTAL
  <1>12. ASSUME NEW c \in CPU, ForkReturn(c) PROVE TypeOK'
    BY <1>0, <1>12, StrideAssumption
    DEF ForkReturn, Runs, Leave, TypeOK, table, schedVars, threadVars, NoCpu, START, TOTAL
  <1>13. ASSUME NEW c \in CPU, SetPolicy(c) PROVE TypeOK'
    BY <1>0, <1>13, StrideAssumption
    DEF SetPolicy, InUser, Runs, TypeOK, table, schedVars, threadVars, NoCpu, START, TOTAL
  <1>14. ASSUME NEW c \in CPU, TransferLookup(c) PROVE TypeOK'
    BY <1>0, <1>14, StrideAssumption
    DEF TransferLookup, InUser, Runs, getProc, TypeOK, table, schedVars, threadVars, NoCpu, START, TOTAL
  <1>15. ASSUME NEW c \in CPU, TransferCheck(c) PROVE TypeOK'
    BY <1>0, <1>15, StrideAssumption
    DEF TransferCheck, Runs, Return, TypeOK, table, schedVars, threadVars, NoCpu, START, TOTAL
  <1>16. ASSUME NEW c \in CPU, TransferMove(c) PROVE TypeOK'
    BY <1>0, <1>16, StrideAssumption
    DEF TransferMove, Runs, Return, TypeOK, table, schedVars, threadVars, NoCpu, START, TOTAL
  <1>17. CASE Unblock
    BY <1>0, <1>17, StrideAssumption DEF Unblock, TypeOK, table, schedVars, threadVars, NoCpu, START, TOTAL
  <1>18. CASE UNCHANGED vars
    BY <1>0, <1>18 DEF vars, TypeOK, table, schedVars, threadVars, NoCpu, START, TOTAL
  <1> QED
    BY <1>1, <1>2, <1>3, <1>4, <1>5, <1>6, <1>7, <1>8, <1>9, <1>10, <1>11, <1>12, <1>13, <1>14, <1>15, <1>16, <1>17, <1>18
    DEF Next, CpuStep

-----------------------------------------------------------------------------
(* Places.                                                                 *)

\* Every step keeps the scheduler and the threads in their places.
LEMMA PlacesStep == IInv /\ [Next]_vars => Places'
  <1> SUFFICES ASSUME IInv, [Next]_vars PROVE Places'
    OBVIOUS
  <1>0. TypeOK /\ Places
    BY DEF IInv
  <1>1. ASSUME NEW c \in CPU, SchedTop(c) PROVE Places'
    BY <1>0, <1>1, OneCpu, StrideAssumption
    DEF SchedTop, Places, TypeOK, table, schedVars, threadVars, NoCpu
  <1>2. ASSUME NEW c \in CPU, UpdateTickets(c) PROVE Places'
    <2>1. scan[c] \in 1..NPROC /\ sp[c] = "update"
      BY <1>0, <1>2 DEF UpdateTickets, Places
    <2>2. scan[c] # NPROC => scan[c] + 1 \in 1..NPROC
      BY <2>1, StrideAssumption
    <2> QED
      BY <1>0, <1>2, <2>1, <2>2, OneCpu DEF UpdateTickets, Places, TypeOK
  <1>3. ASSUME NEW c \in CPU, StrideDispatch(c) PROVE Places'
    <2> DEFINE p == getminproc
    <2> HIDE DEF p
    <2>1. /\ sp[c] = "pick" /\ p # 0 /\ Run(c, p)
          /\ sp' = [sp EXCEPT ![c] = "stride"]
          /\ UNCHANGED <<lock, scan>>
      BY <1>3 DEF StrideDispatch, p
    <2>2. p \in Slot
      BY <2>1, ChosenShare DEF p
    <2> QED
      BY <1>0, <2>1, <2>2, OneCpu DEF Run, Places, TypeOK
  <1>4. ASSUME NEW c \in CPU, StrideDone(c) PROVE Places'
    BY <1>0, <1>4, OneCpu, StrideAssumption
    DEF StrideDone, Places, TypeOK, table, schedVars, threadVars, NoCpu
  <1>5. ASSUME NEW c \in CPU, RRDispatch(c) PROVE Places'
    <2>1. PICK p \in Slot :
            /\ Run(c, p) /\ scan' = [scan EXCEPT ![c] = p + 1] /\ sp[c] = "rr"
            /\ UNCHANGED <<lock, sp>>
      BY <1>5 DEF RRDispatch
    <2> QED
      BY <1>0, <2>1, OneCpu DEF Run, Places, TypeOK
  <1>6. ASSUME NEW c \in CPU, RRBack(c) PROVE Places'
    BY <1>0, <1>6, OneCpu, StrideAssumption
    DEF RRBack, Places, TypeOK, table, schedVars, threadVars, NoCpu
  <1>7. ASSUME NEW c \in CPU, RRDone(c) PROVE Places'
    BY <1>0, <1>7, OneCpu, StrideAssumption
    DEF RRDone, Places, TypeOK, table, schedVars, threadVars, NoCpu
  <1>8. ASSUME NEW c \in CPU, Resume(c) PROVE Places'
    BY <1>0, <1>8, OneCpu, StrideAssumption
    DEF Resume, Places, TypeOK, table, schedVars, threadVars, NoCpu
  <1>9. ASSUME NEW c \in CPU, Yield(c) PROVE Places'
    BY <1>0, <1>9, OneCpu, StrideAssumption
    DEF Yield, Runs, Leave, Places, TypeOK, table, schedVars, threadVars, NoCpu
  <1>10. ASSUME NEW c \in CPU, Block(c) PROVE Places'
    BY <1>0, <1>10, OneCpu, StrideAssumption
    DEF Block, InUser, Runs, Leave, Places, TypeOK, table, schedVars, threadVars, NoCpu
  <1>11. ASSUME NEW c \in CPU, Fork(c) PROVE Places'
    BY <1>0, <1>11, OneCpu, StrideAssumption
    DEF Fork, InUser, Runs, First, Places, TypeOK, table, schedVars, threadVars, NoCpu
  <1>12. ASSUME NEW c \in CPU, ForkReturn(c) PROVE Places'
    BY <1>0, <1>12, OneCpu, StrideAssumption
    DEF ForkReturn, Runs, Leave, Places, TypeOK, table, schedVars, threadVars, NoCpu
  <1>13. ASSUME NEW c \in CPU, SetPolicy(c) PROVE Places'
    BY <1>0, <1>13, OneCpu, StrideAssumption
    DEF SetPolicy, InUser, Runs, Places, TypeOK, table, schedVars, threadVars, NoCpu
  <1>14. ASSUME NEW c \in CPU, TransferLookup(c) PROVE Places'
    BY <1>0, <1>14, OneCpu, StrideAssumption
    DEF TransferLookup, InUser, Runs, getProc, Places, TypeOK, table, schedVars, threadVars, NoCpu
  <1>15. ASSUME NEW c \in CPU, TransferCheck(c) PROVE Places'
    BY <1>0, <1>15, OneCpu, StrideAssumption
    DEF TransferCheck, Runs, Return, Places, TypeOK, table, schedVars, threadVars, NoCpu
  <1>16. ASSUME NEW c \in CPU, TransferMove(c) PROVE Places'
    BY <1>0, <1>16, OneCpu, StrideAssumption
    DEF TransferMove, Runs, Return, Places, TypeOK, table, schedVars, threadVars, NoCpu
  <1>17. CASE Unblock
    BY <1>0, <1>17, OneCpu, StrideAssumption DEF Unblock, Places, TypeOK, table, schedVars, threadVars, NoCpu
  <1>18. CASE UNCHANGED vars
    BY <1>0, <1>18 DEF vars, Places, TypeOK, table, schedVars, threadVars, NoCpu
  <1> QED
    BY <1>1, <1>2, <1>3, <1>4, <1>5, <1>6, <1>7, <1>8, <1>9, <1>10, <1>11, <1>12, <1>13, <1>14, <1>15, <1>16, <1>17, <1>18
    DEF Next, CpuStep

-----------------------------------------------------------------------------
(* The shares.                                                             *)

\* While the scheduler deals out tickets no thread can run and nobody else
\* holds the lock: the ready processes, their number and their tickets are
\* the scheduler's to change.
LEMMA DealtAlone ==
  ASSUME IInv, NEW c \in CPU, sp[c] \in {"update", "pick"}
  PROVE  /\ lock = c /\ lock # NoCpu /\ cur[c] = 0
         /\ \A d \in CPU, p \in Slot : ~Runs(d, p)
  BY OneCpu, StrideAssumption DEF IInv, Places, Runs, NoCpu, Slot

\* Every step keeps the shares that were dealt, until the dispatch.
LEMMA DealtStep == IInv /\ [Next]_vars => Dealt'
  <1> SUFFICES ASSUME IInv, [Next]_vars PROVE Dealt'
    OBVIOUS
  <1>0. TypeOK /\ Places /\ Dealt
    BY DEF IInv
  <1>1. ASSUME NEW c \in CPU, SchedTop(c) PROVE Dealt'
    <2>1. Ready' = Ready /\ UNCHANGED <<tickets>>
      BY <1>1 DEF SchedTop, table, Ready
    <2>2. \A p \in Ready : ~(p < 1)
      BY StrideAssumption DEF Ready, Slot
    <2> QED
      BY <1>0, <1>1, <2>1, <2>2, OneCpu DEF SchedTop, Dealt, TypeOK
  <1>2. ASSUME NEW c \in CPU, UpdateTickets(c) PROVE Dealt'
    <2>1. /\ sp[c] = "update" /\ scan[c] \in 1..NPROC /\ scan[c] \in Slot
          /\ scan' = [scan EXCEPT ![c] = @ + 1]
          /\ UNCHANGED <<state, count>>
          /\ sp' = [sp EXCEPT ![c] = IF scan[c] = NPROC THEN "pick" ELSE @]
      BY <1>0, <1>2 DEF UpdateTickets, Places, Slot
    <2>2. Ready' = Ready /\ count'[c] = count[c]
      BY <2>1 DEF Ready
    <2> DEFINE s == scan[c]
               share == TOTAL \div count[c]
    <2>3. \A p \in Slot : p < s + 1 <=> p < s \/ p = s
      BY <2>1, StrideAssumption DEF Slot
    <2>4. s = NPROC => \A p \in Slot : p < s \/ p = s
      BY StrideAssumption DEF Slot
    <2>5. tickets' = [tickets EXCEPT ![s] = IF s \in Ready THEN share ELSE @]
      BY <1>2 DEF UpdateTickets, Share
    <2>6. Ready \subseteq Slot
      BY DEF Ready
    <2> HIDE DEF share, s
    <2>7. \A p \in Ready : p < s \/ p = s => tickets'[p] = share
      BY <1>0, <2>1, <2>5, <2>6 DEF Dealt, TypeOK, s, share
    <2>8. count'[c] = Cardinality(Ready')
      BY <1>0, <2>1, <2>2 DEF Dealt
    <2>9. ASSUME NEW p \in Ready', sp'[c] = "update" => p < scan'[c]
          PROVE  tickets'[p] = TOTAL \div count'[c]
      <3>1. p \in Ready /\ p \in Slot
        BY <2>2, <2>6
      <3>2. p < s \/ p = s
        BY <1>0, <2>1, <2>3, <2>4, <2>9, <3>1 DEF TypeOK, s
      <3> QED
        BY <2>2, <2>7, <3>1, <3>2 DEF share
    <2> QED
      BY <2>8, <2>9, OneCpu DEF Dealt
  <1>3. ASSUME NEW c \in CPU, StrideDispatch(c) PROVE Dealt'
    BY <1>0, <1>3, OneCpu DEF StrideDispatch, Dealt, TypeOK
  <1>4. ASSUME NEW c \in CPU, StrideDone(c) PROVE Dealt'
    BY <1>0, <1>4, OneCpu DEF StrideDone, Dealt, TypeOK
  <1>5. ASSUME NEW c \in CPU, RRDispatch(c) PROVE Dealt'
    BY <1>0, <1>5, OneCpu DEF RRDispatch, Dealt, TypeOK
  <1>6. ASSUME NEW c \in CPU, RRBack(c) PROVE Dealt'
    BY <1>0, <1>6, OneCpu DEF RRBack, Dealt, TypeOK
  <1>7. ASSUME NEW c \in CPU, RRDone(c) PROVE Dealt'
    BY <1>0, <1>7, OneCpu DEF RRDone, Dealt, TypeOK
  <1>8. ASSUME NEW c \in CPU, Resume(c) PROVE Dealt'
    <2>1. sp[c] \notin {"update", "pick"} /\ sp' = sp
      BY <1>8, DealtAlone DEF Resume
    <2> QED
      BY <2>1, OneCpu DEF Dealt
  <1>9. ASSUME NEW c \in CPU, Yield(c) PROVE Dealt'
    <2>1. sp[c] \notin {"update", "pick"} /\ sp' = sp
      BY <1>9, DealtAlone DEF Yield
    <2> QED
      BY <2>1, OneCpu DEF Dealt
  <1>10. ASSUME NEW c \in CPU, Block(c) PROVE Dealt'
    <2>1. sp[c] \notin {"update", "pick"} /\ sp' = sp
      BY <1>10, DealtAlone DEF Block, InUser
    <2> QED
      BY <2>1, OneCpu DEF Dealt
  <1>11. ASSUME NEW c \in CPU, Fork(c) PROVE Dealt'
    <2>1. sp[c] \notin {"update", "pick"} /\ sp' = sp
      BY <1>11, DealtAlone DEF Fork, InUser, schedVars
    <2> QED
      BY <2>1, OneCpu DEF Dealt
  <1>12. ASSUME NEW c \in CPU, ForkReturn(c) PROVE Dealt'
    <2>1. sp[c] \notin {"update", "pick"} /\ sp' = sp
      BY <1>12, DealtAlone DEF ForkReturn
    <2> QED
      BY <2>1, OneCpu DEF Dealt
  <1>13. ASSUME NEW c \in CPU, SetPolicy(c) PROVE Dealt'
    <2>1. sp[c] \notin {"update", "pick"} /\ sp' = sp
      BY <1>13, DealtAlone DEF SetPolicy, InUser, schedVars
    <2> QED
      BY <2>1, OneCpu DEF Dealt
  <1>14. ASSUME NEW c \in CPU, TransferLookup(c) PROVE Dealt'
    <2>1. sp[c] \notin {"update", "pick"} /\ sp' = sp
      BY <1>14, DealtAlone DEF TransferLookup, InUser, schedVars
    <2> QED
      BY <2>1, OneCpu DEF Dealt
  <1>15. ASSUME NEW c \in CPU, TransferCheck(c) PROVE Dealt'
    <2>1. sp[c] \notin {"update", "pick"} /\ sp' = sp
      BY <1>15, DealtAlone DEF TransferCheck, schedVars
    <2> QED
      BY <2>1, OneCpu DEF Dealt
  <1>16. ASSUME NEW c \in CPU, TransferMove(c) PROVE Dealt'
    <2>1. sp[c] \notin {"update", "pick"} /\ sp' = sp
      BY <1>16, DealtAlone DEF TransferMove, schedVars
    <2> QED
      BY <2>1, OneCpu DEF Dealt
  <1>17. CASE Unblock
    <2>1. \A c \in CPU : sp[c] \notin {"update", "pick"} /\ sp' = sp
      BY <1>17, DealtAlone DEF Unblock, schedVars
    <2> QED
      BY <2>1 DEF Dealt
  <1>18. CASE UNCHANGED vars
    BY <1>0, <1>18 DEF vars, Dealt, schedVars, Ready, table
  <1> QED
    BY <1>1, <1>2, <1>3, <1>4, <1>5, <1>6, <1>7, <1>8, <1>9, <1>10, <1>11, <1>12, <1>13, <1>14, <1>15, <1>16, <1>17, <1>18
    DEF Next, CpuStep

-----------------------------------------------------------------------------
(* fork_winner().                                                          *)

\* The scan that dispatches p at or after s, passing over no RUNNABLE slot,
\* does not pass a RUNNABLE q that it would have come to before r.
LEMMA BeforeKept ==
  ASSUME NEW s \in Int, NEW p \in Int, NEW q \in Int, NEW r \in Int,
         Before(s, q, r), s <= p, s <= q => p < q
  PROVE  p # r /\ Before(p + 1, q, r)
  BY DEF Before

\* Every step keeps a parent that has yielded to its child alive.
LEMMA YieldedStep == IInv /\ [Next]_vars => Yielded'
  <1> SUFFICES ASSUME IInv, [Next]_vars PROVE Yielded'
    OBVIOUS
  <1>0. TypeOK /\ Yielded
    BY DEF IInv
  <1>1. ASSUME NEW c \in CPU, SchedTop(c) PROVE Yielded'
    BY <1>0, <1>1
    DEF SchedTop, Yielded, TypeOK, table, schedVars, threadVars
  <1>2. ASSUME NEW c \in CPU, UpdateTickets(c) PROVE Yielded'
    BY <1>0, <1>2
    DEF UpdateTickets, Yielded, TypeOK, table, schedVars, threadVars
  <1>3. ASSUME NEW c \in CPU, StrideDispatch(c) PROVE Yielded'
    BY <1>0, <1>3 DEF StrideDispatch, Run, Yielded, TypeOK, threadVars
  <1>4. ASSUME NEW c \in CPU, StrideDone(c) PROVE Yielded'
    BY <1>0, <1>4
    DEF StrideDone, Yielded, TypeOK, table, schedVars, threadVars
  <1>5. ASSUME NEW c \in CPU, RRDispatch(c) PROVE Yielded'
    BY <1>0, <1>5
    DEF RRDispatch, Run, First, RRRest, Yielded, TypeOK, table, schedVars, threadVars
  <1>6. ASSUME NEW c \in CPU, RRBack(c) PROVE Yielded'
    BY <1>0, <1>6
    DEF RRBack, Yielded, TypeOK, table, schedVars, threadVars
  <1>7. ASSUME NEW c \in CPU, RRDone(c) PROVE Yielded'
    BY <1>0, <1>7
    DEF RRDone, Yielded, TypeOK, table, schedVars, threadVars
  <1>8. ASSUME NEW c \in CPU, Resume(c) PROVE Yielded'
    BY <1>0, <1>8
    DEF Resume, Yielded, TypeOK, table, schedVars, threadVars
  <1>9. ASSUME NEW c \in CPU, Yield(c) PROVE Yielded'
    BY <1>0, <1>9
    DEF Yield, Runs, Leave, Yielded, TypeOK, table, schedVars, threadVars
  <1>10. ASSUME NEW c \in CPU, Block(c) PROVE Yielded'
    BY <1>0, <1>10
    DEF Block, InUser, Runs, Leave, Yielded, TypeOK, table, schedVars, threadVars
  <1>11. ASSUME NEW c \in CPU, Fork(c) PROVE Yielded'
    BY <1>0, <1>11
    DEF Fork, InUser, Runs, First, Yielded, TypeOK, table, schedVars, threadVars
  <1>12. ASSUME NEW c \in CPU, ForkReturn(c) PROVE Yielded'
    BY <1>0, <1>12
    DEF ForkReturn, Runs, Leave, Yielded, TypeOK, table, schedVars, threadVars
  <1>13. ASSUME NEW c \in CPU, SetPolicy(c) PROVE Yielded'
    BY <1>0, <1>13
    DEF SetPolicy, InUser, Runs, Yielded, TypeOK, table, schedVars, threadVars
  <1>14. ASSUME NEW c \in CPU, TransferLookup(c) PROVE Yielded'
    BY <1>0, <1>14
    DEF TransferLookup, InUser, Runs, getProc, Yielded, TypeOK, table, schedVars, threadVars
  <1>15. ASSUME NEW c \in CPU, TransferCheck(c) PROVE Yielded'
    BY <1>0, <1>15
    DEF TransferCheck, Runs, Return, Yielded, TypeOK, table, schedVars, threadVars
  <1>16. ASSUME NEW c \in CPU, TransferMove(c) PROVE Yielded'
    BY <1>0, <1>16
    DEF TransferMove, Runs, Return, Yielded, TypeOK, table, schedVars, threadVars
  <1>17. CASE Unblock
    BY <1>0, <1>17 DEF Unblock, Yielded, TypeOK, table, schedVars, threadVars
  <1>18. CASE UNCHANGED vars
    BY <1>0, <1>18 DEF vars, Yielded, TypeOK, table, schedVars, threadVars
  <1> QED
    BY <1>1, <1>2, <1>3, <1>4, <1>5, <1>6, <1>7, <1>8, <1>9, <1>10, <1>11, <1>12, <1>13, <1>14, <1>15, <1>16, <1>17, <1>18
    DEF Next, CpuStep

\* Every step keeps the child ahead of the parent that yielded to it.
LEMMA KidsStep == IInv /\ [Next]_vars => Kids'
  <1> SUFFICES ASSUME IInv, [Next]_vars PROVE Kids'
    OBVIOUS
  <1>0. TypeOK /\ Places /\ Kids
    BY DEF IInv
  <1>1. ASSUME NEW c \in CPU, SchedTop(c) PROVE Kids'
    <2>1. sp[c] = "top" /\ UNCHANGED <<state, kid, pc, cur>> /\ lock = NoCpu
      BY <1>1 DEF SchedTop, table, threadVars
    <2>2. CASE sp'[c] = "rr" /\ scan'[c] = 1
      <3>1. ASSUME NEW p \in Slot, pc[p] = "winner", kid[p] # 0
            PROVE  Before(1, kid[p], p)
        <4>1. Before(scan[c], kid[p], p) /\ scan[c] = 0
          BY <1>0, <2>1, <3>1 DEF Kids, Places
        <4>2. kid[p] \in 1..NPROC /\ p \in 1..NPROC
          BY <1>0, <3>1 DEF TypeOK, Slot
        <4> QED
          BY <4>1, <4>2, StrideAssumption DEF Before
      <3> QED
        BY <1>0, <2>1, <2>2, <3>1, OneCpu DEF Kids, Places
    <2>3. CASE sp'[c] = "update"
      BY <1>0, <2>1, <2>3, OneCpu DEF Kids
    <2> QED
      BY <1>0, <1>1, <2>2, <2>3 DEF SchedTop, TypeOK
  <1>2. ASSUME NEW c \in CPU, UpdateTickets(c) PROVE Kids'
    BY <1>0, <1>2, OneCpu DEF UpdateTickets, Kids, TypeOK, threadVars
  <1>3. ASSUME NEW c \in CPU, StrideDispatch(c) PROVE Kids'
    BY <1>0, <1>3, OneCpu DEF StrideDispatch, Run, Kids, TypeOK, threadVars
  <1>4. ASSUME NEW c \in CPU, StrideDone(c) PROVE Kids'
    BY <1>0, <1>4, OneCpu DEF StrideDone, Kids, TypeOK, threadVars
  <1>5. ASSUME NEW c \in CPU, RRDispatch(c) PROVE Kids'
    <2>1. PICK p \in Slot :
            /\ sp[c] = "rr" /\ First(p, RRRest(c)) /\ Run(c, p)
            /\ scan' = [scan EXCEPT ![c] = p + 1]
            /\ UNCHANGED <<lock, sp, pc>>
      BY <1>5 DEF RRDispatch, threadVars
    <2>2. /\ \A q \in Slot : kid'[q] # 0 => kid'[q] = kid[q] /\ kid[q] # p
          /\ \A q \in Slot \ {p} : state'[q] = state[q]
          /\ cur'[c] = p /\ scan'[c] = p + 1 /\ sp'[c] = "rr"
      BY <1>0, <2>1 DEF Run, TypeOK
    <2>3. \A q \in Slot : kid[q] # 0 => kid[q] \in Slot
      BY <1>0 DEF TypeOK
    <2>4. \A q \in Slot : kid'[q] # 0 => state'[kid'[q]] = "RUNNABLE" /\ kid'[q] # q
      BY <1>0, <2>2, <2>3 DEF Kids
    <2>5. ASSUME NEW q \in Slot, pc[q] = "winner", kid'[q] # 0
          PROVE  Before(p + 1, kid[q], q) /\ p # q
      <3> DEFINE k == kid[q]
                 s == scan[c]
      <3>1. k \in Slot /\ state[k] = "RUNNABLE" /\ k # p
        BY <1>0, <2>2, <2>3, <2>5 DEF Kids
      <3>2. Before(s, k, q)
        BY <1>0, <2>1, <2>2, <2>5 DEF Kids
      <3>3. s <= p /\ (s <= k => p <= k)
        BY <2>1, <3>1 DEF First, RRRest, Runnable
      <3>4. s \in Int /\ p \in Int /\ k \in Int /\ q \in Int
        BY <1>0, <3>1, StrideAssumption DEF TypeOK, Slot
      <3> HIDE DEF k, s
      <3>5. s <= k => p < k
        BY <3>1, <3>3, <3>4
      <3>6. p # q /\ Before(p + 1, k, q)
        BY <3>2, <3>3, <3>4, <3>5, BeforeKept
      <3> QED
        BY <3>6 DEF k
    <2> QED
      BY <2>1, <2>2, <2>4, <2>5, OneCpu DEF Kids
  <1>6. ASSUME NEW c \in CPU, RRBack(c) PROVE Kids'
    <2>1. sp[c] = "rr" /\ cur' = [cur EXCEPT ![c] = 0]
          /\ UNCHANGED <<state, kid, pc, sp, scan, lock>>
      BY <1>6 DEF RRBack, table, threadVars
    <2> QED
      BY <1>0, <2>1, OneCpu, StrideAssumption DEF Kids, TypeOK, Slot
  <1>7. ASSUME NEW c \in CPU, RRDone(c) PROVE Kids'
    <2>1. sp[c] = "rr" /\ RRRest(c) = {} /\ cur[c] = 0
          /\ sp'[c] = "top" /\ scan'[c] = 0
          /\ UNCHANGED <<state, kid, pc, cur>>
      BY <1>0, <1>7 DEF RRDone, table, threadVars, TypeOK
    <2>2. ASSUME NEW p \in Slot, pc[p] = "winner", kid[p] # 0
          PROVE  Before(0, kid[p], p)
      <3>1. Before(scan[c], kid[p], p) /\ state[kid[p]] = "RUNNABLE"
        BY <1>0, <2>1, <2>2 DEF Kids
      <3>2. kid[p] \in Slot
        BY <1>0, <2>2 DEF TypeOK
      <3>3. ~(kid[p] >= scan[c])
        BY <2>1, <3>1, <3>2 DEF RRRest, Runnable
      <3>4. kid[p] \in Nat /\ p \in Nat /\ scan[c] \in Nat
        BY <1>0, <3>2, StrideAssumption DEF TypeOK, Slot
      <3> QED
        BY <3>1, <3>3, <3>4 DEF Before
    <2>3. \A p \in Slot : p # 0
      BY StrideAssumption DEF Slot
    <2> QED
      BY <1>0, <2>1, <2>2, <2>3, OneCpu DEF Kids
  <1>8. ASSUME NEW c \in CPU, Resume(c) PROVE Kids'
    <2>1. /\ lock = c /\ cur[c] # 0 /\ state[cur[c]] = "RUNNING"
          /\ UNCHANGED <<state, kid, cur, sp, scan>> /\ lock' = NoCpu
          /\ \A p \in Slot : pc'[p] = "winner" => pc[p] = "winner"
      BY <1>0, <1>8 DEF Resume, table, TypeOK
    <2> QED
      BY <1>0, <2>1, OneCpu, StrideAssumption DEF Kids, NoCpu
  <1>9. ASSUME NEW c \in CPU, Yield(c) PROVE Kids'
    <2>1. PICK p \in Slot :
            /\ Runs(c, p) /\ Leave(c, p, "RUNNABLE")
            /\ UNCHANGED <<cur, sp, scan, pc, kid>>
      BY <1>9 DEF Yield, threadVars
    <2> QED
      BY <1>0, <2>1, OneCpu DEF Kids, Runs, Leave, TypeOK
  <1>10. ASSUME NEW c \in CPU, Block(c) PROVE Kids'
    <2>1. PICK p \in Slot, st \in {"SLEEPING", "ZOMBIE"} :
            /\ Runs(c, p) /\ Leave(c, p, st)
            /\ UNCHANGED <<cur, sp, scan, pc, kid>>
      BY <1>10 DEF Block, InUser, threadVars
    <2>2. state[p] = "RUNNING"
      BY <1>0, <2>1, StrideAssumption DEF Places, Runs, Slot
    <2>3. \A q \in Slot : kid[q] # 0 => kid[q] \in Slot
      BY <1>0 DEF TypeOK
    <2> QED
      BY <1>0, <2>1, <2>2, <2>3, OneCpu DEF Kids, Runs, Leave, TypeOK
  <1>11. ASSUME NEW c \in CPU, Fork(c) PROVE Kids'
    <2>1. PICK p \in Slot, q \in Slot :
            /\ Runs(c, p) /\ lock = NoCpu /\ state[q] = "UNUSED"
            /\ state' = [state EXCEPT ![q] = "RUNNABLE"]
            /\ kid' = [kid EXCEPT ![p] = q]
            /\ pc' = [pc EXCEPT ![p] = "forked", ![q] = "user"]
            /\ UNCHANGED <<lock, cur, sp, scan>>
      BY <1>11 DEF Fork, InUser, First, schedVars
    <2>2. state[p] = "RUNNING" /\ p # q /\ cur[c] = p
      BY <1>0, <2>1, StrideAssumption DEF Places, Runs, Slot
    <2>3. \A r \in Slot : kid[r] # 0 => kid[r] \in Slot
      BY <1>0 DEF TypeOK
    <2>4. \A r \in Slot : kid'[r] # 0 => state'[kid'[r]] = "RUNNABLE" /\ kid'[r] # r
      BY <1>0, <2>1, <2>2, <2>3 DEF Kids, TypeOK
    <2>5. \A r \in Slot : pc'[r] = "winner" => pc[r] = "winner" /\ kid'[r] = kid[r]
      BY <1>0, <2>1 DEF TypeOK
    <2>6. lock # c
      BY <2>1, StrideAssumption DEF NoCpu
    <2>7. \A r \in Slot : pc'[r] = "winner" => cur[c] # r
      BY <1>0, <2>1, <2>2 DEF TypeOK
    <2>8. \A r \in Slot :
            sp[c] \in {"top", "rr"} /\ pc'[r] = "winner" /\ kid'[r] # 0 =>
              Before(scan[c], kid'[r], r)
      BY <1>0, <2>5 DEF Kids
    <2> QED
      BY <2>1, <2>4, <2>6, <2>7, <2>8, OneCpu, ZenonT(60) DEF Kids
  <1>12. ASSUME NEW c \in CPU, ForkReturn(c) PROVE Kids'
    <2>1. PICK p \in Slot :
            /\ Runs(c, p) /\ UNCHANGED <<cur, sp, scan>>
            /\ \/ /\ pc' = [pc EXCEPT ![p] = "user"]
                  /\ kid' = [kid EXCEPT ![p] = 0]
                  /\ UNCHANGED <<state, lock>>
               \/ /\ Leave(c, p, "RUNNABLE")
                  /\ pc' = [pc EXCEPT ![p] = "winner"]
                  /\ UNCHANGED kid
      BY <1>12 DEF ForkReturn
    <2>2. state[p] = "RUNNING" /\ cur[c] = p /\ lock # c
      BY <1>0, <2>1, StrideAssumption DEF Places, Runs, Slot
    <2>3. CASE /\ pc' = [pc EXCEPT ![p] = "user"]
               /\ kid' = [kid EXCEPT ![p] = 0]
               /\ UNCHANGED <<state, lock>>
      BY <1>0, <2>1, <2>2, <2>3, OneCpu DEF Kids, TypeOK
    <2>4. CASE Leave(c, p, "RUNNABLE")
               /\ pc' = [pc EXCEPT ![p] = "winner"] /\ UNCHANGED kid
      <3>1. \A q \in Slot : kid[q] # 0 =>
              kid[q] \in Slot /\ state'[kid[q]] = "RUNNABLE" /\ kid[q] # q
        BY <1>0, <2>4 DEF Kids, TypeOK, Leave
      <3>2. state'[p] = "RUNNABLE"
        BY <1>0, <2>4 DEF Leave, TypeOK
      <3>3. ASSUME sp[c] = "rr", kid[p] # 0
            PROVE  Before(scan[c], kid[p], p)
        <4>1. scan[c] = p + 1 /\ kid[p] # p
          BY <1>0, <2>2, <3>1, <3>3, StrideAssumption DEF Places, Slot
        <4>2. p \in Int /\ kid[p] \in Int
          BY <3>1, <3>3, StrideAssumption DEF Slot
        <4> QED
          BY <4>1, <4>2 DEF Before
      <3>4. \A q \in Slot \ {p} : pc'[q] = pc[q] /\ cur[c] # q
        BY <1>0, <2>2, <2>4 DEF TypeOK
      <3>5. sp[c] # "top"
        BY <1>0, <2>2, StrideAssumption DEF Places, Slot
      <3> QED
        BY <1>0, <2>1, <2>2, <2>4, <3>1, <3>2, <3>3, <3>4, <3>5, OneCpu
        DEF Kids
    <2> QED
      BY <2>1, <2>3, <2>4
  <1>13. ASSUME NEW c \in CPU, SetPolicy(c) PROVE Kids'
    BY <1>0, <1>13 DEF SetPolicy, Kids, table, schedVars, threadVars
  <1>14. ASSUME NEW c \in CPU, TransferLookup(c) PROVE Kids'
    <2>1. /\ UNCHANGED <<state, kid, schedVars>>
          /\ \A p \in Slot : pc'[p] = "winner" => pc[p] = "winner"
      BY <1>0, <1>14 DEF TransferLookup, TypeOK, table
    <2> QED
      BY <1>0, <2>1 DEF Kids, schedVars
  <1>15. ASSUME NEW c \in CPU, TransferCheck(c) PROVE Kids'
    <2>1. /\ UNCHANGED <<state, kid, schedVars>>
          /\ \A p \in Slot : pc'[p] = "winner" => pc[p] = "winner"
      BY <1>0, <1>15 DEF TransferCheck, Return, TypeOK, table
    <2> QED
      BY <1>0, <2>1 DEF Kids, schedVars
  <1>16. ASSUME NEW c \in CPU, TransferMove(c) PROVE Kids'
    <2>1. /\ UNCHANGED <<state, kid, schedVars>>
          /\ \A p \in Slot : pc'[p] = "winner" => pc[p] = "winner"
      BY <1>0, <1>16 DEF TransferMove, Return, TypeOK, table
    <2> QED
      BY <1>0, <2>1 DEF Kids, schedVars
  <1>17. CASE Unblock
    <2>1. PICK p \in Slot, to \in {"RUNNABLE", "UNUSED"} :
            /\ state[p] \in {"SLEEPING", "ZOMBIE"}
            /\ state' = [state EXCEPT ![p] = to]
            /\ UNCHANGED <<schedVars, pc, kid>> /\ lock = NoCpu
      BY <1>17 DEF Unblock, threadVars
    <2>2. \A q \in Slot : kid[q] # 0 => kid[q] \in Slot
      BY <1>0 DEF TypeOK
    <2>3. \A c \in CPU : lock # c
      BY <2>1, StrideAssumption DEF NoCpu
    <2> QED
      BY <1>0, <2>1, <2>2, <2>3 DEF Kids, TypeOK, schedVars
  <1>18. CASE UNCHANGED vars
    BY <1>0, <1>18 DEF vars, Kids, schedVars, table, threadVars
  <1> QED
    BY <1>1, <1>2, <1>3, <1>4, <1>5, <1>6, <1>7, <1>8, <1>9, <1>10, <1>11, <1>12, <1>13, <1>14, <1>15, <1>16, <1>17, <1>18
    DEF Next, CpuStep

-----------------------------------------------------------------------------
(* The theorems.                                                           *)

\* IInv is inductive.
LEMMA Inductive == IInv /\ [Next]_vars => IInv'
  BY TypeStep, PlacesStep, DealtStep, YieldedStep, KidsStep DEF IInv

\* IInv holds in every reachable state, for every table of up to a hundred
\* slots.
THEOREM Invariance == Spec => []IInv
  BY InitIInv, Inductive, PTL DEF Spec

\* Tickets stay integers and passes stay within the bound.
THEOREM TypeCorrect == Spec => []TypeOK
  <1>1. IInv => TypeOK
    BY DEF IInv
  <1> QED
    BY Invariance, <1>1, PTL

\* scheduler() never divides by zero: the process that getminproc() returns
\* owns tickets, whatever the transfers before did.
THEOREM DivisionSafe == Spec => []NoZeroDivide
  <1>1. ASSUME IInv PROVE NoZeroDivide
    <2>1. ASSUME NEW c \in CPU, sp[c] = "pick", getminproc # 0
          PROVE  tickets[getminproc] > 0
      <3>1. tickets[getminproc] \in Nat \ {0}
        BY <1>1, <2>1, ChosenShare
      <3> QED
        BY <3>1
    <2> QED
      BY <2>1 DEF NoZeroDivide
  <1> QED
    BY Invariance, <1>1, PTL

\* Every dispatch in the stride branch costs the same share, and no other step
\* makes a pass grow.
THEOREM SharesAreEqual == Spec => EqualShares
  <1> DEFINE A == \A p \in Slot :
               pass'[p] > pass[p] =>
                 pass'[p] - pass[p] =
                   STRIDE1 \div (TOTAL \div Cardinality(Ready))
  <1>1. ASSUME IInv, [Next]_vars PROVE A
    <2>0. TypeOK /\ \A p \in Slot : pass[p] \in Nat
      BY <1>1, StrideAssumption DEF IInv, TypeOK
    <2>1. CASE UNCHANGED pass
      BY <2>0, <2>1
    <2>2. ASSUME NEW c \in CPU, StrideDispatch(c) PROVE A
      <3> DEFINE p == getminproc
                 cost == STRIDE1 \div (TOTAL \div Cardinality(Ready))
      <3>1. /\ p \in Slot /\ tickets[p] = TOTAL \div Cardinality(Ready)
            /\ tickets[p] \in Nat \ {0}
        BY <1>1, <2>2, ChosenShare DEF StrideDispatch
      <3> HIDE DEF p
      <3>2. pass' = [pass EXCEPT ![p] = @ + cost]
        BY <2>2, <3>1 DEF StrideDispatch, Stride, p
      <3>3. cost \in Nat
        BY <3>1, StrideValue
      <3> HIDE DEF cost
      <3>4. \A q \in Slot : pass'[q] > pass[q] => pass'[q] - pass[q] = cost
        BY <2>0, <3>1, <3>2, <3>3 DEF TypeOK
      <3> QED
        BY <3>4 DEF cost
    <2>3. ASSUME NEW c \in CPU, Fork(c) PROVE A
      <3>1. \A p \in Slot : pass'[p] = pass[p] \/ pass'[p] = 0
        BY <2>0, <2>3 DEF Fork, TypeOK
      <3> QED
        BY <2>0, <3>1
    <2>4. \/ UNCHANGED pass
          \/ \E c \in CPU : StrideDispatch(c) \/ Fork(c)
      BY <1>1 DEF Next, CpuStep, vars, table, Unblock, SchedTop, UpdateTickets,
         StrideDone, RRDispatch, RRBack, RRDone, Resume, Yield, Block,
         ForkReturn, SetPolicy, TransferLookup, TransferCheck, TransferMove
    <2> QED
      BY <2>1, <2>2, <2>3, <2>4
  <1>2. IInv /\ [Next]_vars => [A]_vars
    BY <1>1
  <1> QED
    BY Invariance, <1>2, PTL DEF Spec, EqualShares

\* The stride branch dispatches the RUNNABLE process with the least pass, and
\* the first in the table of several.
THEOREM LeastPassRuns == Spec => MinPassFirst
  <1> DEFINE A == \A p, q \in Slot :
               /\ Dispatched(p)
               /\ \E c \in CPU : sp[c] = "pick" /\ sp'[c] = "stride"
               /\ state[q] = "RUNNABLE"
               => pass[p] < pass[q] \/ (pass[p] = pass[q] /\ p <= q)
  <1>1. ASSUME IInv, [Next]_vars PROVE A
    <2> SUFFICES ASSUME NEW p \in Slot, NEW q \in Slot, Dispatched(p),
                        NEW c \in CPU, sp[c] = "pick", sp'[c] = "stride",
                        state[q] = "RUNNABLE"
                 PROVE  pass[p] < pass[q] \/ (pass[p] = pass[q] /\ p <= q)
      BY Zenon
    <2>0. TypeOK
      BY <1>1 DEF IInv
    <2>1. StrideDispatch(c)
      <3>1. \A d \in CPU : d = c
        BY OneCpu
      <3>2. UNCHANGED sp \/ \E d \in CPU :
              SchedTop(d) \/ UpdateTickets(d) \/ StrideDispatch(d)
              \/ StrideDone(d) \/ RRDone(d)
        BY <1>1, ZenonT(60) DEF Next, CpuStep, vars, schedVars, Unblock, RRDispatch, RRBack,
           Resume, Yield, Block, Fork, ForkReturn, SetPolicy, TransferLookup,
           TransferCheck, TransferMove
      <3> QED
        BY <2>0, <3>1, <3>2
        DEF SchedTop, UpdateTickets, StrideDone, RRDone, TypeOK
    <2> DEFINE m == getminproc
    <2>2. /\ m # 0 /\ m \in Slot
          /\ \A r \in Slot : state[r] = "RUNNABLE" =>
               pass[m] < pass[r] \/ (pass[m] = pass[r] /\ m <= r)
      BY <2>0, <2>1, Getminproc DEF StrideDispatch, Answer, Slot
    <2> HIDE DEF m
    <2>3. state' = [state EXCEPT ![m] = "RUNNING"]
      BY <2>1 DEF StrideDispatch, Run, m
    <2>4. p = m
      BY <2>0, <2>3 DEF Dispatched, TypeOK
    <2> QED
      BY <2>2, <2>4
  <1>2. IInv /\ [Next]_vars => [A]_vars
    BY <1>1
  <1> QED
    BY Invariance, <1>2, PTL DEF Spec, MinPassFirst

\* With fork_winner(1), under round robin, fork() returns in the parent only
\* after the child has been dispatched.
THEOREM WinnerRunsFirst == Spec => ChildFirst
  <1> DEFINE A == \A p \in Slot :
               pc[p] = "winner" /\ pc'[p] = "user" => kid[p] = 0
  <1>1. ASSUME IInv, [Next]_vars PROVE A
    <2> SUFFICES ASSUME NEW p \in Slot, pc[p] = "winner", pc'[p] = "user"
                 PROVE  kid[p] = 0
      OBVIOUS
    <2>0. TypeOK /\ Places /\ Yielded /\ Kids
      BY <1>1 DEF IInv
    <2>1. ASSUME NEW c \in CPU, Resume(c) PROVE kid[p] = 0
      <3>1. lock = c /\ cur[c] = p /\ state[p] = "RUNNING"
        <4>1. cur[c] # p => pc'[p] = pc[p]
          BY <2>0, <2>1 DEF Resume, TypeOK
        <4> QED
          BY <2>1, <4>1 DEF Resume
      <3>2. sp[c] \in {"stride", "rr"}
        <4>1. p # 0
          BY StrideAssumption DEF Slot
        <4>2. sp[c] \in {"top", "update", "pick", "stride", "rr"}
          BY <2>0 DEF TypeOK
        <4> QED
          BY <2>0, <3>1, <4>1, <4>2 DEF Places
      <3> QED
        BY <2>0, <3>1, <3>2 DEF Kids
    <2>2. ASSUME NEW c \in CPU, Fork(c) PROVE kid[p] = 0
      <3>1. PICK r \in Slot, q \in Slot :
              /\ Runs(c, r) /\ state[q] = "UNUSED"
              /\ pc' = [pc EXCEPT ![r] = "forked", ![q] = "user"]
        BY <2>2 DEF Fork, InUser, First
      <3>2. p = q
        BY <2>0, <3>1 DEF TypeOK
      <3> QED
        BY <2>0, <3>1, <3>2 DEF Yielded
    <2>3. ASSUME NEW c \in CPU, CpuStep(c), ~Resume(c), ~Fork(c)
          PROVE  kid[p] = 0
      BY <2>0, <2>3
      DEF CpuStep, TypeOK, threadVars, SchedTop, UpdateTickets, StrideDispatch,
          StrideDone, RRDispatch, RRBack, RRDone, Yield, Block, ForkReturn,
          SetPolicy, TransferLookup, TransferCheck, TransferMove, Return,
          InUser
    <2> QED
      BY <1>1, <2>1, <2>2, <2>3 DEF Next, Unblock, vars, threadVars
  <1>2. IInv /\ [Next]_vars => [A]_vars
    BY <1>1
  <1> QED
    BY Invariance, <1>2, PTL DEF Spec, ChildFirst
=============================================================================
