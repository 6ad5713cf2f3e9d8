----------------------------- MODULE ProcProofs -----------------------------
(***************************************************************************)
(* Proofs about Proc, for every table size, every set of CPUs and every    *)
(* set of kill() arguments.  Two inductive invariants, the second on top   *)
(* of the first:                                                           *)
(*   Core    which CPU runs which thread, where sleeping, dead and unborn  *)
(*           threads stand, who fills an EMBRYO slot, who has a stack;     *)
(*   Family  the process tree, the channels of sleepers, pids, tickslock.  *)
(***************************************************************************)
EXTENDS Proc, TLAPS

Started == Live \cup {"ZOMBIE"}
Forking == {"fork1", "fork2", "fork3"}

\* A CPU only ever stands on a process that has been started.
OnCpu == \A c \in CPU : cur[c] # 0 => state[cur[c]] \in Started

\* Where threads that do not run stand.
Points ==
  \A p \in Slot :
    /\ state[p] \in {"UNUSED", "EMBRYO"} => pc[p] \in {"exited", "forkret"}
    /\ state[p] = "ZOMBIE" => pc[p] = "exited"
    /\ state[p] = "SLEEPING" => pc[p] \in {"waitslept", "tslept"}

\* Each fork in progress owns one EMBRYO slot, and shares it with no other.
Embryos ==
  \A p \in Slot :
    /\ np[p] # 0 <=> pc[p] \in Forking
    /\ np[p] # 0 => state[np[p]] = "EMBRYO"
    /\ \A q \in Slot : np[p] = np[q] /\ np[p] # 0 => p = q

Stacks ==
  \A p \in Slot :
    /\ state[p] \in Started => kstack[p] # 0
    /\ pc[p] \in {"fork2", "fork3"} => kstack[np[p]] # 0

\* A CPU with interrupts off is running a thread that does not hold the lock.
Interrupts ==
  \A c \in CPU : irq[c] # "on" => lock # c /\ cur[c] # 0

Core ==
  /\ TypeOK
  /\ OneCpuPerProc
  /\ OnCpu
  /\ Interrupts
  /\ Points
  /\ Embryos
  /\ Stacks

\* The tree: only started processes and the child a fork is about to publish
\* have a parent; init is the root, is alive and does not exit.
Tree ==
  /\ state[InitProc] \in Live
  /\ pc[InitProc] # "exit"
  /\ parent[InitProc] = 0
  /\ \A p \in Slot :
       /\ state[p] = "UNUSED" => parent[p] = 0
       /\ pc[p] \in {"fork1", "fork2"} => parent[np[p]] = 0
       /\ pc[p] = "fork3" => parent[np[p]] = p
       /\ parent[p] # p

\* Sleepers are on the channel their call names.
Channels ==
  \A p \in Slot :
    state[p] = "SLEEPING" =>
      /\ pc[p] = "waitslept" => chan[p] = p
      /\ pc[p] = "tslept" => chan[p] = TICKS

Pids == \A p \in Slot : pid[p] < nextpid

\* Whoever is between sys_sleep's check and sleep() holds tickslock.
TickLocks ==
  \A p \in Slot : pc[p] = "tsleep2" => tickslock = p /\ left[p] > 0

Family ==
  /\ Tree
  /\ ParentAlive
  /\ Channels
  /\ NoMissedExit
  /\ Pids
  /\ PidUnique
  /\ TickLocks
  /\ NoMissedTick

-----------------------------------------------------------------------------
\* Slots are nonzero: the null pointer is none of them, and init is one.
LEMMA SlotFacts ==
  /\ 0 \notin Slot
  /\ TICKS \notin Slot \cup {0}
  /\ InitProc \in Slot
  /\ NoCpu \notin CPU
  BY ProcAssumption DEF Slot, InitProc, TICKS, NoCpu

\* The scheduler's position after a slot stays in the range of scan.
LEMMA ScanFacts == \A p \in Slot : p + 1 \in 0..(NPROC + 1)
  BY ProcAssumption DEF Slot

\* wakeup1() only ever turns SLEEPING into RUNNABLE.
LEMMA Wakeup1Facts ==
  ASSUME TypeOK, NEW ch
  PROVE  /\ Wakeup1(state, ch) \in [Slot -> {"UNUSED", "EMBRYO", "SLEEPING",
                                             "RUNNABLE", "RUNNING", "ZOMBIE"}]
         /\ \A q \in Slot :
              Wakeup1(state, ch)[q] =
                IF state[q] = "SLEEPING" /\ chan[q] = ch THEN "RUNNABLE"
                                                         ELSE state[q]
  BY DEF TypeOK, Wakeup1

\* What exit() does to the states: p is a ZOMBIE, sleepers on the parent's
\* channel are woken, and init is if it sleeps in wait() and inherits a ZOMBIE.
LEMMA ExitFacts ==
  ASSUME TypeOK, NEW p \in Slot
  PROVE  /\ ExitStates(p) \in [Slot -> {"UNUSED", "EMBRYO", "SLEEPING",
                                        "RUNNABLE", "RUNNING", "ZOMBIE"}]
         /\ ExitStates(p)[p] = "ZOMBIE"
         /\ \A q \in Slot \ {p} :
              \/ ExitStates(p)[q] = state[q]
              \/ state[q] = "SLEEPING" /\ ExitStates(p)[q] = "RUNNABLE"
         /\ \A q \in Slot \ {p} :
              ExitStates(p)[q] = "SLEEPING" => chan[q] # parent[p]
         /\ \A q, r \in Slot \ {p} :
              /\ ExitStates(p)[q] = "SLEEPING"
              /\ parent[r] = p
              /\ state[r] = "ZOMBIE"
              => chan[q] # InitProc
  BY SlotFacts DEF TypeOK, ExitStates, Wakeup1

\* userinit()'s table is well typed.
LEMMA TypeInit == Init => TypeOK
  BY ProcAssumption, SlotFacts
  DEF Init, TypeOK, Point, Interruptible, LockPoint

\* Every step of every CPU keeps the types.
LEMMA TypeStep == TypeOK /\ [Next]_vars => TypeOK'
<1> SUFFICES ASSUME TypeOK, [Next]_vars PROVE TypeOK'
  OBVIOUS
<1> USE SlotFacts
    DEF Point, Interruptible, LockPoint, Goto, SetIrq, fields, cpuVars,
        threadVars
<1>1. CASE UNCHANGED vars
  BY <1>1 DEF vars, TypeOK
<1>2. ASSUME NEW c \in CPU, CpuStep(c) PROVE TypeOK'
  <2>1. CASE Dispatch(c)
    BY <2>1, ScanFacts DEF Dispatch, TypeOK
  <2>2. CASE ScanEnd(c)
    BY <2>2, ProcAssumption DEF ScanEnd, TypeOK
  <2>3. CASE Sched(c)
    BY <2>3 DEF Sched, TypeOK
  <2>4. CASE Resume(c)
    BY <2>4 DEF Resume, TypeOK
  <2>5. CASE Yield(c)
    BY <2>5 DEF Yield, TypeOK
  <2>6. CASE Timer(c)
    <3>1. state' \in [Slot -> {"UNUSED", "EMBRYO", "SLEEPING", "RUNNABLE",
                               "RUNNING", "ZOMBIE"}]
      BY <2>6, Wakeup1Facts DEF Timer, TypeOK
    <3>2. left' \in [Slot -> Nat]
      BY <2>6 DEF Timer, TypeOK, LeftAfterTick
    <3>3. pc' \in [Slot -> Point] /\ irq' \in [CPU -> {"on", "spin", "trap"}]
      BY <2>6 DEF Timer, TypeOK
    <3> QED
      BY <2>6, <3>1, <3>2, <3>3 DEF Timer, TypeOK
  <2>7. CASE Acquire(c)
    BY <2>7 DEF Acquire, TypeOK
  <2>8. CASE Syscall(c)
    BY <2>8, ProcAssumption DEF Syscall, TypeOK
  <2>9. CASE Fault(c)
    BY <2>9 DEF Fault, TypeOK
  <2>10. CASE ForkAlloc(c)
    <3>1. /\ state' \in [Slot -> {"UNUSED", "EMBRYO", "SLEEPING", "RUNNABLE",
                                  "RUNNING", "ZOMBIE"}]
          /\ pid' \in [Slot -> Nat]
          /\ nextpid' \in Nat
          /\ np' \in [Slot -> Slot \cup {0}]
      <4>1. \/ UNCHANGED <<state, np, pid, nextpid>>
            \/ \E p \in Slot, q \in Slot :
                 /\ state' = [state EXCEPT ![q] = "EMBRYO"]
                 /\ pid' = [pid EXCEPT ![q] = nextpid]
                 /\ nextpid' = nextpid + 1
                 /\ np' = [np EXCEPT ![p] = q]
        BY <2>10 DEF ForkAlloc, TypeOK, NextPid, First
      <4> QED
        BY <4>1 DEF TypeOK
    <3>2. pc' \in [Slot -> Point] /\ irq' \in [CPU -> {"on", "spin", "trap"}]
      BY <2>10, ZenonT(60) DEF ForkAlloc, TypeOK
    <3> QED
      BY <2>10, <3>1, <3>2 DEF ForkAlloc, TypeOK
  <2>11. CASE ForkKstack(c)
    BY <2>11 DEF ForkKstack, TypeOK
  <2>12. CASE ForkCopy(c)
    BY <2>12 DEF ForkCopy, TypeOK
  <2>13. CASE ForkRun(c)
    <3>1. PICK p \in Slot :
            /\ state' = [state EXCEPT ![np[p]] = "RUNNABLE"]
            /\ np' = [np EXCEPT ![p] = 0]
            /\ pc' = [pc EXCEPT ![p] = "user"]
      BY <2>13 DEF ForkRun
    <3>2. state' \in [Slot -> {"UNUSED", "EMBRYO", "SLEEPING", "RUNNABLE",
                               "RUNNING", "ZOMBIE"}]
      BY <3>1 DEF TypeOK
    <3>3. np' \in [Slot -> Slot \cup {0}] /\ pc' \in [Slot -> Point]
      BY <3>1 DEF TypeOK
    <3> QED
      BY <2>13, <3>2, <3>3 DEF ForkRun, TypeOK
  <2>14. CASE Exit(c)
    BY <2>14, ExitFacts DEF Exit, TypeOK, ParentAfterExit
  <2>15. CASE WaitReap(c)
    BY <2>15 DEF WaitReap, TypeOK
  <2>16. CASE WaitFail(c)
    BY <2>16 DEF WaitFail, TypeOK
  <2>17. CASE WaitSleep(c)
    BY <2>17 DEF WaitSleep, TypeOK
  <2>18. CASE Kill(c)
    <3>1. state' \in [Slot -> {"UNUSED", "EMBRYO", "SLEEPING", "RUNNABLE",
                               "RUNNING", "ZOMBIE"}]
      BY <2>18 DEF Kill, TypeOK, First
    <3>2. killed' \in [Slot -> 0..1]
      BY <2>18 DEF Kill, TypeOK, First
    <3>3. pc' \in [Slot -> Point] /\ irq' \in [CPU -> {"on", "spin", "trap"}]
      BY <2>18 DEF Kill, TypeOK
    <3> QED
      BY <2>18, <3>1, <3>2, <3>3 DEF Kill, TypeOK
  <2>19. CASE TsleepCheck(c)
    BY <2>19 DEF TsleepCheck, TypeOK
  <2>20. CASE TsleepSleep(c)
    BY <2>20 DEF TsleepSleep, TypeOK
  <2>21. CASE TsleepWake(c)
    BY <2>21 DEF TsleepWake, TypeOK
  <2> QED
    BY <1>2, <2>1, <2>2, <2>3, <2>4, <2>5, <2>6, <2>7, <2>8, <2>9, <2>10,
       <2>11, <2>12, <2>13, <2>14, <2>15, <2>16, <2>17, <2>18, <2>19, <2>20,
       <2>21 DEF CpuStep, SwitchStep, KernelStep
<1> QED
  BY <1>1, <1>2 DEF Next

\* The process table, the CPUs and the threads stay well typed.
THEOREM TypeCorrect == Spec => []TypeOK
  BY TypeInit, TypeStep, PTL DEF Spec

\* Core survives scheduler() switching to the next RUNNABLE process.
LEMMA DispatchCore ==
  ASSUME TypeOK, TypeOK', Core, NEW c \in CPU, Dispatch(c)
  PROVE  Core'
<1> USE SlotFacts DEF Core, TypeOK
<1>a. PICK p \in Slot :
        /\ state[p] = "RUNNABLE"
        /\ cur[c] = 0 /\ lock \in {NoCpu, c}
        /\ cur' = [cur EXCEPT ![c] = p]
        /\ state' = [state EXCEPT ![p] = "RUNNING"]
        /\ lock' = c
        /\ UNCHANGED <<irq, pc, np, kstack>>
  BY DEF Dispatch, First, FromScan, threadVars
<1>b. \A d \in CPU : cur[d] # p
  BY <1>a DEF OneCpuPerProc
<1>1. OneCpuPerProc'
  BY <1>a, <1>b DEF OneCpuPerProc, OnCpu
<1>2. OnCpu' /\ Interrupts'
  BY <1>a, <1>b DEF OneCpuPerProc, OnCpu, Started, Live, Interrupts
<1>3. Points'
  BY <1>a, <1>b DEF Points
<1>4. Embryos'
  BY <1>a, <1>b DEF Embryos, Points, Forking
<1>5. Stacks'
  BY <1>a, <1>b DEF Stacks, Embryos, Points, Started, Live, Forking
<1> QED
  BY <1>1, <1>2, <1>3, <1>4, <1>5

\* Core survives scheduler() ending its scan and releasing ptable.lock.
LEMMA ScanEndCore ==
  ASSUME TypeOK, TypeOK', Core, NEW c \in CPU, ScanEnd(c)
  PROVE  Core'
<1> USE SlotFacts DEF Core, TypeOK
<1>a. cur[c] = 0 /\ lock = c /\ lock' = NoCpu /\ UNCHANGED <<irq, state, cur,
                                                             pc, np, kstack>>
  BY DEF ScanEnd, fields, threadVars
<1>1. OneCpuPerProc'
  BY <1>a DEF OneCpuPerProc, OnCpu
<1>2. OnCpu' /\ Interrupts'
  BY <1>a DEF OneCpuPerProc, OnCpu, Started, Live, Interrupts
<1>3. Points'
  BY <1>a DEF Points
<1>4. Embryos'
  BY <1>a DEF Embryos, Points, Forking
<1>5. Stacks'
  BY <1>a DEF Stacks, Embryos, Points, Started, Live, Forking
<1> QED
  BY <1>1, <1>2, <1>3, <1>4, <1>5

\* Core survives the switch from a process back to scheduler().
LEMMA SchedCore ==
  ASSUME TypeOK, TypeOK', Core, NEW c \in CPU, Sched(c)
  PROVE  Core'
<1> USE SlotFacts DEF Core, TypeOK
<1>a. /\ cur[c] \in Slot /\ state[cur[c]] # "RUNNING" /\ lock = c
      /\ cur' = [cur EXCEPT ![c] = 0]
      /\ UNCHANGED <<irq, state, lock, pc, np, kstack>>
  BY DEF Sched, fields, threadVars
<1>1. OneCpuPerProc'
  BY <1>a DEF OneCpuPerProc, OnCpu
<1>2. OnCpu' /\ Interrupts'
  BY <1>a DEF OneCpuPerProc, OnCpu, Started, Live, Interrupts
<1>3. Points'
  BY <1>a DEF Points
<1>4. Embryos'
  BY <1>a DEF Embryos, Points, Forking
<1>5. Stacks'
  BY <1>a DEF Stacks, Embryos, Points, Started, Live, Forking
<1> QED
  BY <1>1, <1>2, <1>3, <1>4, <1>5

\* Core survives a dispatched process releasing ptable.lock (forkret, yield, sleep).
LEMMA ResumeCore ==
  ASSUME TypeOK, TypeOK', Core, NEW c \in CPU, Resume(c)
  PROVE  Core'
<1> USE SlotFacts DEF Core, TypeOK
<1>a. PICK p \in Slot :
        /\ cur[c] = p /\ lock = c /\ state[p] = "RUNNING" /\ lock' = NoCpu
        /\ pc' = [pc EXCEPT ![p] = IF pc[p] = "forkret" THEN "user" ELSE pc[p]]
        /\ UNCHANGED <<irq, state, cur, np, kstack>>
  BY DEF Resume, Goto, fields
<1>1. OneCpuPerProc'
  BY <1>a DEF OneCpuPerProc, OnCpu
<1>2. OnCpu' /\ Interrupts'
  BY <1>a DEF OneCpuPerProc, OnCpu, Started, Live, Interrupts
<1>3. Points'
  BY <1>a DEF Points
<1>4. Embryos'
  BY <1>a DEF Embryos, Points, Forking
<1>5. Stacks'
  BY <1>a DEF Stacks, Embryos, Points, Started, Live, Forking
<1> QED
  BY <1>1, <1>2, <1>3, <1>4, <1>5

\* Core survives yield().
LEMMA YieldCore ==
  ASSUME TypeOK, TypeOK', Core, NEW c \in CPU, Yield(c)
  PROVE  Core'
<1> USE SlotFacts DEF Core, TypeOK
<1>a. PICK p \in Slot :
        /\ cur[c] = p /\ lock = NoCpu /\ lock' = c
        /\ state' = [state EXCEPT ![p] = "RUNNABLE"]
        /\ irq' = [irq EXCEPT ![c] = "on"] /\ UNCHANGED <<cur, pc, np, kstack>>
  BY DEF Yield, SetIrq, threadVars
<1>b. state[p] = "RUNNING"
  BY <1>a DEF OneCpuPerProc
<1>1. OneCpuPerProc'
  BY <1>a, <1>b DEF OneCpuPerProc, OnCpu
<1>2. OnCpu' /\ Interrupts'
  BY <1>a, <1>b DEF OneCpuPerProc, OnCpu, Started, Live, Interrupts
<1>3. Points'
  BY <1>a, <1>b DEF Points
<1>4. Embryos'
  BY <1>a, <1>b DEF Embryos, Points, Forking
<1>5. Stacks'
  BY <1>a, <1>b DEF Stacks, Embryos, Points, Started, Live, Forking
<1> QED
  BY <1>1, <1>2, <1>3, <1>4, <1>5

\* Core survives the timer interrupt of trap().
LEMMA TimerCore ==
  ASSUME TypeOK, TypeOK', Core, NEW c \in CPU, Timer(c)
  PROVE  Core'
<1> USE SlotFacts DEF Core, TypeOK
<1>a. /\ lock # c
      /\ UNCHANGED <<lock, cur, np, kstack>>
  BY DEF Timer
<1>b. \A q \in Slot :
        \/ state'[q] = state[q]
        \/ state[q] = "SLEEPING" /\ state'[q] = "RUNNABLE"
  BY Wakeup1Facts DEF Timer
<1>c. \A q \in Slot :
        \/ pc'[q] = pc[q]
        \/ cur[c] = q /\ pc[q] = "user" /\ pc'[q] \in {"panic", "exit"}
  BY DEF Timer, Goto
<1>d. cur[c] # 0 => state[cur[c]] = "RUNNING"
  BY <1>a DEF OneCpuPerProc
<1>e. \/ UNCHANGED irq
      \/ cur[c] # 0 /\ irq' = [irq EXCEPT ![c] = "trap"]
  BY DEF Timer, SetIrq
<1>1. OneCpuPerProc'
  BY <1>a, <1>b, <1>c, <1>d, <1>e DEF OneCpuPerProc, OnCpu
<1>2. OnCpu' /\ Interrupts'
  BY <1>a, <1>b, <1>c, <1>d, <1>e
  DEF OneCpuPerProc, OnCpu, Started, Live, Interrupts
<1>3. Points'
  BY <1>a, <1>b, <1>c, <1>d, <1>e DEF Points
<1>4. Embryos'
  BY <1>a, <1>b, <1>c, <1>d, <1>e DEF Embryos, Points, Forking
<1>5. Stacks'
  BY <1>a, <1>b, <1>c, <1>d, <1>e
  DEF Stacks, Embryos, Points, Started, Live, Forking
<1> QED
  BY <1>1, <1>2, <1>3, <1>4, <1>5

\* Core survives acquire() turning interrupts off to spin.
LEMMA AcquireCore ==
  ASSUME TypeOK, TypeOK', Core, NEW c \in CPU, Acquire(c)
  PROVE  Core'
<1> USE SlotFacts DEF Core, TypeOK
<1>a. /\ cur[c] \in Slot /\ lock # c /\ irq' = [irq EXCEPT ![c] = "spin"]
      /\ UNCHANGED <<state, lock, cur, pc, np, kstack>>
  BY DEF Acquire, Runs, SetIrq, fields, threadVars
<1>1. OneCpuPerProc'
  BY <1>a DEF OneCpuPerProc, OnCpu
<1>2. OnCpu' /\ Interrupts'
  BY <1>a DEF OneCpuPerProc, OnCpu, Started, Live, Interrupts
<1>3. Points'
  BY <1>a DEF Points
<1>4. Embryos'
  BY <1>a DEF Embryos, Points, Forking
<1>5. Stacks'
  BY <1>a DEF Stacks, Embryos, Points, Started, Live, Forking
<1> QED
  BY <1>1, <1>2, <1>3, <1>4, <1>5

\* Core survives the entry of a system call.
LEMMA SyscallCore ==
  ASSUME TypeOK, TypeOK', Core, NEW c \in CPU, Syscall(c)
  PROVE  Core'
<1> USE SlotFacts DEF Core, TypeOK
<1>a. PICK p \in Slot :
        /\ cur[c] = p
        /\ lock # c /\ pc[p] = "user"
        /\ \E q \in {"panic", "exit", "wait", "kill", "fork0", "tsleep"} :
             pc' = [pc EXCEPT ![p] = q]
        /\ UNCHANGED <<irq, state, lock, cur, np, kstack>>
  BY DEF Syscall, Runs, Goto, fields, cpuVars
<1>b. state[p] = "RUNNING"
  BY <1>a DEF OneCpuPerProc
<1>1. OneCpuPerProc'
  BY <1>a, <1>b DEF OneCpuPerProc, OnCpu
<1>2. OnCpu' /\ Interrupts'
  BY <1>a, <1>b DEF OneCpuPerProc, OnCpu, Started, Live, Interrupts
<1>3. Points'
  BY <1>a, <1>b DEF Points
<1>4. Embryos'
  BY <1>a, <1>b DEF Embryos, Points, Forking
<1>5. Stacks'
  BY <1>a, <1>b DEF Stacks, Embryos, Points, Started, Live, Forking
<1> QED
  BY <1>1, <1>2, <1>3, <1>4, <1>5

\* Core survives a fault of user code.
LEMMA FaultCore ==
  ASSUME TypeOK, TypeOK', Core, NEW c \in CPU, Fault(c)
  PROVE  Core'
<1> USE SlotFacts DEF Core, TypeOK
<1>a. PICK p \in Slot :
        /\ cur[c] = p
        /\ lock # c /\ pc[p] = "user"
        /\ pc' = [pc EXCEPT ![p] = "exit"]
        /\ UNCHANGED <<irq, state, lock, cur, np, kstack>>
  BY DEF Fault, Runs, Goto, cpuVars
<1>b. state[p] = "RUNNING"
  BY <1>a DEF OneCpuPerProc
<1>1. OneCpuPerProc'
  BY <1>a, <1>b DEF OneCpuPerProc, OnCpu
<1>2. OnCpu' /\ Interrupts'
  BY <1>a, <1>b DEF OneCpuPerProc, OnCpu, Started, Live, Interrupts
<1>3. Points'
  BY <1>a, <1>b DEF Points
<1>4. Embryos'
  BY <1>a, <1>b DEF Embryos, Points, Forking
<1>5. Stacks'
  BY <1>a, <1>b DEF Stacks, Embryos, Points, Started, Live, Forking
<1> QED
  BY <1>1, <1>2, <1>3, <1>4, <1>5

\* Core survives allocproc() claiming a slot.
LEMMA ForkAllocCore ==
  ASSUME TypeOK, TypeOK', Core, NEW c \in CPU, ForkAlloc(c)
  PROVE  Core'
<1> USE SlotFacts DEF Core, TypeOK
<1>a. PICK p \in Slot :
        /\ cur[c] = p
        /\ lock = NoCpu /\ pc[p] = "fork0"
        /\ irq' = [irq EXCEPT ![c] = "on"] /\ UNCHANGED <<lock, cur, kstack>>
        /\ \/ pc' = [pc EXCEPT ![p] = "user"] /\ UNCHANGED <<state, np>>
           \/ \E q \in Slot :
                /\ state[q] = "UNUSED"
                /\ state' = [state EXCEPT ![q] = "EMBRYO"]
                /\ np' = [np EXCEPT ![p] = q]
                /\ pc' = [pc EXCEPT ![p] = "fork1"]
  BY DEF ForkAlloc, Spins, First, Goto, NextPid, SetIrq
<1>b. state[p] = "RUNNING"
  BY <1>a DEF OneCpuPerProc
<1>1. OneCpuPerProc'
  BY <1>a, <1>b DEF OneCpuPerProc, OnCpu
<1>2. OnCpu' /\ Interrupts'
  BY <1>a, <1>b DEF OneCpuPerProc, OnCpu, Started, Live, Interrupts
<1>3. Points'
  BY <1>a, <1>b DEF Points
<1>4. Embryos'
  BY <1>a, <1>b DEF Embryos, Points, Forking
<1>5. Stacks'
  BY <1>a, <1>b DEF Stacks, Embryos, Points, Started, Live, Forking
<1> QED
  BY <1>1, <1>2, <1>3, <1>4, <1>5

\* Core survives allocproc() getting a kernel stack, or failing.
LEMMA ForkKstackCore ==
  ASSUME TypeOK, TypeOK', Core, NEW c \in CPU, ForkKstack(c)
  PROVE  Core'
<1> USE SlotFacts DEF Core, TypeOK
<1>a. PICK p \in Slot :
        /\ cur[c] = p
        /\ lock # c /\ pc[p] = "fork1"
        /\ UNCHANGED <<irq, lock, cur>>
        /\ \/ /\ kstack' = [kstack EXCEPT ![np[p]] = 1]
              /\ pc' = [pc EXCEPT ![p] = "fork2", ![np[p]] = "forkret"]
              /\ UNCHANGED <<state, np>>
           \/ /\ state' = [state EXCEPT ![np[p]] = "UNUSED"]
              /\ np' = [np EXCEPT ![p] = 0]
              /\ pc' = [pc EXCEPT ![p] = "user"]
              /\ UNCHANGED kstack
  BY DEF ForkKstack, Runs, Goto, cpuVars
<1>b. state[p] = "RUNNING"
  BY <1>a DEF OneCpuPerProc
<1>c. np[p] \in Slot /\ state[np[p]] = "EMBRYO"
  BY <1>a DEF Embryos, Forking
<1>1. OneCpuPerProc'
  BY <1>a, <1>b, <1>c DEF OneCpuPerProc, OnCpu
<1>2. OnCpu' /\ Interrupts'
  BY <1>a, <1>b, <1>c DEF OneCpuPerProc, OnCpu, Started, Live, Interrupts
<1>3. Points'
  BY <1>a, <1>b, <1>c DEF Points
<1>4. Embryos'
  BY <1>a, <1>b, <1>c DEF Embryos, Points, Forking
<1>5. Stacks'
  BY <1>a, <1>b, <1>c DEF Stacks, Embryos, Points, Started, Live, Forking
<1> QED
  BY <1>1, <1>2, <1>3, <1>4, <1>5

\* Core survives fork() copying the parent, or failing.
LEMMA ForkCopyCore ==
  ASSUME TypeOK, TypeOK', Core, NEW c \in CPU, ForkCopy(c)
  PROVE  Core'
<1> USE SlotFacts DEF Core, TypeOK
<1>a. PICK p \in Slot :
        /\ cur[c] = p
        /\ lock # c /\ pc[p] = "fork2"
        /\ UNCHANGED <<irq, lock, cur>>
        /\ \/ /\ pc' = [pc EXCEPT ![p] = "fork3"]
              /\ UNCHANGED <<state, np, kstack>>
           \/ /\ kstack' = [kstack EXCEPT ![np[p]] = 0]
              /\ state' = [state EXCEPT ![np[p]] = "UNUSED"]
              /\ np' = [np EXCEPT ![p] = 0]
              /\ pc' = [pc EXCEPT ![p] = "user"]
  BY DEF ForkCopy, Runs, Goto, cpuVars
<1>b. state[p] = "RUNNING"
  BY <1>a DEF OneCpuPerProc
<1>c. np[p] \in Slot /\ state[np[p]] = "EMBRYO"
  BY <1>a DEF Embryos, Forking
<1>1. OneCpuPerProc'
  BY <1>a, <1>b, <1>c DEF OneCpuPerProc, OnCpu
<1>2. OnCpu' /\ Interrupts'
  BY <1>a, <1>b, <1>c DEF OneCpuPerProc, OnCpu, Started, Live, Interrupts
<1>3. Points'
  BY <1>a, <1>b, <1>c DEF Points
<1>4. Embryos'
  BY <1>a, <1>b, <1>c DEF Embryos, Points, Forking
<1>5. Stacks'
  BY <1>a, <1>b, <1>c DEF Stacks, Embryos, Points, Started, Live, Forking
<1> QED
  BY <1>1, <1>2, <1>3, <1>4, <1>5

\* Core survives fork() publishing the child.
LEMMA ForkRunCore ==
  ASSUME TypeOK, TypeOK', Core, NEW c \in CPU, ForkRun(c)
  PROVE  Core'
<1> USE SlotFacts DEF Core, TypeOK
<1>a. PICK p \in Slot :
        /\ cur[c] = p
        /\ lock = NoCpu /\ pc[p] = "fork3"
        /\ state' = [state EXCEPT ![np[p]] = "RUNNABLE"]
        /\ np' = [np EXCEPT ![p] = 0]
        /\ pc' = [pc EXCEPT ![p] = "user"]
        /\ irq' = [irq EXCEPT ![c] = "on"] /\ UNCHANGED <<lock, cur, kstack>>
  BY DEF ForkRun, Spins, Goto, SetIrq
<1>b. state[p] = "RUNNING"
  BY <1>a DEF OneCpuPerProc
<1>c. np[p] \in Slot /\ state[np[p]] = "EMBRYO"
  BY <1>a DEF Embryos, Forking
<1>1. OneCpuPerProc'
  BY <1>a, <1>b, <1>c DEF OneCpuPerProc, OnCpu
<1>2. OnCpu' /\ Interrupts'
  BY <1>a, <1>b, <1>c DEF OneCpuPerProc, OnCpu, Started, Live, Interrupts
<1>3. Points'
  BY <1>a, <1>b, <1>c DEF Points
<1>4. Embryos'
  BY <1>a, <1>b, <1>c DEF Embryos, Points, Forking
<1>5. Stacks'
  BY <1>a, <1>b, <1>c DEF Stacks, Embryos, Points, Started, Live, Forking
<1> QED
  BY <1>1, <1>2, <1>3, <1>4, <1>5

\* Core survives exit().
LEMMA ExitCore ==
  ASSUME TypeOK, TypeOK', Core, NEW c \in CPU, Exit(c)
  PROVE  Core'
<1> USE SlotFacts DEF Core, TypeOK
<1>a. PICK p \in Slot :
        /\ cur[c] = p /\ lock = NoCpu /\ pc[p] = "exit" /\ lock' = c
        /\ state' = ExitStates(p)
        /\ pc' = [pc EXCEPT ![p] = "exited"]
        /\ irq' = [irq EXCEPT ![c] = "on"] /\ UNCHANGED <<cur, np, kstack>>
  BY DEF Exit, Spins, Goto, SetIrq
<1>b. state[p] = "RUNNING"
  BY <1>a DEF OneCpuPerProc
<1>c. /\ state'[p] = "ZOMBIE"
      /\ \A q \in Slot \ {p} :
           \/ state'[q] = state[q]
           \/ state[q] = "SLEEPING" /\ state'[q] = "RUNNABLE"
  BY <1>a, ExitFacts
<1>1. OneCpuPerProc'
  BY <1>a, <1>b, <1>c DEF OneCpuPerProc, OnCpu
<1>2. OnCpu' /\ Interrupts'
  BY <1>a, <1>b, <1>c DEF OneCpuPerProc, OnCpu, Started, Live, Interrupts
<1>3. Points'
  BY <1>a, <1>b, <1>c DEF Points
<1>4. Embryos'
  BY <1>a, <1>b, <1>c DEF Embryos, Points, Forking
<1>5. Stacks'
  BY <1>a, <1>b, <1>c DEF Stacks, Embryos, Points, Started, Live, Forking
<1> QED
  BY <1>1, <1>2, <1>3, <1>4, <1>5

\* Core survives wait() reaping a ZOMBIE.
LEMMA WaitReapCore ==
  ASSUME TypeOK, TypeOK', Core, NEW c \in CPU, WaitReap(c)
  PROVE  Core'
<1> USE SlotFacts DEF Core, TypeOK
<1>a. PICK p \in Slot, q \in Slot :
        /\ cur[c] = p
        /\ \/ lock = NoCpu /\ pc[p] = "wait"
           \/ lock = c /\ pc[p] = "waitslept" /\ state[p] = "RUNNING"
        /\ state[q] = "ZOMBIE"
        /\ kstack' = [kstack EXCEPT ![q] = 0]
        /\ state' = [state EXCEPT ![q] = "UNUSED"]
        /\ lock' = NoCpu
        /\ pc' = [pc EXCEPT ![p] = "user"]
        /\ irq' = [irq EXCEPT ![c] = "on"] /\ UNCHANGED <<cur, np>>
  BY DEF WaitReap, First, Zombies, InWait, Spins, Goto, SetIrq
<1>b. state[p] = "RUNNING"
  BY <1>a DEF OneCpuPerProc
<1>c. \A d \in CPU : cur[d] # q
  BY <1>a, <1>b DEF OneCpuPerProc
<1>1. OneCpuPerProc'
  BY <1>a, <1>b, <1>c DEF OneCpuPerProc, OnCpu
<1>2. OnCpu' /\ Interrupts'
  BY <1>a, <1>b, <1>c DEF OneCpuPerProc, OnCpu, Started, Live, Interrupts
<1>3. Points'
  BY <1>a, <1>b, <1>c DEF Points
<1>4. Embryos'
  BY <1>a, <1>b, <1>c DEF Embryos, Points, Forking
<1>5. Stacks'
  BY <1>a, <1>b, <1>c DEF Stacks, Embryos, Points, Started, Live, Forking
<1> QED
  BY <1>1, <1>2, <1>3, <1>4, <1>5

\* Core survives wait() returning -1.
LEMMA WaitFailCore ==
  ASSUME TypeOK, TypeOK', Core, NEW c \in CPU, WaitFail(c)
  PROVE  Core'
<1> USE SlotFacts DEF Core, TypeOK
<1>a. PICK p \in Slot :
        /\ cur[c] = p
        /\ \/ lock = NoCpu /\ pc[p] = "wait"
           \/ lock = c /\ pc[p] = "waitslept" /\ state[p] = "RUNNING"
        /\ lock' = NoCpu
        /\ pc' = [pc EXCEPT ![p] = "user"]
        /\ irq' = [irq EXCEPT ![c] = "on"] /\ UNCHANGED <<state, cur, np,
                                                          kstack>>
  BY DEF WaitFail, InWait, Spins, Goto, SetIrq
<1>b. state[p] = "RUNNING"
  BY <1>a DEF OneCpuPerProc
<1>1. OneCpuPerProc'
  BY <1>a, <1>b DEF OneCpuPerProc, OnCpu
<1>2. OnCpu' /\ Interrupts'
  BY <1>a, <1>b DEF OneCpuPerProc, OnCpu, Started, Live, Interrupts
<1>3. Points'
  BY <1>a, <1>b DEF Points
<1>4. Embryos'
  BY <1>a, <1>b DEF Embryos, Points, Forking
<1>5. Stacks'
  BY <1>a, <1>b DEF Stacks, Embryos, Points, Started, Live, Forking
<1> QED
  BY <1>1, <1>2, <1>3, <1>4, <1>5

\* Core survives wait() going to sleep.
LEMMA WaitSleepCore ==
  ASSUME TypeOK, TypeOK', Core, NEW c \in CPU, WaitSleep(c)
  PROVE  Core'
<1> USE SlotFacts DEF Core, TypeOK
<1>a. PICK p \in Slot :
        /\ cur[c] = p
        /\ \/ lock = NoCpu /\ pc[p] = "wait"
           \/ lock = c /\ pc[p] = "waitslept" /\ state[p] = "RUNNING"
        /\ state' = [state EXCEPT ![p] = "SLEEPING"]
        /\ lock' = c
        /\ pc' = [pc EXCEPT ![p] = "waitslept"]
        /\ irq' = [irq EXCEPT ![c] = "on"] /\ UNCHANGED <<cur, np, kstack>>
  BY DEF WaitSleep, InWait, Spins, Goto, SetIrq
<1>b. state[p] = "RUNNING"
  BY <1>a DEF OneCpuPerProc
<1>1. OneCpuPerProc'
  BY <1>a, <1>b DEF OneCpuPerProc, OnCpu
<1>2. OnCpu' /\ Interrupts'
  BY <1>a, <1>b DEF OneCpuPerProc, OnCpu, Started, Live, Interrupts
<1>3. Points'
  BY <1>a, <1>b DEF Points
<1>4. Embryos'
  BY <1>a, <1>b DEF Embryos, Points, Forking
<1>5. Stacks'
  BY <1>a, <1>b DEF Stacks, Embryos, Points, Started, Live, Forking
<1> QED
  BY <1>1, <1>2, <1>3, <1>4, <1>5

\* Core survives kill().
LEMMA KillCore ==
  ASSUME TypeOK, TypeOK', Core, NEW c \in CPU, Kill(c)
  PROVE  Core'
<1> USE SlotFacts DEF Core, TypeOK
<1>a. PICK p \in Slot :
        /\ cur[c] = p
        /\ lock = NoCpu /\ pc[p] = "kill"
        /\ pc' = [pc EXCEPT ![p] = "user"]
        /\ irq' = [irq EXCEPT ![c] = "on"]
        /\ UNCHANGED <<lock, cur, np, kstack>>
  BY DEF Kill, Spins, Goto, SetIrq
<1>b. state[p] = "RUNNING"
  BY <1>a DEF OneCpuPerProc
<1>c. \A q \in Slot :
        \/ state'[q] = state[q]
        \/ state[q] = "SLEEPING" /\ state'[q] = "RUNNABLE"
  BY DEF Kill, First
<1>1. OneCpuPerProc'
  BY <1>a, <1>b, <1>c DEF OneCpuPerProc, OnCpu
<1>2. OnCpu' /\ Interrupts'
  BY <1>a, <1>b, <1>c DEF OneCpuPerProc, OnCpu, Started, Live, Interrupts
<1>3. Points'
  BY <1>a, <1>b, <1>c DEF Points
<1>4. Embryos'
  BY <1>a, <1>b, <1>c DEF Embryos, Points, Forking
<1>5. Stacks'
  BY <1>a, <1>b, <1>c DEF Stacks, Embryos, Points, Started, Live, Forking
<1> QED
  BY <1>1, <1>2, <1>3, <1>4, <1>5

\* Core survives sys_sleep() testing the time and the killed flag.
LEMMA TsleepCheckCore ==
  ASSUME TypeOK, TypeOK', Core, NEW c \in CPU, TsleepCheck(c)
  PROVE  Core'
<1> USE SlotFacts DEF Core, TypeOK
<1>a. PICK p \in Slot :
        /\ cur[c] = p
        /\ irq[c] = "spin" /\ pc[p] \in {"tsleep", "tcheck"}
        /\ \E q \in {"user", "tsleep2"} : pc' = [pc EXCEPT ![p] = q]
        /\ irq' = [irq EXCEPT ![c] = "on"] \/ UNCHANGED irq
        /\ UNCHANGED <<state, lock, cur, np, kstack>>
  BY DEF TsleepCheck, Spins, Goto, SetIrq, fields
<1>b. state[p] = "RUNNING"
  BY <1>a DEF OneCpuPerProc, Interrupts
<1>1. OneCpuPerProc'
  BY <1>a, <1>b DEF OneCpuPerProc, OnCpu
<1>2. OnCpu' /\ Interrupts'
  BY <1>a, <1>b DEF OneCpuPerProc, OnCpu, Started, Live, Interrupts
<1>3. Points'
  BY <1>a, <1>b DEF Points
<1>4. Embryos'
  BY <1>a, <1>b DEF Embryos, Points, Forking
<1>5. Stacks'
  BY <1>a, <1>b DEF Stacks, Embryos, Points, Started, Live, Forking
<1> QED
  BY <1>1, <1>2, <1>3, <1>4, <1>5

\* Core survives sleep() on &ticks.
LEMMA TsleepSleepCore ==
  ASSUME TypeOK, TypeOK', Core, NEW c \in CPU, TsleepSleep(c)
  PROVE  Core'
<1> USE SlotFacts DEF Core, TypeOK
<1>a. PICK p \in Slot :
        /\ cur[c] = p
        /\ lock = NoCpu /\ pc[p] = "tsleep2"
        /\ lock' = c
        /\ state' = [state EXCEPT ![p] = "SLEEPING"]
        /\ pc' = [pc EXCEPT ![p] = "tslept"]
        /\ irq' = [irq EXCEPT ![c] = "on"] /\ UNCHANGED <<cur, np, kstack>>
  BY DEF TsleepSleep, Spins, Goto, SetIrq
<1>b. state[p] = "RUNNING"
  BY <1>a DEF OneCpuPerProc
<1>1. OneCpuPerProc'
  BY <1>a, <1>b DEF OneCpuPerProc, OnCpu
<1>2. OnCpu' /\ Interrupts'
  BY <1>a, <1>b DEF OneCpuPerProc, OnCpu, Started, Live, Interrupts
<1>3. Points'
  BY <1>a, <1>b DEF Points
<1>4. Embryos'
  BY <1>a, <1>b DEF Embryos, Points, Forking
<1>5. Stacks'
  BY <1>a, <1>b DEF Stacks, Embryos, Points, Started, Live, Forking
<1> QED
  BY <1>1, <1>2, <1>3, <1>4, <1>5

\* Core survives the return from sleep() on &ticks.
LEMMA TsleepWakeCore ==
  ASSUME TypeOK, TypeOK', Core, NEW c \in CPU, TsleepWake(c)
  PROVE  Core'
<1> USE SlotFacts DEF Core, TypeOK
<1>a. PICK p \in Slot :
        /\ cur[c] = p /\ lock = c /\ state[p] = "RUNNING" /\ pc[p] = "tslept"
        /\ lock' = NoCpu
        /\ pc' = [pc EXCEPT ![p] = "tcheck"]
        /\ UNCHANGED <<irq, state, cur, np, kstack>>
  BY DEF TsleepWake, Goto
<1>1. OneCpuPerProc'
  BY <1>a DEF OneCpuPerProc, OnCpu
<1>2. OnCpu' /\ Interrupts'
  BY <1>a DEF OneCpuPerProc, OnCpu, Started, Live, Interrupts
<1>3. Points'
  BY <1>a DEF Points
<1>4. Embryos'
  BY <1>a DEF Embryos, Points, Forking
<1>5. Stacks'
  BY <1>a DEF Stacks, Embryos, Points, Started, Live, Forking
<1> QED
  BY <1>1, <1>2, <1>3, <1>4, <1>5

\* Family survives scheduler() switching to the next RUNNABLE process.
LEMMA DispatchFamily ==
  ASSUME TypeOK, TypeOK', Core, Family, NEW c \in CPU, Dispatch(c)
  PROVE  Family'
<1> USE SlotFacts DEF Family, Core, TypeOK
<1>a. PICK p \in Slot :
        /\ state[p] = "RUNNABLE"
        /\ state' = [state EXCEPT ![p] = "RUNNING"]
        /\ UNCHANGED <<pc, parent, np, chan, killed, pid, nextpid, left,
                       tickslock>>
  BY DEF Dispatch, First, FromScan, threadVars
<1>1. Tree'
  BY <1>a DEF Tree, Embryos, Forking, Live, Points
<1>2. ParentAlive'
  BY <1>a DEF ParentAlive, Tree, Embryos, Forking, Live
<1>3. Channels' /\ NoMissedExit'
  BY <1>a DEF Channels, NoMissedExit, Points, Embryos, Forking, Tree
<1>4. Pids' /\ PidUnique'
  BY <1>a DEF Pids, PidUnique
<1>5. TickLocks' /\ NoMissedTick'
  BY <1>a DEF TickLocks, NoMissedTick, Channels
<1> QED
  BY <1>1, <1>2, <1>3, <1>4, <1>5

\* Family survives scheduler() ending its scan and releasing ptable.lock.
LEMMA ScanEndFamily ==
  ASSUME TypeOK, TypeOK', Core, Family, NEW c \in CPU, ScanEnd(c)
  PROVE  Family'
<1> USE SlotFacts DEF Family, Core, TypeOK
<1>a. UNCHANGED <<state, pc, parent, np, chan, killed, pid, nextpid, left,
                  tickslock>>
  BY DEF ScanEnd, fields, threadVars
<1> QED
  BY <1>a
  DEF Tree, ParentAlive, Channels, NoMissedExit, Pids, PidUnique, TickLocks,
      NoMissedTick

\* Family survives the switch from a process back to scheduler().
LEMMA SchedFamily ==
  ASSUME TypeOK, TypeOK', Core, Family, NEW c \in CPU, Sched(c)
  PROVE  Family'
<1> USE SlotFacts DEF Family, Core, TypeOK
<1>a. UNCHANGED <<state, pc, parent, np, chan, killed, pid, nextpid, left,
                  tickslock>>
  BY DEF Sched, fields, threadVars
<1> QED
  BY <1>a
  DEF Tree, ParentAlive, Channels, NoMissedExit, Pids, PidUnique, TickLocks,
      NoMissedTick

\* Family survives a dispatched process releasing ptable.lock (forkret, yield, sleep).
LEMMA ResumeFamily ==
  ASSUME TypeOK, TypeOK', Core, Family, NEW c \in CPU, Resume(c)
  PROVE  Family'
<1> USE SlotFacts DEF Family, Core, TypeOK
<1>a. PICK p \in Slot :
        /\ state[p] = "RUNNING"
        /\ pc' = [pc EXCEPT ![p] = IF pc[p] = "forkret" THEN "user" ELSE pc[p]]
        /\ UNCHANGED <<state, parent, np, chan, killed, pid, nextpid, left,
                       tickslock>>
  BY DEF Resume, Goto, fields
<1>1. Tree'
  BY <1>a DEF Tree, Embryos, Forking, Live, Points
<1>2. ParentAlive'
  BY <1>a DEF ParentAlive, Tree, Embryos, Forking, Live
<1>3. Channels' /\ NoMissedExit'
  BY <1>a DEF Channels, NoMissedExit, Points, Embryos, Forking, Tree
<1>4. Pids' /\ PidUnique'
  BY <1>a DEF Pids, PidUnique
<1>5. TickLocks' /\ NoMissedTick'
  BY <1>a DEF TickLocks, NoMissedTick, Channels
<1> QED
  BY <1>1, <1>2, <1>3, <1>4, <1>5

\* Family survives yield().
LEMMA YieldFamily ==
  ASSUME TypeOK, TypeOK', Core, Family, NEW c \in CPU, Yield(c)
  PROVE  Family'
<1> USE SlotFacts DEF Family, Core, TypeOK
<1>a. PICK p \in Slot :
        /\ cur[c] = p /\ lock = NoCpu
        /\ state' = [state EXCEPT ![p] = "RUNNABLE"]
        /\ UNCHANGED <<pc, parent, np, chan, killed, pid, nextpid, left,
                       tickslock>>
  BY DEF Yield, threadVars
<1>b. state[p] = "RUNNING"
  BY <1>a DEF OneCpuPerProc
<1>1. Tree'
  BY <1>a, <1>b DEF Tree, Embryos, Forking, Live, Points
<1>2. ParentAlive'
  BY <1>a, <1>b DEF ParentAlive, Tree, Embryos, Forking, Live
<1>3. Channels' /\ NoMissedExit'
  BY <1>a, <1>b DEF Channels, NoMissedExit, Points, Embryos, Forking, Tree
<1>4. Pids' /\ PidUnique'
  BY <1>a, <1>b DEF Pids, PidUnique
<1>5. TickLocks' /\ NoMissedTick'
  BY <1>a, <1>b DEF TickLocks, NoMissedTick, Channels
<1> QED
  BY <1>1, <1>2, <1>3, <1>4, <1>5

\* Family survives the timer interrupt of trap().
LEMMA TimerFamily ==
  ASSUME TypeOK, TypeOK', Core, Family, NEW c \in CPU, Timer(c)
  PROVE  Family'
<1> USE SlotFacts DEF Family, Core, TypeOK
<1>a. lock # c /\ UNCHANGED <<parent, np, chan, killed, pid, nextpid,
                              tickslock>>
  BY DEF Timer
<1>b. \/ UNCHANGED <<state, left>>
      \/ /\ tickslock = 0
         /\ state' = Wakeup1(state, TICKS)
         /\ left' = [q \in Slot |-> LeftAfterTick(q)]
  BY DEF Timer
<1>c. \A q \in Slot :
        \/ UNCHANGED <<state[q], left[q]>>
        \/ /\ tickslock = 0
           /\ IF state[q] = "SLEEPING" /\ chan[q] = TICKS
                THEN state'[q] = "RUNNABLE" ELSE state'[q] = state[q]
           /\ pc[q] \notin {"tslept", "tcheck", "tsleep2"} => left'[q] = left[q]
  BY <1>b, Wakeup1Facts DEF LeftAfterTick
<1>d. \A q \in Slot :
        \/ pc'[q] = pc[q]
        \/ /\ cur[c] = q /\ pc[q] = "user"
           /\ pc'[q] = IF q = InitProc THEN "panic" ELSE "exit"
  BY DEF Timer, Goto
<1>e. cur[c] # 0 => state[cur[c]] = "RUNNING"
  BY <1>a DEF OneCpuPerProc
<1>1. Tree'
  BY <1>a, <1>b, <1>c, <1>d, <1>e DEF Tree, Embryos, Forking, Live, Points
<1>2. ParentAlive'
  BY <1>a, <1>b, <1>c, <1>d, <1>e DEF ParentAlive, Tree, Embryos, Forking, Live
<1>3. Channels' /\ NoMissedExit'
  BY <1>a, <1>b, <1>c, <1>d, <1>e
  DEF Channels, NoMissedExit, Points, Embryos, Forking, Tree
<1>4. Pids' /\ PidUnique'
  BY <1>a, <1>b, <1>c, <1>d, <1>e DEF Pids, PidUnique
<1>5. TickLocks' /\ NoMissedTick'
  BY <1>a, <1>b, <1>c, <1>d, <1>e DEF TickLocks, NoMissedTick, Channels
<1> QED
  BY <1>1, <1>2, <1>3, <1>4, <1>5

\* Family survives acquire() turning interrupts off to spin.
LEMMA AcquireFamily ==
  ASSUME TypeOK, TypeOK', Core, Family, NEW c \in CPU, Acquire(c)
  PROVE  Family'
<1> USE SlotFacts DEF Family, Core, TypeOK
<1>a. UNCHANGED <<state, pc, parent, np, chan, killed, pid, nextpid, left,
                  tickslock>>
  BY DEF Acquire, fields, threadVars
<1> QED
  BY <1>a
  DEF Tree, ParentAlive, Channels, NoMissedExit, Pids, PidUnique, TickLocks,
      NoMissedTick

\* Family survives the entry of a system call.
LEMMA SyscallFamily ==
  ASSUME TypeOK, TypeOK', Core, Family, NEW c \in CPU, Syscall(c)
  PROVE  Family'
<1> USE SlotFacts DEF Family, Core, TypeOK
<1>a. PICK p \in Slot :
        /\ cur[c] = p
        /\ lock # c /\ pc[p] = "user"
        /\ \E q \in {"panic", "exit", "wait", "kill", "fork0", "tsleep"} :
             pc' = [pc EXCEPT ![p] = q] /\ (p = InitProc => q # "exit")
        /\ left' = left \/ \E n \in 0..MaxSleep : left' = [left EXCEPT ![p] = n]
        /\ UNCHANGED <<state, parent, np, chan, killed, pid, nextpid,
                       tickslock>>
  BY DEF Syscall, Runs, Goto, fields, cpuVars
<1>b. state[p] = "RUNNING"
  BY <1>a DEF OneCpuPerProc
<1>1. Tree'
  BY <1>a, <1>b DEF Tree, Embryos, Forking, Live, Points
<1>2. ParentAlive'
  BY <1>a, <1>b DEF ParentAlive, Tree, Embryos, Forking, Live
<1>3. Channels' /\ NoMissedExit'
  BY <1>a, <1>b DEF Channels, NoMissedExit, Points, Embryos, Forking, Tree
<1>4. Pids' /\ PidUnique'
  BY <1>a, <1>b DEF Pids, PidUnique
<1>5. TickLocks' /\ NoMissedTick'
  BY <1>a, <1>b DEF TickLocks, NoMissedTick, Channels
<1> QED
  BY <1>1, <1>2, <1>3, <1>4, <1>5

\* Family survives a fault of user code.
LEMMA FaultFamily ==
  ASSUME TypeOK, TypeOK', Core, Family, NEW c \in CPU, Fault(c)
  PROVE  Family'
<1> USE SlotFacts DEF Family, Core, TypeOK
<1>a. PICK p \in Slot :
        /\ cur[c] = p
        /\ lock # c /\ pc[p] = "user" /\ p # InitProc
        /\ pc' = [pc EXCEPT ![p] = "exit"]
        /\ killed' = [killed EXCEPT ![p] = 1]
        /\ UNCHANGED <<state, parent, np, chan, pid, nextpid, left, tickslock>>
  BY DEF Fault, Runs, Goto, cpuVars
<1>b. state[p] = "RUNNING"
  BY <1>a DEF OneCpuPerProc
<1>1. Tree'
  BY <1>a, <1>b DEF Tree, Embryos, Forking, Live, Points
<1>2. ParentAlive'
  BY <1>a, <1>b DEF ParentAlive, Tree, Embryos, Forking, Live
<1>3. Channels' /\ NoMissedExit'
  BY <1>a, <1>b DEF Channels, NoMissedExit, Points, Embryos, Forking, Tree
<1>4. Pids' /\ PidUnique'
  BY <1>a, <1>b DEF Pids, PidUnique
<1>5. TickLocks' /\ NoMissedTick'
  BY <1>a, <1>b DEF TickLocks, NoMissedTick, Channels
<1> QED
  BY <1>1, <1>2, <1>3, <1>4, <1>5

\* Family survives allocproc() claiming a slot.
LEMMA ForkAllocFamily ==
  ASSUME TypeOK, TypeOK', Core, Family, NEW c \in CPU, ForkAlloc(c)
  PROVE  Family'
<1> USE SlotFacts DEF Family, Core, TypeOK
<1>a. PICK p \in Slot :
        /\ cur[c] = p
        /\ lock = NoCpu /\ pc[p] = "fork0"
        /\ \/ pc' = [pc EXCEPT ![p] = "user"] /\ UNCHANGED <<state, np, pid,
                                                             nextpid>>
           \/ \E q \in Slot :
                /\ state[q] = "UNUSED"
                /\ state' = [state EXCEPT ![q] = "EMBRYO"]
                /\ pid' = [pid EXCEPT ![q] = nextpid]
                /\ nextpid' = nextpid + 1
                /\ np' = [np EXCEPT ![p] = q]
                /\ pc' = [pc EXCEPT ![p] = "fork1"]
        /\ UNCHANGED <<parent, chan, killed, left, tickslock>>
  BY DEF ForkAlloc, Spins, First, Goto, NextPid
<1>b. state[p] = "RUNNING"
  BY <1>a DEF OneCpuPerProc
<1>1. Tree'
  BY <1>a, <1>b DEF Tree, Embryos, Forking, Live, Points
<1>2. ParentAlive'
  BY <1>a, <1>b DEF ParentAlive, Tree, Embryos, Forking, Live
<1>3. Channels' /\ NoMissedExit'
  BY <1>a, <1>b DEF Channels, NoMissedExit, Points, Embryos, Forking, Tree
<1>4. Pids' /\ PidUnique'
  BY <1>a, <1>b, SMTT(30) DEF Pids, PidUnique
<1>5. TickLocks' /\ NoMissedTick'
  BY <1>a, <1>b DEF TickLocks, NoMissedTick, Channels
<1> QED
  BY <1>1, <1>2, <1>3, <1>4, <1>5

\* Family survives allocproc() getting a kernel stack, or failing.
LEMMA ForkKstackFamily ==
  ASSUME TypeOK, TypeOK', Core, Family, NEW c \in CPU, ForkKstack(c)
  PROVE  Family'
<1> USE SlotFacts DEF Family, Core, TypeOK
<1>a. PICK p \in Slot :
        /\ cur[c] = p
        /\ lock # c /\ pc[p] = "fork1"
        /\ \/ /\ pc' = [pc EXCEPT ![p] = "fork2", ![np[p]] = "forkret"]
              /\ UNCHANGED <<state, np>>
           \/ /\ state' = [state EXCEPT ![np[p]] = "UNUSED"]
              /\ np' = [np EXCEPT ![p] = 0]
              /\ pc' = [pc EXCEPT ![p] = "user"]
        /\ UNCHANGED <<parent, chan, killed, pid, nextpid, left, tickslock>>
  BY DEF ForkKstack, Runs, Goto, cpuVars
<1>b. state[p] = "RUNNING"
  BY <1>a DEF OneCpuPerProc
<1>c. np[p] \in Slot /\ state[np[p]] = "EMBRYO"
  BY <1>a DEF Embryos, Forking
<1>d. pc[np[p]] \in {"exited", "forkret"}
  BY <1>c DEF Points
<1>1. Tree'
  BY <1>a, <1>b, <1>c, <1>d DEF Tree, Embryos, Forking, Live, Points
<1>2. ParentAlive'
  BY <1>a, <1>b, <1>c, <1>d DEF ParentAlive, Tree, Embryos, Forking, Live
<1>3. Channels' /\ NoMissedExit'
  BY <1>a, <1>b, <1>c, <1>d
  DEF Channels, NoMissedExit, Points, Embryos, Forking, Tree
<1>4. Pids' /\ PidUnique'
  BY <1>a, <1>b, <1>c, <1>d DEF Pids, PidUnique
<1>5. TickLocks' /\ NoMissedTick'
  BY <1>a, <1>b, <1>c, <1>d DEF TickLocks, NoMissedTick, Channels
<1> QED
  BY <1>1, <1>2, <1>3, <1>4, <1>5

\* Family survives fork() copying the parent, or failing.
LEMMA ForkCopyFamily ==
  ASSUME TypeOK, TypeOK', Core, Family, NEW c \in CPU, ForkCopy(c)
  PROVE  Family'
<1> USE SlotFacts DEF Family, Core, TypeOK
<1>a. PICK p \in Slot :
        /\ cur[c] = p
        /\ lock # c /\ pc[p] = "fork2"
        /\ \/ /\ parent' = [parent EXCEPT ![np[p]] = p]
              /\ pc' = [pc EXCEPT ![p] = "fork3"]
              /\ UNCHANGED <<state, np>>
           \/ /\ state' = [state EXCEPT ![np[p]] = "UNUSED"]
              /\ np' = [np EXCEPT ![p] = 0]
              /\ pc' = [pc EXCEPT ![p] = "user"]
              /\ UNCHANGED parent
        /\ UNCHANGED <<chan, killed, pid, nextpid, left, tickslock>>
  BY DEF ForkCopy, Runs, Goto, cpuVars
<1>b. state[p] = "RUNNING"
  BY <1>a DEF OneCpuPerProc
<1>c. np[p] \in Slot /\ state[np[p]] = "EMBRYO"
  BY <1>a DEF Embryos, Forking
<1>d. pc[np[p]] \in {"exited", "forkret"}
  BY <1>c DEF Points
<1>1. Tree'
  BY <1>a, <1>b, <1>c, <1>d DEF Tree, Embryos, Forking, Live, Points
<1>2. ParentAlive'
  BY <1>a, <1>b, <1>c, <1>d DEF ParentAlive, Tree, Embryos, Forking, Live
<1>3. Channels' /\ NoMissedExit'
  BY <1>a, <1>b, <1>c, <1>d
  DEF Channels, NoMissedExit, Points, Embryos, Forking, Tree
<1>4. Pids' /\ PidUnique'
  BY <1>a, <1>b, <1>c, <1>d DEF Pids, PidUnique
<1>5. TickLocks' /\ NoMissedTick'
  BY <1>a, <1>b, <1>c, <1>d DEF TickLocks, NoMissedTick, Channels
<1> QED
  BY <1>1, <1>2, <1>3, <1>4, <1>5

\* Family survives fork() publishing the child.
LEMMA ForkRunFamily ==
  ASSUME TypeOK, TypeOK', Core, Family, NEW c \in CPU, ForkRun(c)
  PROVE  Family'
<1> USE SlotFacts DEF Family, Core, TypeOK
<1>a. PICK p \in Slot :
        /\ cur[c] = p
        /\ lock = NoCpu /\ pc[p] = "fork3"
        /\ state' = [state EXCEPT ![np[p]] = "RUNNABLE"]
        /\ np' = [np EXCEPT ![p] = 0]
        /\ pc' = [pc EXCEPT ![p] = "user"]
        /\ UNCHANGED <<parent, chan, killed, pid, nextpid, left, tickslock>>
  BY DEF ForkRun, Spins, Goto
<1>b. state[p] = "RUNNING"
  BY <1>a DEF OneCpuPerProc
<1>c. np[p] \in Slot /\ state[np[p]] = "EMBRYO"
  BY <1>a DEF Embryos, Forking
<1>d. pc[np[p]] \in {"exited", "forkret"}
  BY <1>c DEF Points
<1>1. Tree'
  BY <1>a, <1>b, <1>c, <1>d DEF Tree, Embryos, Forking, Live, Points
<1>2. ParentAlive'
  BY <1>a, <1>b, <1>c, <1>d DEF ParentAlive, Tree, Embryos, Forking, Live
<1>3. Channels' /\ NoMissedExit'
  BY <1>a, <1>b, <1>c, <1>d
  DEF Channels, NoMissedExit, Points, Embryos, Forking, Tree
<1>4. Pids' /\ PidUnique'
  BY <1>a, <1>b, <1>c, <1>d DEF Pids, PidUnique
<1>5. TickLocks' /\ NoMissedTick'
  BY <1>a, <1>b, <1>c, <1>d DEF TickLocks, NoMissedTick, Channels
<1> QED
  BY <1>1, <1>2, <1>3, <1>4, <1>5

\* Family survives exit().
LEMMA ExitFamily ==
  ASSUME TypeOK, TypeOK', Core, Family, NEW c \in CPU, Exit(c)
  PROVE  Family'
<1> USE SlotFacts DEF Family, Core, TypeOK
<1>a. PICK p \in Slot :
        /\ cur[c] = p /\ lock = NoCpu /\ pc[p] = "exit"
        /\ state' = ExitStates(p)
        /\ parent' = [q \in Slot |-> ParentAfterExit(p, q)]
        /\ pc' = [pc EXCEPT ![p] = "exited"]
        /\ UNCHANGED <<np, chan, killed, pid, nextpid, left, tickslock>>
  BY DEF Exit, Spins, Goto
<1>b. state[p] = "RUNNING" /\ p # InitProc
  BY <1>a DEF OneCpuPerProc, Tree
<1>c. /\ state'[p] = "ZOMBIE"
      /\ \A q \in Slot \ {p} :
           \/ state'[q] = state[q]
           \/ state[q] = "SLEEPING" /\ state'[q] = "RUNNABLE"
  BY <1>a, ExitFacts
<1>d. \A q \in Slot : parent'[q] = IF parent[q] = p THEN InitProc ELSE parent[q]
  BY <1>a DEF ParentAfterExit
<1>e. /\ \A q \in Slot \ {p} : state'[q] = "SLEEPING" => chan[q] # parent[p]
      /\ \A q, r \in Slot \ {p} :
           /\ state'[q] = "SLEEPING"
           /\ parent[r] = p
           /\ state[r] = "ZOMBIE"
           => chan[q] # InitProc
  BY <1>a, ExitFacts
<1>1. Tree'
  <2>1. state'[InitProc] \in Live /\ pc'[InitProc] # "exit"
    BY <1>a, <1>b, <1>c DEF Tree, Live
  <2>2. parent'[InitProc] = 0
    BY <1>a, <1>d DEF Tree
  <2>3. ASSUME NEW q \in Slot
        PROVE  /\ state'[q] = "UNUSED" => parent'[q] = 0
               /\ parent'[q] # q
    BY <1>a, <1>b, <1>c, <1>d DEF Tree
  <2>4. ASSUME NEW q \in Slot, pc'[q] \in Forking
        PROVE  /\ pc[q] = pc'[q] /\ q # p /\ np[q] \in Slot
               /\ np'[q] = np[q]
    BY <1>a, <2>4 DEF Embryos, Forking
  <2>5. ASSUME NEW q \in Slot
        PROVE  /\ pc'[q] \in {"fork1", "fork2"} => parent'[np'[q]] = 0
               /\ pc'[q] = "fork3" => parent'[np'[q]] = q
    BY <1>a, <1>d, <2>4 DEF Tree, Forking
  <2> QED
    BY <2>1, <2>2, <2>3, <2>5 DEF Tree
<1>2. ParentAlive'
  BY <1>a, <1>b, <1>c, <1>d, <1>e DEF ParentAlive, Tree, Embryos, Forking, Live
<1>3. Channels'
  BY <1>a, <1>b, <1>c, <1>d, <1>e DEF Channels
<1>4. NoMissedExit'
  BY <1>a, <1>b, <1>c, <1>d, <1>e
  DEF NoMissedExit, Channels, Points, Embryos, Forking, Tree
<1>5. Pids' /\ PidUnique'
  BY <1>a, <1>b, <1>c, <1>d, <1>e DEF Pids, PidUnique
<1>6. TickLocks' /\ NoMissedTick'
  BY <1>a, <1>b, <1>c, <1>d, <1>e DEF TickLocks, NoMissedTick, Channels
<1> QED
  BY <1>1, <1>2, <1>3, <1>4, <1>5, <1>6

\* Family survives wait() reaping a ZOMBIE.
LEMMA WaitReapFamily ==
  ASSUME TypeOK, TypeOK', Core, Family, NEW c \in CPU, WaitReap(c)
  PROVE  Family'
<1> USE SlotFacts DEF Family, Core, TypeOK
<1>a. PICK p \in Slot, q \in Slot :
        /\ cur[c] = p
        /\ \/ lock = NoCpu /\ pc[p] = "wait"
           \/ lock = c /\ pc[p] = "waitslept" /\ state[p] = "RUNNING"
        /\ state[q] = "ZOMBIE" /\ parent[q] = p
        /\ pid' = [pid EXCEPT ![q] = 0]
        /\ parent' = [parent EXCEPT ![q] = 0]
        /\ killed' = [killed EXCEPT ![q] = 0]
        /\ state' = [state EXCEPT ![q] = "UNUSED"]
        /\ chan' = [chan EXCEPT ![p] = 0]
        /\ pc' = [pc EXCEPT ![p] = "user"]
        /\ UNCHANGED <<np, nextpid, left, tickslock>>
  BY DEF WaitReap, First, Zombies, InWait, Spins, Goto
<1>b. state[p] = "RUNNING"
  BY <1>a DEF OneCpuPerProc
<1>1. Tree'
  BY <1>a, <1>b DEF Tree, Embryos, Forking, Live, Points
<1>2. ParentAlive'
  BY <1>a, <1>b DEF ParentAlive, Tree, Embryos, Forking, Live
<1>3. Channels' /\ NoMissedExit'
  BY <1>a, <1>b DEF Channels, NoMissedExit, Points, Embryos, Forking, Tree
<1>4. Pids' /\ PidUnique'
  BY <1>a, <1>b DEF Pids, PidUnique
<1>5. TickLocks' /\ NoMissedTick'
  BY <1>a, <1>b DEF TickLocks, NoMissedTick, Channels
<1> QED
  BY <1>1, <1>2, <1>3, <1>4, <1>5

\* Family survives wait() returning -1.
LEMMA WaitFailFamily ==
  ASSUME TypeOK, TypeOK', Core, Family, NEW c \in CPU, WaitFail(c)
  PROVE  Family'
<1> USE SlotFacts DEF Family, Core, TypeOK
<1>a. PICK p \in Slot :
        /\ cur[c] = p
        /\ \/ lock = NoCpu /\ pc[p] = "wait"
           \/ lock = c /\ pc[p] = "waitslept" /\ state[p] = "RUNNING"
        /\ chan' = [chan EXCEPT ![p] = 0]
        /\ pc' = [pc EXCEPT ![p] = "user"]
        /\ UNCHANGED <<state, parent, np, killed, pid, nextpid, left,
                       tickslock>>
  BY DEF WaitFail, InWait, Spins, Goto
<1>b. state[p] = "RUNNING"
  BY <1>a DEF OneCpuPerProc
<1>1. Tree'
  BY <1>a, <1>b DEF Tree, Embryos, Forking, Live, Points
<1>2. ParentAlive'
  BY <1>a, <1>b DEF ParentAlive, Tree, Embryos, Forking, Live
<1>3. Channels' /\ NoMissedExit'
  BY <1>a, <1>b DEF Channels, NoMissedExit, Points, Embryos, Forking, Tree
<1>4. Pids' /\ PidUnique'
  BY <1>a, <1>b DEF Pids, PidUnique
<1>5. TickLocks' /\ NoMissedTick'
  BY <1>a, <1>b DEF TickLocks, NoMissedTick, Channels
<1> QED
  BY <1>1, <1>2, <1>3, <1>4, <1>5

\* Family survives wait() going to sleep.
LEMMA WaitSleepFamily ==
  ASSUME TypeOK, TypeOK', Core, Family, NEW c \in CPU, WaitSleep(c)
  PROVE  Family'
<1> USE SlotFacts DEF Family, Core, TypeOK
<1>a. PICK p \in Slot :
        /\ cur[c] = p
        /\ \/ lock = NoCpu /\ pc[p] = "wait"
           \/ lock = c /\ pc[p] = "waitslept" /\ state[p] = "RUNNING"
        /\ Zombies(p) = {} /\ ~NoPointWaiting(p)
        /\ chan' = [chan EXCEPT ![p] = p]
        /\ state' = [state EXCEPT ![p] = "SLEEPING"]
        /\ pc' = [pc EXCEPT ![p] = "waitslept"]
        /\ UNCHANGED <<parent, np, killed, pid, nextpid, left, tickslock>>
  BY DEF WaitSleep, InWait, Spins, Goto
<1>b. state[p] = "RUNNING"
  BY <1>a DEF OneCpuPerProc
<1>c. /\ killed[p] = 0
      /\ \E q \in Slot : parent[q] = p
      /\ \A q \in Slot : parent[q] = p => state[q] # "ZOMBIE"
  BY <1>a DEF Zombies, NoPointWaiting
<1>1. Tree'
  BY <1>a, <1>b, <1>c DEF Tree, Embryos, Forking, Live, Points
<1>2. ParentAlive'
  BY <1>a, <1>b, <1>c DEF ParentAlive, Tree, Embryos, Forking, Live
<1>3. Channels' /\ NoMissedExit'
  BY <1>a, <1>b, <1>c
  DEF Channels, NoMissedExit, Points, Embryos, Forking, Tree
<1>4. Pids' /\ PidUnique'
  BY <1>a, <1>b, <1>c DEF Pids, PidUnique
<1>5. TickLocks' /\ NoMissedTick'
  BY <1>a, <1>b, <1>c DEF TickLocks, NoMissedTick, Channels
<1> QED
  BY <1>1, <1>2, <1>3, <1>4, <1>5

\* Family survives kill().
LEMMA KillFamily ==
  ASSUME TypeOK, TypeOK', Core, Family, NEW c \in CPU, Kill(c)
  PROVE  Family'
<1> USE SlotFacts DEF Family, Core, TypeOK
<1>a. PICK p \in Slot :
        /\ cur[c] = p /\ lock = NoCpu /\ pc[p] = "kill"
        /\ pc' = [pc EXCEPT ![p] = "user"]
        /\ UNCHANGED <<parent, np, chan, pid, nextpid, left, tickslock>>
  BY DEF Kill, Spins, Goto
<1>b. state[p] = "RUNNING"
  BY <1>a DEF OneCpuPerProc
<1>c. \A q \in Slot :
        \/ UNCHANGED <<state[q], killed[q]>>
        \/ /\ killed'[q] = 1
           /\ IF state[q] = "SLEEPING" THEN state'[q] = "RUNNABLE"
                                       ELSE state'[q] = state[q]
  BY DEF Kill, First
<1>1. Tree'
  BY <1>a, <1>b, <1>c DEF Tree, Embryos, Forking, Live, Points
<1>2. ParentAlive'
  BY <1>a, <1>b, <1>c DEF ParentAlive, Tree, Embryos, Forking, Live
<1>3. Channels' /\ NoMissedExit'
  BY <1>a, <1>b, <1>c
  DEF Channels, NoMissedExit, Points, Embryos, Forking, Tree
<1>4. Pids' /\ PidUnique'
  BY <1>a, <1>b, <1>c DEF Pids, PidUnique
<1>5. TickLocks' /\ NoMissedTick'
  BY <1>a, <1>b, <1>c DEF TickLocks, NoMissedTick, Channels
<1> QED
  BY <1>1, <1>2, <1>3, <1>4, <1>5

\* Family survives sys_sleep() testing the time and the killed flag.
LEMMA TsleepCheckFamily ==
  ASSUME TypeOK, TypeOK', Core, Family, NEW c \in CPU, TsleepCheck(c)
  PROVE  Family'
<1> USE SlotFacts DEF Family, Core, TypeOK
<1>a. PICK p \in Slot :
        /\ cur[c] = p /\ irq[c] = "spin" /\ tickslock = 0
        /\ pc[p] \in {"tsleep", "tcheck"}
        /\ \/ /\ pc' = [pc EXCEPT ![p] = "user"]
              /\ left' = [left EXCEPT ![p] = 0]
              /\ UNCHANGED tickslock
           \/ /\ left[p] > 0 /\ tickslock' = p
              /\ pc' = [pc EXCEPT ![p] = "tsleep2"]
              /\ UNCHANGED left
        /\ UNCHANGED <<state, parent, np, chan, killed, pid, nextpid>>
  BY DEF TsleepCheck, Spins, Goto, fields
<1>b. state[p] = "RUNNING"
  BY <1>a DEF Interrupts, OneCpuPerProc
<1>1. Tree'
  BY <1>a, <1>b DEF Tree, Embryos, Forking, Live, Points
<1>2. ParentAlive'
  BY <1>a, <1>b DEF ParentAlive, Tree, Embryos, Forking, Live
<1>3. Channels' /\ NoMissedExit'
  BY <1>a, <1>b DEF Channels, NoMissedExit, Points, Embryos, Forking, Tree
<1>4. Pids' /\ PidUnique'
  BY <1>a, <1>b DEF Pids, PidUnique
<1>5. TickLocks' /\ NoMissedTick'
  BY <1>a, <1>b DEF TickLocks, NoMissedTick, Channels
<1> QED
  BY <1>1, <1>2, <1>3, <1>4, <1>5

\* Family survives sleep() on &ticks.
LEMMA TsleepSleepFamily ==
  ASSUME TypeOK, TypeOK', Core, Family, NEW c \in CPU, TsleepSleep(c)
  PROVE  Family'
<1> USE SlotFacts DEF Family, Core, TypeOK
<1>a. PICK p \in Slot :
        /\ cur[c] = p
        /\ lock = NoCpu /\ pc[p] = "tsleep2"
        /\ tickslock' = 0
        /\ chan' = [chan EXCEPT ![p] = TICKS]
        /\ state' = [state EXCEPT ![p] = "SLEEPING"]
        /\ pc' = [pc EXCEPT ![p] = "tslept"]
        /\ UNCHANGED <<parent, np, killed, pid, nextpid, left>>
  BY DEF TsleepSleep, Spins, Goto
<1>b. state[p] = "RUNNING"
  BY <1>a DEF OneCpuPerProc
<1>c. tickslock = p
  BY <1>a DEF TickLocks
<1>d. \A q \in Slot : pc[q] = "tsleep2" => q = p
  BY <1>c DEF TickLocks
<1>1. Tree'
  BY <1>a, <1>b, <1>c, <1>d DEF Tree, Embryos, Forking, Live, Points
<1>2. ParentAlive'
  BY <1>a, <1>b, <1>c, <1>d DEF ParentAlive, Tree, Embryos, Forking, Live
<1>3. Channels' /\ NoMissedExit'
  BY <1>a, <1>b, <1>c, <1>d
  DEF Channels, NoMissedExit, Points, Embryos, Forking, Tree
<1>4. Pids' /\ PidUnique'
  BY <1>a, <1>b, <1>c, <1>d DEF Pids, PidUnique
<1>5. TickLocks' /\ NoMissedTick'
  BY <1>a, <1>b, <1>c, <1>d DEF TickLocks, NoMissedTick, Channels
<1> QED
  BY <1>1, <1>2, <1>3, <1>4, <1>5

\* Family survives the return from sleep() on &ticks.
LEMMA TsleepWakeFamily ==
  ASSUME TypeOK, TypeOK', Core, Family, NEW c \in CPU, TsleepWake(c)
  PROVE  Family'
<1> USE SlotFacts DEF Family, Core, TypeOK
<1>a. PICK p \in Slot :
        /\ state[p] = "RUNNING" /\ pc[p] = "tslept"
        /\ chan' = [chan EXCEPT ![p] = 0]
        /\ pc' = [pc EXCEPT ![p] = "tcheck"]
        /\ UNCHANGED <<state, parent, np, killed, pid, nextpid, left,
                       tickslock>>
  BY DEF TsleepWake, Goto
<1>1. Tree'
  BY <1>a DEF Tree, Embryos, Forking, Live, Points
<1>2. ParentAlive'
  BY <1>a DEF ParentAlive, Tree, Embryos, Forking, Live
<1>3. Channels' /\ NoMissedExit'
  BY <1>a DEF Channels, NoMissedExit, Points, Embryos, Forking, Tree
<1>4. Pids' /\ PidUnique'
  BY <1>a DEF Pids, PidUnique
<1>5. TickLocks' /\ NoMissedTick'
  BY <1>a DEF TickLocks, NoMissedTick, Channels
<1> QED
  BY <1>1, <1>2, <1>3, <1>4, <1>5

-----------------------------------------------------------------------------
\* Core holds of userinit()'s table.
LEMMA CoreInit == Init => Core
<1> SUFFICES ASSUME Init PROVE Core
  OBVIOUS
<1> USE SlotFacts
<1>1. TypeOK
  BY TypeInit
<1>2. OneCpuPerProc /\ OnCpu /\ Interrupts
  BY DEF Init, OneCpuPerProc, OnCpu, Interrupts
<1>3. Points /\ Embryos /\ Stacks
  BY DEF Init, Points, Embryos, Stacks, Forking, Started, Live
<1> QED
  BY <1>1, <1>2, <1>3 DEF Core

\* Core is inductive: one lemma above per action.
LEMMA CoreStep == Core /\ [Next]_vars => Core'
<1> SUFFICES ASSUME Core, [Next]_vars PROVE Core'
  OBVIOUS
<1>1. TypeOK /\ TypeOK'
  BY TypeStep DEF Core
<1>2. CASE UNCHANGED vars
  BY <1>1, <1>2
  DEF vars, fields, cpuVars, threadVars, Core, OneCpuPerProc, OnCpu,
      Interrupts, Points, Embryos, Stacks
<1>3. CASE \E c \in CPU : CpuStep(c)
  BY <1>1, <1>3, DispatchCore, ScanEndCore, SchedCore, ResumeCore, YieldCore,
     TimerCore, AcquireCore, SyscallCore, FaultCore, ForkAllocCore,
     ForkKstackCore, ForkCopyCore, ForkRunCore, ExitCore, WaitReapCore,
     WaitFailCore, WaitSleepCore, KillCore, TsleepCheckCore, TsleepSleepCore,
     TsleepWakeCore
  DEF CpuStep, SwitchStep, KernelStep
<1> QED
  BY <1>2, <1>3 DEF Next

\* Core holds always.
LEMMA CoreInvariant == Spec => []Core
  BY CoreInit, CoreStep, PTL DEF Spec

\* Family holds of userinit()'s table.
LEMMA FamilyInit == Init => Family
<1> SUFFICES ASSUME Init PROVE Family
  OBVIOUS
<1> USE SlotFacts
<1>1. Tree /\ ParentAlive
  BY DEF Init, Tree, ParentAlive, Live
<1>2. Channels /\ NoMissedExit /\ TickLocks /\ NoMissedTick
  BY DEF Init, Channels, NoMissedExit, TickLocks, NoMissedTick
<1>3. Pids /\ PidUnique
  BY DEF Init, Pids, PidUnique
<1> QED
  BY <1>1, <1>2, <1>3 DEF Family

\* Family is inductive relative to Core: one lemma above per action.
LEMMA FamilyStep == Core /\ Core' /\ Family /\ [Next]_vars => Family'
<1> SUFFICES ASSUME Core, Core', Family, [Next]_vars PROVE Family'
  OBVIOUS
<1>1. TypeOK /\ TypeOK'
  BY DEF Core
<1>2. CASE UNCHANGED vars
  BY <1>2
  DEF vars, fields, cpuVars, threadVars, Family, Tree, ParentAlive, Channels,
      NoMissedExit, Pids, PidUnique, TickLocks, NoMissedTick
<1>3. CASE \E c \in CPU : CpuStep(c)
  BY <1>1, <1>3, DispatchFamily, ScanEndFamily, SchedFamily, ResumeFamily,
     YieldFamily, TimerFamily, AcquireFamily, SyscallFamily, FaultFamily,
     ForkAllocFamily, ForkKstackFamily, ForkCopyFamily, ForkRunFamily,
     ExitFamily, WaitReapFamily, WaitFailFamily, WaitSleepFamily, KillFamily,
     TsleepCheckFamily, TsleepSleepFamily, TsleepWakeFamily
  DEF CpuStep, SwitchStep, KernelStep
<1> QED
  BY <1>2, <1>3 DEF Next

\* Family holds always.
LEMMA FamilyInvariant == Spec => []Family
  BY CoreInvariant, FamilyInit, FamilyStep, PTL DEF Spec

-----------------------------------------------------------------------------
\* No process runs on two CPUs, and no CPU lets go of ptable.lock while it
\* still stands on a process that is no longer RUNNING (scheduler, sched).
THEOREM OneCpuTheorem == Spec => []OneCpuPerProc
<1>1. Core => OneCpuPerProc
  BY DEF Core
<1> QED
  BY <1>1, CoreInvariant, PTL

\* wait() and fork()'s failure path never free a kernel stack in use.
THEOREM KStackTheorem == Spec => []KStackSafe
<1>1. Core => KStackSafe
  <2> SUFFICES ASSUME Core PROVE KStackSafe
    OBVIOUS
  <2>1. \A p \in Slot : state[p] \in Live => kstack[p] # 0
    BY DEF Core, Stacks, Started
  <2>2. \A c \in CPU : cur[c] # 0 => kstack[cur[c]] # 0
    BY DEF Core, TypeOK, OnCpu, Stacks
  <2> QED
    BY <2>1, <2>2 DEF KStackSafe
<1> QED
  BY <1>1, CoreInvariant, PTL

\* wait() sleeps through neither a child's exit nor a kill.
THEOREM WaitTheorem == Spec => []NoMissedExit
<1>1. Family => NoMissedExit
  BY DEF Family
<1> QED
  BY <1>1, FamilyInvariant, PTL

\* exit() leaves no orphan: every process has a parent that can wait() for it.
THEOREM ParentTheorem == Spec => []ParentAlive
<1>1. Family => ParentAlive
  BY DEF Family
<1> QED
  BY <1>1, FamilyInvariant, PTL

\* allocproc never hands out a pid that is in the table.
THEOREM PidTheorem == Spec => []PidUnique
<1>1. Family => PidUnique
  BY DEF Family
<1> QED
  BY <1>1, FamilyInvariant, PTL

\* sys_sleep does not miss the tick that ends it.
THEOREM TickTheorem == Spec => []NoMissedTick
<1>1. Family => NoMissedTick
  BY DEF Family
<1> QED
  BY <1>1, FamilyInvariant, PTL

\* The step behind RecycleTheorem, action by action: only fork()'s failure
\* paths and wait() write UNUSED.
LEMMA RecycleStep ==
  ASSUME Core, Next, NEW p \in Slot,
         state[p] # "UNUSED", state'[p] = "UNUSED"
  PROVE  \/ /\ state[p] = "ZOMBIE"
            /\ state[parent[p]] = "RUNNING"
            /\ pc'[parent[p]] = "user"
         \/ /\ state[p] = "EMBRYO"
            /\ \E q \in Slot : state[q] = "RUNNING" /\ np[q] = p
<1> USE SlotFacts DEF Core
<1>1. PICK c \in CPU : CpuStep(c)
  BY DEF Next
<1>2. CASE Dispatch(c)
  BY <1>2 DEF Dispatch, TypeOK
<1>3. CASE ScanEnd(c) \/ Sched(c) \/ Resume(c) \/ Acquire(c)
  BY <1>3 DEF ScanEnd, Sched, Resume, Acquire, fields
<1>4. CASE Yield(c)
  BY <1>4 DEF Yield, TypeOK
<1>5. CASE Timer(c)
  BY <1>5, Wakeup1Facts DEF Timer, TypeOK
<1>6. CASE Syscall(c) \/ Fault(c) \/ WaitFail(c) \/ TsleepCheck(c)
           \/ TsleepWake(c)
  BY <1>6 DEF Syscall, Fault, WaitFail, TsleepCheck, TsleepWake, fields
<1>7. CASE ForkAlloc(c)
  BY <1>7 DEF ForkAlloc, First, TypeOK
<1>8. CASE ForkKstack(c) \/ ForkCopy(c)
  <2>1. PICK q \in Slot :
          /\ Runs(c, q)
          /\ pc[q] \in Forking
          /\ state' \in {state, [state EXCEPT ![np[q]] = "UNUSED"]}
    BY <1>8 DEF ForkKstack, ForkCopy, Forking
  <2>2. np[q] = p /\ state[p] = "EMBRYO"
    BY <2>1 DEF Embryos, TypeOK
  <2>3. state[q] = "RUNNING"
    BY <2>1 DEF Runs, OneCpuPerProc
  <2> QED
    BY <2>2, <2>3
<1>9. CASE ForkRun(c)
  BY <1>9 DEF ForkRun, TypeOK
<1>10. CASE Exit(c)
  <2>1. PICK q \in Slot : state' = ExitStates(q)
    BY <1>10 DEF Exit
  <2> QED
    BY <2>1, ExitFacts
<1>11. CASE WaitReap(c)
  <2>1. PICK q \in Slot, r \in Slot :
          /\ InWait(c, q)
          /\ r \in Zombies(q)
          /\ state' = [state EXCEPT ![r] = "UNUSED"]
          /\ pc' = [pc EXCEPT ![q] = "user"]
    BY <1>11 DEF WaitReap, First, Goto
  <2>2. p = r /\ state[p] = "ZOMBIE" /\ parent[p] = q
    BY <2>1 DEF Zombies, TypeOK
  <2>3. state[q] = "RUNNING"
    BY <2>1 DEF InWait, OneCpuPerProc
  <2> QED
    BY <2>1, <2>2, <2>3 DEF TypeOK
<1>12. CASE WaitSleep(c)
  BY <1>12 DEF WaitSleep, TypeOK
<1>13. CASE Kill(c)
  BY <1>13 DEF Kill, First, TypeOK
<1>14. CASE TsleepSleep(c)
  BY <1>14 DEF TsleepSleep, TypeOK
<1> QED
  BY <1>1, <1>2, <1>3, <1>4, <1>5, <1>6, <1>7, <1>8, <1>9, <1>10, <1>11,
     <1>12, <1>13, <1>14 DEF CpuStep, SwitchStep, KernelStep

\* A slot is recycled only by the parent's wait() of a ZOMBIE, or by the very
\* fork() that had claimed it.
THEOREM RecycleTheorem == Spec => RecycledOnlyByOwner
<1>1. Core /\ [Next]_vars =>
        [\A p \in Slot :
           state[p] # "UNUSED" /\ state'[p] = "UNUSED" =>
             \/ /\ state[p] = "ZOMBIE"
                /\ state[parent[p]] = "RUNNING"
                /\ pc'[parent[p]] = "user"
             \/ /\ state[p] = "EMBRYO"
                /\ \E q \in Slot : state[q] = "RUNNING" /\ np[q] = p]_vars
  BY RecycleStep
<1> QED
  BY <1>1, CoreInvariant, PTL DEF Spec, RecycledOnlyByOwner
=============================================================================
