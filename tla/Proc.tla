-------------------------------- MODULE Proc --------------------------------
(***************************************************************************)
(* The xv6 process table and the round-robin scheduler of project 1        *)
(* (proc.c, with the parts of trap.c and sysproc.c that drive it): fork,   *)
(* exit, wait, kill, sleep(n), the timer interrupt and the per-CPU         *)
(* scheduler, on any number of CPUs.                                       *)
(*                                                                         *)
(* Atomicity.  A section of code that takes ptable.lock and gives it back  *)
(* is one action, enabled when the lock is free.  The sections that carry  *)
(* the lock across swtch() (scheduler -> process -> scheduler) are split   *)
(* at every swtch, and "lock" says which CPU holds it in between.  Writes  *)
(* the code makes without the lock (fork's failure paths, np->parent) are  *)
(* actions that ignore it.                                                 *)
(***************************************************************************)
EXTENDS Integers, FiniteSets

CONSTANTS
  NPROC,      \* size of the process table (param.h)
  CPU,        \* the CPUs
  BootCpu,    \* the CPU whose timer interrupt advances ticks (cpuid() == 0)
  KillPid,    \* the pids user programs pass to kill()
  MaxPid,     \* bound: no fork starts that would need a larger pid
  MaxSleep    \* bound: the largest n passed to sleep(n)

ASSUME ProcAssumption ==
  /\ NPROC \in Nat \ {0}
  /\ BootCpu \in CPU
  /\ 0 \notin CPU
  /\ KillPid \subseteq Nat
  /\ MaxPid \in Nat
  /\ MaxSleep \in Nat

Slot == 1..NPROC            \* struct proc pointers; 0 is the null pointer
InitProc == 1               \* initproc: userinit gets the first slot
TICKS == NPROC + 1          \* the channel &ticks
NoCpu == 0

VARIABLES
  state, pid, parent, chan, killed, kstack,  \* fields of ptable.proc[]
  nextpid,                  \* the global pid counter
  lock,                     \* the CPU holding ptable.lock, or NoCpu
  tickslock,                \* the process holding tickslock, or 0
  cur,                      \* cpus[c].proc
  scan,                     \* scheduler's loop position; 0 outside the loop
  irq,                      \* interrupts on c: "on"; off in "spin" (acquire()
                            \* has begun) and in "trap" (about to yield)
  pc,                       \* where the kernel thread of each slot stands
  np,                       \* fork's local np
  left                      \* sleep(n): ticks still to pass, n-(ticks-ticks0)

fields == <<state, pid, parent, chan, killed, kstack, nextpid>>
cpuVars == <<lock, cur, scan, irq>>
threadVars == <<pc, np, left, tickslock>>
vars == <<fields, cpuVars, threadVars>>

Live == {"RUNNABLE", "RUNNING", "SLEEPING"}

\* Points where the next thing the thread does is to acquire a lock.
LockPoint == {"fork0", "fork3", "exit", "wait", "kill", "tsleep", "tcheck"}

\* Points where the thread runs with interrupts on and no lock held.
Interruptible == LockPoint \cup {"user", "fork1", "fork2"}

\* The other points: "forkret" is a fresh context, "waitslept" and "tslept"
\* are the two sleep() calls, "tsleep2" holds tickslock, "exited" has left
\* exit() for good, "panic" is init in exit().
Point == Interruptible \cup
  {"forkret", "waitslept", "tsleep2", "tslept", "exited", "panic"}

(* One type invariant for the whole table.                                 *)
TypeOK ==
  /\ state \in [Slot -> {"UNUSED", "EMBRYO", "SLEEPING", "RUNNABLE",
                         "RUNNING", "ZOMBIE"}]
  /\ pid \in [Slot -> Nat]
  /\ parent \in [Slot -> Slot \cup {0}]
  /\ chan \in [Slot -> Slot \cup {0, TICKS}]
  /\ killed \in [Slot -> 0..1]
  /\ kstack \in [Slot -> 0..1]
  /\ nextpid \in Nat
  /\ lock \in CPU \cup {NoCpu}
  /\ tickslock \in Slot \cup {0}
  /\ cur \in [CPU -> Slot \cup {0}]
  /\ scan \in [CPU -> 0..(NPROC + 1)]
  /\ irq \in [CPU -> {"on", "spin", "trap"}]
  /\ pc \in [Slot -> Point]
  /\ np \in [Slot -> Slot \cup {0}]
  /\ left \in [Slot -> Nat]

-----------------------------------------------------------------------------
\* userinit has run: init is the only process, and each CPU is in scheduler().
Init ==
  /\ state = [p \in Slot |-> IF p = InitProc THEN "RUNNABLE" ELSE "UNUSED"]
  /\ pid = [p \in Slot |-> IF p = InitProc THEN 1 ELSE 0]
  /\ parent = [p \in Slot |-> 0]
  /\ chan = [p \in Slot |-> 0]
  /\ killed = [p \in Slot |-> 0]
  /\ kstack = [p \in Slot |-> IF p = InitProc THEN 1 ELSE 0]
  /\ nextpid = 2
  /\ lock = NoCpu
  /\ tickslock = 0
  /\ cur = [c \in CPU |-> 0]
  /\ scan = [c \in CPU |-> 0]
  /\ irq = [c \in CPU |-> "on"]
  /\ pc = [p \in Slot |-> "forkret"]
  /\ np = [p \in Slot |-> 0]
  /\ left = [p \in Slot |-> 0]

\* The thread p is executing on c, outside any lock and not interrupted.
Runs(c, p) == cur[c] = p /\ lock # c /\ irq[c] = "on"

\* The thread p is in acquire() on c, interrupts off.
Spins(c, p) == cur[c] = p /\ irq[c] = "spin"

SetIrq(c, i) == irq' = [irq EXCEPT ![c] = i]

\* p is the slot a table scan finds first among those in S.
First(p, S) == p \in S /\ \A q \in S : p <= q

Goto(p, point) == pc' = [pc EXCEPT ![p] = point]

\* Mutant: wakes nobody.
Wakeup1Lost(st, ch) == st

\* wakeup1(ch): the process states after every sleeper on ch is woken.
Wakeup1(st, ch) ==
  [q \in Slot |-> IF st[q] = "SLEEPING" /\ chan[q] = ch THEN "RUNNABLE"
                                                        ELSE st[q]]

-----------------------------------------------------------------------------
(* The scheduler.                                                          *)

\* Mutant: every scan starts over at the first slot.
FromStart(c) == {q \in Slot : state[q] = "RUNNABLE"}

\* What is left of the scheduler's scan.
FromScan(c) == {q \in Slot : state[q] = "RUNNABLE" /\ q >= scan[c]}

\* scheduler(): take the lock, or keep it when a process has come back, and
\* switch to the next RUNNABLE slot, which inherits the lock.
Dispatch(c) ==
  /\ cur[c] = 0
  /\ \/ lock = NoCpu /\ scan[c] = 0
     \/ lock = c
  /\ \E p \in Slot :
       /\ First(p, FromScan(c))
       /\ cur' = [cur EXCEPT ![c] = p]
       /\ state' = [state EXCEPT ![p] = "RUNNING"]
       /\ scan' = [scan EXCEPT ![c] = p + 1]
  /\ lock' = c
  /\ UNCHANGED <<pid, parent, chan, killed, kstack, nextpid, irq,
                 threadVars>>

\* The end of the scan: release the lock and start over (or halt until the
\* next interrupt, when nothing ran).
ScanEnd(c) ==
  /\ cur[c] = 0
  /\ lock = c
  /\ FromScan(c) = {}
  /\ lock' = NoCpu
  /\ scan' = [scan EXCEPT ![c] = 0]
  /\ UNCHANGED <<fields, cur, irq, threadVars>>

\* sched(): the process has changed its state and switches back to the
\* scheduler of its CPU, which clears c->proc and still holds the lock.
Sched(c) ==
  /\ cur[c] # 0
  /\ lock = c
  /\ state[cur[c]] # "RUNNING"
  /\ cur' = [cur EXCEPT ![c] = 0]
  /\ UNCHANGED <<fields, lock, scan, irq, threadVars>>

\* The thread comes back from swtch() holding the lock: forkret, or the tail
\* of yield(), releases it.
Resume(c) ==
  LET p == cur[c] IN
  /\ p # 0
  /\ lock = c
  /\ state[p] = "RUNNING"
  /\ pc[p] \in Interruptible \cup {"forkret"}
  /\ lock' = NoCpu
  /\ Goto(p, IF pc[p] = "forkret" THEN "user" ELSE pc[p])
  /\ UNCHANGED <<fields, cur, scan, irq, np, left, tickslock>>

\* Mutant: yield() releases the lock before switching.
YieldUnlocked(c) ==
  /\ cur[c] # 0
  /\ irq[c] = "trap"
  /\ lock = NoCpu
  /\ state' = [state EXCEPT ![cur[c]] = "RUNNABLE"]
  /\ SetIrq(c, "on")
  /\ UNCHANGED <<pid, parent, chan, killed, kstack, nextpid, lock, cur, scan,
                 threadVars>>

\* yield(), called by the timer interrupt.
Yield(c) ==
  LET p == cur[c] IN
  /\ p # 0
  /\ irq[c] = "trap"
  /\ lock = NoCpu
  /\ lock' = c
  /\ state' = [state EXCEPT ![p] = "RUNNABLE"]
  /\ SetIrq(c, "on")
  /\ UNCHANGED <<pid, parent, chan, killed, kstack, nextpid, cur, scan,
                 threadVars>>

\* n - (ticks - ticks0) after one more tick, for a sleep(n) under way.
LeftAfterTick(q) ==
  IF pc[q] \in {"tslept", "tcheck", "tsleep2"} /\ left[q] > 0
    THEN left[q] - 1 ELSE left[q]

\* Mutant: the interrupt never looks at killed.
TimerIgnoresKilled(c) ==
  /\ lock # c
  /\ irq[c] = "on"
  /\ c = BootCpu => lock = NoCpu /\ tickslock = 0
  /\ state' = IF c = BootCpu THEN Wakeup1(state, TICKS) ELSE state
  /\ left' = [q \in Slot |-> IF c = BootCpu THEN LeftAfterTick(q) ELSE left[q]]
  /\ SetIrq(c, IF cur[c] = 0 THEN "on" ELSE "trap")
  /\ UNCHANGED <<pid, parent, chan, killed, kstack, nextpid, lock, cur, scan,
                 pc, np, tickslock>>

\* The timer interrupt in trap().  On the boot CPU it advances ticks and wakes
\* the sleepers; then a killed process caught in user mode exits, any other
\* running process is about to yield.
Timer(c) ==
  LET p == cur[c] IN
  /\ lock # c
  /\ irq[c] = "on"
  /\ IF c = BootCpu
       THEN /\ lock = NoCpu
            /\ tickslock = 0
            /\ state' = Wakeup1(state, TICKS)
            /\ left' = [q \in Slot |-> LeftAfterTick(q)]
       ELSE UNCHANGED <<state, left>>
  /\ \/ /\ p = 0
        /\ UNCHANGED <<pc, irq>>
     \/ /\ p # 0 /\ pc[p] = "user" /\ killed[p] = 1
        /\ Goto(p, IF p = InitProc THEN "panic" ELSE "exit")
        /\ UNCHANGED irq
     \/ /\ p # 0 /\ ~(pc[p] = "user" /\ killed[p] = 1)
        /\ SetIrq(c, "trap")
        /\ UNCHANGED pc
  /\ UNCHANGED <<pid, parent, chan, killed, kstack, nextpid, lock, cur, scan,
                 np, tickslock>>

\* acquire() turns interrupts off (pushcli) before it spins for the lock, so a
\* thread is preempted before it or after the critical section, never in it.
Acquire(c) ==
  /\ \E p \in Slot : Runs(c, p) /\ pc[p] \in LockPoint
  /\ SetIrq(c, "spin")
  /\ UNCHANGED <<fields, lock, cur, scan, threadVars>>

-----------------------------------------------------------------------------
(* System calls.  A call is entered from user mode, by a process that is    *)
(* not killed; a killed one exits instead (trap(), before and after         *)
(* syscall()).  Returning is going back to "user".                          *)

\* Forks that were entered and have not taken their pid yet (for MaxPid).
ForkPending == {q \in Slot : pc[q] = "fork0"}

Syscall(c) ==
  \E p \in Slot :
    /\ Runs(c, p)
    /\ pc[p] = "user"
    /\ \/ /\ killed[p] = 1 \/ p # InitProc
          /\ Goto(p, IF p = InitProc THEN "panic" ELSE "exit")
          /\ UNCHANGED left
       \/ /\ killed[p] = 0
          /\ \E point \in {"wait", "kill"} : Goto(p, point)
          /\ UNCHANGED left
       \/ /\ killed[p] = 0
          /\ nextpid + Cardinality(ForkPending) <= MaxPid
          /\ Goto(p, "fork0")
          /\ UNCHANGED left
       \/ /\ killed[p] = 0
          /\ \E n \in 0..MaxSleep : left' = [left EXCEPT ![p] = n]
          /\ Goto(p, "tsleep")
    /\ UNCHANGED <<fields, cpuVars, np, tickslock>>

\* A fault in user mode: trap() marks the process killed and exits it.
Fault(c) ==
  \E p \in Slot \ {InitProc} :
    /\ Runs(c, p)
    /\ pc[p] = "user"
    /\ killed' = [killed EXCEPT ![p] = 1]
    /\ Goto(p, "exit")
    /\ UNCHANGED <<state, pid, parent, chan, kstack, nextpid, cpuVars, np,
                   left, tickslock>>

\* Mutant: the counter is not advanced.
SamePid(n) == n

\* nextpid++
NextPid(n) == n + 1

\* allocproc() under the lock: the first UNUSED slot becomes EMBRYO with a
\* new pid; with no such slot fork returns -1.
ForkAlloc(c) ==
  \E p \in Slot :
    /\ Spins(c, p)
    /\ pc[p] = "fork0"
    /\ lock = NoCpu
    /\ SetIrq(c, "on")
    /\ \/ /\ \A q \in Slot : state[q] # "UNUSED"
          /\ Goto(p, "user")
          /\ UNCHANGED <<state, pid, nextpid, np>>
       \/ \E q \in Slot :
            /\ First(q, {r \in Slot : state[r] = "UNUSED"})
            /\ state' = [state EXCEPT ![q] = "EMBRYO"]
            /\ pid' = [pid EXCEPT ![q] = nextpid]
            /\ nextpid' = NextPid(nextpid)
            /\ np' = [np EXCEPT ![p] = q]
            /\ Goto(p, "fork1")
    /\ UNCHANGED <<parent, chan, killed, kstack, lock, cur, scan, left, tickslock>>

\* The rest of allocproc(), without the lock: the kernel stack, and a context
\* that starts at forkret.  When kalloc() fails the slot is UNUSED again, but
\* keeps its pid (and its killed flag, if a kill hit the embryo).
ForkKstack(c) ==
  \E p \in Slot :
    LET q == np[p] IN
    /\ Runs(c, p)
    /\ pc[p] = "fork1"
    /\ \/ /\ kstack' = [kstack EXCEPT ![q] = 1]
          /\ pc' = [pc EXCEPT ![p] = "fork2", ![q] = "forkret"]
          /\ UNCHANGED <<state, np>>
       \/ /\ state' = [state EXCEPT ![q] = "UNUSED"]
          /\ np' = [np EXCEPT ![p] = 0]
          /\ Goto(p, "user")
          /\ UNCHANGED kstack
    /\ UNCHANGED <<pid, parent, chan, killed, nextpid, cpuVars, left,
                   tickslock>>

\* Mutant: copyuvm() fails, the stack is freed, and fork goes on.
ForkCopyNoReturn(c) ==
  \E p \in Slot :
    /\ Runs(c, p)
    /\ pc[p] = "fork2"
    /\ \E ok \in 0..1 : kstack' = [kstack EXCEPT ![np[p]] = ok]
    /\ parent' = [parent EXCEPT ![np[p]] = p]
    /\ Goto(p, "fork3")
    /\ UNCHANGED <<state, pid, chan, killed, nextpid, cpuVars, np, left,
                   tickslock>>

\* fork(): copy the address space, the parent pointer, files and name,
\* without the lock; when copyuvm() fails give the slot back.
ForkCopy(c) ==
  \E p \in Slot :
    LET q == np[p] IN
    /\ Runs(c, p)
    /\ pc[p] = "fork2"
    /\ \/ /\ parent' = [parent EXCEPT ![q] = p]
          /\ Goto(p, "fork3")
          /\ UNCHANGED <<state, kstack, np>>
       \/ /\ kstack' = [kstack EXCEPT ![q] = 0]
          /\ state' = [state EXCEPT ![q] = "UNUSED"]
          /\ np' = [np EXCEPT ![p] = 0]
          /\ Goto(p, "user")
          /\ UNCHANGED parent
    /\ UNCHANGED <<pid, chan, killed, nextpid, cpuVars, left, tickslock>>

\* fork(): publish the child under the lock.
ForkRun(c) ==
  \E p \in Slot :
    /\ Spins(c, p)
    /\ pc[p] = "fork3"
    /\ lock = NoCpu
    /\ SetIrq(c, "on")
    /\ state' = [state EXCEPT ![np[p]] = "RUNNABLE"]
    /\ np' = [np EXCEPT ![p] = 0]
    /\ Goto(p, "user")
    /\ UNCHANGED <<pid, parent, chan, killed, kstack, nextpid, lock, cur, scan, left,
                   tickslock>>

\* Mutant: the caller frees its own slot.
ExitToUnused(p) == [Wakeup1(state, parent[p]) EXCEPT ![p] = "UNUSED"]

\* The states exit() leaves behind: the parent woken, init woken when it
\* inherits a zombie, the caller a ZOMBIE.
ExitStates(p) ==
  LET woken == Wakeup1(state, parent[p])
      adopts == \E q \in Slot : parent[q] = p /\ state[q] = "ZOMBIE"
      all == IF adopts THEN Wakeup1(woken, InitProc) ELSE woken
  IN [all EXCEPT ![p] = "ZOMBIE"]

\* Mutant: the children keep their dead parent.
Abandoned(p, q) == parent[q]

\* exit() passes the children of p to init.
ParentAfterExit(p, q) == IF parent[q] = p THEN InitProc ELSE parent[q]

\* exit(), from taking the lock to sched(); the files and the working
\* directory are closed before.  sched() follows with the lock held.
Exit(c) ==
  \E p \in Slot :
    /\ Spins(c, p)
    /\ pc[p] = "exit"
    /\ lock = NoCpu
    /\ SetIrq(c, "on")
    /\ lock' = c
    /\ state' = ExitStates(p)
    /\ parent' = [q \in Slot |-> ParentAfterExit(p, q)]
    /\ Goto(p, "exited")
    /\ UNCHANGED <<pid, chan, killed, kstack, nextpid, cur, scan,
                   np, left, tickslock>>

\* wait() is at the head of its loop holding the lock: just acquired, or kept
\* from the sleep() it has come back from.
InWait(c, p) ==
  /\ cur[c] = p
  /\ \/ pc[p] = "wait" /\ Spins(c, p) /\ lock = NoCpu
     \/ pc[p] = "waitslept" /\ lock = c /\ state[p] = "RUNNING"

Zombies(p) == {q \in Slot : parent[q] = p /\ state[q] = "ZOMBIE"}

\* wait() finds an exited child, frees its slot and returns its pid.
WaitReap(c) ==
  \E p, q \in Slot :
    /\ InWait(c, p)
    /\ First(q, Zombies(p))
    /\ kstack' = [kstack EXCEPT ![q] = 0]
    /\ pid' = [pid EXCEPT ![q] = 0]
    /\ parent' = [parent EXCEPT ![q] = 0]
    /\ killed' = [killed EXCEPT ![q] = 0]
    /\ state' = [state EXCEPT ![q] = "UNUSED"]
    /\ chan' = [chan EXCEPT ![p] = 0]
    /\ SetIrq(c, "on")
    /\ lock' = NoCpu
    /\ Goto(p, "user")
    /\ UNCHANGED <<nextpid, cur, scan, np, left, tickslock>>

NoPointWaiting(p) == killed[p] = 1 \/ \A q \in Slot : parent[q] # p

\* wait() returns -1.
WaitFail(c) ==
  \E p \in Slot :
    /\ InWait(c, p)
    /\ Zombies(p) = {}
    /\ NoPointWaiting(p)
    /\ chan' = [chan EXCEPT ![p] = 0]
    /\ SetIrq(c, "on")
    /\ lock' = NoCpu
    /\ Goto(p, "user")
    /\ UNCHANGED <<state, pid, parent, killed, kstack, nextpid, cur, scan, np, left, tickslock>>

\* wait() sleeps on the caller's own proc, keeping the lock into sched().
WaitSleep(c) ==
  \E p \in Slot :
    /\ InWait(c, p)
    /\ Zombies(p) = {}
    /\ ~NoPointWaiting(p)
    /\ chan' = [chan EXCEPT ![p] = p]
    /\ state' = [state EXCEPT ![p] = "SLEEPING"]
    /\ SetIrq(c, "on")
    /\ lock' = c
    /\ Goto(p, "waitslept")
    /\ UNCHANGED <<pid, parent, killed, kstack, nextpid, cur, scan,
                   np, left, tickslock>>

\* kill(k): the first slot with that pid is marked and, if asleep, woken.
Kill(c) ==
  \E p \in Slot :
    /\ Spins(c, p)
    /\ pc[p] = "kill"
    /\ lock = NoCpu
    /\ SetIrq(c, "on")
    /\ \E k \in KillPid :
         \/ /\ \A q \in Slot : pid[q] # k
            /\ UNCHANGED <<state, killed>>
         \/ \E q \in Slot :
              /\ First(q, {r \in Slot : pid[r] = k})
              /\ killed' = [killed EXCEPT ![q] = 1]
              /\ state' = [state EXCEPT ![q] = IF @ = "SLEEPING"
                                                 THEN "RUNNABLE" ELSE @]
    /\ Goto(p, "user")
    /\ UNCHANGED <<pid, parent, chan, kstack, nextpid, lock, cur, scan, np, left,
                   tickslock>>

\* Mutant: tickslock is dropped between the check and sleep().
TsleepCheckUnlocked(c) ==
  \E p \in Slot :
    /\ Spins(c, p)
    /\ pc[p] \in {"tsleep", "tcheck"}
    /\ tickslock = 0
    /\ LET over == left[p] = 0 \/ killed[p] = 1 IN
         /\ Goto(p, IF over THEN "user" ELSE "tsleep2")
         /\ left' = IF over THEN [left EXCEPT ![p] = 0] ELSE left
         /\ SetIrq(c, IF over THEN "on" ELSE "spin")
    /\ UNCHANGED <<fields, lock, cur, scan, np, tickslock>>

\* sys_sleep: under tickslock, return when the time has passed or the caller
\* is killed; otherwise go on to sleep(), still holding tickslock.
TsleepCheck(c) ==
  \E p \in Slot :
    /\ Spins(c, p)
    /\ pc[p] \in {"tsleep", "tcheck"}
    /\ tickslock = 0
    /\ \/ /\ left[p] = 0 \/ killed[p] = 1
          /\ left' = [left EXCEPT ![p] = 0]
          /\ Goto(p, "user")
          /\ SetIrq(c, "on")
          /\ UNCHANGED tickslock
       \/ /\ left[p] > 0 /\ killed[p] = 0
          /\ tickslock' = p
          /\ Goto(p, "tsleep2")
          /\ UNCHANGED <<left, irq>>
    /\ UNCHANGED <<fields, lock, cur, scan, np>>

\* sleep(&ticks, &tickslock): take ptable.lock, only then drop tickslock.
TsleepSleep(c) ==
  \E p \in Slot :
    /\ Spins(c, p)
    /\ pc[p] = "tsleep2"
    /\ lock = NoCpu
    /\ SetIrq(c, "on")
    /\ lock' = c
    /\ tickslock' = 0
    /\ chan' = [chan EXCEPT ![p] = TICKS]
    /\ state' = [state EXCEPT ![p] = "SLEEPING"]
    /\ Goto(p, "tslept")
    /\ UNCHANGED <<pid, parent, killed, kstack, nextpid, cur, scan,
                   np, left>>

\* The tail of that sleep(): release ptable.lock, then contend for tickslock.
TsleepWake(c) ==
  LET p == cur[c] IN
  /\ p # 0
  /\ lock = c
  /\ state[p] = "RUNNING"
  /\ pc[p] = "tslept"
  /\ chan' = [chan EXCEPT ![p] = 0]
  /\ lock' = NoCpu
  /\ Goto(p, "tcheck")
  /\ UNCHANGED <<state, pid, parent, killed, kstack, nextpid, cur, scan,
                 irq, np, left, tickslock>>

-----------------------------------------------------------------------------
\* What the thread on c does next, once it has entered the kernel.
KernelStep(c) ==
  \/ Acquire(c)
  \/ ForkAlloc(c) \/ ForkKstack(c) \/ ForkCopy(c) \/ ForkRun(c)
  \/ Exit(c)
  \/ WaitReap(c) \/ WaitFail(c) \/ WaitSleep(c)
  \/ Kill(c)
  \/ TsleepCheck(c) \/ TsleepSleep(c) \/ TsleepWake(c)

\* The steps of c on the way from one thread to the next.
SwitchStep(c) ==
  Dispatch(c) \/ ScanEnd(c) \/ Sched(c) \/ Resume(c) \/ Yield(c)

CpuStep(c) ==
  \/ SwitchStep(c)
  \/ Timer(c)
  \/ Syscall(c) \/ Fault(c)
  \/ KernelStep(c)

Next == \E c \in CPU : CpuStep(c)

Spec == Init /\ [][Next]_vars

-----------------------------------------------------------------------------
(* Properties.                                                             *)

\* A process runs on at most one CPU, a RUNNING process is on one, and a CPU
\* whose process is no longer RUNNING still holds ptable.lock: nobody can
\* dispatch a process whose registers are not saved yet (scheduler/sched).
OneCpuPerProc ==
  /\ \A c, d \in CPU : cur[c] = cur[d] /\ cur[c] # 0 => c = d
  /\ \A p \in Slot : state[p] = "RUNNING" => \E c \in CPU : cur[c] = p
  /\ \A c \in CPU : cur[c] # 0 => state[cur[c]] = "RUNNING" \/ lock = c

\* No kernel stack is freed under a thread that executes on it or can be
\* switched to: wait() and fork's failure path free only stacks at rest.
KStackSafe ==
  /\ \A c \in CPU : cur[c] # 0 => kstack[cur[c]] # 0
  /\ \A p \in Slot : state[p] \in Live => kstack[p] # 0

\* wait() never sleeps through an event: while a process sleeps in wait() it
\* has no ZOMBIE child, has a child, and is not killed.
NoMissedExit ==
  \A p \in Slot :
    state[p] = "SLEEPING" /\ pc[p] = "waitslept" =>
      /\ \A q \in Slot : parent[q] = p => state[q] # "ZOMBIE"
      /\ \E q \in Slot : parent[q] = p
      /\ killed[p] = 0

\* Every process but init has a parent that has not exited and so can still
\* wait() for it: exit() hands all its children to init.
ParentAlive ==
  \A p \in Slot :
    /\ state[p] \in Live \cup {"ZOMBIE"} /\ p # InitProc => parent[p] # 0
    /\ parent[p] # 0 => state[parent[p]] \in Live

\* Pids are not shared, not even with the stale pid of a failed fork's slot.
PidUnique ==
  \A p, q \in Slot : pid[p] = pid[q] /\ pid[p] # 0 => p = q

\* A sleeper whose sleep(n) is over has been woken: the tick that ends it
\* cannot fall between sys_sleep's check and sleep() (tickslock).
NoMissedTick ==
  \A p \in Slot :
    state[p] = "SLEEPING" /\ pc[p] = "tslept" => left[p] > 0

\* A slot is recycled only by the parent's wait() or by the fork that was
\* filling it: a process leaves the table only as a ZOMBIE, and its parent,
\* which does the removing, is running.
RecycledOnlyByOwner ==
  [][\A p \in Slot :
       state[p] # "UNUSED" /\ state'[p] = "UNUSED" =>
         \/ /\ state[p] = "ZOMBIE"
            /\ state[parent[p]] = "RUNNING"
            /\ pc'[parent[p]] = "user"
         \/ /\ state[p] = "EMBRYO"
            /\ \E q \in Slot : state[q] = "RUNNING" /\ np[q] = p]_vars

\* "Process won't exit until it returns to user space": and then it does.
KilledDies ==
  \A p \in Slot \ {InitProc} :
    (killed[p] = 1 /\ state[p] \in Live) ~> (state[p] \notin Live)

\* Round robin starves nobody.
RunnableRuns ==
  \A p \in Slot : (state[p] = "RUNNABLE") ~> (state[p] = "RUNNING")

\* sleep(n) returns.
SleepReturns ==
  \A p \in Slot : (pc[p] = "tslept") ~> (pc[p] = "user")

\* A parent in wait() with an exited child returns from wait().
WaitReturns ==
  \A p \in Slot :
    (pc[p] = "waitslept" /\ Zombies(p) # {}) ~> (pc[p] = "user")

=============================================================================
