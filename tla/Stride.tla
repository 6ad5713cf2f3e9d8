------------------------------- MODULE Stride -------------------------------
(***************************************************************************)
(* The scheduler of project 2: stride scheduling with tickets, selectable  *)
(* against round robin by set_sched(), the fork_winner() switch, and the   *)
(* ticket system calls.                                                    *)
(*                                                                         *)
(* The process life cycle is the one of Proc, coarser: fork, sleep, exit   *)
(* and wait are single actions here.  The ticket system calls take no lock *)
(* and can be preempted between any two of their reads and writes, so each *)
(* of those is an action; a read-modify-write of a ticket field is one     *)
(* instruction, which is atomic on the single CPU the Makefile configures. *)
(***************************************************************************)
EXTENDS Integers, FiniteSets

CONSTANTS
  NPROC,        \* size of the process table
  CPU,          \* the CPUs
  Policies,     \* arguments passed to set_sched()
  Winners,      \* arguments passed to fork_winner()
  Amounts,      \* ticket amounts passed to transfer_tickets()
  MaxTickets,   \* bound: no transfer starts that would exceed it
  MaxPass       \* bound: no dispatch takes a pass beyond it

ASSUME StrideAssumption ==
  /\ NPROC \in 1..100
  /\ 0 \notin CPU
  /\ Policies \subseteq Int /\ Winners \subseteq Int
  /\ Amounts \subseteq Int
  /\ MaxTickets \in Nat /\ MaxPass \in Nat

\* The Makefile runs the machine with -smp 1.
ASSUME OneCpu == \A c, d \in CPU : c = d

Slot == 1..NPROC
NoCpu == 0
TOTAL == 100        \* tickets shared out by updateTickets
STRIDE1 == 1000     \* a dispatch costs STRIDE1/tickets
START == TOTAL \div 4   \* allocproc's tickets

VARIABLES
  state, tickets, pass,     \* fields of ptable.proc[]
  str, winner,              \* the globals set by the system calls
  lock, cur,                \* holder of ptable.lock, cpus[c].proc
  sp, scan, count,          \* scheduler(): where, loop position, count
  pc, target, amount,       \* each thread: where, and its locals
  kid                       \* history: the child of a fork() under way, until
                            \* the child is dispatched or stride scheduling interferes

table == <<state, tickets, pass>>
schedVars == <<lock, cur, sp, scan, count>>
threadVars == <<pc, target, amount>>
vars == <<table, str, winner, schedVars, threadVars, kid>>

TypeOK ==
  /\ state \in [Slot -> {"UNUSED", "SLEEPING", "RUNNABLE", "RUNNING",
                         "ZOMBIE"}]
  /\ tickets \in [Slot -> Int]
  /\ pass \in [Slot -> 0..MaxPass]
  /\ str \in Int /\ winner \in Int
  /\ lock \in CPU \cup {NoCpu}
  /\ cur \in [CPU -> Slot \cup {0}]
  /\ sp \in [CPU -> {"top", "update", "pick", "stride", "rr"}]
  /\ scan \in [CPU -> 0..(NPROC + 1)]
  /\ count \in [CPU -> 0..NPROC]
  /\ pc \in [Slot -> {"user", "forked", "winner", "check", "sub", "add"}]
  /\ target \in [Slot -> Slot \cup {0}]
  /\ amount \in [Slot -> Int]
  /\ kid \in [Slot -> Slot \cup {0}]

Init ==
  /\ state = [p \in Slot |-> IF p = 1 THEN "RUNNABLE" ELSE "UNUSED"]
  /\ tickets = [p \in Slot |-> IF p = 1 THEN START ELSE 0]
  /\ pass = [p \in Slot |-> 0]
  /\ str = 0 /\ winner = 0
  /\ lock = NoCpu
  /\ cur = [c \in CPU |-> 0]
  /\ sp = [c \in CPU |-> "top"]
  /\ scan = [c \in CPU |-> 0]
  /\ count = [c \in CPU |-> 0]
  /\ pc = [p \in Slot |-> "user"]
  /\ target = [p \in Slot |-> 0]
  /\ amount = [p \in Slot |-> 0]
  /\ kid = [p \in Slot |-> 0]

First(p, S) == p \in S /\ \A q \in S : p <= q

-----------------------------------------------------------------------------
(* The scheduler.                                                          *)

Ready == {p \in Slot : state[p] \in {"RUNNABLE", "RUNNING"}}
Runnable == {p \in Slot : state[p] = "RUNNABLE"}

\* Mutant of getminproc: <= in place of <, so that ties go to the last slot.
getminprocLast ==
  LET best[n \in 0..NPROC] ==
        IF n = 0 THEN 0
        ELSE IF state[n] # "RUNNABLE" THEN best[n - 1]
        ELSE IF best[n - 1] = 0 \/ pass[n] <= pass[best[n - 1]] THEN n
        ELSE best[n - 1]
  IN best[NPROC]

\* getminproc(): one pass over the table, keeping the RUNNABLE slot with the
\* smallest pass so far (0 for none); later slots must be strictly smaller.
getminproc ==
  LET best[n \in 0..NPROC] ==
        IF n = 0 THEN 0
        ELSE IF state[n] # "RUNNABLE" THEN best[n - 1]
        ELSE IF best[n - 1] = 0 \/ pass[n] < pass[best[n - 1]] THEN n
        ELSE best[n - 1]
  IN best[NPROC]

\* scheduler() takes the lock and enters the branch of the current policy.
SchedTop(c) ==
  /\ sp[c] = "top"
  /\ lock = NoCpu
  /\ lock' = c
  /\ IF str = 1
       THEN /\ sp' = [sp EXCEPT ![c] = "update"]
            /\ count' = [count EXCEPT ![c] = Cardinality(Ready)]
       ELSE /\ sp' = [sp EXCEPT ![c] = "rr"]
            /\ UNCHANGED count
  /\ scan' = [scan EXCEPT ![c] = 1]
  /\ UNCHANGED <<table, str, winner, cur, threadVars, kid>>

\* Mutant of Share: only processes that still own tickets are given a share.
ShareOfOwners(p, n) ==
  IF p \in Ready /\ tickets[p] > 0 THEN TOTAL \div n ELSE tickets[p]

\* The share updateTickets() gives slot p when n processes are ready.
Share(p, n) == IF p \in Ready THEN TOTAL \div n ELSE tickets[p]

\* updateTickets(), one slot at a time: transfers run without the lock.
UpdateTickets(c) ==
  /\ sp[c] = "update"
  /\ tickets' = [tickets EXCEPT ![scan[c]] = Share(scan[c], count[c])]
  /\ scan' = [scan EXCEPT ![c] = @ + 1]
  /\ sp' = [sp EXCEPT ![c] = IF scan[c] = NPROC THEN "pick" ELSE @]
  /\ UNCHANGED <<state, pass, str, winner, lock, cur, count, threadVars,
                 kid>>

Run(c, p) ==
  /\ cur' = [cur EXCEPT ![c] = p]
  /\ state' = [state EXCEPT ![p] = "RUNNING"]
  /\ kid' = [q \in Slot |-> IF kid[q] = p \/ sp[c] = "pick" THEN 0 ELSE kid[q]]

\* p->pass += 1000/p->tickets
Stride(p) == STRIDE1 \div tickets[p]

\* The stride branch switches to the process getminproc() returns.  (With no
\* tickets the division would trap; NoZeroDivide is about that.)
StrideDispatch(c) ==
  LET p == getminproc IN
  /\ sp[c] = "pick"
  /\ p # 0
  /\ tickets[p] > 0
  /\ pass[p] + Stride(p) <= MaxPass
  /\ pass' = [pass EXCEPT ![p] = @ + Stride(p)]
  /\ Run(c, p)
  /\ sp' = [sp EXCEPT ![c] = "stride"]
  /\ UNCHANGED <<tickets, str, winner, lock, scan, count, threadVars>>

\* The stride branch with nothing to run, or with its process back: release
\* the lock and start over.
StrideDone(c) ==
  /\ lock = c
  /\ \/ sp[c] = "pick" /\ getminproc = 0
     \/ sp[c] = "stride" /\ cur[c] # 0 /\ state[cur[c]] # "RUNNING"
  /\ cur' = [cur EXCEPT ![c] = 0]
  /\ sp' = [sp EXCEPT ![c] = "top"]
  /\ lock' = NoCpu
  /\ scan' = [scan EXCEPT ![c] = 0]
  /\ count' = [count EXCEPT ![c] = 0]
  /\ kid' = [p \in Slot |-> 0]
  /\ UNCHANGED <<table, str, winner, threadVars>>

\* Mutant of RRRest: the scan starts over after every process.
RRRestart(c) == Runnable

\* What is left of the round-robin scan.
RRRest(c) == {p \in Runnable : p >= scan[c]}

RRDispatch(c) ==
  \E p \in Slot :
    /\ sp[c] = "rr"
    /\ lock = c /\ cur[c] = 0
    /\ First(p, RRRest(c))
    /\ Run(c, p)
    /\ scan' = [scan EXCEPT ![c] = p + 1]
    /\ UNCHANGED <<tickets, pass, str, winner, lock, sp, count, threadVars>>

\* The process is back in the round-robin loop, which goes on with the lock.
RRBack(c) ==
  /\ sp[c] = "rr"
  /\ lock = c /\ cur[c] # 0 /\ state[cur[c]] # "RUNNING"
  /\ cur' = [cur EXCEPT ![c] = 0]
  /\ UNCHANGED <<table, str, winner, lock, sp, scan, count, threadVars,
                 kid>>

RRDone(c) ==
  /\ sp[c] = "rr"
  /\ lock = c /\ cur[c] = 0
  /\ RRRest(c) = {}
  /\ lock' = NoCpu
  /\ scan' = [scan EXCEPT ![c] = 0]
  /\ sp' = [sp EXCEPT ![c] = "top"]
  /\ UNCHANGED <<table, str, winner, cur, count, threadVars, kid>>

\* The dispatched thread releases the lock (forkret, yield or sleep) and goes
\* on where it stopped.
Resume(c) ==
  /\ lock = c /\ cur[c] # 0 /\ state[cur[c]] = "RUNNING"
  /\ lock' = NoCpu
  /\ pc' = [pc EXCEPT ![cur[c]] = IF @ = "winner" THEN "user" ELSE @]
  /\ UNCHANGED <<table, str, winner, cur, sp, scan, count, target, amount,
                 kid>>

-----------------------------------------------------------------------------
(* The processes.                                                          *)

Runs(c, p) == cur[c] = p /\ lock # c
InUser(c, p) == Runs(c, p) /\ pc[p] = "user"

\* The running thread leaves the CPU with the lock held, in a new state.
Leave(c, p, st) ==
  /\ lock = NoCpu
  /\ lock' = c
  /\ state' = [state EXCEPT ![p] = st]

\* The timer interrupt: yield() at any point of the thread.
Yield(c) ==
  \E p \in Slot :
    /\ Runs(c, p)
    /\ Leave(c, p, "RUNNABLE")
    /\ UNCHANGED <<tickets, pass, str, winner, cur, sp, scan, count,
                   threadVars, kid>>

\* sleep() and exit(), seen from the scheduler.
Block(c) ==
  \E p \in Slot, st \in {"SLEEPING", "ZOMBIE"} :
    /\ InUser(c, p)
    /\ p = 1 => st = "SLEEPING"
    /\ Leave(c, p, st)
    /\ UNCHANGED <<tickets, pass, str, winner, cur, sp, scan, count,
                   threadVars, kid>>

\* wakeup() of a sleeper, and wait() reaping a zombie.
Unblock ==
  \E p \in Slot, to \in {"RUNNABLE", "UNUSED"} :
    /\ lock = NoCpu
    /\ state[p] = IF to = "RUNNABLE" THEN "SLEEPING" ELSE "ZOMBIE"
    /\ state' = [state EXCEPT ![p] = to]
    /\ UNCHANGED <<tickets, pass, str, winner, schedVars, threadVars, kid>>

\* fork() up to the publication of the child: allocproc gives it pass 0 and
\* a quarter of the tickets.
Fork(c) ==
  \E p, q \in Slot :
    /\ InUser(c, p)
    /\ lock = NoCpu
    /\ First(q, {r \in Slot : state[r] = "UNUSED"})
    /\ state' = [state EXCEPT ![q] = "RUNNABLE"]
    /\ pass' = [pass EXCEPT ![q] = 0]
    /\ tickets' = [tickets EXCEPT ![q] = START]
    /\ kid' = [kid EXCEPT ![p] = q]
    /\ pc' = [pc EXCEPT ![p] = "forked", ![q] = "user"]
    /\ UNCHANGED <<str, winner, schedVars, target, amount>>

\* The end of fork(): yield() when winner is 1.
ForkReturn(c) ==
  \E p \in Slot :
    /\ Runs(c, p)
    /\ pc[p] = "forked"
    /\ \/ /\ winner # 1
          /\ pc' = [pc EXCEPT ![p] = "user"]
          /\ kid' = [kid EXCEPT ![p] = 0]
          /\ UNCHANGED <<state, lock>>
       \/ /\ winner = 1
          /\ Leave(c, p, "RUNNABLE")
          /\ pc' = [pc EXCEPT ![p] = "winner"]
          /\ UNCHANGED kid
    /\ UNCHANGED <<tickets, pass, str, winner, cur, sp, scan, count, target,
                   amount>>

\* set_sched() and fork_winner(): a plain store.
SetPolicy(c) ==
  /\ \E p \in Slot : InUser(c, p)
  /\ \/ str' \in Policies /\ UNCHANGED winner
     \/ winner' \in Winners /\ UNCHANGED str
  /\ UNCHANGED <<table, schedVars, threadVars, kid>>

\* getProc() finds a process only while it is RUNNABLE.
getProc(q) == IF state[q] = "RUNNABLE" THEN q ELSE 0

\* transfer_tickets(): look the recipient up; -3 when not found, -1 when the
\* amount is negative.
TransferLookup(c) ==
  \E p, q \in Slot, t \in Amounts :
    /\ InUser(c, p)
    /\ getProc(q) # 0
    /\ t >= 0
    /\ tickets[q] + t <= MaxTickets
    /\ pc' = [pc EXCEPT ![p] = "check"]
    /\ target' = [target EXCEPT ![p] = q]
    /\ amount' = [amount EXCEPT ![p] = t]
    /\ UNCHANGED <<table, str, winner, schedVars, kid>>

\* The caller must keep one ticket, or the call returns -2.
Affordable(p) == amount[p] <= tickets[p] - 1

\* transfer_tickets() returns and its locals are gone.
Return(p) ==
  /\ pc' = [pc EXCEPT ![p] = "user"]
  /\ target' = [target EXCEPT ![p] = 0]
  /\ amount' = [amount EXCEPT ![p] = 0]

TransferCheck(c) ==
  \E p \in Slot :
    /\ Runs(c, p)
    /\ pc[p] = "check"
    /\ \/ /\ Affordable(p)
          /\ pc' = [pc EXCEPT ![p] = "sub"]
          /\ UNCHANGED <<target, amount>>
       \/ ~Affordable(p) /\ Return(p)
    /\ UNCHANGED <<table, str, winner, schedVars, kid>>

\* myproc()->tickets -= t, then p->tickets += t.
TransferMove(c) ==
  \E p \in Slot :
    /\ Runs(c, p)
    /\ \/ /\ pc[p] = "sub"
          /\ tickets' = [tickets EXCEPT ![p] = @ - amount[p]]
          /\ pc' = [pc EXCEPT ![p] = "add"]
          /\ UNCHANGED <<target, amount>>
       \/ /\ pc[p] = "add"
          /\ tickets' = [tickets EXCEPT ![target[p]] = @ + amount[p]]
          /\ Return(p)
    /\ UNCHANGED <<state, pass, str, winner, schedVars, kid>>

-----------------------------------------------------------------------------
CpuStep(c) ==
  \/ SchedTop(c) \/ UpdateTickets(c) \/ StrideDispatch(c) \/ StrideDone(c)
  \/ RRDispatch(c) \/ RRBack(c) \/ RRDone(c) \/ Resume(c)
  \/ Yield(c) \/ Block(c) \/ Fork(c) \/ ForkReturn(c)
  \/ SetPolicy(c)
  \/ TransferLookup(c) \/ TransferCheck(c) \/ TransferMove(c)

Next == Unblock \/ \E c \in CPU : CpuStep(c)

Spec == Init /\ [][Next]_vars

-----------------------------------------------------------------------------
(* Properties.                                                             *)

\* When the stride branch divides by the tickets of the process it chose,
\* there is at least one: updateTickets() has just run under the same lock,
\* and no transfer can get in between on one CPU.
NoZeroDivide ==
  \A c \in CPU :
    sp[c] = "pick" /\ getminproc # 0 => tickets[getminproc] > 0

Dispatched(p) == state[p] = "RUNNABLE" /\ state'[p] = "RUNNING"

\* Why transfers come to nothing: on one CPU every stride dispatch costs the
\* same 1000/(100/n), n being the number of ready processes, because
\* updateTickets() has wiped whatever was transferred when the division
\* happens.
EqualShares ==
  [][\A p \in Slot :
       pass'[p] > pass[p] =>
         pass'[p] - pass[p] = STRIDE1 \div (TOTAL \div Cardinality(Ready))]_vars

\* The tickets of the ready processes together.
Owned ==
  LET upto[n \in 0..NPROC] ==
        IF n = 0 THEN 0
        ELSE upto[n - 1] + (IF n \in Ready THEN tickets[n] ELSE 0)
  IN upto[NPROC]

\* Tickets that were transferred stay where they are: updateTickets() moves no
\* ticket between transfers while the ready processes own as many together as
\* it hands out (schdtest.c, "stride scheduler, with ticket trasfer at the
\* beginning").  The code hands out equal shares before every dispatch.
TransferStands ==
  [][\A c \in CPU :
       /\ sp[c] = "update" /\ Ready # {}
       /\ \A p \in Slot : pc[p] # "add"
       /\ Owned = count[c] * (TOTAL \div count[c])
       => tickets' = tickets]_vars

\* The stride branch never passes over a process with a smaller pass, and of
\* equal ones takes the lowest slot.
MinPassFirst ==
  [][\A p, q \in Slot :
       /\ Dispatched(p)
       /\ \E c \in CPU : sp[c] = "pick" /\ sp'[c] = "stride"
       /\ state[q] = "RUNNABLE"
       => pass[p] < pass[q] \/ (pass[p] = pass[q] /\ p <= q)]_vars

\* fork_winner(1) on one CPU, as long as the scheduler stays in its round
\* robin branch: when fork() returns in the parent after its yield, the child
\* has run (fork_rc_test: "Child is
\* scheduled to run").
ChildFirst ==
  [][\A p \in Slot :
       pc[p] = "winner" /\ pc'[p] = "user" => kid[p] = 0]_vars

\* A process never owns a negative number of tickets ("# of tickets proc
\* owns").  transfer_tickets() checks, may be preempted, and then subtracts
\* from what updateTickets() has changed meanwhile.
TicketsNonNegative == \A p \in Slot : tickets[p] >= 0
=============================================================================
