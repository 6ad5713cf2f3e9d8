----------------------------- MODULE MCProcLive -----------------------------
(***************************************************************************)
(* Liveness of Proc on two machines, of which a behaviour has one: on two  *)
(* CPUs init and a child sleep for a time; on one CPU three processes      *)
(* compete for it, and nobody sleeps for a time.                           *)
(***************************************************************************)
EXTENDS Proc

VARIABLE machine

One == INSTANCE Proc WITH CPU <- {BootCpu}, MaxPid <- 3, MaxSleep <- 0

LiveInit ==
  \/ machine = "two" /\ Init
  \/ machine = "one" /\ One!Init
LiveNext ==
  /\ \/ machine = "two" /\ Next
     \/ machine = "one" /\ One!Next
  /\ UNCHANGED machine

\* What a CPU does to schedule, its timer, and what a process does in the
\* kernel.
Switches(c) ==
  \/ machine = "two" /\ SwitchStep(c)
  \/ machine = "one" /\ c = BootCpu /\ One!SwitchStep(c)
Ticks(c) ==
  \/ machine = "two" /\ Timer(c)
  \/ machine = "one" /\ c = BootCpu /\ One!Timer(c)
Advances(p) ==
  \/ machine = "two" /\ \E c \in CPU : cur[c] = p /\ KernelStep(c)
  \/ machine = "one" /\ cur[BootCpu] = p /\ One!KernelStep(BootCpu)

(***************************************************************************)
(* Fairness.  Spinlocks are not fair but a CPU that keeps trying for a     *)
(* lock that is free again and again gets it; the timer interrupts every   *)
(* CPU again and again; and a thread that is dispatched again and again    *)
(* completes its next kernel step in some time slice (a slice is much      *)
(* longer than a step).  User programs promise nothing: Syscall and Fault  *)
(* have no fairness.                                                       *)
(***************************************************************************)
LiveSpec ==
  /\ LiveInit /\ [][LiveNext]_<<vars, machine>>
  /\ \A c \in CPU : SF_vars(Switches(c)) /\ SF_vars(Ticks(c))
  /\ \A p \in Slot : SF_vars(Advances(p))
=============================================================================
