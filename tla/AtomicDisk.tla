----------------------------- MODULE AtomicDisk -----------------------------
(***************************************************************************)
(* What the logging layer promises the file system: a disk on which the    *)
(* updates of a group of system calls become durable together or not at    *)
(* all, and never while one of the calls is still under way.               *)
(***************************************************************************)
CONSTANTS
  Proc,         \* processes executing file system calls
  Block,        \* home blocks of the file system
  Val,          \* block contents
  Zero          \* the contents of a fresh disk

VARIABLES
  mem,          \* what a read of each block returns
  dur,          \* what a reboot would find in each block
  active        \* the processes inside begin_op() ... end_op()

vars == <<mem, dur, active>>

Init ==
  /\ mem = [b \in Block |-> Zero]
  /\ dur = mem
  /\ active = {}

Begin(p) ==
  /\ active' = active \cup {p}
  /\ UNCHANGED <<mem, dur>>

\* Only a process inside an operation changes blocks, and only in memory.
Write(p) ==
  /\ p \in active
  /\ \E b \in Block, v \in Val : mem' = [mem EXCEPT ![b] = v]
  /\ UNCHANGED <<dur, active>>

End(p) ==
  /\ p \in active
  /\ active' = active \ {p}
  /\ UNCHANGED <<mem, dur>>

\* Everything written so far becomes durable in one step.
Commit ==
  /\ active = {}
  /\ dur' = mem
  /\ UNCHANGED <<mem, active>>

\* A crash and the reboot after it.
Crash ==
  /\ mem' = dur
  /\ active' = {}
  /\ UNCHANGED dur

Next ==
  \/ Commit \/ Crash
  \/ \E p \in Proc : Begin(p) \/ Write(p) \/ End(p)

Spec == Init /\ [][Next]_vars
=============================================================================
