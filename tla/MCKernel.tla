------------------------------ MODULE MCKernel ------------------------------
(***************************************************************************)
(* Two parts of the kernel that share no state here: the process table on  *)
(* two CPUs, and the buffer cache.  A behaviour is one of one part: the    *)
(* other stays in its initial state.  The cache has fewer buffers than the *)
(* disk has blocks, and one block of each level: of the log, of an inode   *)
(* or an indirect one, and of the bitmap.  Two processes at a time use it  *)
(* and change blocks, or three that wait for each other whatever the       *)
(* blocks contain.                                                         *)
(***************************************************************************)
EXTENDS Proc, Buf, TLC

VARIABLE part

\* Pids a program has learnt from fork(): every process but init.
ChildPids == 2..MaxPid

\* The users of the cache are alike: no code tells them apart.
Alike == Permutations(Procs)

Waiting == INSTANCE Buf WITH MAXVAL <- 0
Rests(p) == io[p] = Idle /\ \A k \in Blocks : held[p][k] = Nil
TwoAtATime == \E p \in Procs : Rests(p)

KernelInit == part \in {"proc", "contents", "waiting"} /\ Init /\ BufInit
KernelNext ==
  \/ part = "proc" /\ Next /\ UNCHANGED <<part, bufvars>>
  \/ part = "contents" /\ BufNext /\ TwoAtATime' /\ UNCHANGED <<part, vars>>
  \/ part = "waiting" /\ Waiting!BufNext /\ UNCHANGED <<part, vars>>
KernelSpec == KernelInit /\ [][KernelNext]_<<part, vars, bufvars>>
=============================================================================
