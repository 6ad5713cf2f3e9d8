----------------------------- MODULE ShellProcs -----------------------------
(***************************************************************************)
(* The processes that the shells make, with what both shells use of the    *)
(* system: fork, exit, wait, and the descriptors 0 and 1.  A process runs  *)
(* the steps of its code, a sequence in which what comes back to when a    *)
(* call of runcmd() or execcmd() returns stands behind the call: a child   *)
(* made by fork() has a copy of it.                                        *)
(***************************************************************************)
EXTENDS Integers, Sequences, FiniteSets, SequencesExt

CONSTANTS
  NSLOT,        \* processes that the system allows
  Lines,        \* what the user types: a set of sequences of lines
  Absent,       \* first characters of commands and files that do not exist
  Readers       \* first characters of commands that read all of their input

VARIABLES
  input,        \* lines that are still to be typed
  seen,         \* lines that a shell has read
  proc,         \* processes
  started,      \* commands that were started
  failed        \* a fork has failed

ghosts == <<started, failed>>
svars == <<input, seen, proc, started, failed>>

Slots == 1..NSLOT
AllLines == UNION {Range(ls) : ls \in Lines}
Shell == 1
Init_ == 0            \* the process that inherits orphans

\* What a descriptor refers to.
tty == <<"tty", 0>>
file == <<"file", 0>>
ReadEnd(k) == <<"r", k>>
WriteEnd(k) == <<"w", k>>

Nobody == [st |-> "free", parent |-> Init_, code |-> <<>>, in |-> tty, out |-> tty,
           held |-> {}, bg |-> FALSE]

\* One step of code: what to do, with what, and for whom.
Do(op, x) == <<[op |-> op, x |-> x]>>
Step(p) == Head(proc[p].code)
At_(p, op) == proc[p].st = "run" /\ Step(p).op = op
Rest_(p) == Tail(proc[p].code)

Init ==
  /\ input \in Lines
  /\ seen = <<>>
  /\ proc = [p \in Slots |-> IF p = Shell
                               THEN [Nobody EXCEPT !.st = "run", !.code = Do("main", 0)]
                               ELSE Nobody]
  /\ started = {} /\ failed = FALSE

-----------------------------------------------------------------------------
Free == {p \in Slots : proc[p].st = "free"}
Children(p) == {c \in Slots : proc[c].st # "free" /\ proc[c].parent = p}
Zombies(p) == {c \in Children(p) : proc[c].st = "zombie"}
Slot == CHOOSE c \in Free : \A d \in Free : c <= d

\* fork(): the child runs its own code, with the descriptors of its parent.
Fork(p, code) == [proc[p] EXCEPT !.parent = p, !.code = code]

\* Go on with other code.
Goto(p, code) == proc' = [proc EXCEPT ![p].code = code] /\ UNCHANGED <<input, seen, ghosts>>

\* exit(): a zombie with no descriptors, whose children go to init, which
\* reaps them; init also reaps the process itself if it is an orphan.
Exited(ps, p) ==
  [c \in Slots |->
     LET q == IF ps[c].st # "free" /\ ps[c].parent = p THEN [ps[c] EXCEPT !.parent = Init_]
              ELSE ps[c]
         z == IF c = p THEN [Nobody EXCEPT !.st = "zombie", !.parent = q.parent] ELSE q
     IN IF z.st = "zombie" /\ z.parent = Init_ THEN Nobody ELSE z]
Exit(p) == proc' = Exited(proc, p) /\ UNCHANGED <<input, seen, ghosts>>

\* fork() fails, and the caller says so and exits.
ForkPanic(p) ==
  /\ Free = {}
  /\ proc' = Exited(proc, p) /\ failed' = TRUE
  /\ UNCHANGED <<input, seen, started>>

\* wait(): one zombie is taken away, and the code goes on as it says.
Reap(p, Code(_)) ==
  \E c \in Zombies(p) :
    /\ proc' = [proc EXCEPT ![c] = Nobody, ![p].code = Code(c)]
    /\ UNCHANGED <<input, seen, ghosts>>

Holds(q, d) == d \in {q.in, q.out} \cup q.held
Open(d) == \E p \in Slots : proc[p].st = "run" /\ Holds(proc[p], d)

\* pipe(): a number that no open pipe has.
NewPipe == CHOOSE k \in Slots : ~Open(ReadEnd(k)) /\ ~Open(WriteEnd(k))

\* A program: it ends, one that reads its input when that has ended.
program(p) ==
  /\ At_(p, "program")
  /\ ~(\E k \in Slots : /\ Step(p).x[1] \in Readers
                        /\ proc[p].in = ReadEnd(k)
                        /\ Open(WriteEnd(k)))
  /\ Exit(p)

Finished == /\ \A p \in Slots : proc[p].st = "free"
            /\ UNCHANGED svars

-----------------------------------------------------------------------------
Running(w) == \E p \in Slots : At_(p, "program") /\ Step(p).x = w

\* Processes that a process waits for, at once or by way of others.
Waits(p) == proc[p].st = "run" /\ Step(p).op \in {"wait", "waitfor", "waitall"}
Descends(c, p) ==
  LET up[n \in 0..NSLOT] == IF n = 0 THEN c
                            ELSE IF up[n - 1] = Init_ THEN Init_
                            ELSE proc[up[n - 1]].parent
  IN \E n \in 1..NSLOT : up[n] = p

\* Nobody keeps a pipe open while it waits for the command that reads the
\* pipe to its end, and neither does the reader itself: the pipeline could
\* never finish.
NoSelfWait ==
  \A c \in Slots, k \in Slots :
    At_(c, "program") /\ proc[c].in = ReadEnd(k) =>
      /\ ~Holds(proc[c], WriteEnd(k))
      /\ \A p \in Slots : Waits(p) /\ Holds(proc[p], WriteEnd(k)) => ~Descends(c, p)
=============================================================================
