------------------------------ MODULE MyShell ------------------------------
(***************************************************************************)
(* The shell of project 3 (main.c): the shell itself parses a line and     *)
(* walks through it in execcmd(), which forks for the single commands and  *)
(* returns, in the shell and in every child that does not exit first.      *)
(***************************************************************************)
EXTENDS ShellProcs

CONSTANT MAXARGS

Parse == INSTANCE ShellParser WITH Parens <- FALSE
Parsings == [line \in AllLines |-> Parse!parsecmd(line)]
Text(parsed, word) == Parse!String(parsed.text, word)

\* execcmd() on a node of a parsed line.
execcmd(parsed, cmd) == Do("execcmd", [parsed EXCEPT !.cmd = cmd])
Cmd(p) == Step(p).x.cmd
Sub(p, cmd) == execcmd(Step(p).x, cmd)
Is(p, type) == At_(p, "execcmd") /\ Cmd(p).type = type
exits == Do("exit", 0)

-----------------------------------------------------------------------------
\* main(): a line that cannot be parsed, exit, and the end of the input all
\* end the process.
main(p) ==
  /\ At_(p, "main")
  /\ \/ input = <<>> /\ Exit(p)
     \/ /\ input # <<>>
        /\ input' = Tail(input) /\ seen' = Append(seen, Head(input))
        /\ LET r == Parsings[Head(input)] IN
           proc' = IF r.st = "ok"
                     THEN [proc EXCEPT ![p].code = execcmd(r, r.cmd) \o Do("main", 0)]
                     ELSE Exited(proc, p)
        /\ UNCHANGED ghosts

\* EXEC: the child has all that comes after execcmd() before it, too; the
\* parent waits for this child.
exec(p) ==
  /\ Is(p, "EXEC")
  /\ IF Cmd(p).argv = <<>> THEN Goto(p, Rest_(p))
     ELSE /\ Free # {}
          /\ proc' = [proc EXCEPT
               ![Slot] = Fork(p, Do("execvp", Text(Step(p).x, Cmd(p).argv[1])) \o Rest_(p)),
               ![p].code = Do("waitfor", Slot) \o Rest_(p)]
          /\ UNCHANGED <<input, seen, ghosts>>

\* A command that cannot be executed: the child goes on where the parent will.
execvp(p) ==
  /\ At_(p, "execvp")
  /\ LET w == Step(p).x IN
     IF w[1] \in Absent THEN Goto(p, Rest_(p))
     ELSE /\ proc' = [proc EXCEPT ![p].code = Do("program", w)]
          /\ started' = started \cup {w}
          /\ UNCHANGED <<input, seen, failed>>

\* REDIR: copies of descriptors 0 and 1 that nobody closes, and a child.
redirect(p) ==
  /\ Is(p, "REDIR")
  /\ Free # {}
  /\ LET q == [proc[p] EXCEPT !.held = @ \cup {proc[p].in, proc[p].out}] IN
     proc' = [proc EXCEPT
       ![Slot] = [q EXCEPT !.parent = p, !.code = Do("open", Step(p).x) \o exits],
       ![p] = [q EXCEPT !.code = Do("waitall", 0) \o Rest_(p)]]
  /\ UNCHANGED <<input, seen, ghosts>>

\* The child of REDIR: a file that cannot be opened leaves the descriptor.
open(p) ==
  /\ At_(p, "open")
  /\ LET absent == Cmd(p).fd = 0 /\ Text(Step(p).x, Cmd(p).file)[1] \in Absent IN
     proc' = [proc EXCEPT
       ![p].in = IF Cmd(p).fd = 0 /\ ~absent THEN file ELSE @,
       ![p].out = IF Cmd(p).fd = 1 THEN file ELSE @,
       ![p].code = Sub(p, Cmd(p).cmd) \o Rest_(p)]
  /\ UNCHANGED <<input, seen, ghosts>>

\* Mutant of list: the left side is not waited for.
listAtOnce(p) ==
  /\ Is(p, "LIST")
  /\ proc' = IF Free = {} THEN [proc EXCEPT ![p].code = Sub(p, Cmd(p).right) \o Rest_(p)]
             ELSE [proc EXCEPT ![Slot] = Fork(p, Sub(p, Cmd(p).left) \o exits),
                               ![p].code = Sub(p, Cmd(p).right) \o Rest_(p)]
  /\ failed' = (failed \/ Free = {})
  /\ UNCHANGED <<input, seen, started>>

\* LIST: the left side in a child, if there can be one, then the right side.
list(p) ==
  /\ Is(p, "LIST")
  /\ LET code == Do("wait", 0) \o Sub(p, Cmd(p).right) \o Rest_(p) IN
     proc' = IF Free = {} THEN [proc EXCEPT ![p].code = code]
             ELSE [proc EXCEPT ![Slot] = Fork(p, Sub(p, Cmd(p).left) \o exits),
                               ![p].code = code]
  /\ failed' = (failed \/ Free = {})
  /\ UNCHANGED <<input, seen, started>>

\* PIPE, up to the first fork: the writer, which keeps a copy of its output.
\* If pipe() fails, the process ends.
pipe(p) ==
  /\ Is(p, "PIPE")
  /\ \/ Exit(p)
     \/ /\ Free # {}
        /\ proc' = [proc EXCEPT
             ![Slot] = [Fork(p, Sub(p, Cmd(p).left) \o exits) EXCEPT
                          !.out = WriteEnd(NewPipe), !.held = @ \cup {proc[p].out}],
             ![p].code = Do("pipe2", [pipe |-> NewPipe, line |-> Step(p).x]) \o Rest_(p),
             ![p].held = @ \cup {ReadEnd(NewPipe), WriteEnd(NewPipe)}]
        /\ UNCHANGED <<input, seen, ghosts>>

\* The second fork: the reader, which keeps a copy of its input; the parent
\* closes the pipe and waits for all its children.
pipe2(p) ==
  LET k == Step(p).x.pipe  line == Step(p).x.line IN
  /\ At_(p, "pipe2")
  /\ Free # {}
  /\ proc' = [proc EXCEPT
       ![Slot] = [Fork(p, execcmd(line, line.cmd.right) \o exits) EXCEPT
                    !.in = ReadEnd(k),
                    !.held = (@ \ {ReadEnd(k), WriteEnd(k)}) \cup {proc[p].in}],
       ![p].code = Do("waitall", 0) \o Do("dup2", 0) \o Rest_(p),
       ![p].held = @ \ {ReadEnd(k), WriteEnd(k)}]
  /\ UNCHANGED <<input, seen, ghosts>>

\* The end of PIPE: saved_stdin and saved_stdout were never set here.  Their
\* values are arbitrary: an open descriptor (2 is the terminal), or none.
dup2(p) ==
  /\ At_(p, "dup2")
  /\ \E d, e \in {proc[p].in, proc[p].out, tty} \cup proc[p].held :
       proc' = [proc EXCEPT ![p].in = d, ![p].out = e, ![p].code = Rest_(p)]
  /\ UNCHANGED <<input, seen, ghosts>>

\* BACK: nobody waits for the child, but it stays a child.
back(p) ==
  /\ Is(p, "BACK")
  /\ Free # {}
  /\ proc' = [proc EXCEPT
       ![Slot] = [Fork(p, Sub(p, Cmd(p).cmd) \o exits) EXCEPT !.bg = TRUE],
       ![p].code = Rest_(p)]
  /\ UNCHANGED <<input, seen, ghosts>>

\* Every fork but that of LIST ends the process when it fails.
fork1(p) ==
  /\ \/ At_(p, "pipe2")
     \/ At_(p, "execcmd") /\ Cmd(p).type \in {"REDIR", "PIPE", "BACK"}
     \/ Is(p, "EXEC") /\ Cmd(p).argv # <<>>
  /\ ForkPanic(p)

\* wait(), in its three uses; it fails if there is no child.
wait(p) ==
  \/ At_(p, "wait") /\ Reap(p, LAMBDA c : Rest_(p))
  \/ At_(p, "waitfor") /\ Reap(p, LAMBDA c : IF c = Step(p).x THEN Rest_(p) ELSE proc[p].code)
  \/ At_(p, "waitall") /\ Reap(p, LAMBDA c : proc[p].code)
  \/ /\ At_(p, "wait") \/ At_(p, "waitall")
     /\ Children(p) = {} /\ Goto(p, Rest_(p))
exit(p) == At_(p, "exit") /\ Exit(p)

Next ==
  \/ \E p \in Slots :
       \/ main(p) \/ fork1(p) \/ exec(p) \/ execvp(p) \/ redirect(p) \/ open(p) \/ list(p)
       \/ pipe(p) \/ pipe2(p) \/ dup2(p) \/ back(p) \/ wait(p) \/ exit(p) \/ program(p)
  \/ Finished

Spec == Init /\ [][Next]_svars

-----------------------------------------------------------------------------
\* A child whose command could not be executed reads lines as a shell of its
\* own; but only one process at a time does, as its parent waits for it.
OnePrompt == \A p, q \in Slots : At_(p, "main") /\ At_(q, "main") => p = q

\* A shell that reads lines reads them from the terminal, whatever dup2() was
\* given after a pipe.
FromTerminal == \A p \in Slots : At_(p, "main") => proc[p].in = tty /\ proc[p].out = tty

\* Without background jobs, and as long as fork() succeeds, the prompt comes
\* when no command of the line runs.  A background job that ends is taken
\* for the left side of a list by wait(), and the line goes on too early.
Alone ==
  (~failed /\ \A i \in 1..Len(seen) : \A j \in 1..Len(seen[i]) : seen[i][j] # "&") =>
    \A p \in Slots : At_(p, "main") => \A q \in Slots : ~At_(q, "program")
=============================================================================
