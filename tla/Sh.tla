--------------------------------- MODULE Sh ---------------------------------
(***************************************************************************)
(* The shell of xv6 (sh.c): main() forks a process for every line, which   *)
(* parses and runs it in runcmd() and never returns from there.            *)
(***************************************************************************)
EXTENDS ShellProcs

CONSTANT MAXARGS

Parse == INSTANCE ShellParser WITH Parens <- TRUE

\* The parser is that of ShellParser with its blocks.
gettoken(line, s) == Parse!gettoken(line, s)
parsecmd(line) == Parse!parsecmd(line)
nulterminate(line, cmd) == Parse!nulterminate(line, cmd)
Parsings == [line \in AllLines |-> parsecmd(line)]
Text(parsed, word) == Parse!String(parsed.text, word)

\* runcmd() on a node of a parsed line.
runcmd(parsed, cmd) == Do("runcmd", [parsed EXCEPT !.cmd = cmd])
Cmd(p) == Step(p).x.cmd
Sub(p, cmd) == runcmd(Step(p).x, cmd)
Is(p, type) == At_(p, "runcmd") /\ Cmd(p).type = type

-----------------------------------------------------------------------------
IsCd(line) == Len(line) >= 3 /\ SubSeq(line, 1, 3) = <<"c", "d", " ">>

\* main(): read a line; cd is the shell's own, anything else a child's.
main(p) ==
  /\ At_(p, "main")
  /\ \/ input = <<>> /\ Exit(p)
     \/ /\ input # <<>>
        /\ input' = Tail(input) /\ seen' = Append(seen, Head(input))
        /\ proc' = IF IsCd(Head(input)) THEN proc
                   ELSE [proc EXCEPT ![p].code = Do("run", Head(input)) \o @]
        /\ UNCHANGED ghosts

run(p) ==
  /\ At_(p, "run")
  /\ Free # {}
  /\ proc' = [proc EXCEPT ![Slot] = Fork(p, Do("parsecmd", Step(p).x)),
                          ![p].code = Do("wait", 0) \o Rest_(p)]
  /\ UNCHANGED <<input, seen, ghosts>>

\* The child of main(): a line that cannot be parsed ends it.
ParseLine(p) ==
  /\ At_(p, "parsecmd")
  /\ LET r == Parsings[Step(p).x] IN
     IF r.st = "ok" THEN Goto(p, runcmd(r, r.cmd)) ELSE Exit(p)

\* EXEC: an empty command and one that cannot be executed end the process.
exec(p) ==
  /\ Is(p, "EXEC")
  /\ LET argv == Cmd(p).argv IN
     IF argv = <<>> THEN Exit(p)
     ELSE LET w == Text(Step(p).x, argv[1]) IN
          IF w[1] \in Absent THEN Exit(p)
          ELSE /\ proc' = [proc EXCEPT ![p].code = Do("program", w)]
               /\ started' = started \cup {w}
               /\ UNCHANGED <<input, seen, failed>>

\* REDIR: close the descriptor and open the file in its place.
redirect(p) ==
  /\ Is(p, "REDIR")
  /\ IF Cmd(p).fd = 0 /\ Text(Step(p).x, Cmd(p).file)[1] \in Absent THEN Exit(p)
     ELSE /\ proc' = [proc EXCEPT
                 ![p].in = IF Cmd(p).fd = 0 THEN file ELSE @,
                 ![p].out = IF Cmd(p).fd = 1 THEN file ELSE @,
                 ![p].code = Sub(p, Cmd(p).cmd)]
          /\ UNCHANGED <<input, seen, ghosts>>

\* LIST: the left side in a child, then the right side here.
list(p) ==
  /\ Is(p, "LIST")
  /\ Free # {}
  /\ proc' = [proc EXCEPT ![Slot] = Fork(p, Sub(p, Cmd(p).left)),
                          ![p].code = Do("wait", 0) \o Sub(p, Cmd(p).right)]
  /\ UNCHANGED <<input, seen, ghosts>>

\* PIPE, up to the first fork: the writer.  If pipe() fails, the process ends.
pipe(p) ==
  /\ Is(p, "PIPE")
  /\ \/ Exit(p)
     \/ /\ Free # {}
        /\ proc' = [proc EXCEPT
             ![Slot] = [Fork(p, Sub(p, Cmd(p).left)) EXCEPT !.out = WriteEnd(NewPipe)],
             ![p].code = Do("pipe2", [pipe |-> NewPipe, line |-> Step(p).x]),
             ![p].held = @ \cup {ReadEnd(NewPipe), WriteEnd(NewPipe)}]
        /\ UNCHANGED <<input, seen, ghosts>>

\* The second fork: the reader; then the parent closes the pipe and waits twice.
pipe2(p) ==
  LET k == Step(p).x.pipe  line == Step(p).x.line IN
  /\ At_(p, "pipe2")
  /\ Free # {}
  /\ proc' = [proc EXCEPT
       ![Slot] = [Fork(p, runcmd(line, line.cmd.right)) EXCEPT
                    !.in = ReadEnd(k), !.held = @ \ {ReadEnd(k), WriteEnd(k)}],
       ![p].code = Do("wait", 0) \o Do("wait", 0) \o Do("exit", 0),
       ![p].held = @ \ {ReadEnd(k), WriteEnd(k)}]
  /\ UNCHANGED <<input, seen, ghosts>>

\* BACK: nobody waits for the child, which init inherits.
back(p) ==
  /\ Is(p, "BACK")
  /\ Free # {}
  /\ proc' = Exited([proc EXCEPT
       ![Slot] = [Fork(p, Sub(p, Cmd(p).cmd)) EXCEPT !.bg = TRUE]], p)
  /\ UNCHANGED <<input, seen, ghosts>>

\* fork1(): every fork of the shell that fails ends the process.
fork1(p) ==
  /\ \/ At_(p, "run") \/ At_(p, "pipe2")
     \/ At_(p, "runcmd") /\ Cmd(p).type \in {"LIST", "PIPE", "BACK"}
  /\ ForkPanic(p)

wait(p) == At_(p, "wait") /\ Reap(p, LAMBDA c : Rest_(p))
exit(p) == At_(p, "exit") /\ Exit(p)

Next ==
  \/ \E p \in Slots :
       \/ main(p) \/ run(p) \/ fork1(p) \/ ParseLine(p) \/ exec(p) \/ redirect(p) \/ list(p)
       \/ pipe(p) \/ pipe2(p) \/ back(p) \/ wait(p) \/ exit(p) \/ program(p)
  \/ Finished

Spec == Init /\ [][Next]_svars

-----------------------------------------------------------------------------
\* Commands of a parsed line, those in the background left out if need be.
RECURSIVE Commands(_, _, _)
Commands(parsed, cmd, all) ==
  CASE cmd.type = "EXEC" ->
         IF cmd.argv = <<>> THEN {} ELSE {Text(parsed, cmd.argv[1])}
    [] cmd.type = "REDIR" -> Commands(parsed, cmd.cmd, all)
    [] cmd.type = "BACK" -> IF all THEN Commands(parsed, cmd.cmd, all) ELSE {}
    [] OTHER -> Commands(parsed, cmd.left, all) \cup Commands(parsed, cmd.right, all)

\* Pairs of commands of which the first has to end before the second starts.
RECURSIVE Before(_, _)
Before(parsed, cmd) ==
  CASE cmd.type = "EXEC" -> {}
    [] cmd.type \in {"REDIR", "BACK"} -> Before(parsed, cmd.cmd)
    [] cmd.type = "PIPE" -> Before(parsed, cmd.left) \cup Before(parsed, cmd.right)
    [] OTHER -> Before(parsed, cmd.left) \cup Before(parsed, cmd.right)
                \cup (Commands(parsed, cmd.left, FALSE) \X Commands(parsed, cmd.right, TRUE))

\* A command behind a semicolon starts when all commands before it have
\* ended, those in the background excepted; the prompt comes when nothing of
\* the line is left in the foreground.  Both although wait() takes any child,
\* and as long as fork() does not fail: panic() leaves the other end of a
\* pipe behind.
Foreground == ~failed =>
  /\ seen # <<>> =>
       LET r == Parsings[Last(seen)] IN
       r.st = "ok" => \A vw \in Before(r, r.cmd) : ~(Running(vw[1]) /\ vw[2] \in started)
  /\ At_(Shell, "main") => \A p \in Slots \ {Shell} : proc[p].st # "free" => proc[p].bg
=============================================================================
