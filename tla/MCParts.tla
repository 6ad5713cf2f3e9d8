------------------------------ MODULE MCParts ------------------------------
(***************************************************************************)
(* Parts of the system that share no state: six of the kernel, the two     *)
(* allocators, grep and wc, the parsers of the two shells on every short   *)
(* line, and the two shells on some sessions.  A behaviour is one of one   *)
(* part: the others stay in their initial states.  The parts that          *)
(* theorems are about are extended, the others are instances.              *)
(***************************************************************************)
EXTENDS Vm, Parts

VARIABLES
  part,
  run,                                                        \* filter
  line, strokes,                                              \* line
  script, seen, procs, started, failed                        \* sh and shell

\* All regular expressions, and all texts, of up to three characters; texts
\* whose lines come out of several buffers; and more files than one.
SeqsOf(S, n) == UNION {[1..k -> S] : k \in 0..n}
Text(n) == SeqsOf({"a", " ", "nl"}, n)
Filter == INSTANCE Filter WITH
  BUFSIZE <- 3, Patterns <- SeqsOf({"a", ".", "*", "^", "$"}, 3),
  ArgLists <- {<<t>> : t \in Text(3)
                \cup {<<"nl", "a", "nl", "a", "nl">>, <<" ", "a", "a", "nl", "a", "nl">>}}
    \cup {<<<<"a", "nl">>, t>> : t \in Text(1) \cup {<<"no such file">>}}

\* Every line of up to LINE keys, and of up to ARGLINE if they only make
\* arguments: three words are too many for MAXARGS.
Exit == <<"e", "x", "i", "t">>
Typed == {<<c>> : c \in {"a", " ", "|", "&", ";", "<", ">", "(", ")"}} \cup {Exit}
LINE == 4
ArgKeys == {<<"a">>, <<" ">>, <<"<">>, Exit}
ARGLINE == 5
ShLine == INSTANCE CmdLine WITH Parens <- TRUE, MAXARGS <- 3, Keys <- Typed
MyLine == INSTANCE CmdLine WITH Parens <- FALSE, MAXARGS <- 3, Keys <- Typed

\* Sessions: lists, pipes, background jobs, a block, redirections, commands
\* and files that do not exist, a line that cannot be parsed, an empty line.
Lines == {
  <<<<"a", ";", "b">>>>,
  <<<<"a", "|", "r">>, <<"b">>>>,
  <<<<"a", "&">>, <<"b", ";", "d">>>>,
  <<<<"a", "|", "r", "|", "s">>>>,
  <<<<"(", "a", ";", "b", ")", "|", "r">>>>,
  <<<<"c", "d", " ", "x">>, <<"r", "<", "f", ">", "g">>, <<"r", "<", "x">>>>,
  <<<<"x">>, <<")">>, <<"a", "&", ";", "b">>>>,
  <<<<>>, <<"a">>>>,
  <<<<"a", "&">>, <<"x">>, <<"b">>>>}
Absent == {"x"}
Readers == {"r", "s"}
Sh == INSTANCE Sh WITH NSLOT <- 5, MAXARGS <- 4, input <- script, proc <- procs
MySh == INSTANCE MyShell WITH NSLOT <- 5, MAXARGS <- 4, input <- script, proc <- procs

linevars == <<line, strokes>>
shvars == <<script, seen, procs, started, failed>>
devices == <<convars, kbdvars, scrvars>>
kernel == <<vmvars, devices, namevars, call>>
user == <<umvars, myvars, run, linevars, shvars>>
allvars == <<part, kernel, user>>

\* A path and a process for the behaviours of other parts.
SomePath == path = <<"/">> /\ name = [i \in Bytes |-> NUL] /\ dir = <<>> /\ made = {}
SomeProcess == call = [sz |-> 0, esp |-> 0, op |-> "none", at |-> 0, n |-> 0, ok |-> FALSE]

PartsInit ==
  /\ part \in {"vm", "console", "kbd", "screen", "names", "args",
              "umalloc", "my_malloc", "filter", "line", "sh", "shell"}
  /\ VmInit /\ ConInit /\ KbdInit /\ ScrInit
  /\ IF part = "names" THEN NamesInit ELSE SomePath
  /\ IF part = "args" THEN ArgsInit ELSE SomeProcess
  /\ IF part = "filter" THEN Filter!Init ELSE run = <<>>
  /\ UmInit /\ MyInit /\ ShLine!Init /\ Sh!Init
  /\ part \notin {"sh", "shell"} => script = <<<<"a", ";", "b">>>>

VmPart == part = "vm" /\ VmNext /\ UNCHANGED <<part, devices, namevars, call, user>>
ConPart ==
  /\ part = "console" /\ ConNext
  /\ UNCHANGED <<part, vmvars, kbdvars, scrvars, namevars, call, user>>
KbdPart ==
  /\ part = "kbd" /\ KbdNext
  /\ UNCHANGED <<part, vmvars, convars, scrvars, namevars, call, user>>
ScrPart ==
  /\ part = "screen" /\ ScrNext
  /\ UNCHANGED <<part, vmvars, convars, kbdvars, namevars, call, user>>
NamesPart == part = "names" /\ NamesNext /\ UNCHANGED <<part, vmvars, devices, call, user>>
ArgsPart == part = "args" /\ ArgsNext /\ UNCHANGED <<part, vmvars, devices, namevars, user>>
UmPart == part = "umalloc" /\ UmNext /\ UNCHANGED <<part, kernel, myvars, run, linevars, shvars>>
MyPart ==
  /\ part = "my_malloc"
  /\ MyNext \/ (clobbered /\ UNCHANGED myvars)
  /\ UNCHANGED <<part, kernel, umvars, run, linevars, shvars>>
FilterPart == part = "filter" /\ Filter!Next /\ UNCHANGED <<part, kernel, umvars, myvars, linevars, shvars>>
LinePart ==
  /\ part = "line"
  /\ ShLine!Next \/ (Len(strokes) >= LINE /\ UNCHANGED linevars)
  /\ UNCHANGED <<part, kernel, umvars, myvars, run, shvars>>
ShPart == part = "sh" /\ Sh!Next /\ UNCHANGED <<part, kernel, umvars, myvars, run, linevars>>
MyShPart == part = "shell" /\ MySh!Next /\ UNCHANGED <<part, kernel, umvars, myvars, run, linevars>>

PartsNext ==
  \/ VmPart \/ ConPart \/ KbdPart \/ ScrPart \/ NamesPart \/ ArgsPart
  \/ UmPart \/ MyPart \/ FilterPart \/ LinePart \/ ShPart \/ MyShPart
PartsSpec == PartsInit /\ [][PartsNext]_allvars

-----------------------------------------------------------------------------
\* grep prints the lines of a file that its regular expression describes, and
\* of a pipe the ends of lines that it describes (grep, match); wc does not
\* depend on the pieces in which a text comes (wc).
Filters == part = "filter" => Filter!Right
\* Both parsers accept the language of the shell and nothing else, and the
\* command has the words and operators of the line (nulterminate).
CommandLine == part = "line" => ShLine!Understood /\ MyLine!Understood
\* sh.c runs the commands of a line in turn, and prompts afterwards; neither
\* shell waits for a reader whose pipe it keeps open; and one process of the
\* project 3 shell reads lines, from the terminal, and while no command of the
\* line runs (runcmd, execcmd).
Shells ==
  /\ part = "sh" => Sh!Foreground
  /\ part \in {"sh", "shell"} => Sh!NoSelfWait
  /\ part = "shell" => MySh!OnePrompt /\ MySh!FromTerminal /\ MySh!Alone
=============================================================================
