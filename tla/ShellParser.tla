---------------------------- MODULE ShellParser ----------------------------
(***************************************************************************)
(* The command line parser of the two shells: parser.c of project 3 and    *)
(* its ancestor in sh.c, which also knows blocks in parentheses.  A line   *)
(* is a sequence of characters and a word of it a pair of positions, its   *)
(* first character and the one behind its last, as the pointers of argv    *)
(* and eargv.  Used by the runs of TLC only.                               *)
(***************************************************************************)
EXTENDS Integers, Sequences, SequencesExt

CONSTANTS
  Parens,       \* sh.c: blocks, and no exit command
  MAXARGS       \* entries of argv[], the last one null

NUL == "nul"
whitespace == {" "}
symbols == {"<", "|", ">", "&", ";"} \cup (IF Parens THEN {"(", ")"} ELSE {})

\* The character at a position; the line ends in a zero byte.
At(line, s) == IF s \in 1..Len(line) THEN line[s] ELSE NUL

\* The first position from s on at which a character of the set does not stand.
Past(line, s, Chars(_)) ==
  CHOOSE e \in s..(Len(line) + 1) :
    /\ e = Len(line) + 1 \/ ~Chars(line[e])
    /\ \A i \in s..(e - 1) : Chars(line[i])
Skip(line, s) == Past(line, s, LAMBDA c : c \in whitespace)

gettoken(line, s) ==
  LET q == Skip(line, s)
      c == At(line, q)
      append == c = ">" /\ At(line, q + 1) = ">"
      eq == CASE c = NUL -> q
              [] append -> q + 2
              [] c \in symbols -> q + 1
              [] OTHER -> Past(line, q, LAMBDA x : x \notin whitespace \cup symbols)
  IN [ret |-> IF append THEN "+" ELSE IF c \in symbols \cup {NUL} THEN c ELSE "a",
      c |-> c, word |-> <<q, eq>>, s |-> Skip(line, eq)]

\* The tokens of a line, by the position they are asked for at, and peek(),
\* which looks at the first character of the next one.
Tokens(line) == [s \in 1..(Len(line) + 1) |-> gettoken(line, s)]
peek(L, s, toks) == L[s].c \in toks

-----------------------------------------------------------------------------
\* The constructors.
execcmd(argv) == [type |-> "EXEC", argv |-> argv]
redircmd(cmd, file, fd) == [type |-> "REDIR", cmd |-> cmd, file |-> file, fd |-> fd]
pipecmd(left, right) == [type |-> "PIPE", left |-> left, right |-> right]
listcmd(left, right) == [type |-> "LIST", left |-> left, right |-> right]
backcmd(cmd) == [type |-> "BACK", cmd |-> cmd]

\* What a parsing function returns, with the position it has reached; a call
\* of panic() or exit() ends the process instead.
Parsed(cmd, s) == [st |-> "ok", cmd |-> cmd, s |-> s]
Ends(how) == [st |-> how, cmd |-> execcmd(<<>>), s |-> 0]
Fails(r) == r.st # "ok"

(***************************************************************************)
(* The parsing functions call each other, at the same position or further  *)
(* on.  P of a function's name and a position is what it returns there; L  *)
(* are the tokens of the line.                                             *)
(***************************************************************************)
Spells(line, word, text) == SubSeq(line, word[1], word[2] - 1) = text

\* A part of a simple command: its arguments and its redirections.
Part(argv, redirs) == [argv |-> argv, redirs |-> redirs]
Both(a, b) == Part(a.argv \o b.argv, a.redirs \o b.redirs)
Wrap(cmd, redirs) == FoldLeft(LAMBDA c, r : redircmd(c, r.word, r.fd), cmd, redirs)

parseredirs(L, P, s) ==
  LET tok == L[s]
      name == L[tok.s]
      more == P[<<"redirs", name.s>>]
      redir == [word |-> name.word, fd |-> IF tok.ret = "<" THEN 0 ELSE 1]
  IN IF ~peek(L, s, {"<", ">"}) THEN Parsed(Part(<<>>, <<>>), s)
     ELSE IF name.ret # "a" THEN Ends("panic")
     ELSE IF Fails(more) THEN more
     ELSE Parsed(Both(Part(<<>>, <<redir>>), more.cmd), more.s)

\* The loop of parseexec(), for the first word and for the others.
parseargs(line, L, P, first, s) ==
  LET t == L[s]
      r == P[<<"redirs", t.s>>]
      more == P[<<"args", r.s>>]
      exits == ~Parens /\ first /\ Spells(line, t.word, <<"e", "x", "i", "t">>)
  IN IF peek(L, s, {"|", ")", "&", ";", NUL}) THEN Parsed(Part(<<>>, <<>>), s)
     ELSE IF t.ret # "a" THEN Ends("panic")
     ELSE IF exits THEN Ends("exit")
     ELSE IF Fails(r) THEN r
     ELSE IF Fails(more) THEN more
     ELSE Parsed(Both(Part(<<t.word>>, r.cmd.redirs), more.cmd), more.s)

\* A block of sh.c: parsed as a line, then its redirections.
parseblock(L, P, s) ==
  LET l == P[<<"line", L[s].s>>]
      r == P[<<"redirs", L[l.s].s>>]
  IN IF Fails(l) THEN l
     ELSE IF ~peek(L, l.s, {")"}) THEN Ends("panic")
     ELSE IF Fails(r) THEN r
     ELSE Parsed(Wrap(l.cmd, r.cmd.redirs), r.s)

parseexec(L, P, s) ==
  LET r == P[<<"redirs", s>>]
      args == P[<<"args0", r.s>>]
      all == Both(r.cmd, args.cmd)
  IN IF Parens /\ peek(L, s, {"("}) THEN P[<<"block", s>>]
     ELSE IF Fails(r) THEN r
     ELSE IF Fails(args) THEN args
     ELSE IF Len(all.argv) >= MAXARGS THEN Ends("panic")
     ELSE Parsed(Wrap(execcmd(all.argv), all.redirs), args.s)

parsepipe(L, P, s) ==
  LET l == P[<<"exec", s>>]
      r == P[<<"pipe", L[l.s].s>>]
  IN IF Fails(l) THEN l
     ELSE IF ~peek(L, l.s, {"|"}) THEN l
     ELSE IF Fails(r) THEN r
     ELSE Parsed(pipecmd(l.cmd, r.cmd), r.s)

\* The position behind n more ampersands.
Ampersands(L, s) ==
  LET at[n \in 0..Len(L)] == IF n = 0 THEN s ELSE L[at[n - 1]].s
      n == CHOOSE n \in 0..Len(L) :
             ~peek(L, at[n], {"&"}) /\ \A m \in 0..(n - 1) : peek(L, at[m], {"&"})
  IN [n |-> n, s |-> at[n]]

parseline(L, P, s) ==
  LET p == P[<<"pipe", s>>]
      amp == Ampersands(L, p.s)
      left == FoldLeft(LAMBDA c, i : backcmd(c), p.cmd, [i \in 1..amp.n |-> i])
      r == P[<<"line", L[amp.s].s>>]
  IN IF Fails(p) THEN p
     ELSE IF ~peek(L, amp.s, {";"}) THEN Parsed(left, amp.s)
     ELSE IF Fails(r) THEN r
     ELSE Parsed(listcmd(left, r.cmd), r.s)

Callees == <<"redirs", "args", "args0", "block", "exec", "pipe", "line">>
Call(line, L, P, f, s) ==
  CASE f = "redirs" -> parseredirs(L, P, s)
    [] f = "args0" -> parseargs(line, L, P, TRUE, s)
    [] f = "args" -> parseargs(line, L, P, FALSE, s)
    [] f = "block" -> parseblock(L, P, s)
    [] f = "exec" -> parseexec(L, P, s)
    [] f = "pipe" -> parsepipe(L, P, s)
    [] f = "line" -> parseline(L, P, s)

\* What all of them return, from the end of the line to its beginning.
Parser(line) ==
  LET n == Len(line) + 1
      L == Tokens(line)
      calls == [i \in 1..(n * 7) |-> <<Callees[((i - 1) % 7) + 1], n - ((i - 1) \div 7)>>]
  IN FoldLeft(LAMBDA P, c : [P EXCEPT ![c] = Call(line, L, P, c[1], c[2])],
              [c \in Range(Callees) \X (1..n) |-> Ends("never")], calls)

\* The words of a command: arguments and files.
RECURSIVE Words(_)
Words(cmd) ==
  CASE cmd.type = "EXEC" -> Range(cmd.argv)
    [] cmd.type = "REDIR" -> Words(cmd.cmd) \cup {cmd.file}
    [] cmd.type \in {"PIPE", "LIST"} -> Words(cmd.left) \cup Words(cmd.right)
    [] OTHER -> Words(cmd.cmd)

\* Mutant of nulterminate: the files of redirections are forgotten.
RECURSIVE Arguments(_)
Arguments(cmd) ==
  CASE cmd.type = "EXEC" -> Range(cmd.argv)
    [] cmd.type \in {"PIPE", "LIST"} -> Arguments(cmd.left) \cup Arguments(cmd.right)
    [] OTHER -> Arguments(cmd.cmd)
nulterminateArgs(line, cmd) ==
  [i \in DOMAIN line |-> IF \E w \in Arguments(cmd) : w[2] = i THEN NUL ELSE line[i]]

\* nulterminate(): a zero byte behind every word.
nulterminate(line, cmd) ==
  [i \in DOMAIN line |-> IF \E w \in Words(cmd) : w[2] = i THEN NUL ELSE line[i]]

\* parsecmd(): the command, and the line as it is left.
parsecmd(line) ==
  LET r == Parser(line)[<<"line", 1>>] IN
  CASE r.st # "ok" -> [st |-> r.st, cmd |-> r.cmd, text |-> line]
    [] r.st = "ok" /\ Skip(line, r.s) # Len(line) + 1 ->
         [st |-> "panic", cmd |-> r.cmd, text |-> line]
    [] OTHER -> [st |-> "ok", cmd |-> r.cmd, text |-> nulterminate(line, r.cmd)]

\* The string that a pointer to a word's first character denotes.
String(text, word) ==
  SubSeq(text, word[1], Past(text, word[1], LAMBDA c : c # NUL) - 1)
=============================================================================
