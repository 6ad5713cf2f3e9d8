------------------------------- MODULE Filter -------------------------------
(***************************************************************************)
(* Two programs that read files to their end: grep.c and wc.c.  read() of  *)
(* a file gives them as much as they ask for, read() of a pipe as little   *)
(* as its writer likes.  Used by the runs of TLC only, as the matcher is   *)
(* recursive.                                                              *)
(***************************************************************************)
EXTENDS Integers, Sequences, FiniteSets, FiniteSetsExt, SequencesExt

CONSTANTS
  BUFSIZE,      \* bytes in the programs' buffers
  Patterns,     \* regular expressions
  ArgLists      \* the files of a command line; NoSuch stands for a missing one

VARIABLE run    \* the program, its arguments, and its variables

NL == "nl"
blanks == {" ", NL}
NoSuch == <<"no such file">>
Zero == [l |-> 0, w |-> 0, c |-> 0, inword |-> FALSE]

\* main(): the first file is open, or there is none, and a pipe is the standard
\* input.
Init ==
  \E tool \in {"grep", "wc"}, re \in Patterns, argv \in ArgLists, stdin \in BOOLEAN :
    /\ tool = "wc" => re = <<>>
    /\ stdin => Len(argv) = 1 /\ argv[1] # NoSuch
    /\ run = [tool |-> tool, re |-> re, argv |-> argv, stdin |-> stdin, i |-> 1,
              at |-> 0, buf |-> <<>>, n |-> Zero, out |-> <<>>]

Open == run.i <= Len(run.argv) /\ run.argv[run.i] # NoSuch
File == run.argv[run.i]
\* What read() of up to max bytes may give.
Pieces(max) ==
  LET most == Min({max, Len(File) - run.at})
  IN {SubSeq(File, run.at + 1, run.at + k) : k \in (IF run.stdin THEN 1 ELSE Max({most, 1}))..most}

-----------------------------------------------------------------------------
RECURSIVE matchhere(_, _), matchstar(_, _, _)

\* re at the beginning of text
matchhere(re, text) ==
  CASE re = <<>> -> TRUE
    [] Len(re) > 1 /\ re[2] = "*" -> matchstar(re[1], SubSeq(re, 3, Len(re)), text)
    [] re = <<"$">> -> text = <<>>
    [] OTHER -> /\ text # <<>> /\ re[1] \in {".", text[1]}
                /\ matchhere(Tail(re), Tail(text))

\* c*re at the beginning of text
matchstar(c, re, text) ==
  \/ matchhere(re, text)
  \/ text # <<>> /\ c \in {".", text[1]} /\ matchstar(c, re, Tail(text))

match(re, text) ==
  IF re # <<>> /\ re[1] = "^"
    THEN matchhere(Tail(re), text)
    ELSE \E i \in 0..Len(text) : matchhere(re, SubSeq(text, i + 1, Len(text)))

\* The lines of a text that are ended, with their ends.
Ends(text) == SelectSeq([i \in 1..Len(text) |-> i], LAMBDA i : text[i] = NL)
LinesOf(text) ==
  LET e == Ends(text) IN
  [k \in 1..Len(e) |-> SubSeq(text, IF k = 1 THEN 1 ELSE e[k - 1] + 1, e[k])]
Printed(Wanted(_), text) ==
  FlattenSeq(SelectSeq(LinesOf(text), LAMBDA s : Wanted(Front(s))))

\* Mutant: the buffer starts empty before every read.
CarriedNot(text) == <<>>

\* What is behind the last line: carried over, but thrown away if there is no
\* line end in the buffer.
Carried(text) ==
  IF Ends(text) = <<>> THEN <<>> ELSE SubSeq(text, Last(Ends(text)) + 1, Len(text))

grep(piece) ==
  LET text == run.buf \o piece IN
  run' = [run EXCEPT
    !.at = @ + Len(piece),
    !.buf = Carried(text),
    !.out = @ \o Printed(LAMBDA s : match(run.re, s), text)]

Count(n, ch) ==
  [l |-> n.l + (IF ch = NL THEN 1 ELSE 0),
   w |-> n.w + (IF ch \notin blanks /\ ~n.inword THEN 1 ELSE 0),
   c |-> n.c + 1,
   inword |-> ch \notin blanks]

wc(piece) ==
  run' = [run EXCEPT !.at = @ + Len(piece), !.n = FoldLeft(Count, @, piece)]

-----------------------------------------------------------------------------
read ==
  /\ Open
  /\ \/ run.tool = "grep" /\ \E s \in Pieces(BUFSIZE - Len(run.buf) - 1) : grep(s)
     \/ run.tool = "wc" /\ \E s \in Pieces(BUFSIZE) : wc(s)

\* The end of a file: wc prints its counts, and the next file is opened.  What
\* grep has carried over, a last line without an end, is forgotten.
main ==
  /\ Open /\ run.at = Len(File)
  /\ run' = [run EXCEPT
       !.i = @ + 1, !.at = 0, !.buf = <<>>, !.n = Zero,
       !.out = IF run.tool = "wc" THEN Append(@, <<run.n.l, run.n.w, run.n.c>>) ELSE @]

\* A file that cannot be opened, or none left: exit().
Finished == ~Open /\ UNCHANGED run
Next == read \/ main \/ Finished

-----------------------------------------------------------------------------
\* A reference for match(): the positions at which a character of re, starred
\* or not, stands; a star stands behind its character.
Heads(re) ==
  CHOOSE H \in SUBSET (1..Len(re)) :
    \A k \in 1..Len(re) :
      k \in H <=> \/ k = 1
                  \/ k - 1 \in H /\ re[k] # "*"
                  \/ k - 2 \in H /\ re[k - 1] = "*"
\* Some division of the text gives every character of re its part.
Matches(re, text) ==
  LET front == re # <<>> /\ re[1] = "^"
      body == IF front THEN Tail(re) ELSE re
      all == SetToSortSeq(Heads(body), LAMBDA i, j : i < j)
      back == all # <<>> /\ Last(all) = Len(body) /\ body[Len(body)] = "$"
      item == IF back THEN Front(all) ELSE all
      Star(k) == item[k] < Len(body) /\ body[item[k] + 1] = "*"
  IN \E cut \in [0..Len(item) -> 0..Len(text)] :
       /\ front => cut[0] = 0
       /\ back => cut[Len(item)] = Len(text)
       /\ \A k \in 1..Len(item) :
            /\ IF Star(k) THEN cut[k] >= cut[k - 1] ELSE cut[k] = cut[k - 1] + 1
            /\ \A i \in (cut[k - 1] + 1)..cut[k] : body[item[k]] \in {".", text[i]}

Counts(text) ==
  <<Len(Ends(text)),
    Cardinality({i \in 1..Len(text) : /\ text[i] \notin blanks
                                      /\ i = 1 \/ text[i - 1] \in blanks}),
    Len(text)>>

\* What was read of file k.
ReadOf(k) == IF k < run.i THEN run.argv[k]
             ELSE IF k = run.i /\ Open THEN SubSeq(File, 1, run.at) ELSE <<>>
ReadLines == FlattenSeq([k \in 1..Len(run.argv) |-> LinesOf(ReadOf(k))])

\* grep() prints a line for each line that was read and ended, if its pattern
\* describes it, once and in their order: the whole line, if it came from a
\* file and fits into the buffer, and some end of it otherwise, since a buffer
\* without a line end is thrown away.
GrepPrints ==
  LET lines == ReadLines
      Whole(s) == ~run.stdin /\ Len(s) <= BUFSIZE - 1
      longest == Max({Len(lines[k]) : k \in 1..Len(lines)} \cup {1})
  IN \E cut \in [1..Len(lines) -> 0..(longest - 1)] :
       /\ \A k \in 1..Len(lines) : cut[k] < Len(lines[k]) /\ (Whole(lines[k]) => cut[k] = 0)
       /\ LET rest(k) == SubSeq(lines[k], cut[k] + 1, Len(lines[k]))
          IN run.out = FlattenSeq([k \in 1..Len(lines) |->
                         IF Matches(run.re, Front(rest(k))) THEN rest(k) ELSE <<>>])

\* wc() counts the same lines, words and characters in whatever pieces the
\* text comes.
WcCounts ==
  /\ \A k \in 1..Len(run.out) : run.out[k] = Counts(run.argv[k])
  /\ Len(run.out) = run.i - 1
  /\ Open => <<run.n.l, run.n.w, run.n.c>> = Counts(ReadOf(run.i))

Right == IF run.tool = "grep" THEN GrepPrints ELSE WcCounts
=============================================================================
