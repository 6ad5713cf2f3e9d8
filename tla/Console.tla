------------------------------- MODULE Console -------------------------------
(***************************************************************************)
(* Input of the console (console.c): the keyboard and the serial line put  *)
(* characters into a ring from their interrupts, processes take them out.  *)
(* The indexes of the ring are unsigned and wrap around.                   *)
(***************************************************************************)
EXTENDS Integers, Sequences, FiniteSets, SequencesExt

CONSTANTS
  INPUT_BUF,    \* characters in the ring
  UINT,         \* numbers of a uint
  Letters,      \* characters without a meaning
  Users,        \* readers
  MAXREAD       \* largest number of bytes asked for

\* The ring size divides the numbers of a uint, and is not all of them.
ASSUME RingAssumption ==
  /\ INPUT_BUF \in Nat \ {0} /\ MAXREAD \in Nat
  /\ UINT \in Nat /\ UINT > INPUT_BUF /\ UINT % INPUT_BUF = 0

VARIABLES
  input,        \* the ring: buf, r (read), w (write), e (edit)
  reader        \* what each process does

convars == <<input, reader>>

NL == "nl"      \* '\n', or '\r' that becomes one
EOF == "eof"    \* C('D')
Controls == {"kill", "erase", "procdump", "nul"}
ConChars == Letters \cup {NL, EOF} \cup Controls
Wrap(x) == x % UINT

\* The characters of the ring from index i up to index j.
Between(in, i, j) == [k \in 1..Wrap(j - i) |-> in.buf[Wrap(i + k - 1) % INPUT_BUF]]
Ready(in) == Between(in, in.r, in.w)
Edited(in) == Between(in, in.w, in.e)

NotReading(got) == [at |-> "idle", n |-> 0, target |-> 0, killed |-> FALSE, got |-> got]

ConInit ==
  /\ input = [buf |-> [i \in 0..(INPUT_BUF - 1) |-> "nul"], r |-> 0, w |-> 0, e |-> 0]
  /\ reader = [p \in Users |-> NotReading(0)]

-----------------------------------------------------------------------------
\* wakeup(&input.r)
Woken(rd) == [p \in Users |-> IF rd[p].at = "asleep" THEN [rd[p] EXCEPT !.at = "awake"] ELSE rd[p]]

HasRoom == Wrap(input.e - input.r) < INPUT_BUF

\* Mutant of Ends: a full ring is not handed over.
EndsLine(c, e) == c \in {NL, EOF}
\* The line is handed over: it is ended, or the ring is full.
Ends(c, e) == c \in {NL, EOF} \/ e = Wrap(input.r + INPUT_BUF)

\* A character of no special meaning.
typed(c) ==
  LET e == Wrap(input.e + 1) IN
  /\ HasRoom
  /\ input' = [input EXCEPT !.buf[input.e % INPUT_BUF] = c, !.e = e,
                            !.w = IF Ends(c, e) THEN e ELSE @]
  /\ reader' = IF Ends(c, e) THEN Woken(reader) ELSE reader

\* How many characters ^U takes back: up to the line before.
KillLength == LET line == Edited(input) IN
  Len(line) - (CHOOSE i \in 0..Len(line) :
                 /\ i > 0 => line[i] = NL
                 /\ \A j \in (i + 1)..Len(line) : line[j] # NL)

\* consoleintr(), for one character; ^P prints the processes.
consoleintr(c) ==
  \/ c \in Letters \cup {NL, EOF} /\ typed(c)
  \/ c = "kill" /\ input' = [input EXCEPT !.e = Wrap(@ - KillLength)] /\ UNCHANGED reader
  \/ c = "erase" /\ input.e # input.w
     /\ input' = [input EXCEPT !.e = Wrap(@ - 1)] /\ UNCHANGED reader

\* The loop of consoleread() as far as it gets without sleeping: how many
\* characters are passed, how many taken, and whether the read is over.
Stop(s, n) == {i \in 1..Len(s) : i <= n /\ s[i] \in {NL, EOF}}
Consumed(s, n, target) ==
  IF Stop(s, n) = {} THEN IF Len(s) < n THEN Len(s) ELSE n
  ELSE LET i == CHOOSE i \in Stop(s, n) : \A j \in Stop(s, n) : i <= j IN
       IF s[i] = EOF /\ n - (i - 1) < target THEN i - 1 ELSE i
Passed(s, n) ==
  IF Stop(s, n) = {} THEN IF Len(s) < n THEN Len(s) ELSE n
  ELSE LET i == CHOOSE i \in Stop(s, n) : \A j \in Stop(s, n) : i <= j IN
       IF s[i] = EOF THEN i - 1 ELSE i

\* One turn of consoleread(), from entry or from sleep() to sleep() or return.
Turn(p, n, target) ==
  LET s == Ready(input)
      left == n - Passed(s, n)
      over == Stop(s, n) # {} \/ left = 0
  IN /\ input' = [input EXCEPT !.r = Wrap(@ + Consumed(s, n, target))]
     /\ reader' = [reader EXCEPT ![p] =
          IF over THEN NotReading(target - left)
          ELSE IF @.killed THEN NotReading(-1)
          ELSE [@ EXCEPT !.at = "asleep", !.n = left, !.target = target]]

consoleread(p) ==
  /\ reader[p].at = "idle"
  /\ \E n \in 0..MAXREAD : Turn(p, n, n)

wake(p) ==
  /\ reader[p].at = "awake"
  /\ Turn(p, reader[p].n, reader[p].target)

\* kill(): the process is marked, and woken if it sleeps.
kill(p) ==
  /\ ~reader[p].killed
  /\ reader' = [reader EXCEPT ![p].killed = TRUE,
                              ![p].at = IF @ = "asleep" THEN "awake" ELSE @]
  /\ UNCHANGED input

ConNext ==
  \/ \E c \in ConChars : consoleintr(c)
  \/ \E p \in Users : consoleread(p) \/ wake(p) \/ kill(p)

ConSpec == ConInit /\ [][ConNext]_convars

-----------------------------------------------------------------------------
\* Through every wrap of the indexes the ring is a queue of characters that
\* leaves them in the order they came, never overwrites one that is not read,
\* and gives up a line that no longer fits.
Abstract == INSTANCE LineInput WITH line <- Edited(input), ready <- Ready(input)
LineByLine == Abstract!Spec

\* A reader never sleeps while there is something to read.
ReaderAwake == \A p \in Users : reader[p].at = "asleep" =>
                 input.r = input.w /\ ~reader[p].killed

Eofs(in) == Cardinality({i \in 1..Len(Ready(in)) : Ready(in)[i] = EOF})
\* An end of file goes to exactly one read, which returns zero bytes for it,
\* although it may have been met by a read that had characters already.
EofOnce == [][\A p \in Users :
                reader[p].at # "asleep" /\ reader'[p] # reader[p] /\ Eofs(input') < Eofs(input)
                => reader'[p].at = "idle" /\ reader'[p].got = 0]_convars
=============================================================================
