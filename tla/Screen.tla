------------------------------- MODULE Screen -------------------------------
(***************************************************************************)
(* Output of the console (console.c): a screen with a cursor, which        *)
(* scrolls.  The last row of the screen's memory is not used.              *)
(***************************************************************************)
EXTENDS Integers, Sequences

CONSTANTS
  COLS,         \* 80
  ROWS,         \* 25
  Glyphs,      \* characters
  MAXOUT        \* length of the paper

ASSUME ScreenAssumption ==
  COLS \in Nat \ {0} /\ ROWS \in Nat /\ ROWS > 1 /\ MAXOUT \in Nat

VARIABLES
  crt,          \* memory of the screen
  pos,          \* cursor: column + COLS * row
  paper,        \* history: what was put out, on a strip of paper
  cur, top      \* history: cursor on the paper, the place of the screen's start

scrvars == <<crt, pos, paper, cur, top>>

NEWLINE == "nl"
BACKSPACE == "bs"
Blank == "0"
Space == " "
Cells == 0..(ROWS * COLS - 1)
Shown == (ROWS - 1) * COLS

ScrInit ==
  /\ crt = [i \in Cells |-> Blank] /\ pos = 0
  /\ paper = <<>> /\ cur = 0 /\ top = 0

-----------------------------------------------------------------------------
\* memmove() of string.c within the memory of the screen, byte by byte: from
\* the end if the target lies in the source above its start.
memmove(m, d, s, n) ==
  LET at(k) == IF s < d /\ s + n > d THEN n - k ELSE k - 1
      copied[k \in 0..n] ==
        IF k = 0 THEN m
        ELSE [copied[k - 1] EXCEPT ![d + at(k)] = copied[k - 1][s + at(k)]]
  IN copied[n]

\* The cursor after c.
Moved(c) ==
  CASE c = NEWLINE -> pos + COLS - (pos % COLS)
    [] c = BACKSPACE -> IF pos > 0 THEN pos - 1 ELSE pos
    [] OTHER -> pos + 1

\* Mutant: the row that comes up is not cleared.
ScrolledOld(m, p) == memmove(m, 0, COLS, (ROWS - 2) * COLS)

\* Scroll up: the cursor goes one row up to p, and the rest is cleared.
Scrolled(m, p) ==
  LET up == memmove(m, 0, COLS, (ROWS - 2) * COLS)
  IN [i \in Cells |-> IF i \in p..(Shown - 1) THEN Blank ELSE up[i]]

\* cgaputc(); it would panic with the cursor off the screen, where ShowsTheEnd
\* says it never is.
cgaputc(c) ==
  LET put == IF c \in {NEWLINE, BACKSPACE} THEN crt ELSE [crt EXCEPT ![pos] = c]
      p == Moved(c)
      full == p \div COLS >= ROWS - 1
      q == IF full THEN p - COLS ELSE p
  IN /\ p \in 0..(ROWS * COLS)
     /\ crt' = [(IF full THEN Scrolled(put, q) ELSE put) EXCEPT ![q] = Space]
     /\ pos' = q

\* The same on paper.
OnPaper(s, k, c) == [j \in 1..(IF k > Len(s) THEN k ELSE Len(s)) |->
                       IF j = k THEN c ELSE IF j <= Len(s) THEN s[j] ELSE Blank]
Write(c) ==
  LET put == IF c \in {NEWLINE, BACKSPACE} THEN paper ELSE OnPaper(paper, cur + 1, c)
      k == CASE c = NEWLINE -> cur + COLS - (cur % COLS)
             [] c = BACKSPACE -> IF cur > top THEN cur - 1 ELSE cur
             [] OTHER -> cur + 1
  IN /\ paper' = OnPaper(put, k + 1, Space)
     /\ cur' = k
     /\ top' = IF k - top >= Shown THEN top + COLS ELSE top

consputc ==
  /\ cur < MAXOUT
  /\ \E c \in Glyphs \cup {NEWLINE, BACKSPACE} : cgaputc(c) /\ Write(c)
ScrDone == cur >= MAXOUT /\ UNCHANGED scrvars
ScrNext == consputc \/ ScrDone
ScrSpec == ScrInit /\ [][ScrNext]_scrvars

-----------------------------------------------------------------------------
\* The screen shows the end of what was put out, with the cursor at its place
\* and in the rows that are used (cgaputc).
ShowsTheEnd ==
  /\ pos = cur - top /\ pos < Shown
  /\ \A i \in 0..(Shown - 1) :
       crt[i] = IF top + i < Len(paper) THEN paper[top + i + 1] ELSE Blank
=============================================================================
