------------------------------ MODULE LineInput ------------------------------
(***************************************************************************)
(* What the console promises its readers: a line can be edited until it is *)
(* ended, and then its characters are read in the order they were typed.   *)
(***************************************************************************)
EXTENDS Naturals, Sequences, SequencesExt

CONSTANTS INPUT_BUF, Letters

VARIABLES line, ready

NL == "nl"
EOF == "eof"

Init == line = <<>> /\ ready = <<>>

\* A character is kept if there is room; a line end, or no more room, hands
\* the line over.
Type(c) ==
  /\ Len(line) + Len(ready) < INPUT_BUF
  /\ LET typed == Append(line, c) IN
     IF c \in {NL, EOF} \/ Len(typed) + Len(ready) = INPUT_BUF
       THEN line' = <<>> /\ ready' = ready \o typed
       ELSE line' = typed /\ UNCHANGED ready

Erase == line # <<>> /\ line' = Front(line) /\ UNCHANGED ready
KillLine == line' = <<>> /\ UNCHANGED ready

Read ==
  /\ \E k \in 1..Len(ready) : ready' = SubSeq(ready, k + 1, Len(ready))
  /\ UNCHANGED line

Next == \/ \E c \in Letters \cup {NL, EOF} : Type(c)
        \/ Erase \/ KillLine \/ Read

Spec == Init /\ [][Next]_<<line, ready>>
=============================================================================
