--------------------------------- MODULE Kbd ---------------------------------
(***************************************************************************)
(* The keyboard (kbd.c, kbd.h): the bytes that keys send when they go down *)
(* and up, and the characters that kbdgetc() makes of them, one byte a     *)
(* call.  Some keys send an E0 byte first.                                 *)
(***************************************************************************)
EXTENDS Naturals, Sequences, FiniteSets

CONSTANTS Keys, WIRE    \* the keys that are used; bytes that wait to be read

VARIABLES
  down,         \* keys that are held down
  wire,         \* bytes that kbdgetc() has not read yet
  shift,        \* its static variable, a set of flags
  char          \* what it has returned last, for which key, and whether
                \* it was hit with no modifier held

kbdvars == <<down, wire, shift, char>>

-----------------------------------------------------------------------------
\* Keys, as the hardware sends them: those of the second set after an E0.
KeyNames == {"lshift", "rshift", "lctl", "rctl", "alt", "caps", "d", "pad8", "up"}
Code(k) ==
  CASE k = "lshift" -> "2A"         [] k = "rshift" -> "36"
    [] k \in {"lctl", "rctl"} -> "1D" [] k = "alt" -> "38"
    [] k = "caps" -> "3A"           [] k = "d" -> "20"
    [] k \in {"pad8", "up"} -> "48"
Extended == {"rctl", "up"}
Modifiers == {"lshift", "rshift", "lctl", "rctl", "alt"}
Byte(k, released) == [code |-> Code(k), released |-> released, key |-> k,
                      plain |-> down \cap Modifiers = {}]
ASSUME KeysAssumption == Keys \subseteq KeyNames /\ WIRE \in Nat
E0 == [code |-> "E0", released |-> FALSE, key |-> "", plain |-> TRUE]

\* The tables, by a code and whether its top bit is set after an E0.
shiftcode(data, top) ==
  CASE data = "1D" -> {"CTL"}
    [] data = "38" -> {"ALT"}
    [] data \in {"2A", "36"} /\ ~top -> {"SHIFT"}
    [] OTHER -> {}
togglecode(data, top) == IF data = "3A" /\ ~top THEN {"CAPSLOCK"} ELSE {}
charcode(flags, data, top) ==
  CASE data = "20" /\ ~top /\ "CTL" \in flags -> "^D"
    [] data = "20" /\ ~top /\ "CTL" \notin flags -> IF "SHIFT" \in flags THEN "D" ELSE "d"
    [] data = "48" /\ ~top -> IF "CTL" \in flags THEN "NO" ELSE "8"
    [] data = "48" /\ top -> "KEY_UP"
    [] OTHER -> "NO"
CapsLocked(c) == CASE c = "d" -> "D" [] c = "D" -> "d" [] OTHER -> c

KbdInit ==
  /\ down = {} /\ wire = <<>> /\ shift = {}
  /\ char = [c |-> "NO", key |-> "", plain |-> TRUE]

\* A key goes down, or up; the controller keeps the bytes in order.
Key(k) ==
  LET bytes == (IF k \in Extended THEN <<E0>> ELSE <<>>) \o <<Byte(k, k \in down)>> IN
  /\ Len(wire) + Len(bytes) <= WIRE
  /\ wire' = wire \o bytes
  /\ down' = IF k \in down THEN down \ {k} ELSE down \cup {k}
  /\ UNCHANGED <<shift, char>>

Released(data, top) == shift \ (shiftcode(data, top) \cup {"E0ESC"})

\* kbdgetc()
kbdgetc ==
  /\ wire # <<>>
  /\ wire' = Tail(wire)
  /\ LET b == Head(wire)
         top == "E0ESC" \in shift
         pressed == (shift \ {"E0ESC"}) \cup shiftcode(b.code, top)
         toggled == togglecode(b.code, top)
         flags == (pressed \ toggled) \cup (toggled \ pressed)
         c == charcode(flags, b.code, top)
     IN IF b.code = "E0" THEN shift' = shift \cup {"E0ESC"} /\ UNCHANGED char
        ELSE IF b.released THEN shift' = Released(b.code, top) /\ UNCHANGED char
        ELSE /\ shift' = flags
             /\ char' = [c |-> IF "CAPSLOCK" \in flags THEN CapsLocked(c) ELSE c,
                         key |-> b.key, plain |-> b.plain]
  /\ UNCHANGED down

KbdNext == kbdgetc \/ \E k \in Keys : Key(k)
KbdSpec == KbdInit /\ [][KbdNext]_kbdvars

-----------------------------------------------------------------------------
\* Keys never get mixed up, in whatever order they go down and up: nothing
\* stays shifted once the modifiers are up, and a key that is hit while none
\* is held gives its own character; an arrow is never a digit.
KeysMeanWhatTheySay ==
  /\ wire = <<>> => /\ "E0ESC" \notin shift
                    /\ "SHIFT" \in shift => down \cap {"lshift", "rshift"} # {}
                    /\ "CTL" \in shift => down \cap {"lctl", "rctl"} # {}
  /\ char.plain =>
       CASE char.key = "d" -> char.c \in {"d", "D"}
         [] char.key = "up" -> char.c = "KEY_UP"
         [] char.key = "pad8" -> char.c = "8"
         [] OTHER -> TRUE
=============================================================================
