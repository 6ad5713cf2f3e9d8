----------------------------- MODULE ByteStream -----------------------------
(***************************************************************************)
(* What a pipe promises: a bounded queue of bytes.  Writers hand over what *)
(* they want to send piece by piece, in order, and all of it unless nobody *)
(* reads or they are killed.  A read that was asked for takes the oldest   *)
(* bytes, and returns none only when the queue is empty and nobody writes; *)
(* only the read of a killed process fails.                                *)
(***************************************************************************)
EXTENDS Integers, Sequences

CONSTANTS
  Reader, Writer,       \* who holds an end
  Capacity,             \* bytes the queue holds
  Requests,             \* byte sequences passed to write()
  Amounts               \* byte counts passed to read()

VARIABLES
  q,                    \* bytes under way, oldest first
  todo,                 \* of each writer: what it has still to send
  want,                 \* of each reader: what the read under way asked for
  got,                  \* of each reader: what its last read returned
  reading, writing,     \* is any read end, any write end open
  killed                \* the processes that were killed

ends == <<reading, writing, killed>>
vars == <<q, todo, want, got, ends>>

Init ==
  /\ q = <<>>
  /\ todo = [w \in Writer |-> <<>>]
  /\ want = [r \in Reader |-> 0]
  /\ got = [r \in Reader |-> <<>>]
  /\ reading = TRUE /\ writing = TRUE
  /\ killed = {}

Request(w) ==
  /\ writing
  /\ todo[w] = <<>>
  /\ \E s \in Requests : todo' = [todo EXCEPT ![w] = s]
  /\ UNCHANGED <<q, want, got, ends>>

\* The next k bytes of a write enter the queue.  The rest is dropped only if
\* nobody reads, or if the writer is killed.
Put(w) ==
  /\ \E k \in 0..Len(todo[w]) :
       /\ Len(q) + k <= Capacity
       /\ q' = q \o SubSeq(todo[w], 1, k)
       /\ \/ todo' = [todo EXCEPT ![w] = SubSeq(@, k + 1, Len(@))]
          \/ /\ ~reading \/ w \in killed
             /\ todo' = [todo EXCEPT ![w] = <<>>]
  /\ UNCHANGED <<want, got, ends>>

Ask(r) ==
  /\ reading
  /\ want[r] = 0
  /\ \E n \in Amounts : want' = [want EXCEPT ![r] = n]
  /\ got' = [got EXCEPT ![r] = <<>>]
  /\ UNCHANGED <<q, todo, ends>>

\* A read returns the oldest bytes; none only at the end of the stream.
Take(r) ==
  /\ want[r] # 0
  /\ \E k \in 0..Len(q) :
       /\ k <= want[r]
       /\ k = 0 => q = <<>> /\ ~writing
       /\ got' = [got EXCEPT ![r] = SubSeq(q, 1, k)]
       /\ q' = SubSeq(q, k + 1, Len(q))
  /\ want' = [want EXCEPT ![r] = 0]
  /\ UNCHANGED <<todo, ends>>

\* A read fails, and takes nothing.
Fail(r) ==
  /\ want[r] # 0
  /\ r \in killed
  /\ want' = [want EXCEPT ![r] = 0]
  /\ UNCHANGED <<q, todo, got, ends>>

Kill ==
  /\ \E h \in Reader \cup Writer : killed' = killed \cup {h}
  /\ UNCHANGED <<q, todo, want, got, reading, writing>>

CloseReading ==
  /\ reading' = FALSE
  /\ \A r \in Reader : want[r] = 0
  /\ UNCHANGED <<q, todo, want, got, writing, killed>>

CloseWriting ==
  /\ writing' = FALSE
  /\ \A w \in Writer : todo[w] = <<>>
  /\ UNCHANGED <<q, todo, want, got, reading, killed>>

Next ==
  \/ \E w \in Writer : Request(w) \/ Put(w)
  \/ \E r \in Reader : Ask(r) \/ Take(r) \/ Fail(r)
  \/ Kill \/ CloseReading \/ CloseWriting

Spec == Init /\ [][Next]_vars
=============================================================================
