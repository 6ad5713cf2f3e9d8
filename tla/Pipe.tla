-------------------------------- MODULE Pipe --------------------------------
(***************************************************************************)
(* Pipes (pipe.c), with the reference counts of file.c that decide when an *)
(* end is closed.                                                          *)
(*                                                                         *)
(* A holder is a process with one end open.  What pipewrite() and          *)
(* piperead() do between acquire() and the next sleep() or release() is    *)
(* one action.  The decision to sleep and the sleep are two: p->lock is    *)
(* held in between, but kill() does not take it.  nread and nwrite are     *)
(* unsigned and wrap around at Wrap (2^32 in the code).                    *)
(***************************************************************************)
EXTENDS Integers, Sequences

CONSTANTS
  Reader, Writer,       \* processes that can hold the read and the write end
  FirstReader, FirstWriter, \* the holders pipealloc() leaves
  PIPESIZE, Wrap,       \* size of the ring, modulus of the counters
  Requests,             \* byte sequences passed to write()
  Amounts,              \* byte counts passed to read()
  Fill                  \* what a fresh page holds

Bytes == {Fill} \cup UNION {{s[i] : i \in 1..Len(s)} : s \in Requests}

ASSUME PipeAssumption ==
  /\ Reader \cap Writer = {}
  /\ FirstReader \in Reader /\ FirstWriter \in Writer
  /\ PIPESIZE \in Nat \ {0} /\ Wrap \in Nat
  /\ Wrap > PIPESIZE /\ Wrap % PIPESIZE = 0
  /\ Requests \subseteq Seq(Bytes)
  /\ Amounts \subseteq Nat \ {0}

Holder == Reader \cup Writer

VARIABLES
  data, nread, nwrite,      \* struct pipe
  readopen, writeopen,
  plock,                    \* who carries p->lock into sleep(), or {}
  freed,                    \* history: the page was given back
  open,                     \* the holders whose descriptor is open
  pc, killed,
  todo,                     \* pipewrite(): the bytes not yet in the ring
  want,                     \* piperead(): n, 0 between calls
  got,                      \* what each reader's last read returned
  quiet                     \* history: the ring holds bytes of a writer that
                            \* left without a wakeup, and none came since

ring == <<data, nread, nwrite, quiet>>
ends == <<readopen, writeopen, freed, open>>
vars == <<ring, ends, plock, pc, killed, todo, want, got>>

TypeOK ==
  /\ data \in [0..(PIPESIZE - 1) -> Bytes]
  /\ nread \in 0..(Wrap - 1) /\ nwrite \in 0..(Wrap - 1)
  /\ readopen \in {0, 1} /\ writeopen \in {0, 1}
  /\ plock \in {{}} \cup {{h} : h \in Holder}
  /\ freed \in BOOLEAN
  /\ open \subseteq Holder
  /\ pc \in [Holder -> {"user", "call", "drowse", "asleep", "close",
                        "gone"}]
  /\ killed \subseteq Holder
  /\ todo \in [Writer -> Seq(Bytes)]
  /\ want \in [Reader -> Nat]
  /\ got \in [Reader -> Seq(Bytes)]
  /\ quiet \in BOOLEAN

\* pipealloc().
Init ==
  /\ data = [i \in 0..(PIPESIZE - 1) |-> Fill]
  /\ nread = 0 /\ nwrite = 0
  /\ readopen = 1 /\ writeopen = 1
  /\ plock = {}
  /\ freed = FALSE
  /\ open = {FirstReader, FirstWriter}
  /\ pc = [h \in Holder |-> "user"]
  /\ killed = {}
  /\ todo = [w \in Writer |-> <<>>]
  /\ want = [r \in Reader |-> 0]
  /\ got = [r \in Reader |-> <<>>]
  /\ quiet = FALSE

-----------------------------------------------------------------------------
Count == (nwrite - nread) % Wrap
Full == nwrite = (nread + PIPESIZE) % Wrap
Empty == nread = nwrite

\* The bytes in the ring, oldest first.
Contents == [i \in 1..Count |-> data[(nread + i - 1) % PIPESIZE]]

Least(a, b) == IF a < b THEN a ELSE b

Goto(h, where) == pc' = [pc EXCEPT ![h] = where]

\* The section of p->lock, entered from acquire() or after sleep().
Enters(h) == pc[h] = "call" /\ plock = {}

\* Mutant of WakeAnd: the wakeup is lost.
WakeNobody(S, h, where) == Goto(h, where)

\* wakeup() of everyone in S asleep, while h goes on at where.
WakeAnd(S, h, where) ==
  pc' = [g \in Holder |-> IF g = h THEN where
                          ELSE IF g \in S /\ pc[g] = "asleep" THEN "call"
                          ELSE pc[g]]

-----------------------------------------------------------------------------
(* System calls.                                                           *)

\* filewrite() on the write end.
StartWrite(w) ==
  /\ w \in open /\ pc[w] = "user" /\ w \notin killed
  /\ \E s \in Requests : todo' = [todo EXCEPT ![w] = s]
  /\ Goto(w, "call")
  /\ UNCHANGED <<ring, ends, plock, killed, want, got>>

\* fileread() on the read end.
StartRead(r) ==
  /\ r \in open /\ pc[r] = "user" /\ r \notin killed
  /\ \E n \in Amounts : want' = [want EXCEPT ![r] = n]
  /\ got' = [got EXCEPT ![r] = <<>>]
  /\ Goto(r, "call")
  /\ UNCHANGED <<ring, ends, plock, killed, todo>>

\* pipewrite() copies k bytes, as many as fit.
CopyIn(w, k) ==
  /\ data' = [i \in DOMAIN data |->
       IF \E j \in 1..k : i = (nwrite + j - 1) % PIPESIZE
         THEN todo[w][CHOOSE j \in 1..k : i = (nwrite + j - 1) % PIPESIZE]
         ELSE data[i]]
  /\ nwrite' = (nwrite + k) % Wrap
  /\ UNCHANGED nread

\* Mutant of Room: the ring is taken to be one byte larger.
RoomOffByOne(w) == Least(PIPESIZE + 1 - Count, Len(todo[w]))

\* The bytes pipewrite() copies before it finds the ring full.
Room(w) == Least(PIPESIZE - Count, Len(todo[w]))

\* pipewrite() until it is done, fails, or decides to sleep.
PipeWrite(w) ==
  LET k == Room(w) IN
  /\ Enters(w)
  /\ CopyIn(w, k)
  /\ \/ /\ k = Len(todo[w])
        /\ todo' = [todo EXCEPT ![w] = <<>>]
        /\ WakeAnd(Reader, w, "user")
        /\ quiet' = FALSE
        /\ UNCHANGED plock
     \/ /\ k < Len(todo[w])
        /\ readopen = 0 \/ w \in killed
        /\ todo' = [todo EXCEPT ![w] = <<>>]
        /\ Goto(w, "user")
        /\ quiet' = (quiet \/ k > 0)
        /\ UNCHANGED plock
     \/ /\ k < Len(todo[w])
        /\ readopen = 1 /\ w \notin killed
        /\ todo' = [todo EXCEPT ![w] = SubSeq(@, k + 1, Len(@))]
        /\ WakeAnd(Reader, w, "drowse")
        /\ quiet' = FALSE
        /\ plock' = {w}
  /\ UNCHANGED <<ends, killed, want, got>>

\* piperead() copies what there is, up to n bytes.
CopyOut(r) ==
  LET k == Least(want[r], Count) IN
  /\ got' = [got EXCEPT ![r] = SubSeq(Contents, 1, k)]
  /\ nread' = (nread + k) % Wrap
  /\ quiet' = (quiet /\ k < Count)
  /\ UNCHANGED <<data, nwrite>>

\* Mutant of Waits: the ring is taken for empty only before the first write.
WaitsAtFirst == nwrite = 0 /\ writeopen = 1

\* piperead() has nothing to return yet.
Waits == Empty /\ writeopen = 1

\* piperead() until it returns or decides to sleep.
PipeRead(r) ==
  /\ Enters(r)
  /\ \/ /\ Waits /\ r \in killed
        /\ Goto(r, "user")
        /\ want' = [want EXCEPT ![r] = 0]
        /\ UNCHANGED <<ring, plock, got>>
     \/ /\ Waits /\ r \notin killed
        /\ Goto(r, "drowse")
        /\ plock' = {r}
        /\ UNCHANGED <<ring, want, got>>
     \/ /\ ~Waits
        /\ CopyOut(r)
        /\ want' = [want EXCEPT ![r] = 0]
        /\ WakeAnd(Writer, r, "user")
        /\ UNCHANGED plock
  /\ UNCHANGED <<ends, killed, todo>>

\* sleep() on p->nread or p->nwrite, which gives p->lock back.
Sleep(h) ==
  /\ pc[h] = "drowse"
  /\ Goto(h, "asleep")
  /\ plock' = {}
  /\ UNCHANGED <<ring, ends, killed, todo, want, got>>

\* kill(): the mark, and a wakeup if the process is already asleep.
Kill(h) ==
  /\ h \in open /\ h \notin killed
  /\ killed' = killed \cup {h}
  /\ pc' = [pc EXCEPT ![h] = IF @ = "asleep" THEN "call" ELSE @]
  /\ UNCHANGED <<ring, ends, plock, todo, want, got>>

-----------------------------------------------------------------------------
(* Descriptors.                                                            *)

Side(h) == IF h \in Reader THEN Reader ELSE Writer

\* filedup(), by fork(): a new process gets the same end.
Dup(h, g) ==
  /\ h \in open /\ pc[h] = "user" /\ h \notin killed
  /\ g \in Side(h) \ open /\ pc[g] = "user"
  /\ open' = open \cup {g}
  /\ UNCHANGED <<ring, readopen, writeopen, freed, plock, pc, killed, todo,
                 want, got>>

\* Mutant of LastRef: every close is taken for the last.
AnyRef(h) == TRUE

\* The reference that fileclose() drops is the last one.
LastRef(h) == open \cap Side(h) = {h}

\* fileclose(), by close() or exit().
FileClose(h) ==
  /\ h \in open /\ pc[h] = "user"
  /\ open' = open \ {h}
  /\ Goto(h, IF LastRef(h) THEN "close" ELSE "gone")
  /\ UNCHANGED <<ring, readopen, writeopen, freed, plock, killed, todo, want,
                 got>>

\* Both ends are closed: pipeclose() frees the page.
Free(ro, wo) == ro = 0 /\ wo = 0

\* Mutant of PipeClose: the other end is not woken.
PipeCloseSilent(h) ==
  /\ pc[h] = "close" /\ plock = {}
  /\ readopen' = IF h \in Reader THEN 0 ELSE readopen
  /\ writeopen' = IF h \in Writer THEN 0 ELSE writeopen
  /\ freed' = Free(readopen', writeopen')
  /\ Goto(h, "gone")
  /\ UNCHANGED <<ring, open, plock, killed, todo, want, got>>

\* pipeclose(): wake the other end, and free the page after the second close.
PipeClose(h) ==
  /\ pc[h] = "close" /\ plock = {}
  /\ readopen' = IF h \in Reader THEN 0 ELSE readopen
  /\ writeopen' = IF h \in Writer THEN 0 ELSE writeopen
  /\ freed' = Free(readopen', writeopen')
  /\ WakeAnd(Holder \ Side(h), h, "gone")
  /\ UNCHANGED <<ring, open, plock, killed, todo, want, got>>

-----------------------------------------------------------------------------
\* What h does next inside the kernel.
Advance(h) ==
  \/ h \in Writer /\ PipeWrite(h)
  \/ h \in Reader /\ PipeRead(h)
  \/ Sleep(h)
  \/ PipeClose(h)

Next ==
  \/ \E w \in Writer : StartWrite(w) \/ PipeWrite(w)
  \/ \E r \in Reader : StartRead(r) \/ PipeRead(r)
  \/ \E h \in Holder : Sleep(h) \/ Kill(h) \/ FileClose(h) \/ PipeClose(h)
  \/ \E h, g \in Holder : Dup(h, g)

Spec == Init /\ [][Next]_vars

\* Threads in the kernel go on, and every process ends some day, which closes
\* its descriptors.
FairSpec ==
  Spec /\ \A h \in Holder : SF_vars(Advance(h)) /\ SF_vars(FileClose(h))

-----------------------------------------------------------------------------
(* Properties.                                                             *)

\* A pipe is a byte stream: nothing is lost, invented or reordered when the
\* ring and the counters wrap; a read returns 0 only when the ring is empty
\* and no writer is left, and fails only if its process is killed; a writer
\* gives up only if it is killed or nobody reads (pipewrite, piperead).
Stream == INSTANCE ByteStream WITH
  Capacity <- PIPESIZE,
  q <- Contents,
  reading <- (readopen = 1),
  writing <- (writeopen = 1)
IsByteStream == Stream!Spec

\* A sleeping writer faces a full ring and a reader, a sleeping reader an
\* empty ring and a writer: nobody sleeps through what it waits for.  The one
\* exception is pipe.c:87: a writer that is killed when it has filled the ring
\* leaves without a wakeup, and a reader may sleep over these bytes, until
\* they are read or the next wakeup.
NoLostWakeup ==
  /\ \A w \in Writer : pc[w] = "asleep" => Full /\ readopen = 1
  /\ \A r \in Reader : pc[r] = "asleep" =>
       (Empty \/ quiet) /\ writeopen = 1

\* Whoever can still touch the pipe finds it there, and the flags tell the
\* truth about the descriptors.
NoUseAfterFree ==
  /\ freed => \A h \in Holder : h \notin open /\ pc[h] \in {"user", "gone"}
  /\ \A h \in open : (h \in Reader => readopen = 1) /\ (h \in Writer => writeopen = 1)

\* Every read and write returns once the processes at the other end are gone
\* or go on.
CallReturns == \A h \in Holder : pc[h] = "asleep" ~> pc[h] = "user"
=============================================================================
