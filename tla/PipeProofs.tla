----------------------------- MODULE PipeProofs -----------------------------
(***************************************************************************)
(* Proofs about Pipe, for every set of readers and writers, every ring     *)
(* size, every counter width that the ring size divides, and every set of  *)
(* requests.  IInv is the inductive invariant:                             *)
(*   Ends      the flags and the page follow the descriptors;              *)
(*   Sleepers  who carries the lock into sleep(), and what each sleeper    *)
(*             and each thread about to sleep waits for;                   *)
(*   Transfer  the counters never drift apart by more than the ring, and   *)
(*             calls that are over leave nothing behind.                   *)
(***************************************************************************)
EXTENDS Pipe, Numbers, SequenceTheorems

InCall == {"call", "drowse", "asleep"}

\* The flag of an end tells whether a descriptor of it is open or being
\* closed for the last time; one process does that, and no other holds the
\* end then.
EndOK(S, flag) ==
  /\ flag = 1 <=> \E h \in S : h \in open \/ pc[h] = "close"
  /\ \A h \in S : pc[h] = "close" =>
       \A g \in S : g \notin open /\ (pc[g] = "close" => g = h)

Ends ==
  /\ \A h \in Holder : pc[h] \in InCall => h \in open
  /\ \A h \in Holder : pc[h] \in {"close", "gone"} => h \notin open
  /\ EndOK(Reader, readopen)
  /\ EndOK(Writer, writeopen)
  /\ freed => readopen = 0 /\ writeopen = 0

Sleepers ==
  /\ \A h \in Holder : pc[h] = "drowse" <=> plock = {h}
  /\ \A w \in Writer : pc[w] \in {"drowse", "asleep"} => Full /\ readopen = 1
  /\ \A r \in Reader : pc[r] \in {"drowse", "asleep"} =>
       (Empty \/ quiet) /\ writeopen = 1

Transfer ==
  /\ Count <= PIPESIZE
  /\ \A w \in Writer : pc[w] \notin InCall => todo[w] = <<>>
  /\ \A r \in Reader : pc[r] \in InCall <=> want[r] # 0

IInv == TypeOK /\ Ends /\ Sleepers /\ Transfer

-----------------------------------------------------------------------------
(* The ring in the terms of the arithmetic.                                *)

\* Count is what separates the counters; Empty and Full are its two ends.
LEMMA CountFacts ==
  ASSUME TypeOK
  PROVE  /\ Count \in 0..(Wrap - 1)
         /\ Empty <=> Count = 0
         /\ Full <=> Count = PIPESIZE
         /\ (nread + Count) % Wrap = nwrite
  <1>1. Wrap \in Nat \ {0} /\ PIPESIZE \in 0..(Wrap - 1)
    BY PipeAssumption
  <1>2. nread \in 0..(Wrap - 1) /\ nwrite \in 0..(Wrap - 1)
    BY DEF TypeOK
  <1>3. (nread + ((nwrite - nread) % Wrap)) % Wrap = nwrite
    BY <1>1, <1>2, Distance
  <1>4. (nwrite - nread) % Wrap = IF nwrite < nread THEN nwrite - nread + Wrap
                                  ELSE nwrite - nread
    BY <1>1, <1>2, Gap
  <1>5. (((nread + PIPESIZE) % Wrap) - nread) % Wrap = PIPESIZE
    BY <1>1, <1>2, DistanceUnique
  <1> QED
    BY <1>1, <1>2, <1>3, <1>4, <1>5 DEF Count, Empty, Full

\* A count of PIPESIZE after a step means that the ring is full then.
LEMMA FullNext ==
  ASSUME TypeOK', Count' = PIPESIZE
  PROVE  Full'
  <1>1. Wrap \in Nat \ {0}
    BY PipeAssumption
  <1>2. nread' \in 0..(Wrap - 1) /\ nwrite' \in 0..(Wrap - 1)
    BY DEF TypeOK
  <1>3. (nread' + ((nwrite' - nread') % Wrap)) % Wrap = nwrite'
    BY <1>1, <1>2, Distance
  <1> QED
    BY <1>3 DEF Count, Full

\* A count of 0 after a step means that the ring is empty then.
LEMMA EmptyNext ==
  ASSUME TypeOK', Count' = 0
  PROVE  Empty'
  <1>1. Wrap \in Nat \ {0}
    BY PipeAssumption
  <1>2. nread' \in 0..(Wrap - 1) /\ nwrite' \in 0..(Wrap - 1)
    BY DEF TypeOK
  <1>3. (nwrite' - nread') % Wrap = IF nwrite' < nread' THEN nwrite' - nread' + Wrap
                                    ELSE nwrite' - nread'
    BY <1>1, <1>2, Gap
  <1> QED
    <2>1. (nwrite' - nread') % Wrap = 0
      BY DEF Count
    <2>2. nread' = nwrite'
      <3> DEFINE r == nread'
                 w == nwrite'
                 m == (w - r) % Wrap
      <3>1. r \in 0..(Wrap - 1) /\ w \in 0..(Wrap - 1) /\ Wrap \in Nat /\ m = 0
        BY <1>1, <1>2, <2>1
      <3>2. m = IF w < r THEN w - r + Wrap ELSE w - r
        BY <1>3
      <3> HIDE DEF r, w, m
      <3>3. r = w
        BY <3>1, <3>2
      <3> QED
        BY <3>3 DEF r, w
    <2> QED
      BY <2>2 DEF Empty

\* The counters after k bytes went in.
LEMMA CountIn ==
  ASSUME TypeOK, NEW k \in Nat, Count + k <= PIPESIZE,
         nwrite' = (nwrite + k) % Wrap, nread' = nread
  PROVE  nwrite' \in 0..(Wrap - 1) /\ Count' = Count + k
  <1>1. Wrap \in Nat \ {0} /\ PIPESIZE \in 0..(Wrap - 1)
    BY PipeAssumption
  <1>2. nread \in 0..(Wrap - 1) /\ nwrite \in 0..(Wrap - 1)
    BY DEF TypeOK
  <1>3. ((nwrite - nread) % Wrap) + k < Wrap
    BY <1>1, CountFacts DEF Count
  <1>4. /\ (nwrite + k) % Wrap \in 0..(Wrap - 1)
        /\ (((nwrite + k) % Wrap) - nread) % Wrap
             = ((nwrite - nread) % Wrap) + k
    BY <1>1, <1>2, <1>3, Ahead
  <1> QED
    BY <1>4 DEF Count

\* The counters after k bytes went out.
LEMMA CountOut ==
  ASSUME TypeOK, NEW k \in 0..Count,
         nread' = (nread + k) % Wrap, nwrite' = nwrite
  PROVE  nread' \in 0..(Wrap - 1) /\ Count' = Count - k
  <1>1. Wrap \in Nat \ {0}
    BY PipeAssumption
  <1>2. nread \in 0..(Wrap - 1) /\ nwrite \in 0..(Wrap - 1)
    BY DEF TypeOK
  <1>3. k \in 0..((nwrite - nread) % Wrap)
    BY DEF Count
  <1>4. /\ (nread + k) % Wrap \in 0..(Wrap - 1)
        /\ (nwrite - ((nread + k) % Wrap)) % Wrap
             = ((nwrite - nread) % Wrap) - k
    BY <1>1, <1>2, <1>3, Behind
  <1> QED
    BY <1>4 DEF Count

\* The invariant holds of the pipe that pipealloc() makes.
LEMMA InitIInv == Init => IInv
  <1> SUFFICES ASSUME Init PROVE IInv
    OBVIOUS
  <1> USE PipeAssumption DEF Init, Holder
  <1>1. TypeOK
    <2>1. quiet \in BOOLEAN /\ freed \in BOOLEAN
      OBVIOUS
    <2>2. data \in [0..(PIPESIZE - 1) -> Bytes]
      BY DEF Bytes
    <2>3. /\ todo \in [Writer -> Seq(Bytes)] /\ got \in [Reader -> Seq(Bytes)]
          /\ want \in [Reader -> Nat]
      OBVIOUS
    <2> QED
      BY <2>1, <2>2, <2>3 DEF TypeOK
  <1>2. Ends
    BY DEF Ends, EndOK, InCall
  <1>3. Sleepers
    BY DEF Sleepers
  <1>4. Transfer
    BY DEF Transfer, Count, InCall
  <1> QED
    BY <1>1, <1>2, <1>3, <1>4 DEF IInv

-----------------------------------------------------------------------------
(* Types.                                                                  *)

\* The least of two numbers is one of them and below both.
LEMMA LeastFacts ==
  ASSUME NEW a \in Int, NEW b \in Int
  PROVE  /\ Least(a, b) \in Int
         /\ Least(a, b) \in {a, b}
         /\ Least(a, b) <= a /\ Least(a, b) <= b
  BY DEF Least

\* What pipewrite() copies fits into the ring and is part of the request.
LEMMA RoomFacts ==
  ASSUME IInv, NEW w \in Writer
  PROVE  /\ todo[w] \in Seq(Bytes) /\ Len(todo[w]) \in Nat
         /\ Room(w) \in 0..Len(todo[w])
         /\ Count + Room(w) <= PIPESIZE
         /\ Room(w) < Len(todo[w]) => Count + Room(w) = PIPESIZE
  <1>1. todo[w] \in Seq(Bytes) /\ Len(todo[w]) \in Nat
    BY DEF IInv, TypeOK
  <1>2. Count \in Nat /\ Count <= PIPESIZE /\ PIPESIZE \in Nat
    BY CountFacts, PipeAssumption DEF IInv, Transfer
  <1> QED
    BY <1>1, <1>2, LeastFacts DEF Room, Least

\* The bytes in the ring are a sequence of bytes.
LEMMA ContentsType ==
  ASSUME TypeOK
  PROVE  Contents \in Seq(Bytes) /\ Len(Contents) = Count
  <1>1. Count \in Nat
    BY CountFacts, PipeAssumption
  <1>2. ASSUME NEW i \in 1..Count
        PROVE  data[(nread + i - 1) % PIPESIZE] \in Bytes
    <2>1. nread \in Int /\ i \in Int /\ PIPESIZE \in Nat \ {0}
      BY <1>1, PipeAssumption DEF TypeOK
    <2>2. (nread + i - 1) % PIPESIZE \in 0..(PIPESIZE - 1)
      BY <2>1
    <2> QED
      BY <2>2 DEF TypeOK
  <1> QED
    BY <1>1, <1>2 DEF Contents

\* wakeup() keeps the program counters in their range.
LEMMA WakeType ==
  ASSUME TypeOK, NEW S, NEW h \in Holder, NEW where,
         where \in {"user", "call", "drowse", "asleep", "close", "gone"},
         WakeAnd(S, h, where)
  PROVE  pc' \in [Holder -> {"user", "call", "drowse", "asleep", "close",
                             "gone"}]
  BY DEF TypeOK, WakeAnd

\* pipewrite() keeps the ring well formed.
LEMMA CopyInType ==
  ASSUME IInv, NEW w \in Writer, CopyIn(w, Room(w))
  PROVE  /\ data' \in [0..(PIPESIZE - 1) -> Bytes]
         /\ nread' \in 0..(Wrap - 1) /\ nwrite' \in 0..(Wrap - 1)
         /\ Count' = Count + Room(w)
  <1> DEFINE k == Room(w)
  <1>1. /\ todo[w] \in Seq(Bytes) /\ k \in 0..Len(todo[w])
        /\ Len(todo[w]) \in Nat /\ Count + k <= PIPESIZE /\ k \in Nat
    BY RoomFacts
  <1>2. TypeOK
    BY DEF IInv
  <1> HIDE DEF k
  <1>3. nwrite' = (nwrite + k) % Wrap /\ nread' = nread
    BY DEF CopyIn, k
  <1>4. nwrite' \in 0..(Wrap - 1) /\ Count' = Count + k
    BY <1>1, <1>2, <1>3, CountIn
  <1>5. ASSUME NEW j \in 1..k
        PROVE  todo[w][j] \in Bytes
    BY <1>1
  <1>6. data' \in [0..(PIPESIZE - 1) -> Bytes]
    <2> DEFINE at(i, j) == i = (nwrite + j - 1) % PIPESIZE
    <2>1. data' = [i \in 0..(PIPESIZE - 1) |->
             IF \E j \in 1..k : at(i, j)
               THEN todo[w][CHOOSE j \in 1..k : at(i, j)] ELSE data[i]]
      BY <1>2 DEF CopyIn, TypeOK, k
    <2> HIDE DEF at
    <2> QED
      BY <1>2, <1>5, <2>1 DEF TypeOK
  <1> QED
    BY <1>2, <1>3, <1>4, <1>6 DEF TypeOK, k

\* Every step keeps every variable in its type.
LEMMA TypeStep == IInv /\ [Next]_vars => TypeOK'
  <1> SUFFICES ASSUME IInv, [Next]_vars PROVE TypeOK'
    OBVIOUS
  <1>0. TypeOK
    BY DEF IInv
  <1> DEFINE PC == {"user", "call", "drowse", "asleep", "close", "gone"}
  <1>1. ASSUME NEW w \in Writer, StartWrite(w) PROVE TypeOK'
    BY <1>0, <1>1, PipeAssumption
    DEF StartWrite, TypeOK, Goto, ring, ends, Holder
  <1>2. ASSUME NEW w \in Writer, PipeWrite(w) PROVE TypeOK'
    <2>1. CopyIn(w, Room(w)) /\ UNCHANGED <<ends, killed, want, got>>
      BY <1>2 DEF PipeWrite
    <2>7. quiet' \in BOOLEAN
      BY <1>0, <1>2 DEF PipeWrite, TypeOK
    <2>2. /\ data' \in [0..(PIPESIZE - 1) -> Bytes]
          /\ nread' \in 0..(Wrap - 1) /\ nwrite' \in 0..(Wrap - 1)
      BY <2>1, CopyInType
    <2>3. w \in Holder
      BY DEF Holder
    <2>4. pc' \in [Holder -> PC]
      BY <1>0, <1>2, <2>3, WakeType DEF PipeWrite, Goto, TypeOK
    <2>5. plock' \in {{}} \cup {{h} : h \in Holder}
      BY <1>0, <1>2, <2>3 DEF PipeWrite, TypeOK
    <2>6. todo' \in [Writer -> Seq(Bytes)]
      <3>1. /\ todo[w] \in Seq(Bytes) /\ Len(todo[w]) \in Nat
            /\ Room(w) \in 0..Len(todo[w])
        BY RoomFacts
      <3>2. SubSeq(todo[w], Room(w) + 1, Len(todo[w])) \in Seq(Bytes)
        BY <3>1
      <3>3. <<>> \in Seq(Bytes)
        OBVIOUS
      <3> QED
        BY <1>0, <1>2, <3>2, <3>3 DEF PipeWrite, TypeOK
    <2> QED
      BY <1>0, <2>1, <2>2, <2>4, <2>5, <2>6, <2>7 DEF TypeOK, ends
  <1>3. ASSUME NEW r \in Reader, StartRead(r) PROVE TypeOK'
    BY <1>0, <1>3, PipeAssumption
    DEF StartRead, TypeOK, Goto, ring, ends, Holder
  <1>4. ASSUME NEW r \in Reader, PipeRead(r) PROVE TypeOK'
    <2>1. r \in Holder /\ UNCHANGED <<ends, killed, todo>>
      BY <1>4 DEF Holder, PipeRead
    <2>2. pc' \in [Holder -> PC] /\ plock' \in {{}} \cup {{h} : h \in Holder}
      <3>1. pc' \in [Holder -> PC]
        BY <1>0, <1>4, <2>1, WakeType DEF PipeRead, Goto, TypeOK
      <3> QED
        BY <1>0, <1>4, <2>1, <3>1 DEF PipeRead, TypeOK
    <2>3. want' \in [Reader -> Nat]
      <3>1. want' = want \/ want' = [want EXCEPT ![r] = 0]
        BY <1>4 DEF PipeRead
      <3>2. want \in [Reader -> Nat]
        BY <1>0, Zenon DEF TypeOK
      <3> QED
        BY <3>1, <3>2
    <2>4. /\ data' \in [0..(PIPESIZE - 1) -> Bytes]
          /\ nread' \in 0..(Wrap - 1) /\ nwrite' \in 0..(Wrap - 1)
          /\ got' \in [Reader -> Seq(Bytes)] /\ quiet' \in BOOLEAN
      <3>1. CASE UNCHANGED <<ring, got>>
        BY <1>0, <3>1 DEF TypeOK, ring
      <3>2. CASE CopyOut(r)
        <4> DEFINE k == Least(want[r], Count)
        <4>1. k \in 0..Count /\ want[r] \in Nat
          BY <1>0, CountFacts, PipeAssumption DEF TypeOK, Least
        <4> HIDE DEF k
        <4>2. /\ nread' = (nread + k) % Wrap /\ UNCHANGED <<data, nwrite>>
              /\ got' = [got EXCEPT ![r] = SubSeq(Contents, 1, k)]
          BY <3>2 DEF CopyOut, k
        <4>3. nread' \in 0..(Wrap - 1)
          BY <1>0, <4>1, <4>2, CountOut
        <4>4. SubSeq(Contents, 1, k) \in Seq(Bytes)
          BY <1>0, <4>1, ContentsType
        <4>5. quiet' \in BOOLEAN
          BY <3>2 DEF CopyOut
        <4> QED
          BY <1>0, <4>2, <4>3, <4>4, <4>5 DEF TypeOK
      <3> QED
        BY <1>4, <3>1, <3>2 DEF PipeRead
    <2> QED
      BY <1>0, <2>1, <2>2, <2>3, <2>4 DEF TypeOK, ends
  <1>5. ASSUME NEW h \in Holder, Sleep(h) PROVE TypeOK'
    BY <1>0, <1>5 DEF Sleep, TypeOK, Goto, ring, ends
  <1>6. ASSUME NEW h \in Holder, Kill(h) PROVE TypeOK'
    BY <1>0, <1>6 DEF Kill, TypeOK, ring, ends
  <1>7. ASSUME NEW h \in Holder, FileClose(h) PROVE TypeOK'
    BY <1>0, <1>7 DEF FileClose, TypeOK, Goto, ring
  <1>8. ASSUME NEW h \in Holder, PipeClose(h) PROVE TypeOK'
    <2>1. pc' \in [Holder -> PC]
      BY <1>0, <1>8, WakeType DEF PipeClose
    <2> QED
      BY <1>0, <1>8, <2>1 DEF PipeClose, TypeOK, ring, Free
  <1>9. ASSUME NEW h \in Holder, NEW g \in Holder, Dup(h, g) PROVE TypeOK'
    BY <1>0, <1>9 DEF Dup, TypeOK, ring
  <1>10. CASE UNCHANGED vars
    BY <1>0, <1>10 DEF TypeOK, vars, ring, ends
  <1> QED
    BY <1>1, <1>2, <1>3, <1>4, <1>5, <1>6, <1>7, <1>8, <1>9, <1>10 DEF Next

-----------------------------------------------------------------------------
(* The ends.                                                               *)

\* Ends looks at the flags, the descriptors and the last closers only: a step
\* that moves calls about, without starting one on a closed descriptor, keeps
\* it.
LEMMA EndsKept ==
  ASSUME IInv, UNCHANGED ends,
         \A h \in Holder : /\ pc'[h] \in InCall => h \in open
                           /\ pc'[h] = "close" <=> pc[h] = "close"
                           /\ pc'[h] = "gone" <=> pc[h] = "gone"
  PROVE  Ends'
  BY DEF IInv, Ends, EndOK, ends, Holder, InCall

\* Every step keeps the flags in step with the descriptors, and the page
\* allocated as long as one is open.
LEMMA EndsStep == IInv /\ [Next]_vars => Ends'
  <1> SUFFICES ASSUME IInv, [Next]_vars PROVE Ends'
    OBVIOUS
  <1>0. TypeOK /\ Ends
    BY DEF IInv
  <1>1. ASSUME NEW w \in Writer, StartWrite(w) PROVE Ends'
    BY <1>0, <1>1, EndsKept DEF StartWrite, Goto, TypeOK, Ends, InCall, Holder
  <1>2. ASSUME NEW w \in Writer, PipeWrite(w) PROVE Ends'
    BY <1>0, <1>2, EndsKept
    DEF PipeWrite, Enters, WakeAnd, Goto, TypeOK, Ends, InCall, Holder
  <1>3. ASSUME NEW r \in Reader, StartRead(r) PROVE Ends'
    BY <1>0, <1>3, EndsKept DEF StartRead, Goto, TypeOK, Ends, InCall, Holder
  <1>4. ASSUME NEW r \in Reader, PipeRead(r) PROVE Ends'
    BY <1>0, <1>4, EndsKept
    DEF PipeRead, Enters, WakeAnd, Goto, TypeOK, Ends, InCall, Holder
  <1>5. ASSUME NEW h \in Holder, Sleep(h) PROVE Ends'
    BY <1>0, <1>5, EndsKept DEF Sleep, Goto, TypeOK, Ends, InCall
  <1>6. ASSUME NEW h \in Holder, Kill(h) PROVE Ends'
    BY <1>0, <1>6, EndsKept DEF Kill, TypeOK, Ends, InCall
  <1>7. ASSUME NEW h \in Holder, FileClose(h) PROVE Ends'
    <2>1. /\ h \in open /\ open' = open \ {h} /\ pc[h] = "user"
          /\ \A g \in Holder \ {h} : pc'[g] = pc[g]
          /\ pc'[h] = (IF LastRef(h) THEN "close" ELSE "gone")
          /\ UNCHANGED <<readopen, writeopen, freed>>
      BY <1>0, <1>7 DEF FileClose, Goto, TypeOK
    <2>2. ASSUME NEW S \in {Reader, Writer}, NEW flag, EndOK(S, flag)
          PROVE  /\ flag = 1 <=> \E g \in S : g \in open' \/ pc'[g] = "close"
                 /\ \A f \in S : pc'[f] = "close" =>
                      \A g \in S :
                        g \notin open' /\ (pc'[g] = "close" => g = f)
      <3>1. S \subseteq Holder /\ (h \in S => Side(h) = S)
        BY PipeAssumption DEF Side, Holder
      <3>2. CASE h \notin S
        BY <2>1, <2>2, <3>1, <3>2 DEF EndOK
      <3>3. CASE h \in S /\ LastRef(h)
        BY <2>1, <2>2, <3>1, <3>3 DEF EndOK, LastRef
      <3>4. CASE h \in S /\ ~LastRef(h)
        <4>1. PICK g \in S : g \in open /\ g # h
          BY <2>1, <3>1, <3>4 DEF LastRef
        <4> QED
          BY <2>1, <2>2, <3>1, <3>4, <4>1 DEF EndOK
      <3> QED
        BY <3>2, <3>3, <3>4
    <2>3. EndOK(Reader, readopen)' /\ EndOK(Writer, writeopen)'
      BY <1>0, <2>1, <2>2 DEF Ends, EndOK
    <2> QED
      BY <1>0, <2>1, <2>3 DEF Ends, InCall
  <1>8. ASSUME NEW h \in Holder, PipeClose(h) PROVE Ends'
    <2>1. /\ pc[h] = "close" /\ pc'[h] = "gone" /\ open' = open
          /\ \A g \in Holder \ {h} :
               pc'[g] = pc[g] \/ (pc[g] = "asleep" /\ pc'[g] = "call")
          /\ readopen' = (IF h \in Reader THEN 0 ELSE readopen)
          /\ writeopen' = (IF h \in Writer THEN 0 ELSE writeopen)
          /\ freed' => readopen' = 0 /\ writeopen' = 0
      BY <1>0, <1>8 DEF PipeClose, WakeAnd, Free, TypeOK
    <2>2. /\ \A g \in Holder : pc'[g] \in InCall => g \in open'
          /\ \A g \in Holder : pc'[g] \in {"close", "gone"} => g \notin open'
      BY <1>0, <2>1 DEF Ends, InCall
    <2>3. EndOK(Reader, readopen)'
      BY <1>0, <2>1, PipeAssumption DEF Ends, EndOK, Holder
    <2>4. EndOK(Writer, writeopen)'
      BY <1>0, <2>1, PipeAssumption DEF Ends, EndOK, Holder
    <2> QED
      BY <2>1, <2>2, <2>3, <2>4 DEF Ends
  <1>9. ASSUME NEW h \in Holder, NEW g \in Holder, Dup(h, g) PROVE Ends'
    <2>1. /\ open' = open \cup {g} /\ pc[g] = "user"
          /\ g \in Side(h) /\ h \in open
          /\ UNCHANGED <<pc, readopen, writeopen, freed>>
      BY <1>9 DEF Dup
    <2>2. /\ \A k \in Holder : pc'[k] \in InCall => k \in open'
          /\ \A k \in Holder : pc'[k] \in {"close", "gone"} => k \notin open'
      BY <1>0, <2>1 DEF Ends, InCall
    <2>3. EndOK(Reader, readopen)'
      BY <1>0, <2>1, PipeAssumption DEF Ends, EndOK, Side, Holder
    <2>4. EndOK(Writer, writeopen)'
      BY <1>0, <2>1, PipeAssumption DEF Ends, EndOK, Side, Holder
    <2> QED
      BY <1>0, <2>1, <2>2, <2>3, <2>4 DEF Ends
  <1>10. CASE UNCHANGED vars
    BY <1>0, <1>10, EndsKept DEF vars, Ends
  <1> QED
    BY <1>1, <1>2, <1>3, <1>4, <1>5, <1>6, <1>7, <1>8, <1>9, <1>10 DEF Next

-----------------------------------------------------------------------------
(* The transfer.                                                           *)

\* Every step keeps the counters within one ring of each other, and empties
\* the locals of a call when it returns.
LEMMA TransferStep == IInv /\ [Next]_vars => Transfer'
  <1> SUFFICES ASSUME IInv, [Next]_vars PROVE Transfer'
    OBVIOUS
  <1>0. TypeOK /\ Transfer
    BY DEF IInv
  <1>a. Count \in Nat /\ PIPESIZE \in Nat
    BY <1>0, CountFacts, PipeAssumption
  <1>b. UNCHANGED ring => Count' = Count
    BY DEF ring, Count
  <1>1. ASSUME NEW w \in Writer, StartWrite(w) PROVE Transfer'
    BY <1>0, <1>1, <1>b, PipeAssumption
    DEF StartWrite, Goto, TypeOK, Transfer, InCall, Holder
  <1>2. ASSUME NEW w \in Writer, PipeWrite(w) PROVE Transfer'
    <2>1. Count' <= PIPESIZE
      BY <1>2, CopyInType, RoomFacts DEF PipeWrite
    <2>2. \A v \in Writer : pc'[v] \notin InCall => todo'[v] = <<>>
      BY <1>0, <1>2, PipeAssumption
      DEF PipeWrite, Enters, WakeAnd, Goto, TypeOK, Transfer, InCall, Holder
    <2>3. \A r \in Reader : pc'[r] \in InCall <=> want'[r] # 0
      BY <1>0, <1>2, PipeAssumption
      DEF PipeWrite, Enters, WakeAnd, Goto, TypeOK, Transfer, InCall, Holder
    <2> QED
      BY <2>1, <2>2, <2>3 DEF Transfer
  <1>3. ASSUME NEW r \in Reader, StartRead(r) PROVE Transfer'
    BY <1>0, <1>3, <1>b, PipeAssumption
    DEF StartRead, Goto, TypeOK, Transfer, InCall, Holder
  <1>4. ASSUME NEW r \in Reader, PipeRead(r) PROVE Transfer'
    <2>1. Count' <= PIPESIZE
      <3>1. CASE UNCHANGED ring
        BY <1>0, <1>b, <3>1 DEF Transfer
      <3>2. CASE CopyOut(r)
        <4> DEFINE k == Least(want[r], Count)
        <4>1. k \in 0..Count
          BY <1>0, <1>a DEF TypeOK, Least
        <4> HIDE DEF k
        <4>2. nread' = (nread + k) % Wrap /\ nwrite' = nwrite
          BY <3>2 DEF CopyOut, k
        <4>3. Count' = Count - k
          BY <1>0, <4>1, <4>2, CountOut
        <4> QED
          BY <1>0, <1>a, <4>1, <4>3 DEF Transfer
      <3> QED
        BY <1>4, <3>1, <3>2 DEF PipeRead
    <2>2. \A v \in Writer : pc'[v] \notin InCall => todo'[v] = <<>>
      BY <1>0, <1>4, PipeAssumption, ZenonT(60)
      DEF PipeRead, Enters, WakeAnd, Goto, TypeOK, Transfer, InCall, Holder
    <2>3. \A q \in Reader : pc'[q] \in InCall <=> want'[q] # 0
      BY <1>0, <1>4, PipeAssumption
      DEF PipeRead, Enters, WakeAnd, Goto, TypeOK, Transfer, InCall, Holder
    <2> QED
      BY <2>1, <2>2, <2>3 DEF Transfer
  <1>5. ASSUME NEW h \in Holder, Sleep(h) PROVE Transfer'
    BY <1>0, <1>5, <1>b DEF Sleep, Goto, TypeOK, Transfer, InCall, Holder
  <1>6. ASSUME NEW h \in Holder, Kill(h) PROVE Transfer'
    BY <1>0, <1>6, <1>b DEF Kill, TypeOK, Transfer, InCall, Holder
  <1>7. ASSUME NEW h \in Holder, FileClose(h) PROVE Transfer'
    BY <1>0, <1>7, <1>b DEF FileClose, Goto, TypeOK, Transfer, InCall, Holder
  <1>8. ASSUME NEW h \in Holder, PipeClose(h) PROVE Transfer'
    BY <1>0, <1>8, <1>b
    DEF PipeClose, WakeAnd, TypeOK, Transfer, InCall, Holder
  <1>9. ASSUME NEW h \in Holder, NEW g \in Holder, Dup(h, g) PROVE Transfer'
    BY <1>0, <1>9, <1>b DEF Dup, Transfer
  <1>10. CASE UNCHANGED vars
    BY <1>0, <1>10, <1>b DEF vars, Transfer
  <1> QED
    BY <1>1, <1>2, <1>3, <1>4, <1>5, <1>6, <1>7, <1>8, <1>9, <1>10 DEF Next

-----------------------------------------------------------------------------
(* The sleepers.                                                           *)

\* What a step may do to sleepers: new ones are put there for a reason, and
\* the others keep theirs.
LEMMA SleepersStep == IInv /\ [Next]_vars => Sleepers'
  <1> SUFFICES ASSUME IInv, [Next]_vars PROVE Sleepers'
    OBVIOUS
  <1>0. TypeOK /\ Ends /\ Sleepers
    BY DEF IInv
  <1>a. Count \in Nat /\ PIPESIZE \in Nat
    BY <1>0, CountFacts, PipeAssumption
  <1>b. UNCHANGED ring => (Empty' <=> Empty) /\ (Full' <=> Full) /\ quiet' = quiet
    BY DEF ring, Empty, Full
  <1>c. \A h \in Holder : pc[h] \in InCall =>
          (h \in Reader => readopen = 1) /\ (h \in Writer => writeopen = 1)
    BY <1>0 DEF Ends, EndOK, Holder
  <1>d. TypeOK'
    BY TypeStep
  <1>1. ASSUME NEW w \in Writer, StartWrite(w) PROVE Sleepers'
    BY <1>0, <1>1, <1>b DEF StartWrite, Goto, TypeOK, Sleepers, ends, Holder
  <1>2. ASSUME NEW w \in Writer, PipeWrite(w) PROVE Sleepers'
    <2>1. /\ pc[w] = "call" /\ plock = {} /\ UNCHANGED <<ends, killed>>
          /\ CopyIn(w, Room(w)) /\ w \in Holder /\ w \notin Reader
      BY <1>2, PipeAssumption DEF PipeWrite, Enters, Holder
    <2>2. \A h \in Holder : pc[h] # "drowse"
      BY <1>0, <2>1 DEF Sleepers
    <2>3. \A h \in Holder : pc'[h] = "drowse" <=> plock' = {h}
      BY <1>0, <1>2, <2>1, <2>2
      DEF PipeWrite, WakeAnd, Goto, TypeOK
    <2>4. ASSUME NEW v \in Writer, pc'[v] \in {"drowse", "asleep"}
          PROVE  Full' /\ readopen' = 1
      <3>1. Count' = Count + Room(w)
        BY <2>1, CopyInType
      <3>2. CASE v = w
        <4>1. Room(w) < Len(todo[w]) /\ readopen = 1
          BY <1>0, <1>2, <2>1, <2>4, <3>2
          DEF PipeWrite, WakeAnd, Goto, TypeOK
        <4>2. Count' = PIPESIZE
          BY <3>1, <4>1, RoomFacts
        <4> QED
          BY <1>d, <2>1, <4>1, <4>2, FullNext DEF ends
      <3>3. CASE v # w
        <4>1. pc[v] = "asleep" /\ v \in Holder
          BY <1>0, <1>2, <2>2, <2>4, <3>3, PipeAssumption
          DEF PipeWrite, WakeAnd, Goto, TypeOK, Holder
        <4>2. Full /\ readopen = 1
          BY <1>0, <4>1 DEF Sleepers
        <4>3. Count = PIPESIZE
          BY <1>0, <4>2, CountFacts
        <4>4. Room(w) = 0
          BY <1>a, <4>3, RoomFacts
        <4>5. nwrite' = (nwrite + 0) % Wrap /\ nread' = nread
          BY <2>1, <4>4 DEF CopyIn
        <4>6. nwrite' = nwrite
          <5>1. Wrap \in Nat \ {0} /\ 0 \in 0..(Wrap - 1)
            BY PipeAssumption
          <5>2. nwrite \in 0..(Wrap - 1)
            BY <1>0 DEF TypeOK
          <5> QED
            BY <4>5, <5>1, <5>2, MovedOn
        <4> QED
          BY <2>1, <4>2, <4>5, <4>6 DEF Full, ends
      <3> QED
        BY <3>2, <3>3
    <2>5. ASSUME NEW r \in Reader, pc'[r] \in {"drowse", "asleep"}
          PROVE  (Empty' \/ quiet') /\ writeopen' = 1
      <3>1. r # w /\ r \in Holder
        BY <2>1 DEF Holder
      <3>2. /\ pc[r] = "asleep" /\ Room(w) < Len(todo[w])
            /\ quiet' = (quiet \/ Room(w) > 0)
        BY <1>0, <1>2, <2>2, <2>5, <3>1
        DEF PipeWrite, WakeAnd, Goto, TypeOK, Holder
      <3>3. (Empty \/ quiet) /\ writeopen = 1
        BY <1>0, <3>2 DEF Sleepers
      <3>4. Empty => Room(w) > 0
        BY <1>0, <3>2, CountFacts, RoomFacts, PipeAssumption
      <3> QED
        BY <2>1, <3>2, <3>3, <3>4 DEF ends
    <2> QED
      BY <2>3, <2>4, <2>5 DEF Sleepers
  <1>3. ASSUME NEW r \in Reader, StartRead(r) PROVE Sleepers'
    BY <1>0, <1>3, <1>b DEF StartRead, Goto, TypeOK, Sleepers, ends, Holder
  <1>4. ASSUME NEW r \in Reader, PipeRead(r) PROVE Sleepers'
    <2>1. /\ pc[r] = "call" /\ plock = {} /\ UNCHANGED <<ends, killed>>
          /\ r \in Holder /\ r \notin Writer
      BY <1>4, PipeAssumption DEF PipeRead, Enters, Holder
    <2>2. \A h \in Holder : pc[h] # "drowse"
      BY <1>0, <2>1 DEF Sleepers
    <2>3. CASE UNCHANGED ring /\ Goto(r, "user") /\ UNCHANGED plock
      BY <1>0, <1>b, <2>1, <2>2, <2>3 DEF Goto, TypeOK, Sleepers, ends, Holder
    <2>4. CASE UNCHANGED ring /\ Goto(r, "drowse") /\ plock' = {r}
               /\ Empty /\ writeopen = 1
      BY <1>0, <1>b, <2>1, <2>2, <2>4 DEF Goto, TypeOK, Sleepers, ends, Holder
    <2>5. CASE CopyOut(r) /\ WakeAnd(Writer, r, "user") /\ UNCHANGED plock
               /\ ~Waits
      <3>1. \A h \in Holder : pc'[h] = "drowse" <=> plock' = {h}
        BY <1>0, <2>1, <2>2, <2>5 DEF WakeAnd
      <3>2. \A w \in Writer : pc'[w] \notin {"drowse", "asleep"}
        BY <1>0, <2>1, <2>2, <2>5 DEF WakeAnd, Holder
      <3>3. ASSUME NEW q \in Reader, pc'[q] \in {"drowse", "asleep"}
            PROVE  (Empty' \/ quiet') /\ writeopen' = 1
        <4>1. pc[q] = "asleep"
          BY <2>2, <2>5, <3>3, PipeAssumption DEF WakeAnd, Holder
        <4>2. quiet /\ writeopen = 1
          BY <1>0, <2>5, <4>1 DEF Sleepers, Waits
        <4> DEFINE k == Least(want[r], Count)
        <4>3. k \in 0..Count
          BY <1>0, <1>a DEF TypeOK, Least
        <4> HIDE DEF k
        <4>4. /\ nread' = (nread + k) % Wrap /\ nwrite' = nwrite
              /\ quiet' = (quiet /\ k < Count)
          BY <2>5 DEF CopyOut, k
        <4>5. Count' = Count - k
          BY <1>0, <4>3, <4>4, CountOut
        <4>6. k = Count => Empty'
          BY <1>a, <1>d, <4>5, EmptyNext
        <4> QED
          <5>1. k < Count \/ k = Count
            BY <1>a, <4>3
          <5>2. writeopen' = 1
            BY <2>1, <4>2 DEF ends
          <5> QED
            BY <4>2, <4>4, <4>6, <5>1, <5>2
      <3> QED
        BY <3>1, <3>2, <3>3 DEF Sleepers
    <2> QED
      BY <1>4, <2>3, <2>4, <2>5 DEF PipeRead, Waits
  <1>5. ASSUME NEW h \in Holder, Sleep(h) PROVE Sleepers'
    <2>1. plock = {h} /\ plock' = {}
      BY <1>0, <1>5 DEF Sleep, Sleepers
    <2> QED
      BY <1>0, <1>5, <1>b, <2>1 DEF Sleep, Goto, TypeOK, Sleepers, ends, Holder
  <1>6. ASSUME NEW h \in Holder, Kill(h) PROVE Sleepers'
    BY <1>0, <1>6, <1>b DEF Kill, TypeOK, Sleepers, ends, Holder
  <1>7. ASSUME NEW h \in Holder, FileClose(h) PROVE Sleepers'
    BY <1>0, <1>7, <1>b DEF FileClose, Goto, TypeOK, Sleepers, Holder
  <1>8. ASSUME NEW h \in Holder, PipeClose(h) PROVE Sleepers'
    <2>1. \A g \in Holder : pc[g] # "drowse"
      BY <1>0, <1>8 DEF PipeClose, Sleepers
    <2> QED
      BY <1>0, <1>8, <1>b, <2>1, PipeAssumption
      DEF PipeClose, WakeAnd, Side, TypeOK, Sleepers, Holder
  <1>9. ASSUME NEW h \in Holder, NEW g \in Holder, Dup(h, g) PROVE Sleepers'
    BY <1>0, <1>9, <1>b DEF Dup, Sleepers
  <1>10. CASE UNCHANGED vars
    BY <1>0, <1>10, <1>b DEF vars, ends, Sleepers
  <1> QED
    BY <1>1, <1>2, <1>3, <1>4, <1>5, <1>6, <1>7, <1>8, <1>9, <1>10 DEF Next

-----------------------------------------------------------------------------
(* The invariant and what follows from it.                                 *)

\* IInv holds in every reachable state of every pipe.
THEOREM Invariance == Spec => []IInv
  <1>1. IInv /\ [Next]_vars => IInv'
    BY TypeStep, EndsStep, SleepersStep, TransferStep DEF IInv
  <1> QED
    BY InitIInv, <1>1, PTL DEF Spec

\* The pipe's variables keep their types: the counters stay below Wrap and
\* every byte in the ring was written by somebody.
THEOREM TypeCorrect == Spec => []TypeOK
  <1>1. IInv => TypeOK
    BY DEF IInv
  <1> QED
    BY Invariance, <1>1, PTL

\* pipeclose() frees the page only when no process can come back to it, and
\* readopen and writeopen are 1 as long as a descriptor is open.
THEOREM PageSafety == Spec => []NoUseAfterFree
  <1>1. ASSUME IInv PROVE NoUseAfterFree
    <2>1. ASSUME freed, NEW h \in Holder
          PROVE  h \notin open /\ pc[h] \in {"user", "gone"}
      <3>1. h \notin open /\ pc[h] # "close"
        BY <1>1, <2>1 DEF IInv, Ends, EndOK, Holder
      <3>2. pc[h] \in {"user", "call", "drowse", "asleep", "close", "gone"}
        BY <1>1 DEF IInv, TypeOK
      <3> QED
        BY <1>1, <3>1, <3>2 DEF IInv, Ends, InCall
    <2>2. \A h \in open : /\ h \in Reader => readopen = 1
                          /\ h \in Writer => writeopen = 1
      BY <1>1 DEF IInv, Ends, EndOK
    <2> QED
      BY <2>1, <2>2 DEF NoUseAfterFree
  <1> QED
    BY Invariance, <1>1, PTL

\* Nobody sleeps in piperead() or pipewrite() over what it waits for, however
\* the wakeups, the closes and the kills interleave with the steps between
\* the test and the sleep; a reader may sleep over the bytes of a writer that
\* was killed on a full ring, and over no others.
THEOREM WakeupSafety == Spec => []NoLostWakeup
  <1>1. IInv => NoLostWakeup
    BY DEF IInv, Sleepers, NoLostWakeup
  <1> QED
    BY Invariance, <1>1, PTL

-----------------------------------------------------------------------------
(* The refinement of ByteStream.                                           *)

\* Appending to the ring appends to the queue: the old bytes stay where they
\* are, the new ones come after them, across both wrap-arounds.
LEMMA QueueIn ==
  ASSUME IInv, NEW w \in Writer, CopyIn(w, Room(w)), TypeOK'
  PROVE  Contents' = Contents \o SubSeq(todo[w], 1, Room(w))
  <1> DEFINE k == Room(w)
             P == PIPESIZE
             new == SubSeq(todo[w], 1, k)
             c == Count
  <1>1. /\ todo[w] \in Seq(Bytes) /\ k \in 0..Len(todo[w])
        /\ Len(todo[w]) \in Nat /\ c + k <= P /\ k \in Nat
    BY RoomFacts
  <1>0. TypeOK
    BY DEF IInv
  <1>2. TypeOK /\ c \in Nat /\ P \in Nat \ {0} /\ Wrap \in Nat \ {0}
        /\ Wrap % P = 0 /\ nread \in Int /\ nwrite \in Int
    <2>1. c \in Nat
      BY <1>0, CountFacts, PipeAssumption
    <2> QED
      BY <1>0, <2>1, PipeAssumption DEF TypeOK
  <1>3. Count' = c + k /\ nread' = nread /\ nwrite = (nread + c) % Wrap
    BY <1>2, CopyInType, CountFacts DEF CopyIn
  <1>4. new \in Seq(Bytes) /\ Len(new) = k /\ \A j \in 1..k : new[j] = todo[w][j]
    BY <1>1
  <1>5. /\ Contents \o new \in Seq(Bytes)
        /\ Len(Contents \o new) = c + k
        /\ \A i \in 1..(c + k) : (Contents \o new)[i] =
             IF i <= c THEN Contents[i] ELSE new[i - c]
    <2>1. Contents \in Seq(Bytes) /\ Len(Contents) = c
      BY <1>2, ContentsType
    <2> HIDE DEF new, c
    <2>2. /\ Contents \o new \in Seq(Bytes)
          /\ Len(Contents \o new) = Len(Contents) + Len(new)
          /\ \A i \in 1..(Len(Contents) + Len(new)) : (Contents \o new)[i] =
               IF i <= Len(Contents) THEN Contents[i]
                                     ELSE new[i - Len(Contents)]
      BY <1>4, <2>1, ConcatProperties, Zenon
    <2> QED
      BY <1>4, <2>1, <2>2, Zenon
  <1>6. ASSUME NEW j \in Int
        PROVE  (nwrite + j - 1) % P = (nread + c + j - 1) % P
    <2>0. nread + c \in Int /\ j - 1 \in Int
      BY <1>2
    <2>1. (((nread + c) % Wrap) + (j - 1)) % P = ((nread + c) + (j - 1)) % P
      <3> DEFINE a == nread + c
                 y == j - 1
      <3>1. a \in Int /\ y \in Int /\ Wrap % PIPESIZE = 0
            /\ Wrap \in Nat \ {0} /\ PIPESIZE \in Nat \ {0}
        BY <1>2, <2>0
      <3> HIDE DEF a, y
      <3>2. ((a % Wrap) + y) % PIPESIZE = (a + y) % PIPESIZE
        BY <3>1, SamePosition, ZenonT(60)
      <3> QED
        BY <3>2 DEF a, y
    <2>2. /\ nwrite + j - 1 = ((nread + c) % Wrap) + (j - 1)
          /\ nread + c + j - 1 = (nread + c) + (j - 1)
      BY <1>2, <1>3
    <2> QED
      BY <2>1, <2>2
  <1> DEFINE at(i, j) == i = (nwrite + j - 1) % P
  <1>7. \A i \in 0..(P - 1) : data'[i] =
          IF \E j \in 1..k : at(i, j)
            THEN todo[w][CHOOSE j \in 1..k : at(i, j)] ELSE data[i]
    BY <1>2 DEF CopyIn, TypeOK
  <1>8. ASSUME NEW i \in 1..(c + k)
        PROVE  data'[(nread + i - 1) % P] = (Contents \o new)[i]
    <2> DEFINE x == (nread + i - 1) % P
    <2>1. x \in 0..(P - 1) /\ i \in Int
      BY <1>1, <1>2
    <2>2. ASSUME NEW j \in 1..k, at(x, j)
          PROVE  j = i - c
      <3>1. j \in Int /\ nread + i - 1 \in Int /\ nread + c + j - 1 \in Int
        BY <1>2, <2>1
      <3>2. (nread + i - 1) % P = (nread + c + j - 1) % P
        BY <1>6, <2>2, <3>1
      <3>3. /\ (nread + i - 1) - (nread + c + j - 1) < P
            /\ (nread + c + j - 1) - (nread + i - 1) < P
        BY <1>1, <1>2, <2>1
      <3>4. nread + i - 1 = nread + c + j - 1
        BY <1>2, <3>1, <3>2, <3>3, DistinctPositions, Zenon
      <3> QED
        BY <1>2, <2>1, <3>4
    <2>3. CASE i <= c
      <3>1. ~ \E j \in 1..k : at(x, j)
        BY <1>2, <2>1, <2>2, <2>3
      <3>2. data'[x] = data[x]
        BY <1>7, <2>1, <3>1
      <3>3. Contents[i] = data[x]
        BY <1>2, <2>1, <2>3 DEF Contents
      <3> QED
        BY <1>5, <2>3, <3>2, <3>3
    <2>4. CASE i > c
      <3>1. i - c \in 1..k /\ i - c \in Int
        BY <1>1, <1>2, <2>1, <2>4
      <3>2. nread + i - 1 = nread + c + (i - c) - 1
        BY <1>2, <2>1
      <3>3. at(x, i - c)
        BY <1>6, <3>1, <3>2
      <3>4. (CHOOSE j \in 1..k : at(x, j)) = i - c
        BY <2>2, <3>1, <3>3
      <3>5. data'[x] = todo[w][i - c]
        BY <1>7, <2>1, <3>1, <3>3, <3>4
      <3> QED
        BY <1>2, <1>4, <1>5, <2>1, <2>4, <3>1, <3>5
    <2>5. i <= c \/ i > c
      BY <1>2, <2>1
    <2> QED
      BY <2>3, <2>4, <2>5, Zenon
  <1>9. /\ Contents' \in Seq(Bytes) /\ Len(Contents') = c + k
        /\ \A i \in 1..(c + k) : Contents'[i] = data'[(nread + i - 1) % P]
    <2> HIDE DEF c, k
    <2>1. Contents' = [i \in 1..(c + k) |-> data'[(nread + i - 1) % P]]
      BY <1>3 DEF Contents
    <2>2. ASSUME NEW i \in 1..(c + k)
          PROVE  data'[(nread + i - 1) % P] \in Bytes
      <3>1. (nread + i - 1) % P \in 0..(P - 1)
        BY <1>1, <1>2
      <3> QED
        BY <3>1 DEF TypeOK
    <2>3. c + k \in Nat
      BY <1>1, <1>2
    <2> QED
      BY <2>1, <2>2, <2>3
  <1> QED
    BY <1>5, <1>8, <1>9, SeqEqual

\* A sequence is the function that lists its elements.
LEMMA SeqByElements ==
  ASSUME NEW S, NEW s \in Seq(S), NEW n \in Nat, Len(s) = n
  PROVE  [i \in 1..n |-> s[i]] = s
  OBVIOUS

\* Taking from the ring takes the head of the queue.
LEMMA QueueOut ==
  ASSUME TypeOK, NEW k \in 0..Count, nread' = (nread + k) % Wrap,
         UNCHANGED <<data, nwrite>>
  PROVE  Contents' = SubSeq(Contents, k + 1, Len(Contents))
  <1> DEFINE P == PIPESIZE
             c == Count
             rest == SubSeq(Contents, k + 1, Len(Contents))
  <1>1. /\ c \in Nat /\ k \in Nat /\ c - k \in Nat
        /\ P \in Nat \ {0} /\ Wrap \in Nat \ {0} /\ Wrap % P = 0
        /\ nread \in Int
    <2>1. c \in Nat
      BY CountFacts, PipeAssumption
    <2> QED
      BY <2>1, PipeAssumption DEF TypeOK
  <1>2. Contents \in Seq(Bytes) /\ Len(Contents) = c
    BY ContentsType
  <1>3. Count' = c - k
    BY CountOut
  <1> HIDE DEF c
  <1>4. /\ rest \in Seq(Bytes) /\ Len(rest) = c - k
        /\ \A i \in 1..(c - k) : rest[i] = Contents[k + i]
    BY <1>1, <1>2
  <1>5. Contents' = [i \in 1..(c - k) |-> data[(nread' + i - 1) % P]]
    BY <1>3 DEF Contents
  <1>6. ASSUME NEW i \in 1..(c - k)
        PROVE  data[(nread' + i - 1) % P] = rest[i]
    <2> DEFINE a == nread + k
               y == i - 1
    <2>1. /\ a \in Int /\ y \in Int /\ nread' + i - 1 = (a % Wrap) + y
          /\ nread + (k + i) - 1 = a + y
          /\ k + i \in 1..c
      BY <1>1
    <2> HIDE DEF a, y
    <2>a. /\ Wrap \in Nat \ {0} /\ P \in Nat \ {0}
          /\ Wrap % P = 0 /\ a \in Int /\ y \in Int
      BY <1>1, <2>1
    <2>2. ((a % Wrap) + y) % P = (a + y) % P
      BY <2>a, SamePosition, ZenonT(60)
    <2>3. Contents[k + i] = data[(nread + (k + i) - 1) % P]
      BY <2>1 DEF Contents, c
    <2> QED
      BY <1>4, <2>1, <2>2, <2>3
  <1>7. Contents' = [i \in 1..(c - k) |-> rest[i]]
    BY <1>5, <1>6
  <1>8. [i \in 1..(c - k) |-> rest[i]] = rest
    <2> HIDE DEF rest
    <2> QED
      BY <1>1, <1>4, SeqByElements
  <1> QED
    BY <1>7, <1>8, Zenon

\* A step that does not touch the ring leaves the queue alone.
LEMMA QueueKept ==
  ASSUME UNCHANGED ring
  PROVE  Contents' = Contents
  BY DEF ring, Contents, Count

\* Every step of the pipe is a step of the byte stream or leaves it as it is.
LEMMA StreamStep == IInv /\ [Next]_vars => [Stream!Next]_(Stream!vars)
  <1> SUFFICES ASSUME IInv, [Next]_vars, ~ UNCHANGED Stream!vars
               PROVE  Stream!Next
    OBVIOUS
  <1>0. TypeOK /\ Ends /\ Transfer /\ TypeOK'
    BY TypeStep DEF IInv
  <1> DEFINE Kept == UNCHANGED <<Contents, todo, want, got, readopen, writeopen, killed>>
  <1>a. ~Kept
    BY DEF Stream!vars, Stream!ends
  <1> USE DEF Stream!ends
  <1>1. ASSUME NEW w \in Writer, StartWrite(w) PROVE Stream!Next
    <2>1. w \in Holder /\ todo[w] = <<>> /\ writeopen = 1
      BY <1>0, <1>1 DEF StartWrite, Transfer, Ends, EndOK, InCall, Holder
    <2>2. Stream!Request(w)
      BY <1>1, <2>1, QueueKept DEF StartWrite, Stream!Request, ends
    <2> QED
      BY <2>2 DEF Stream!Next
  <1>2. ASSUME NEW w \in Writer, PipeWrite(w) PROVE Stream!Next
    <2> DEFINE k == Room(w)
    <2>1. CopyIn(w, k) /\ UNCHANGED <<ends, killed, want, got>>
      BY <1>2 DEF PipeWrite
    <2>2. Contents' = Contents \o SubSeq(todo[w], 1, k)
      BY <1>0, <2>1, QueueIn
    <2>3. k \in 0..Len(todo[w]) /\ Len(Contents) + k <= PIPESIZE
      BY <1>0, RoomFacts, ContentsType
    <2>4. \/ todo' = [todo EXCEPT ![w] = SubSeq(@, k + 1, Len(@))]
          \/ /\ ~(readopen = 1) \/ w \in killed
             /\ todo' = [todo EXCEPT ![w] = <<>>]
      <3>1. CASE k = Len(todo[w]) /\ todo' = [todo EXCEPT ![w] = <<>>]
        <4>1. todo[w] \in Seq(Bytes) /\ Len(todo[w]) \in Nat
          BY RoomFacts
        <4>2. SubSeq(todo[w], Len(todo[w]) + 1, Len(todo[w])) = <<>>
          BY <4>1
        <4> QED
          BY <3>1, <4>2
      <3> QED
        BY <1>2, <3>1 DEF PipeWrite
    <2> HIDE DEF k
    <2>5. Stream!Put(w)
      BY <2>1, <2>2, <2>3, <2>4 DEF Stream!Put, ends
    <2> QED
      BY <2>5 DEF Stream!Next
  <1>3. ASSUME NEW r \in Reader, StartRead(r) PROVE Stream!Next
    <2>0. r \in Holder /\ want[r] = 0 /\ readopen = 1
      BY <1>0, <1>3 DEF StartRead, Transfer, Ends, EndOK, InCall, Holder
    <2>1. Stream!Ask(r)
      BY <1>3, <2>0, QueueKept DEF StartRead, Stream!Ask, ends
    <2> QED
      BY <2>1 DEF Stream!Next
  <1>4. ASSUME NEW r \in Reader, PipeRead(r) PROVE Stream!Next
    <2>0. UNCHANGED <<ends, killed, todo>> /\ pc[r] = "call"
      BY <1>4 DEF PipeRead, Enters
    <2>1. CASE r \in killed /\ want' = [want EXCEPT ![r] = 0] /\ UNCHANGED <<ring, got>>
      <3>1. want[r] # 0
        BY <1>0, <2>0 DEF Transfer, InCall
      <3>2. Stream!Fail(r)
        BY <2>0, <2>1, <3>1, QueueKept DEF Stream!Fail, ends
      <3> QED
        BY <3>2 DEF Stream!Next
    <2>3. CASE UNCHANGED <<ring, want, got>>
      BY <1>a, <2>0, <2>3, QueueKept DEF ends
    <2>2. CASE CopyOut(r) /\ ~Waits /\ want' = [want EXCEPT ![r] = 0]
      <3> DEFINE k == Least(want[r], Count)
      <3>1. Count \in Nat /\ want[r] \in Nat /\ want[r] # 0
        <4>1. Count \in Nat
          BY <1>0, CountFacts, PipeAssumption
        <4>2. pc[r] = "call"
          BY <1>4 DEF PipeRead, Enters
        <4> QED
          BY <1>0, <4>1, <4>2 DEF TypeOK, Transfer, InCall
      <3>2. k \in 0..Count /\ k <= want[r] /\ (k = 0 => Count = 0)
        BY <3>1 DEF Least
      <3>3. Contents \in Seq(Bytes) /\ Len(Contents) = Count
        BY <1>0, ContentsType
      <3>4. k = 0 => Contents = <<>> /\ writeopen # 1
        BY <1>0, <2>2, <3>2, <3>3, CountFacts DEF Waits
      <3>5. /\ nread' = (nread + k) % Wrap /\ UNCHANGED <<data, nwrite>>
            /\ got' = [got EXCEPT ![r] = SubSeq(Contents, 1, k)]
        BY <2>2 DEF CopyOut
      <3> HIDE DEF k
      <3>6. Contents' = SubSeq(Contents, k + 1, Len(Contents))
        BY <1>0, <3>2, <3>5, QueueOut
      <3>7. UNCHANGED <<todo, readopen, writeopen, killed>>
        BY <2>0 DEF ends
      <3>8. Stream!Take(r)
        BY <2>2, <3>1, <3>2, <3>3, <3>4, <3>5, <3>6, <3>7 DEF Stream!Take
      <3> QED
        BY <3>8 DEF Stream!Next
    <2> QED
      BY <1>4, <2>1, <2>2, <2>3 DEF PipeRead
  <1>5. ASSUME NEW h \in Holder, Sleep(h) PROVE Stream!Next
    BY <1>5, <1>a, QueueKept DEF Sleep, ends
  <1>6. ASSUME NEW h \in Holder, Kill(h) PROVE Stream!Next
    <2>1. Stream!Kill
      BY <1>6, QueueKept DEF Kill, Stream!Kill, ends, Holder
    <2> QED
      BY <2>1 DEF Stream!Next
  <1>7. ASSUME NEW h \in Holder, FileClose(h) PROVE Stream!Next
    BY <1>7, <1>a, QueueKept DEF FileClose
  <1>8. ASSUME NEW h \in Holder, PipeClose(h) PROVE Stream!Next
    <2>1. /\ UNCHANGED <<ring, killed, todo, want, got>> /\ pc[h] = "close"
          /\ readopen' = (IF h \in Reader THEN 0 ELSE readopen)
          /\ writeopen' = (IF h \in Writer THEN 0 ELSE writeopen)
      BY <1>8 DEF PipeClose
    <2>2. CASE h \in Writer
      <3>1. \A w \in Writer : w \notin open
        BY <1>0, <2>1, <2>2 DEF Ends, EndOK
      <3>2. \A w \in Writer : todo[w] = <<>>
        BY <1>0, <3>1 DEF Ends, Transfer, Holder
      <3>3. h \notin Reader
        BY <2>2, PipeAssumption
      <3>4. Stream!CloseWriting
        BY <2>1, <2>2, <3>2, <3>3, QueueKept DEF Stream!CloseWriting
      <3> QED
        BY <3>4 DEF Stream!Next
    <2>3. CASE h \in Reader
      <3>1. \A r \in Reader : r \notin open
        BY <1>0, <2>1, <2>3 DEF Ends, EndOK
      <3>2. \A r \in Reader : want[r] = 0
        BY <1>0, <3>1 DEF Ends, Transfer, Holder
      <3>3. h \notin Writer
        BY <2>3, PipeAssumption
      <3>4. Stream!CloseReading
        BY <2>1, <2>3, <3>2, <3>3, QueueKept DEF Stream!CloseReading
      <3> QED
        BY <3>4 DEF Stream!Next
    <2> QED
      BY <2>2, <2>3 DEF Holder
  <1>9. ASSUME NEW h \in Holder, NEW g \in Holder, Dup(h, g)
        PROVE  Stream!Next
    BY <1>9, <1>a, QueueKept DEF Dup
  <1>10. CASE UNCHANGED vars
    BY <1>10, <1>a, QueueKept DEF vars, ends
  <1> QED
    BY <1>1, <1>2, <1>3, <1>4, <1>5, <1>6, <1>7, <1>8, <1>9, <1>10 DEF Next

\* A fresh pipe is an empty stream.
LEMMA StreamInit == Init => Stream!Init
  <1> SUFFICES ASSUME Init PROVE Stream!Init
    OBVIOUS
  <1>1. Count = 0
    BY PipeAssumption DEF Init, Count
  <1>2. Contents = <<>>
    BY <1>1 DEF Contents
  <1> QED
    BY <1>2 DEF Init, Stream!Init

\* pipe.c implements a byte stream: whatever the ring size, the counter width
\* and the interleaving, bytes come out once, in order and unchanged, a read
\* returns none only when the ring is empty and no writer is left, and a write
\* is cut short only if its process is killed or nobody reads.
THEOREM Refinement == Spec => IsByteStream
  BY Invariance, StreamInit, StreamStep, PTL
  DEF Spec, IsByteStream, Stream!Spec
=============================================================================
