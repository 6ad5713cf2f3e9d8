---------------------------- MODULE PartsProofs ----------------------------
(***************************************************************************)
(* Proofs about the parts of Parts, one after the other: the console's     *)
(* input ring, the keyboard, the screen, names in paths and directories,   *)
(* arguments of system calls, and malloc() and free().  Each section has   *)
(* the inductive invariant of its part, the lemmas about its operators and *)
(* a theorem; the last section puts the theorems together to the           *)
(* properties of Parts.                                                    *)
(***************************************************************************)
EXTENDS Parts, Numbers, FiniteSetTheorems, SequenceTheorems

-----------------------------------------------------------------------------
(* Console.                                                                *)

Index == 0..(UINT - 1)
Places == 0..(INPUT_BUF - 1)

ConType ==
  /\ input \in [buf : [Places -> ConChars], r : Index, w : Index, e : Index]
  /\ reader \in [Users -> [at : {"idle", "asleep", "awake"}, n : Nat, target : Nat,
                           killed : BOOLEAN, got : Int]]

\* The three indexes follow each other around the ring, and a line that is
\* still edited has no end in it.
RingOK ==
  /\ Wrap(input.w - input.r) + Wrap(input.e - input.w) <= INPUT_BUF
  /\ \A k \in 1..Wrap(input.e - input.w) : Edited(input)[k] \notin {NL, EOF}

\* A read has at most as much to go as was asked for.
Reading == \A p \in Users : reader[p].n <= reader[p].target

ConInv == ConType /\ RingOK /\ Reading /\ ReaderAwake

\* The constants as the leaves need them.
LEMMA RingSizes ==
  /\ INPUT_BUF \in Nat \ {0} /\ UINT \in Nat \ {0} /\ UINT > INPUT_BUF
  /\ UINT % INPUT_BUF = 0 /\ MAXREAD \in Nat
  BY RingAssumption

\* Wrapping an index does not change its place in the ring.
LEMMA Place ==
  ASSUME NEW x \in Int, NEW y \in Int
  PROVE  /\ (Wrap(x) + y) % INPUT_BUF = (x + y) % INPUT_BUF
         /\ Wrap(x) % INPUT_BUF = x % INPUT_BUF
         /\ Wrap(x) \in Index
         /\ x % INPUT_BUF \in Places
  <1>1. ((x % UINT) + y) % INPUT_BUF = (x + y) % INPUT_BUF
    BY RingSizes, SamePosition, Zenon
  <1>2. ((x % UINT) + 0) % INPUT_BUF = (x + 0) % INPUT_BUF
    <2>1. 0 \in Int
      OBVIOUS
    <2> QED
      BY <2>1, RingSizes, SamePosition, ZenonT(30)
  <1>3. x % UINT \in Index /\ x % UINT \in Int /\ x % INPUT_BUF \in Places
    BY RingSizes DEF Index, Places
  <1>4. (x % UINT) + 0 = x % UINT /\ x + 0 = x
    BY <1>3
  <1> QED
    BY <1>1, <1>2, <1>3, <1>4 DEF Wrap

\* What Between() holds.
LEMMA BetweenIs ==
  ASSUME NEW in, in.buf \in [Places -> ConChars], NEW i \in Index, NEW j \in Index
  PROVE  /\ Wrap(j - i) \in Nat /\ Wrap(j - i) < UINT
         /\ Between(in, i, j) \in Seq(ConChars)
         /\ Len(Between(in, i, j)) = Wrap(j - i)
         /\ \A k \in 1..Wrap(j - i) :
              Between(in, i, j)[k] = in.buf[(i + k - 1) % INPUT_BUF]
  <1>1. i \in Int /\ j \in Int /\ j - i \in Int
    BY RingSizes DEF Index
  <1>2. Wrap(j - i) \in Index
    BY <1>1, Place
  <1>3. Wrap(j - i) \in Nat /\ Wrap(j - i) < UINT
    BY <1>2, RingSizes DEF Index
  <1>4. ASSUME NEW k \in 1..Wrap(j - i)
        PROVE  /\ Wrap(i + k - 1) % INPUT_BUF = (i + k - 1) % INPUT_BUF
               /\ (i + k - 1) % INPUT_BUF \in Places
    <2>1. i + k - 1 \in Int
      BY <1>1, <1>3
    <2> QED
      BY <2>1, Place
  <1> DEFINE s == Between(in, i, j)
  <1>5. s = [k \in 1..Wrap(j - i) |-> in.buf[(i + k - 1) % INPUT_BUF]]
    BY <1>4 DEF Between
  <1>6. ASSUME NEW k \in 1..Wrap(j - i) PROVE in.buf[(i + k - 1) % INPUT_BUF] \in ConChars
    BY <1>4
  <1> HIDE DEF s
  <1>7. s \in Seq(ConChars) /\ Len(s) = Wrap(j - i)
    BY <1>3, <1>5, <1>6
  <1> QED
    BY <1>3, <1>5, <1>7 DEF s

\* The distance of two indexes.
LEMMA WrapGap ==
  ASSUME NEW i \in Index, NEW j \in Index
  PROVE  Wrap(j - i) = IF j < i THEN j - i + UINT ELSE j - i
  BY RingSizes, Gap DEF Wrap, Index

\* Moving an index moves its distance from an earlier or a later one.
LEMMA WrapAhead ==
  ASSUME NEW i \in Index, NEW j \in Index, NEW k \in Nat, Wrap(j - i) + k < UINT
  PROVE  /\ Wrap(j + k) \in Index
         /\ Wrap(Wrap(j + k) - i) = Wrap(j - i) + k
  <1>1. /\ UINT \in Nat \ {0} /\ i \in 0..(UINT - 1) /\ j \in 0..(UINT - 1)
        /\ ((j - i) % UINT) + k < UINT
    BY RingSizes DEF Wrap, Index
  <1>2. /\ (j + k) % UINT \in 0..(UINT - 1)
        /\ (((j + k) % UINT) - i) % UINT = ((j - i) % UINT) + k
    BY <1>1, Ahead
  <1> QED
    BY <1>2 DEF Wrap, Index

\* An index k places on from i is k places nearer to j, across the wrap of the counter.
LEMMA WrapBehind ==
  ASSUME NEW i \in Index, NEW j \in Index, NEW k \in 0..Wrap(j - i)
  PROVE  /\ Wrap(i + k) \in Index
         /\ Wrap(j - Wrap(i + k)) = Wrap(j - i) - k
  <1>1. /\ UINT \in Nat \ {0} /\ i \in 0..(UINT - 1) /\ j \in 0..(UINT - 1)
        /\ k \in 0..((j - i) % UINT)
    BY RingSizes DEF Wrap, Index
  <1>2. /\ (i + k) % UINT \in 0..(UINT - 1)
        /\ (j - ((i + k) % UINT)) % UINT = ((j - i) % UINT) - k
    BY <1>1, Behind
  <1> QED
    BY <1>2 DEF Wrap, Index

\* What lies between two indexes can be cut at one between them.
LEMMA Cut ==
  ASSUME NEW in, in.buf \in [Places -> ConChars],
         NEW i \in Index, NEW m \in Index, NEW j \in Index,
         Wrap(m - i) + Wrap(j - m) < UINT
  PROVE  /\ Wrap(j - i) = Wrap(m - i) + Wrap(j - m)
         /\ Between(in, i, j) = Between(in, i, m) \o Between(in, m, j)
  <1> DEFINE a == Wrap(m - i)
             b == Wrap(j - m)
  <1>1. /\ a \in Nat /\ b \in Nat
        /\ Between(in, i, m) \in Seq(ConChars) /\ Len(Between(in, i, m)) = a
        /\ Between(in, m, j) \in Seq(ConChars) /\ Len(Between(in, m, j)) = b
        /\ Between(in, i, j) \in Seq(ConChars) /\ Len(Between(in, i, j)) = Wrap(j - i)
    BY BetweenIs
  <1>2. Wrap(j - i) = a + b /\ (m = i + a \/ m = i + a - UINT)
    <2>1. /\ a = IF m < i THEN m - i + UINT ELSE m - i
          /\ b = IF j < m THEN j - m + UINT ELSE j - m
          /\ Wrap(j - i) = IF j < i THEN j - i + UINT ELSE j - i
      BY WrapGap
    <2>2. a + b < UINT
      OBVIOUS
    <2> HIDE DEF a, b
    <2> QED
      BY <2>1, <2>2, RingSizes DEF Index
  <1>3. m = Wrap(i + a)
    <2>1. (i + ((m - i) % UINT)) % UINT = m
      BY RingSizes, Distance DEF Index
    <2> QED
      BY <2>1 DEF Wrap
  <1> DEFINE s == Between(in, i, m)
             t == Between(in, m, j)
             u == Between(in, i, j)
  <1>4. \A k \in 1..a : s[k] = in.buf[(i + k - 1) % INPUT_BUF]
    BY BetweenIs
  <1>5. \A k \in 1..b : t[k] = in.buf[(m + k - 1) % INPUT_BUF]
    BY BetweenIs
  <1>6. \A k \in 1..(a + b) : u[k] = in.buf[(i + k - 1) % INPUT_BUF]
    BY <1>2, BetweenIs
  <1>7. ASSUME NEW k \in 1..b
        PROVE  (m + k - 1) % INPUT_BUF = (i + (a + k) - 1) % INPUT_BUF
    <2> HIDE DEF a, b
    <2>0. i \in Int /\ m \in Int /\ a \in Int /\ k \in Int
      <3>1. i \in Int /\ m \in Int
        BY RingSizes DEF Index
      <3>2. a \in Nat /\ b \in Nat
        BY <1>1, Zenon
      <3> QED
        BY <3>1, <3>2
    <2>1. i + a \in Int /\ k - 1 \in Int
      BY <2>0
    <2>2. (Wrap(i + a) + (k - 1)) % INPUT_BUF = ((i + a) + (k - 1)) % INPUT_BUF
      BY <2>1, Place
    <2>3. m + k - 1 = m + (k - 1) /\ i + (a + k) - 1 = (i + a) + (k - 1)
      BY <2>0
    <2>4. (m + (k - 1)) % INPUT_BUF = ((i + a) + (k - 1)) % INPUT_BUF
      BY <1>3, <2>2, Zenon
    <2> QED
      BY <2>3, <2>4, Zenon
  <1> HIDE DEF a, b, s, t, u
  <1>8. u = s \o t
    <2>1. s \in Seq(ConChars) /\ Len(s) = a /\ t \in Seq(ConChars) /\ Len(t) = b
          /\ u \in Seq(ConChars) /\ Len(u) = a + b
      BY <1>1, <1>2 DEF s, t, u
    <2>2. Len(s \o t) = a + b /\ s \o t \in Seq(ConChars)
      BY <1>1, <2>1
    <2>3. ASSUME NEW k \in 1..(a + b) PROVE u[k] = (s \o t)[k]
      <3>1. CASE k <= a
        <4>1. k \in 1..a /\ (s \o t)[k] = s[k]
          BY <1>1, <2>1, <3>1
        <4> QED
          BY <1>4, <1>6, <4>1
      <3>2. CASE k > a
        <4>1. k - a \in 1..b /\ a + (k - a) = k
          BY <1>1, <3>2
        <4>2. (s \o t)[k] = t[k - a]
          BY <1>1, <2>1, <3>2, <4>1
        <4>3. t[k - a] = in.buf[(m + (k - a) - 1) % INPUT_BUF]
          BY <1>5, <4>1
        <4>4. (m + (k - a) - 1) % INPUT_BUF = (i + k - 1) % INPUT_BUF
          BY <1>7, <4>1
        <4> QED
          BY <1>6, <4>2, <4>3, <4>4
      <3>3. k <= a \/ k > a
        BY <1>1
      <3> QED
        BY <3>1, <3>2, <3>3, Zenon
    <2> QED
      BY <1>1, <2>1, <2>2, <2>3, SMTT(30)
  <1> QED
    BY <1>2, <1>8 DEF a, b, s, t, u

\* The place of an index, seen from an earlier one.
LEMMA PlaceOf ==
  ASSUME NEW i \in Index, NEW e \in Index
  PROVE  /\ e % INPUT_BUF = (i + Wrap(e - i)) % INPUT_BUF
         /\ e = Wrap(i + Wrap(e - i))
  <1>1. e = Wrap(i + Wrap(e - i))
    <2>1. (i + ((e - i) % UINT)) % UINT = e
      BY RingSizes, Distance DEF Index
    <2> QED
      BY <2>1 DEF Wrap
  <1>2. e - i \in Int
    BY RingSizes DEF Index
  <1>3. Wrap(e - i) \in Index
    BY <1>2, Place
  <1>4. i + Wrap(e - i) \in Int
    BY <1>3, RingSizes DEF Index
  <1>5. Wrap(i + Wrap(e - i)) % INPUT_BUF = (i + Wrap(e - i)) % INPUT_BUF
    BY <1>4, Place
  <1> QED
    BY <1>1, <1>5

\* The next free place is none of those before it.
LEMMA FreePlace ==
  ASSUME NEW i \in Index, NEW e \in Index, Wrap(e - i) < INPUT_BUF,
         NEW k \in 1..Wrap(e - i)
  PROVE  (i + k - 1) % INPUT_BUF # e % INPUT_BUF
  <1> DEFINE g == Wrap(e - i)
  <1>1. e % INPUT_BUF = (i + g) % INPUT_BUF
    BY PlaceOf
  <1>2. e - i \in Int
    BY RingSizes DEF Index
  <1>3. g \in Index
    BY <1>2, Place
  <1>4. g < INPUT_BUF /\ k \in 1..g
    OBVIOUS
  <1> HIDE DEF g
  <1> DEFINE x == i + k - 1
             y == i + g
  <1>5. x \in Int /\ y \in Int /\ x - y < INPUT_BUF /\ y - x < INPUT_BUF /\ x # y
    BY <1>3, <1>4, RingSizes DEF Index
  <1> HIDE DEF x, y
  <1>6. x % INPUT_BUF # y % INPUT_BUF
    BY <1>5, RingSizes, DistinctPositions
  <1> QED
    BY <1>1, <1>6 DEF x, y

\* A character that is put into the ring comes last.
LEMMA PutLast ==
  ASSUME NEW in, in.buf \in [Places -> ConChars], NEW c \in ConChars,
         NEW i \in Index, NEW e \in Index, Wrap(e - i) < INPUT_BUF,
         NEW new, new.buf \in [Places -> ConChars],
         \A x \in Places : new.buf[x] = IF x = e % INPUT_BUF THEN c ELSE in.buf[x]
  PROVE  /\ Wrap(e + 1) \in Index
         /\ Wrap(Wrap(e + 1) - i) = Wrap(e - i) + 1
         /\ Between(new, i, Wrap(e + 1)) = Append(Between(in, i, e), c)
  <1> DEFINE g == Wrap(e - i)
             f == Wrap(e + 1)
  <1>1. /\ g \in Nat /\ g < INPUT_BUF
        /\ Between(in, i, e) \in Seq(ConChars) /\ Len(Between(in, i, e)) = g
        /\ \A k \in 1..g : Between(in, i, e)[k] = in.buf[(i + k - 1) % INPUT_BUF]
    BY BetweenIs
  <1>2. f \in Index /\ Wrap(f - i) = g + 1
    <2>1. g + 1 < UINT
      BY <1>1, RingSizes
    <2> QED
      BY <2>1, WrapAhead
  <1>3. e % INPUT_BUF \in Places
    BY Place DEF Index
  <1>5. /\ Between(new, i, f) \in Seq(ConChars) /\ Len(Between(new, i, f)) = g + 1
        /\ \A k \in 1..(g + 1) : Between(new, i, f)[k] = new.buf[(i + k - 1) % INPUT_BUF]
    <2>1. /\ Between(new, i, f) \in Seq(ConChars) /\ Len(Between(new, i, f)) = Wrap(f - i)
          /\ \A k \in 1..Wrap(f - i) :
               Between(new, i, f)[k] = new.buf[(i + k - 1) % INPUT_BUF]
      <3> HIDE DEF f
      <3> QED
        BY <1>2, BetweenIs
    <2> QED
      BY <1>2, <2>1, Zenon
  <1>6. (i + (g + 1) - 1) % INPUT_BUF = e % INPUT_BUF
    <2>1. i + (g + 1) - 1 = i + g
      BY <1>1 DEF Index
    <2> QED
      BY <2>1, PlaceOf
  <1>7. \A k \in 1..g : (i + k - 1) % INPUT_BUF # e % INPUT_BUF
    BY FreePlace
  <1>a. \A k \in 1..g : (i + k - 1) % INPUT_BUF \in Places
    <2> SUFFICES ASSUME NEW k \in 1..g PROVE (i + k - 1) % INPUT_BUF \in Places
      OBVIOUS
    <2>1. i + k - 1 \in Int
      BY <1>1 DEF Index
    <2> QED
      BY <2>1, Place
  <1> DEFINE s == Between(in, i, e)
             t == Between(new, i, f)
             pl(k) == (i + k - 1) % INPUT_BUF
             q == e % INPUT_BUF
  <1>b. /\ \A k \in 1..g : s[k] = in.buf[pl(k)] /\ pl(k) # q /\ pl(k) \in Places
        /\ \A k \in 1..(g + 1) : t[k] = new.buf[pl(k)]
        /\ pl(g + 1) = q /\ q \in Places
        /\ \A x \in Places : new.buf[x] = IF x = q THEN c ELSE in.buf[x]
        /\ s \in Seq(ConChars) /\ Len(s) = g /\ t \in Seq(ConChars) /\ Len(t) = g + 1
    BY <1>1, <1>3, <1>5, <1>6, <1>7, <1>a
  <1>8. t = Append(s, c)
    <2> HIDE DEF g, f, s, t, pl, q
    <2>1. \A k \in 1..(g + 1) : t[k] = Append(s, c)[k]
      BY <1>1, <1>b
    <2>2. Append(s, c) \in Seq(ConChars) /\ Len(Append(s, c)) = g + 1
      BY <1>b
    <2> QED
      BY <1>1, <1>b, <2>1, <2>2
  <1> QED
    BY <1>2, <1>8

\* It does not touch what is in the ring before it.
LEMMA PutKeeps ==
  ASSUME NEW in, in.buf \in [Places -> ConChars], NEW c \in ConChars,
         NEW i \in Index, NEW m \in Index, NEW e \in Index,
         Wrap(m - i) + Wrap(e - m) < INPUT_BUF,
         NEW new, new.buf \in [Places -> ConChars],
         \A x \in Places : new.buf[x] = IF x = e % INPUT_BUF THEN c ELSE in.buf[x]
  PROVE  Between(new, i, m) = Between(in, i, m)
  <1> DEFINE a == Wrap(m - i)
  <1>1. a \in Nat /\ Wrap(e - m) \in Nat
    BY BetweenIs
  <1>2. Wrap(e - i) = a + Wrap(e - m)
    <2>1. Wrap(m - i) + Wrap(e - m) < UINT
      BY <1>1, RingSizes
    <2> QED
      BY <2>1, Cut
  <1>3. e % INPUT_BUF \in Places
    BY Place DEF Index
  <1>5. /\ Between(new, i, m) \in Seq(ConChars) /\ Len(Between(new, i, m)) = a
        /\ \A k \in 1..a : Between(new, i, m)[k] = new.buf[(i + k - 1) % INPUT_BUF]
    BY BetweenIs
  <1>7. /\ Between(in, i, m) \in Seq(ConChars) /\ Len(Between(in, i, m)) = a
        /\ \A k \in 1..a : Between(in, i, m)[k] = in.buf[(i + k - 1) % INPUT_BUF]
    BY BetweenIs
  <1>6. ASSUME NEW k \in 1..a
        PROVE  Between(new, i, m)[k] = Between(in, i, m)[k]
    <2>1. k \in 1..Wrap(e - i) /\ Wrap(e - i) < INPUT_BUF
      BY <1>1, <1>2
    <2>2. (i + k - 1) % INPUT_BUF # e % INPUT_BUF
      BY <2>1, FreePlace
    <2>3. i + k - 1 \in Int
      BY <1>1 DEF Index
    <2>4. (i + k - 1) % INPUT_BUF \in Places
      BY <2>3, Place
    <2>5. new.buf[(i + k - 1) % INPUT_BUF] = in.buf[(i + k - 1) % INPUT_BUF]
      BY <2>2, <2>4
    <2> QED
      BY <1>5, <1>7, <2>5
  <1> QED
    BY <1>1, <1>5, <1>6, <1>7

\* Taking k characters back.
LEMMA WrapBack ==
  ASSUME NEW i \in Index, NEW j \in Index, NEW k \in 0..Wrap(j - i)
  PROVE  /\ Wrap(j - k) \in Index
         /\ Wrap(Wrap(j - k) - i) = Wrap(j - i) - k
         /\ k = Wrap(j - i) => Wrap(j - k) = i
  <1>1. Wrap(j - i) = IF j < i THEN j - i + UINT ELSE j - i
    BY WrapGap
  <1>2. j - k \in (-UINT)..(2 * UINT - 1)
    BY <1>1, RingSizes DEF Index
  <1>3. Wrap(j - k) = IF j - k < 0 THEN (j - k) + UINT
                      ELSE IF j - k < UINT THEN j - k ELSE (j - k) - UINT
    BY <1>2, ModStep, RingSizes DEF Wrap
  <1>4. Wrap(j - k) \in Index
    BY <1>1, <1>3, RingSizes DEF Index
  <1>5. Wrap(Wrap(j - k) - i) = IF Wrap(j - k) < i THEN Wrap(j - k) - i + UINT
                                ELSE Wrap(j - k) - i
    BY <1>4, WrapGap
  <1> QED
    BY <1>1, <1>3, <1>4, <1>5, RingSizes DEF Index

\* An index is no distance from itself, and from no other.
LEMMA WrapZero ==
  ASSUME NEW i \in Index, NEW j \in Index
  PROVE  /\ Wrap(i - i) = 0 /\ Wrap(i + 0) = i
         /\ Wrap(j - i) = 0 => i = j
  <1>1. /\ Wrap(i - i) = IF i < i THEN i - i + UINT ELSE i - i
        /\ Wrap(j - i) = IF j < i THEN j - i + UINT ELSE j - i
    BY WrapGap
  <1>2. i + 0 = i /\ i \in (-UINT)..(2 * UINT - 1) /\ i \in 0..(UINT - 1)
    BY RingSizes DEF Index
  <1>3. i % UINT = i
    BY <1>2, ModStep, RingSizes
  <1> QED
    BY <1>1, <1>2, <1>3, RingSizes DEF Wrap, Index

\* The parts of the state that the other lemmas are about.
LEMMA ConFacts ==
  ASSUME ConType, RingOK
  PROVE  /\ input.buf \in [Places -> ConChars]
         /\ input.r \in Index /\ input.w \in Index /\ input.e \in Index
         /\ Ready(input) \in Seq(ConChars) /\ Edited(input) \in Seq(ConChars)
         /\ Len(Ready(input)) = Wrap(input.w - input.r)
         /\ Len(Edited(input)) = Wrap(input.e - input.w)
         /\ Wrap(input.w - input.r) \in Nat /\ Wrap(input.e - input.w) \in Nat
         /\ Wrap(input.e - input.r) = Len(Ready(input)) + Len(Edited(input))
         /\ Between(input, input.r, input.e) = Ready(input) \o Edited(input)
  <1>1. /\ input.buf \in [Places -> ConChars]
        /\ input.r \in Index /\ input.w \in Index /\ input.e \in Index
    BY DEF ConType
  <1>2. /\ Ready(input) \in Seq(ConChars) /\ Len(Ready(input)) = Wrap(input.w - input.r)
        /\ Wrap(input.w - input.r) \in Nat
    BY <1>1, BetweenIs DEF Ready
  <1>3. /\ Edited(input) \in Seq(ConChars) /\ Len(Edited(input)) = Wrap(input.e - input.w)
        /\ Wrap(input.e - input.w) \in Nat
    BY <1>1, BetweenIs DEF Edited
  <1>4. Wrap(input.w - input.r) + Wrap(input.e - input.w) < UINT
    BY <1>2, <1>3, RingSizes DEF RingOK
  <1>5. /\ Wrap(input.e - input.r) = Wrap(input.w - input.r) + Wrap(input.e - input.w)
        /\ Between(input, input.r, input.e) = Ready(input) \o Edited(input)
    BY <1>1, <1>4, Cut DEF Ready, Edited
  <1> QED
    BY <1>1, <1>2, <1>3, <1>5

\* typed() hands a line over when LineInput does.
LEMMA EndsWhenFull ==
  ASSUME ConType, RingOK, HasRoom, NEW c
  PROVE  Ends(c, Wrap(input.e + 1)) <=>
           c \in {NL, EOF} \/ Len(Edited(input)) + 1 + Len(Ready(input)) = INPUT_BUF
  <1> DEFINE r == input.r
             f == Wrap(input.e + 1)
             g == Wrap(input.e - r)
  <1>1. r \in Index /\ input.e \in Index /\ g = Len(Ready(input)) + Len(Edited(input))
        /\ Len(Ready(input)) \in Nat /\ Len(Edited(input)) \in Nat
    BY ConFacts
  <1>2. g + 1 < UINT /\ g + 1 <= INPUT_BUF /\ g \in Nat
    BY <1>1, RingSizes DEF HasRoom
  <1>3. f \in Index /\ Wrap(f - r) = g + 1
    BY <1>1, <1>2, WrapAhead
  <1>4. f = Wrap(r + (g + 1))
    <2> HIDE DEF f
    <2>1. f = Wrap(r + Wrap(f - r))
      BY <1>1, <1>3, PlaceOf
    <2> QED
      BY <1>3, <2>1
  <1>5. Wrap(r + INPUT_BUF) \in Index /\ Wrap(Wrap(r + INPUT_BUF) - r) = INPUT_BUF
    <2>1. Wrap(r - r) = 0
      BY <1>1, WrapZero
    <2>2. Wrap(r - r) + INPUT_BUF < UINT
      BY <2>1, RingSizes
    <2>3. /\ Wrap(r + INPUT_BUF) \in Index
          /\ Wrap(Wrap(r + INPUT_BUF) - r) = Wrap(r - r) + INPUT_BUF
      BY <1>1, <2>2, WrapAhead, RingSizes
    <2> QED
      BY <2>1, <2>3, RingSizes
  <1>6. f = Wrap(r + INPUT_BUF) <=> g + 1 = INPUT_BUF
    <2> HIDE DEF f
    <2> QED
      BY <1>3, <1>4, <1>5
  <1>7. g + 1 = Len(Edited(input)) + 1 + Len(Ready(input))
    BY <1>1
  <1> QED
    BY <1>6, <1>7 DEF Ends

\* A character that is typed: the ring gets it at its end, and LineInput's
\* line does.
LEMMA TypedStep ==
  ASSUME ConInv, NEW c \in Letters \cup {NL, EOF}, typed(c)
  PROVE  ConInv' /\ Abstract!Type(c)
  <1> DEFINE e == input.e
             f == Wrap(e + 1)
             q == e % INPUT_BUF
             ended == Ends(c, f)
             s == Ready(input)
             t == Edited(input)
  <1>0. ConType /\ RingOK /\ Reading /\ ReaderAwake /\ HasRoom
    BY DEF ConInv, typed
  <1>1. /\ input.buf \in [Places -> ConChars]
        /\ input.r \in Index /\ input.w \in Index /\ e \in Index
        /\ Len(s) = Wrap(input.w - input.r) /\ Len(t) = Wrap(e - input.w)
        /\ Wrap(input.w - input.r) \in Nat /\ Wrap(e - input.w) \in Nat
        /\ Wrap(e - input.r) = Len(s) + Len(t)
    BY <1>0, ConFacts
  <1>c. /\ s \in Seq(ConChars) /\ t \in Seq(ConChars)
        /\ Between(input, input.r, e) = s \o t
    BY <1>0, ConFacts
  <1>2. Len(s) + Len(t) < INPUT_BUF /\ Len(s) \in Nat /\ Len(t) \in Nat
    BY <1>0, <1>1 DEF HasRoom
  <1>3. c \in ConChars
    BY DEF ConChars
  <1>4. q \in Places /\ f \in Index
    <2>1. e \in Int /\ e + 1 \in Int
      BY <1>1 DEF Index
    <2> QED
      BY <2>1, Place
  <1>5. input' = [input EXCEPT !.buf[q] = c, !.e = f, !.w = IF ended THEN f ELSE @]
        /\ reader' = IF ended THEN Woken(reader) ELSE reader
    BY DEF typed
  <1>7. /\ input' \in [buf : [Places -> ConChars], r : Index, w : Index, e : Index]
        /\ input'.r = input.r /\ input'.e = f
        /\ input'.w = (IF ended THEN f ELSE input.w)
        /\ \A x \in Places : input'.buf[x] = IF x = q THEN c ELSE input.buf[x]
    <2> HIDE DEF e, f, q, ended
    <2>1. input \in [buf : [Places -> ConChars], r : Index, w : Index, e : Index]
      BY <1>0 DEF ConType
    <2> QED
      BY <2>1, <1>3, <1>4, <1>5
  <1>8. /\ input'.buf \in [Places -> ConChars]
        /\ \A x \in Places : input'.buf[x] = IF x = e % INPUT_BUF THEN c ELSE input.buf[x]
    BY <1>7
  <1> DEFINE new == input'
  <1>a. /\ new.buf \in [Places -> ConChars]
        /\ \A x \in Places : new.buf[x] = IF x = e % INPUT_BUF THEN c ELSE input.buf[x]
    BY <1>8
  <1>b. Wrap(e - input.r) < INPUT_BUF /\ Wrap(e - input.w) < INPUT_BUF
        /\ Wrap(input.w - input.r) + Wrap(e - input.w) < INPUT_BUF
    <2> DEFINE a == Wrap(e - input.r)
               b == Wrap(e - input.w)
               d == Wrap(input.w - input.r)
    <2>1. Len(s) = d /\ Len(t) = b /\ a = Len(s) + Len(t)
      BY <1>1
    <2>2. INPUT_BUF \in Nat
      BY RingSizes
    <2>3. d \in Nat /\ b \in Nat /\ d + b < INPUT_BUF /\ a = d + b
      <3> HIDE DEF s, t, a, b, d
      <3> QED
        BY <1>2, <2>1
    <2>4. a < INPUT_BUF /\ b < INPUT_BUF
      <3> HIDE DEF a, b, d
      <3> QED
        BY <2>2, <2>3
    <2> QED
      BY <2>3, <2>4
  <1>9. /\ Wrap(f - input.r) = Len(s) + Len(t) + 1
        /\ Between(input', input.r, f) = Append(s \o t, c)
    <2>2. /\ Wrap(f - input.r) = Wrap(e - input.r) + 1
          /\ Between(new, input.r, f) = Append(Between(input, input.r, e), c)
      <3> HIDE DEF new, s, t
      <3> QED
        BY <1>1, <1>3, <1>a, <1>b, PutLast
    <2> QED
      BY <1>1, <1>c, <2>2
  <1>10. /\ Wrap(f - input.w) = Len(t) + 1
         /\ Between(input', input.w, f) = Append(t, c)
    <2>2. /\ Wrap(f - input.w) = Wrap(e - input.w) + 1
          /\ Between(new, input.w, f) = Append(Between(input, input.w, e), c)
      <3> HIDE DEF new, s, t
      <3> QED
        BY <1>1, <1>3, <1>a, <1>b, PutLast
    <2> QED
      BY <1>1, <2>2 DEF Edited
  <1>11. Between(input', input.r, input.w) = s
    <2>1. Between(new, input.r, input.w) = Between(input, input.r, input.w)
      <3> HIDE DEF new, s, t
      <3> QED
        BY <1>1, <1>3, <1>a, <1>b, PutKeeps
    <2> QED
      BY <2>1 DEF Ready
  <1>12. ended <=> c \in {NL, EOF} \/ Len(t) + 1 + Len(s) = INPUT_BUF
    BY <1>0, EndsWhenFull
  <1>13. Append(t, c) \in Seq(ConChars) /\ Len(Append(t, c)) = Len(t) + 1
         /\ Append(s \o t, c) = s \o Append(t, c)
    <2> HIDE DEF s, t
    <2>1. Append(t, c) \in Seq(ConChars) /\ Len(Append(t, c)) = Len(t) + 1
      BY <1>3, <1>c
    <2>2. s \o t \in Seq(ConChars) /\ Len(s \o t) = Len(s) + Len(t)
      BY <1>c
    <2>3. Append(s \o t, c) \in Seq(ConChars) /\ s \o Append(t, c) \in Seq(ConChars)
      BY <1>3, <1>c, <2>1, <2>2
    <2>4. Len(Append(s \o t, c)) = Len(s) + Len(t) + 1
          /\ Len(s \o Append(t, c)) = Len(s) + Len(t) + 1
      BY <1>3, <1>c, <2>1, <2>2
    <2>5. ASSUME NEW i \in 1..(Len(s) + Len(t) + 1)
          PROVE  Append(s \o t, c)[i] = (s \o Append(t, c))[i]
      BY <1>2, <1>3, <1>c, <2>1, <2>2
    <2> QED
      BY <2>1, <2>3, <2>4, <2>5, SeqEqual
  <1>14. CASE ended
    <2>1. Ready(input)' = s \o Append(t, c)
      BY <1>7, <1>9, <1>13, <1>14 DEF Ready
    <2>2. Wrap(f - f) = 0
      BY <1>4, WrapZero
    <2>3. Edited(input)' = <<>>
      <3>1. Edited(input') = Between(input', f, f)
        BY <1>7, <1>14 DEF Edited
      <3>2. Between(input', f, f) \in Seq(ConChars) /\ Len(Between(input', f, f)) = 0
        BY <1>4, <1>8, <2>2, BetweenIs
      <3> QED
        BY <3>1, <3>2
    <2>4. RingOK'
      <3>1. Wrap(input'.w - input'.r) = Len(s) + Len(t) + 1 /\ Wrap(input'.e - input'.w) = 0
        BY <1>7, <1>9, <1>14, <2>2
      <3>2. Len(s) + Len(t) + 1 + 0 <= INPUT_BUF
        BY <1>2, RingSizes
      <3> HIDE DEF s, t
      <3> QED
        BY <1>2, <3>1, <3>2 DEF RingOK
    <2>5. reader' = Woken(reader)
      BY <1>5, <1>14
    <2>6. /\ reader' \in [Users -> [at : {"idle", "asleep", "awake"}, n : Nat, target : Nat,
                                    killed : BOOLEAN, got : Int]]
          /\ \A p \in Users : /\ reader'[p].at # "asleep"
                              /\ reader'[p].n = reader[p].n
                              /\ reader'[p].target = reader[p].target
      BY <1>0, <2>5 DEF ConType, Woken
    <2>7. Abstract!Type(c)
      BY <1>c, <1>2, <1>12, <1>13, <1>14, <2>1, <2>3 DEF Abstract!Type, Abstract!NL, Abstract!EOF, NL, EOF
    <2> QED
      BY <1>0, <1>7, <2>4, <2>6, <2>7 DEF ConInv, ConType, Reading, ReaderAwake
  <1>15. CASE ~ended
    <2>1. Ready(input)' = s
      BY <1>7, <1>11, <1>15 DEF Ready
    <2>2. Edited(input)' = Append(t, c)
      BY <1>7, <1>10, <1>15 DEF Edited
    <2>3. c \notin {NL, EOF}
      BY <1>12, <1>15
    <2>4. RingOK'
      <3>1. Wrap(input'.w - input'.r) = Len(s) /\ Wrap(input'.e - input'.w) = Len(t) + 1
        BY <1>1, <1>7, <1>10, <1>15
      <3>2. \A k \in 1..Len(t) : t[k] \notin {NL, EOF}
        BY <1>0, <1>1 DEF RingOK
      <3>3. \A k \in 1..(Len(t) + 1) : Append(t, c)[k] \notin {NL, EOF}
        BY <1>2, <1>c, <2>3, <3>2
      <3>4. Len(s) + (Len(t) + 1) <= INPUT_BUF
        BY <1>2, RingSizes
      <3>5. \A k \in 1..Wrap(input'.e - input'.w) : Edited(input)'[k] \notin {NL, EOF}
        BY <2>2, <3>1, <3>3
      <3> QED
        BY <3>1, <3>4, <3>5 DEF RingOK
    <2>5. reader' = reader
      BY <1>5, <1>15
    <2>6. input'.w = input.w
      BY <1>7, <1>15
    <2>7. Abstract!Type(c)
      BY <1>c, <1>2, <1>12, <1>13, <1>15, <2>1, <2>2 DEF Abstract!Type, Abstract!NL, Abstract!EOF, NL, EOF
    <2> QED
      BY <1>0, <1>7, <2>4, <2>5, <2>6, <2>7 DEF ConInv, ConType, Reading, ReaderAwake
  <1> QED
    BY <1>14, <1>15

\* Characters taken back from the line.
LEMMA TakenBack ==
  ASSUME ConInv, NEW k \in 0..Len(Edited(input)),
         input' = [input EXCEPT !.e = Wrap(@ - k)], UNCHANGED reader
  PROVE  /\ ConInv' /\ Ready(input)' = Ready(input)
         /\ Edited(input)' \in Seq(ConChars)
         /\ Len(Edited(input)') = Len(Edited(input)) - k
         /\ \A i \in 1..(Len(Edited(input)) - k) : Edited(input)'[i] = Edited(input)[i]
  <1> DEFINE e == input.e
             w == input.w
             f == Wrap(e - k)
             t == Edited(input)
  <1>0. ConType /\ RingOK /\ Reading /\ ReaderAwake
    BY DEF ConInv
  <1>1. /\ input.buf \in [Places -> ConChars]
        /\ input.r \in Index /\ w \in Index /\ e \in Index
        /\ Len(t) = Wrap(e - w) /\ Wrap(e - w) \in Nat /\ Wrap(w - input.r) \in Nat
    BY <1>0, ConFacts
  <1>2. /\ f \in Index /\ Wrap(f - w) = Wrap(e - w) - k
    BY <1>1, WrapBack
  <1>3. /\ input' \in [buf : [Places -> ConChars], r : Index, w : Index, e : Index]
        /\ input'.r = input.r /\ input'.w = w /\ input'.e = f /\ input'.buf = input.buf
    <2> HIDE DEF f
    <2>1. input' = [input EXCEPT !.e = f]
      BY DEF f
    <2> QED
      BY <1>0, <1>2, <2>1 DEF ConType
  <1>4. Ready(input') = Ready(input)
    BY <1>3 DEF Ready, Between
  <1> DEFINE new == input'
  <1>5. /\ Edited(new) \in Seq(ConChars) /\ Len(Edited(new)) = Wrap(e - w) - k
        /\ \A i \in 1..(Wrap(e - w) - k) : Edited(new)[i] = input.buf[(w + i - 1) % INPUT_BUF]
    <2>1. new.buf \in [Places -> ConChars] /\ Edited(new) = Between(new, w, f)
          /\ new.buf = input.buf
      BY <1>1, <1>3 DEF Edited
    <2> HIDE DEF new, f
    <2>2. /\ Between(new, w, f) \in Seq(ConChars) /\ Len(Between(new, w, f)) = Wrap(f - w)
          /\ \A i \in 1..Wrap(f - w) : Between(new, w, f)[i] = new.buf[(w + i - 1) % INPUT_BUF]
      BY <1>1, <1>2, <2>1, BetweenIs, ZenonT(30)
    <2> QED
      BY <1>2, <2>1, <2>2
  <1>6. \A i \in 1..Wrap(e - w) : t[i] = input.buf[(w + i - 1) % INPUT_BUF]
    BY <1>1, BetweenIs DEF Edited
  <1>7. \A i \in 1..(Wrap(e - w) - k) : Edited(new)[i] = t[i]
    <2> HIDE DEF t, new
    <2> QED
      BY <1>1, <1>5, <1>6
  <1>8. RingOK'
    <2>1. Wrap(input'.w - input'.r) = Wrap(w - input.r) /\ Wrap(input'.e - input'.w) = Wrap(e - w) - k
      BY <1>2, <1>3
    <2>2. Wrap(w - input.r) + (Wrap(e - w) - k) <= INPUT_BUF
      BY <1>0, <1>1, RingSizes DEF RingOK
    <2>3. \A i \in 1..(Wrap(e - w) - k) : t[i] \notin {NL, EOF}
      BY <1>0, <1>1 DEF RingOK
    <2> HIDE DEF t
    <2> QED
      BY <1>7, <2>1, <2>2, <2>3 DEF RingOK
  <1>9. ConType' /\ Reading' /\ ReaderAwake'
    BY <1>0, <1>3 DEF ConType, Reading, ReaderAwake
  <1> QED
    BY <1>1, <1>4, <1>5, <1>7, <1>8, <1>9 DEF ConInv

\* ^U takes the whole line back, since it has no line end.
LEMMA KillStep ==
  ASSUME ConInv, input' = [input EXCEPT !.e = Wrap(@ - KillLength)], UNCHANGED reader
  PROVE  ConInv' /\ Abstract!KillLine
  <1> DEFINE t == Edited(input)
  <1>1. Len(t) \in Nat /\ \A k \in 1..Len(t) : t[k] # NL
    BY ConFacts DEF ConInv, RingOK
  <1>2. KillLength = Len(t)
    <2> DEFINE P(i) == /\ i > 0 => t[i] = NL
                       /\ \A j \in (i + 1)..Len(t) : t[j] # NL
    <2>1. (CHOOSE i \in 0..Len(t) : P(i)) = 0
      <3>1. 0 \in 0..Len(t) /\ P(0)
        BY <1>1
      <3>2. \A i \in 0..Len(t) : P(i) => i = 0
        BY <1>1
      <3> HIDE DEF P
      <3> QED
        BY <3>1, <3>2
    <2>2. KillLength = Len(t) - (CHOOSE i \in 0..Len(t) : P(i))
      BY DEF KillLength
    <2> QED
      BY <1>1, <2>1, <2>2
  <1>3. Len(t) \in 0..Len(t) /\ input' = [input EXCEPT !.e = Wrap(@ - Len(t))]
    BY <1>1, <1>2
  <1>4. ConInv' /\ Ready(input)' = Ready(input) /\ Edited(input)' \in Seq(ConChars)
        /\ Len(Edited(input)') = Len(t) - Len(t)
    BY <1>3, TakenBack
  <1>5. Edited(input)' = <<>>
    BY <1>1, <1>4
  <1> QED
    BY <1>4, <1>5 DEF Abstract!KillLine

\* A character is erased.
LEMMA EraseStep ==
  ASSUME ConInv, input.e # input.w, input' = [input EXCEPT !.e = Wrap(@ - 1)], UNCHANGED reader
  PROVE  ConInv' /\ Abstract!Erase
  <1> DEFINE t == Edited(input)
  <1>1. Len(t) = Wrap(input.e - input.w) /\ Len(t) \in Nat /\ t \in Seq(ConChars)
        /\ input.e \in Index /\ input.w \in Index
    BY ConFacts DEF ConInv
  <1>2. Len(t) # 0
    BY <1>1, WrapZero
  <1>3. 1 \in 0..Len(t)
    BY <1>1, <1>2
  <1>4. /\ ConInv' /\ Ready(input)' = Ready(input) /\ Edited(input)' \in Seq(ConChars)
        /\ Len(Edited(input)') = Len(t) - 1
        /\ \A i \in 1..(Len(t) - 1) : Edited(input)'[i] = t[i]
    BY <1>3, TakenBack
  <1>5. Edited(input)' = Front(t) /\ t # <<>>
    <2> DEFINE u == Edited(input)'
    <2>0. u \in Seq(ConChars) /\ Len(u) = Len(t) - 1 /\ \A i \in 1..(Len(t) - 1) : u[i] = t[i]
      BY <1>4
    <2> HIDE DEF t, u
    <2>1. Front(t) \in Seq(ConChars) /\ Len(Front(t)) = Len(t) - 1
          /\ \A i \in 1..(Len(t) - 1) : Front(t)[i] = t[i]
      BY <1>1, <1>2 DEF Front
    <2>2. u = Front(t)
      BY <2>0, <2>1, SeqEqual
    <2> QED
      BY <1>2, <2>2 DEF u
  <1> QED
    BY <1>4, <1>5 DEF Abstract!Erase, Abstract!Front, Front

\* The loop of consoleread(): what it takes and passes of the characters s.
LEMMA ReadFacts ==
  ASSUME NEW s \in Seq(ConChars), NEW n \in Nat, NEW target \in Nat, n <= target
  PROVE  /\ Consumed(s, n, target) \in 0..Len(s)
         /\ Passed(s, n) \in 0..n
         /\ Stop(s, n) = {} /\ Passed(s, n) # n => Consumed(s, n, target) = Len(s)
         /\ \A j \in 1..Consumed(s, n, target) : s[j] = EOF =>
              Stop(s, n) # {} /\ n - Passed(s, n) = target
  <1> DEFINE L == Len(s)
             T == Stop(s, n)
             k == Consumed(s, n, target)
             m == Passed(s, n)
  <1>1. L \in Nat /\ T \subseteq 1..L /\ T \subseteq 1..n /\ T \subseteq Nat
    BY DEF Stop
  <1>2. CASE T = {}
    <2>1. k = (IF L < n THEN L ELSE n) /\ m = (IF L < n THEN L ELSE n)
      BY <1>2 DEF Consumed, Passed
    <2>2. \A j \in 1..k : s[j] # EOF
      <3>1. k \in 0..L /\ k \in 0..n
        BY <1>1, <2>1
      <3>2. \A j \in 1..k : j \in 1..Len(s) /\ j <= n
        BY <1>1, <3>1
      <3> QED
        BY <1>2, <3>2 DEF Stop
    <2> HIDE DEF k, m, L, T
    <2>3. k \in 0..L /\ m \in 0..n /\ (m # n => k = L)
      BY <1>1, <2>1
    <2> QED
      BY <2>2, <2>3 DEF k, m, L, T
  <1>3. CASE T # {}
    <2> DEFINE i == CHOOSE i \in T : \A j \in T : i <= j
    <2>1. i \in T /\ \A j \in T : i <= j
      <3>1. \E x \in T : \A j \in T : x <= j
        <4> HIDE DEF T
        <4> QED
          BY <1>1, <1>3, LeastNumber
      <3> QED
        BY <3>1
    <2>2. /\ k = (IF s[i] = EOF /\ n - (i - 1) < target THEN i - 1 ELSE i)
          /\ m = (IF s[i] = EOF THEN i - 1 ELSE i)
      BY <1>3 DEF Consumed, Passed
    <2>3. i \in 1..L /\ i \in 1..n
      BY <1>1, <2>1
    <2> HIDE DEF i
    <2>4. k \in 0..L /\ k \in 0..n /\ k <= i /\ m \in 0..n
      <3> HIDE DEF k, m, L
      <3> QED
        BY <1>1, <2>2, <2>3
    <2>5. ASSUME NEW j \in 1..k, s[j] = EOF
          PROVE  n - m = target
      <3>1. j \in 1..Len(s) /\ j <= n
        BY <1>1, <2>4
      <3>2. j \in T
        BY <2>5, <3>1 DEF Stop
      <3>3. i <= j
        BY <2>1, <3>2
      <3>4. j \in Nat /\ j <= k /\ k \in Nat /\ i \in Nat
        BY <2>3, <2>4
      <3>5. j = i /\ k = i
        <4> HIDE DEF k
        <4> QED
          BY <2>4, <3>3, <3>4
      <3>6. s[i] = EOF
        BY <2>5, <3>5
      <3>7. m = i - 1 /\ ~(n - (i - 1) < target)
        <4> HIDE DEF k, m
        <4> QED
          BY <2>2, <2>3, <3>5, <3>6
      <3> HIDE DEF m
      <3> QED
        BY <2>3, <3>7
    <2> QED
      BY <1>3, <2>4, <2>5
  <1> QED
    BY <1>2, <1>3

\* The ring after k of its characters were read.
LEMMA TakenOut ==
  ASSUME ConType, RingOK, NEW k \in 0..Len(Ready(input)),
         input' = [input EXCEPT !.r = Wrap(@ + k)]
  PROVE  /\ input' \in [buf : [Places -> ConChars], r : Index, w : Index, e : Index]
         /\ input'.w = input.w
         /\ k = 0 => input'.r = input.r
         /\ k = Len(Ready(input)) => input'.r = input'.w
         /\ RingOK'
         /\ Edited(input)' = Edited(input)
         /\ Ready(input)' = SubSeq(Ready(input), k + 1, Len(Ready(input)))
  <1> DEFINE r == input.r
             w == input.w
             q == Wrap(r + k)
             s == Ready(input)
  <1>1. /\ input.buf \in [Places -> ConChars]
        /\ r \in Index /\ w \in Index /\ input.e \in Index
        /\ Len(s) = Wrap(w - r) /\ Wrap(w - r) \in Nat /\ Wrap(input.e - w) \in Nat
    BY ConFacts
  <1>2. /\ q \in Index /\ Wrap(w - q) = Wrap(w - r) - k
    BY <1>1, WrapBehind
  <1>3. /\ input' \in [buf : [Places -> ConChars], r : Index, w : Index, e : Index]
        /\ input'.r = q /\ input'.w = w /\ input'.e = input.e /\ input'.buf = input.buf
    <2> HIDE DEF q
    <2>1. input' = [input EXCEPT !.r = q]
      BY DEF q
    <2> QED
      BY <1>2, <2>1 DEF ConType
  <1>4. Edited(input') = Edited(input)
    BY <1>3 DEF Edited, Between
  <1> DEFINE new == input'
  <1>5. /\ Ready(new) \in Seq(ConChars) /\ Len(Ready(new)) = Wrap(w - r) - k
        /\ \A i \in 1..(Wrap(w - r) - k) : Ready(new)[i] = input.buf[(q + i - 1) % INPUT_BUF]
    <2>1. new.buf \in [Places -> ConChars] /\ Ready(new) = Between(new, q, w)
          /\ new.buf = input.buf
      BY <1>1, <1>3 DEF Ready
    <2> HIDE DEF new, q
    <2>2. /\ Between(new, q, w) \in Seq(ConChars) /\ Len(Between(new, q, w)) = Wrap(w - q)
          /\ \A i \in 1..Wrap(w - q) : Between(new, q, w)[i] = new.buf[(q + i - 1) % INPUT_BUF]
      BY <1>1, <1>2, <2>1, BetweenIs, ZenonT(30)
    <2> QED
      BY <1>2, <2>1, <2>2
  <1>6. s \in Seq(ConChars)
        /\ \A i \in 1..Wrap(w - r) : s[i] = input.buf[(r + i - 1) % INPUT_BUF]
    BY <1>1, BetweenIs DEF Ready
  <1>7. Ready(new) = SubSeq(s, k + 1, Len(s))
    <2> DEFINE u == SubSeq(s, k + 1, Len(s))
    <2>1. u \in Seq(ConChars) /\ Len(u) = Len(s) - k
          /\ \A i \in 1..(Len(s) - k) : u[i] = s[k + i]
      <3>1. Len(s) \in Nat /\ k + 1 \in 1..(Len(s) + 1) /\ Len(s) - (k + 1) + 1 = Len(s) - k
        BY <1>1
      <3>2. \A i \in 1..(Len(s) - k) : (k + 1) + i - 1 = k + i
        BY <1>1
      <3>3. \A i \in 1..Len(s) : s[i] \in ConChars
        BY <1>6
      <3> HIDE DEF s
      <3>4. /\ u \in Seq(ConChars)
            /\ Len(u) = IF k + 1 <= Len(s) THEN Len(s) - (k + 1) + 1 ELSE 0
            /\ \A i \in 1..(Len(s) - (k + 1) + 1) : u[i] = s[(k + 1) + i - 1]
        BY <1>6, <3>1, <3>3, SubSeqProperties, SMTT(30)
      <3>5. Len(u) = Len(s) - k
        BY <3>1, <3>4
      <3> QED
        BY <3>1, <3>2, <3>4, <3>5
    <2>2. ASSUME NEW i \in 1..(Len(s) - k) PROVE Ready(new)[i] = u[i]
      <3>1. i \in Nat /\ k \in Nat /\ k + i \in 1..Wrap(w - r) /\ i \in 1..(Wrap(w - r) - k)
        BY <1>1
      <3>2. r + k \in Int /\ i - 1 \in Int /\ r \in Int
        BY <1>1, <3>1 DEF Index
      <3>3. (q + (i - 1)) % INPUT_BUF = ((r + k) + (i - 1)) % INPUT_BUF
        BY <3>2, Place
      <3>4. q + (i - 1) = q + i - 1 /\ (r + k) + (i - 1) = r + (k + i) - 1
        BY <1>1, <1>2, <3>1, <3>2, SMTT(30) DEF Index
      <3>5. Ready(new)[i] = input.buf[(q + i - 1) % INPUT_BUF]
        BY <1>5, <3>1
      <3>6. s[k + i] = input.buf[(r + (k + i) - 1) % INPUT_BUF]
        BY <1>6, <3>1
      <3>7. u[i] = s[k + i]
        BY <2>1
      <3> QED
        BY <3>3, <3>4, <3>5, <3>6, <3>7, Zenon
    <2> HIDE DEF u, s, new
    <2> QED
      BY <1>1, <1>5, <2>1, <2>2, SeqEqual DEF u
  <1>8. RingOK'
    <2>1. Wrap(input'.w - input'.r) = Wrap(w - r) - k /\ Wrap(input'.e - input'.w) = Wrap(input.e - w)
      BY <1>2, <1>3
    <2>2. (Wrap(w - r) - k) + Wrap(input.e - w) <= INPUT_BUF
      BY <1>1, RingSizes DEF RingOK
    <2> QED
      BY <1>4, <2>1, <2>2 DEF RingOK
  <1>9. k = 0 => q = r
    BY <1>1, WrapZero
  <1>10. k = Len(s) => q = w
    <2> HIDE DEF s, q
    <2>1. k = Len(s) => Wrap(w - q) = 0
      BY <1>1, <1>2
    <2> QED
      BY <1>1, <1>2, <2>1, WrapZero
  <1> QED
    BY <1>1, <1>3, <1>4, <1>7, <1>8, <1>9, <1>10

\* Characters that are read without an end of file leave as many of these.
LEMMA EofsStay ==
  ASSUME NEW s \in Seq(ConChars), NEW k \in 0..Len(s), \A j \in 1..k : s[j] # EOF,
         NEW t, t = SubSeq(s, k + 1, Len(s))
  PROVE  Cardinality({i \in 1..Len(s) : s[i] = EOF}) <= Cardinality({i \in 1..Len(t) : t[i] = EOF})
  <1> DEFINE S == {i \in 1..Len(s) : s[i] = EOF}
             T == {i \in 1..Len(t) : t[i] = EOF}
             f == [i \in S |-> i - k]
  <1>1. Len(s) \in Nat /\ k \in Nat /\ k + 1 \in 1..(Len(s) + 1)
    OBVIOUS
  <1>2. Len(t) = (IF k + 1 <= Len(s) THEN Len(s) - (k + 1) + 1 ELSE 0)
        /\ \A i \in 1..(Len(s) - (k + 1) + 1) : t[i] = s[(k + 1) + i - 1]
    <2>1. \A i \in (k + 1)..Len(s) : s[i] \in ConChars
      BY <1>1
    <2> QED
      BY <1>1, <2>1, SubSeqProperties
  <1>3. Len(t) = Len(s) - k /\ \A i \in 1..(Len(s) - k) : t[i] = s[k + i]
    <2>1. Len(s) - (k + 1) + 1 = Len(s) - k /\ \A i \in 1..(Len(s) - k) : (k + 1) + i - 1 = k + i
      BY <1>1
    <2>2. Len(t) = Len(s) - k
      <3>1. k + 1 <= Len(s) \/ Len(s) - k = 0
        BY <1>1
      <3>2. ~(k + 1 <= Len(s)) \/ Len(t) = Len(s) - (k + 1) + 1
        BY <1>2
      <3>3. k + 1 <= Len(s) \/ Len(t) = 0
        BY <1>2
      <3> QED
        BY <2>1, <3>1, <3>2, <3>3
    <2> QED
      BY <1>2, <2>1, <2>2
  <1>4. ASSUME NEW i \in S PROVE i \in Nat /\ i > k /\ i - k \in 1..Len(t) /\ t[i - k] = EOF
    <2>1. i \in 1..Len(s) /\ s[i] = EOF
      OBVIOUS
    <2>2. i > k
      BY <1>1, <2>1
    <2>3. i - k \in 1..(Len(s) - k) /\ k + (i - k) = i
      BY <1>1, <2>1, <2>2
    <2>4. t[i - k] = s[k + (i - k)]
      BY <1>3, <2>3
    <2>5. Len(t) = Len(s) - k
      BY <1>3
    <2>6. i - k \in 1..Len(t) /\ t[i - k] = s[i]
      BY <2>3, <2>4, <2>5
    <2>7. i \in Nat
      BY <1>1, <2>1
    <2> QED
      BY <2>1, <2>2, <2>6, <2>7
  <1>5. f \in Injection(S, T)
    <2>1. f \in [S -> T]
      BY <1>4
    <2>2. \A a, b \in S : f[a] = f[b] => a = b
      BY <1>1, <1>4
    <2> HIDE DEF f, S, T
    <2> QED
      BY <2>1, <2>2 DEF Injection, IsInjective
  <1>6. IsFiniteSet(T)
    <2>0. 1 \in Int /\ Len(t) \in Int
      BY <1>1, <1>3
    <2>1. IsFiniteSet(1..Len(t))
      BY <2>0, FS_Interval
    <2> QED
      BY <2>1, FS_Subset
  <1>7. Cardinality(S) <= Cardinality(T)
    <2> HIDE DEF f, S, T
    <2> QED
      BY <1>5, <1>6, FS_Injection
  <1> QED
    BY <1>7

\* One turn of a read.
LEMMA TurnStep ==
  ASSUME ConInv, NEW p \in Users, NEW n \in Nat, NEW target \in Nat, n <= target,
         reader[p].at # "asleep", Turn(p, n, target)
  PROVE  /\ ConInv'
         /\ Abstract!Read \/ UNCHANGED <<Edited(input), Ready(input)>>
         /\ \A q \in Users : q # p => reader'[q] = reader[q]
         /\ Eofs(input') < Eofs(input) => reader'[p].at = "idle" /\ reader'[p].got = 0
  <1> DEFINE s == Ready(input)
             k == Consumed(s, n, target)
             m == Passed(s, n)
             over == Stop(s, n) # {} \/ n - m = 0
             new == IF over THEN NotReading(target - (n - m))
                    ELSE IF reader[p].killed THEN NotReading(-1)
                    ELSE [reader[p] EXCEPT !.at = "asleep", !.n = n - m, !.target = target]
             R == [at : {"idle", "asleep", "awake"}, n : Nat, target : Nat,
                   killed : BOOLEAN, got : Int]
  <1>0. ConType /\ RingOK /\ Reading /\ ReaderAwake
    BY DEF ConInv
  <1>1. s \in Seq(ConChars)
    BY <1>0, ConFacts
  <1>2. /\ k \in 0..Len(s) /\ m \in 0..n
        /\ ~over => k = Len(s)
        /\ \A j \in 1..k : s[j] = EOF => over /\ n - m = target
    <2>1. /\ k \in 0..Len(s) /\ m \in 0..n
          /\ Stop(s, n) = {} /\ m # n => k = Len(s)
          /\ \A j \in 1..k : s[j] = EOF => Stop(s, n) # {} /\ n - m = target
      BY <1>1, ReadFacts
    <2>2. m # n => n - m # 0
      BY <2>1
    <2> QED
      BY <2>1, <2>2
  <1>3. /\ input' = [input EXCEPT !.r = Wrap(@ + k)]
        /\ reader' = [reader EXCEPT ![p] = new]
    BY DEF Turn
  <1>4. /\ input' \in [buf : [Places -> ConChars], r : Index, w : Index, e : Index]
        /\ input'.w = input.w
        /\ k = 0 => input'.r = input.r
        /\ k = Len(s) => input'.r = input'.w
        /\ RingOK'
        /\ Edited(input)' = Edited(input)
        /\ Ready(input)' = SubSeq(s, k + 1, Len(s))
    BY <1>0, <1>2, <1>3, TakenOut
  <1>5. reader \in [Users -> R]
    BY <1>0 DEF ConType
  <1> HIDE DEF k, m, s
  <1>6. /\ new \in R /\ new.n <= new.target
        /\ new.at = "asleep" => ~over /\ ~new.killed
        /\ over => new.at = "idle" /\ new.got = target - (n - m)
    <2>1. n - m \in Nat /\ n - m <= target /\ target - (n - m) \in Int
      BY <1>2
    <2>2. reader[p] \in R
      BY <1>5
    <2>3. NotReading(target - (n - m)) \in R /\ NotReading(-1) \in R
      BY <2>1 DEF NotReading
    <2> HIDE DEF over
    <2>4. CASE over
      BY <2>1, <2>3, <2>4 DEF NotReading
    <2>5. CASE ~over
      <3>1. CASE reader[p].killed
        BY <2>3, <2>5, <3>1 DEF NotReading
      <3>2. CASE ~reader[p].killed
        <4>1. new = [reader[p] EXCEPT !.at = "asleep", !.n = n - m, !.target = target]
          BY <2>5, <3>2
        <4> HIDE DEF new
        <4>2. new \in R /\ new.n = n - m /\ new.target = target /\ new.killed = reader[p].killed
          BY <2>1, <2>2, <4>1
        <4> QED
          BY <2>1, <2>5, <3>2, <4>2
      <3> QED
        BY <3>1, <3>2
    <2> QED
      BY <2>4, <2>5
  <1> HIDE DEF new
  <1>7. /\ reader' \in [Users -> R] /\ reader'[p] = new
        /\ \A q \in Users : q # p => reader'[q] = reader[q]
    BY <1>3, <1>5, <1>6
  <1>8. ASSUME NEW q \in Users, reader'[q].at = "asleep"
        PROVE  input'.r = input'.w /\ ~reader'[q].killed
    <2>1. CASE q = p
      BY <1>2, <1>4, <1>6, <1>7, <1>8, <2>1
    <2>2. CASE q # p
      <3>1. input.r = input.w /\ ~reader[q].killed
        BY <1>0, <1>7, <1>8, <2>2 DEF ReaderAwake
      <3>2. Len(s) = 0
        <4>1. Len(s) = Wrap(input.w - input.r) /\ input.r \in Index
          BY <1>0, ConFacts DEF s
        <4> QED
          BY <3>1, <4>1, WrapZero
      <3>3. k = 0
        BY <1>2, <3>2
      <3> QED
        BY <1>4, <1>7, <2>2, <3>1, <3>3
    <2> QED
      BY <2>1, <2>2
  <1>9. ConInv'
    <2>1. ConType'
      BY <1>4, <1>7 DEF ConType
    <2>2. Reading'
      BY <1>0, <1>6, <1>7 DEF Reading
    <2>3. ReaderAwake'
      BY <1>8 DEF ReaderAwake
    <2> QED
      BY <1>4, <2>1, <2>2, <2>3 DEF ConInv
  <1>10. Abstract!Read \/ UNCHANGED <<Edited(input), Ready(input)>>
    <2>1. CASE k = 0
      <3>1. SubSeq(s, k + 1, Len(s)) = s
        BY <1>1, <2>1
      <3> QED
        BY <1>4, <3>1 DEF s
    <2>2. CASE k # 0
      <3>1. k \in 1..Len(s)
        BY <1>1, <1>2, <2>2
      <3> QED
        BY <1>4, <3>1 DEF Abstract!Read, s
    <2> QED
      BY <2>1, <2>2
  <1>11. ASSUME Eofs(input') < Eofs(input)
         PROVE  reader'[p].at = "idle" /\ reader'[p].got = 0
    <2>1. \E j \in 1..k : s[j] = EOF
      <3> SUFFICES ASSUME \A j \in 1..k : s[j] # EOF PROVE FALSE
        OBVIOUS
      <3> DEFINE t == Ready(input')
      <3>1. t = SubSeq(s, k + 1, Len(s))
        BY <1>4
      <3>2. Cardinality({i \in 1..Len(s) : s[i] = EOF}) <= Cardinality({i \in 1..Len(t) : t[i] = EOF})
        <4> HIDE DEF t
        <4> QED
          BY <1>1, <1>2, <3>1, EofsStay
      <3>3. Eofs(input) <= Eofs(input')
        BY <3>2 DEF Eofs, s
      <3>4. Eofs(input) \in Nat /\ Eofs(input') \in Nat
        <4>1. IsFiniteSet(1..Len(s)) /\ IsFiniteSet(1..Len(t))
          <5>1. Len(s) \in Nat
            BY <1>1
          <5>2. Len(t) \in Nat
            <6>1. \A i \in (k + 1)..Len(s) : s[i] \in ConChars
              BY <1>1, <1>2
            <6>2. k + 1 \in Int /\ Len(s) \in Int
              BY <1>2, <5>1
            <6>3. SubSeq(s, k + 1, Len(s)) \in Seq(ConChars)
              BY <6>1, <6>2, SubSeqProperties
            <6> HIDE DEF t
            <6> QED
              BY <3>1, <6>3
          <5>3. \A len \in Nat : IsFiniteSet(1..len)
            BY FS_Interval
          <5> HIDE DEF t
          <5> QED
            BY <5>1, <5>2, <5>3
        <4>2. IsFiniteSet({i \in 1..Len(s) : s[i] = EOF}) /\ IsFiniteSet({i \in 1..Len(t) : t[i] = EOF})
          BY <4>1, FS_Subset
        <4> QED
          BY <4>2, FS_CardinalityType DEF Eofs, s
      <3> QED
        BY <1>11, <3>3, <3>4
    <2>2. over /\ n - m = target
      BY <1>2, <2>1
    <2>3. target - (n - m) = 0
      BY <2>2
    <2> QED
      BY <1>6, <1>7, <2>2, <2>3
  <1> QED
    BY <1>7, <1>9, <1>10, <1>11 DEF s

\* The ring starts empty.
LEMMA ConStart ==
  ASSUME ConInit
  PROVE  ConInv /\ Abstract!Init
  <1>1. /\ input.r = 0 /\ input.w = 0 /\ input.e = 0
        /\ input.buf = [i \in 0..(INPUT_BUF - 1) |-> "nul"]
    BY DEF ConInit
  <1>2. 0 \in Index /\ "nul" \in ConChars
    BY RingSizes DEF Index, ConChars, Controls
  <1>3. ConType
    BY <1>2 DEF ConInit, ConType, Places, NotReading
  <1>4. Wrap(0 - 0) = 0
    BY <1>2, WrapZero
  <1>5. RingOK
    BY <1>1, <1>4, RingSizes DEF RingOK
  <1>6. Ready(input) = <<>> /\ Edited(input) = <<>>
    <2>1. /\ Ready(input) \in Seq(ConChars) /\ Edited(input) \in Seq(ConChars)
          /\ Len(Ready(input)) = Wrap(0 - 0) /\ Len(Edited(input)) = Wrap(0 - 0)
      BY <1>1, <1>3, <1>5, ConFacts
    <2> QED
      BY <1>4, <2>1
  <1>7. Reading /\ ReaderAwake
    BY DEF ConInit, Reading, ReaderAwake, NotReading
  <1> QED
    BY <1>3, <1>5, <1>6, <1>7 DEF ConInv, Abstract!Init

\* What a step of a reader does to the ends of file.
EofStep(p) == reader[p].at # "asleep" /\ reader'[p] # reader[p] /\ Eofs(input') < Eofs(input)
                => reader'[p].at = "idle" /\ reader'[p].got = 0

\* One lemma per step of the console.
LEMMA ConStep ==
  ASSUME ConInv, [ConNext]_convars
  PROVE  /\ ConInv'
         /\ [Abstract!Next]_<<Edited(input), Ready(input)>>
         /\ \A p \in Users : EofStep(p)
  <1>0. ConType /\ Reading
    BY DEF ConInv
  <1>1. CASE \E c \in ConChars : consoleintr(c)
    <2>1. PICK c \in ConChars : consoleintr(c)
      BY <1>1
    <2>2. CASE c \in Letters \cup {NL, EOF} /\ typed(c)
      <3>1. ConInv' /\ Abstract!Type(c)
        BY <2>2, TypedStep
      <3>2. ASSUME NEW p \in Users, reader[p].at # "asleep" PROVE reader'[p] = reader[p]
        BY <2>2, <3>2 DEF typed, Woken
      <3> QED
        BY <2>2, <3>1, <3>2 DEF Abstract!Next, Abstract!NL, Abstract!EOF, NL, EOF, EofStep
    <2>3. CASE input' = [input EXCEPT !.e = Wrap(@ - KillLength)] /\ UNCHANGED reader
      BY <2>3, KillStep DEF Abstract!Next, EofStep
    <2>4. CASE input.e # input.w /\ input' = [input EXCEPT !.e = Wrap(@ - 1)] /\ UNCHANGED reader
      BY <2>4, EraseStep DEF Abstract!Next, EofStep
    <2> QED
      BY <2>1, <2>2, <2>3, <2>4 DEF consoleintr
  <1>2. ASSUME NEW p \in Users, NEW n \in Nat, NEW target \in Nat, n <= target,
               reader[p].at # "asleep", Turn(p, n, target)
        PROVE  /\ ConInv'
               /\ [Abstract!Next]_<<Edited(input), Ready(input)>>
               /\ \A q \in Users : EofStep(q)
    <2>1. /\ ConInv'
          /\ Abstract!Read \/ UNCHANGED <<Edited(input), Ready(input)>>
          /\ \A q \in Users : q # p => reader'[q] = reader[q]
          /\ Eofs(input') < Eofs(input) => reader'[p].at = "idle" /\ reader'[p].got = 0
      BY <1>2, TurnStep
    <2> QED
      BY <2>1 DEF Abstract!Next, EofStep
  <1>3. CASE \E p \in Users : consoleread(p)
    <2>1. PICK p \in Users : reader[p].at = "idle" /\ \E n \in 0..MAXREAD : Turn(p, n, n)
      BY <1>3 DEF consoleread
    <2>2. PICK n \in 0..MAXREAD : Turn(p, n, n)
      BY <2>1
    <2>3. n \in Nat /\ n <= n /\ reader[p].at # "asleep"
      BY <2>1, RingSizes
    <2> QED
      BY <1>2, <2>2, <2>3
  <1>4. CASE \E p \in Users : wake(p)
    <2>1. PICK p \in Users : reader[p].at = "awake" /\ Turn(p, reader[p].n, reader[p].target)
      BY <1>4 DEF wake
    <2>2. reader[p].n \in Nat /\ reader[p].target \in Nat /\ reader[p].n <= reader[p].target
          /\ reader[p].at # "asleep"
      BY <1>0, <2>1 DEF ConType, Reading
    <2> QED
      BY <1>2, <2>1, <2>2
  <1>5. CASE \E p \in Users : kill(p)
    <2>1. PICK p \in Users : kill(p)
      BY <1>5
    <2>2. /\ reader' = [reader EXCEPT ![p].killed = TRUE,
                              ![p].at = IF @ = "asleep" THEN "awake" ELSE @]
          /\ input' = input
      BY <2>1 DEF kill
    <2>3. /\ ConType' /\ Reading'
          /\ \A q \in Users : reader'[q].at = "asleep" => reader[q].at = "asleep" /\ q # p
          /\ \A q \in Users : q # p => reader'[q] = reader[q]
      BY <1>0, <2>2, ZenonT(30) DEF ConType, Reading
    <2>4. RingOK' /\ Ready(input') = Ready(input) /\ Edited(input') = Edited(input)
      BY <2>2 DEF RingOK, ConInv
    <2>5. ReaderAwake'
      BY <2>2, <2>3 DEF ReaderAwake, ConInv
    <2>6. ~(Eofs(input') < Eofs(input))
      <3>1. Eofs(input) \in Nat
        <4>1. Len(Ready(input)) \in Nat
          BY <1>0, ConFacts DEF ConInv
        <4>2. 1 \in Int /\ Len(Ready(input)) \in Int
          BY <4>1
        <4>3. IsFiniteSet(1..Len(Ready(input)))
          BY <4>2, FS_Interval
        <4>4. IsFiniteSet({i \in 1..Len(Ready(input)) : Ready(input)[i] = EOF})
          BY <4>3, FS_Subset
        <4> QED
          BY <4>4, FS_CardinalityType DEF Eofs
      <3> QED
        BY <2>2, <3>1
    <2> QED
      BY <2>3, <2>4, <2>5, <2>6 DEF ConInv, EofStep
  <1>6. CASE UNCHANGED convars
    <2>1. input' = input /\ reader' = reader
      BY <1>6 DEF convars
    <2>2. ConInv'
      BY <2>1 DEF ConInv, ConType, RingOK, Reading, ReaderAwake
    <2> QED
      BY <2>1, <2>2 DEF EofStep
  <1> QED
    BY <1>1, <1>3, <1>4, <1>5, <1>6 DEF ConNext

\* The indexes and the line at every step.
THEOREM ConsoleInvariant == ConSpec => []ConInv
  <1>1. ConInit => ConInv
    BY ConStart
  <1>2. ConInv /\ [ConNext]_convars => ConInv'
    BY ConStep
  <1> QED
    BY <1>1, <1>2, PTL DEF ConSpec

\* A console reader never sleeps over a line that is there (consoleread).
THEOREM ReadersAwake == ConSpec => []ReaderAwake
  <1>1. ConInv => ReaderAwake
    BY DEF ConInv
  <1> QED
    BY <1>1, ConsoleInvariant, PTL

\* The ring implements the line discipline of LineInput (consoleintr), and an
\* end of file is seen by one read, which returns zero bytes (consoleread).
THEOREM ConsoleRefines == ConSpec => LineByLine /\ EofOnce
  <1>1. ConInit => Abstract!Init
    BY ConStart
  <1>2. ConInv /\ [ConNext]_convars => [Abstract!Next]_<<Edited(input), Ready(input)>>
    BY ConStep
  <1>3. ConInv /\ [ConNext]_convars =>
          [\A p \in Users :
             reader[p].at # "asleep" /\ reader'[p] # reader[p] /\ Eofs(input') < Eofs(input)
             => reader'[p].at = "idle" /\ reader'[p].got = 0]_convars
    BY ConStep DEF EofStep
  <1> QED
    BY <1>1, <1>2, <1>3, ConsoleInvariant, PTL DEF ConSpec, LineByLine, EofOnce, Abstract!Spec

-----------------------------------------------------------------------------
(* Keyboard.                                                               *)

Ctls == {"lctl", "rctl"}
Shifts == {"lshift", "rshift"}
WireBytes == {E0} \cup {b \in [code : {Code(k) : k \in KeyNames}, released : BOOLEAN,
                               key : KeyNames, plain : BOOLEAN] : b.code = Code(b.key)}

KbdType == wire \in Seq(WireBytes)

\* An E0 byte precedes exactly the bytes of the extended keys.
Framed ==
  /\ \A i \in 1..Len(wire) : wire[i].code = "E0" =>
       i + 1 \in 1..Len(wire) /\ wire[i + 1].key \in Extended
  /\ \A i \in 1..Len(wire) : wire[i].key \in Extended =>
       IF i = 1 THEN "E0ESC" \in shift ELSE wire[i - 1].code = "E0"
  /\ "E0ESC" \in shift => 1 \in 1..Len(wire) /\ wire[1].key \in Extended

\* No byte of the keys F from i to j.
NoneOf(F, i, j) == \A l \in i..j : wire[l].key \notin F

\* The last byte of a kind of modifier tells whether one is held, and so does
\* the flag once there is none left.
Tracked(F, flag) ==
  /\ \A i \in 1..Len(wire) :
       wire[i].key \in F /\ NoneOf(F, i + 1, Len(wire)) /\ ~wire[i].released => wire[i].key \in down
  /\ flag \in shift /\ NoneOf(F, 1, Len(wire)) => down \cap F # {}

\* Before a key that was hit with no modifier, control was released.
PlainLater ==
  \A j \in 1..Len(wire) : wire[j].plain /\ wire[j].code # "E0" =>
    /\ \A i \in 1..(j - 1) : wire[i].key \in Ctls /\ NoneOf(Ctls, i + 1, j - 1) => wire[i].released
    /\ NoneOf(Ctls, 1, j - 1) => "CTL" \notin shift

OwnChar ==
  char.plain =>
       CASE char.key = "d" -> char.c \in {"d", "D"}
         [] char.key = "up" -> char.c = "KEY_UP"
         [] char.key = "pad8" -> char.c = "8"
         [] OTHER -> TRUE

KbdInv == /\ KbdType /\ Framed
          /\ Tracked(Ctls, "CTL") /\ Tracked(Shifts, "SHIFT")
          /\ PlainLater /\ OwnChar

\* What the tables say of a key that was decoded right.
LEMMA Decoded ==
  ASSUME NEW k \in KeyNames, NEW sh, "E0ESC" \in sh <=> k \in Extended
  PROVE  /\ shiftcode(Code(k), "E0ESC" \in sh) = IF k \in Ctls THEN {"CTL"} ELSE IF k \in Shifts THEN {"SHIFT"}
                                      ELSE IF k = "alt" THEN {"ALT"} ELSE {}
         /\ togglecode(Code(k), "E0ESC" \in sh) = IF k = "caps" THEN {"CAPSLOCK"} ELSE {}
         /\ Code(k) # "E0"
         /\ \A flags :
              /\ k = "d" /\ "CTL" \notin flags => charcode(flags, Code(k), "E0ESC" \in sh) \in {"d", "D"}
              /\ k = "up" => charcode(flags, Code(k), "E0ESC" \in sh) = "KEY_UP"
              /\ k = "pad8" /\ "CTL" \notin flags => charcode(flags, Code(k), "E0ESC" \in sh) = "8"
  <1> DEFINE hi == "E0ESC" \in sh
  <1>1. \/ k = "lshift" /\ Code(k) = "2A" /\ ~hi
        \/ k = "rshift" /\ Code(k) = "36" /\ ~hi
        \/ k = "lctl" /\ Code(k) = "1D" /\ ~hi
        \/ k = "rctl" /\ Code(k) = "1D" /\ hi
        \/ k = "alt" /\ Code(k) = "38" /\ ~hi
        \/ k = "caps" /\ Code(k) = "3A" /\ ~hi
        \/ k = "d" /\ Code(k) = "20" /\ ~hi
        \/ k = "pad8" /\ Code(k) = "48" /\ ~hi
        \/ k = "up" /\ Code(k) = "48" /\ hi
    BY DEF KeyNames, Code, Extended
  <1>2. shiftcode(Code(k), hi) = IF k \in Ctls THEN {"CTL"} ELSE IF k \in Shifts THEN {"SHIFT"}
                                  ELSE IF k = "alt" THEN {"ALT"} ELSE {}
    BY <1>1 DEF shiftcode, Ctls, Shifts
  <1>3. togglecode(Code(k), hi) = IF k = "caps" THEN {"CAPSLOCK"} ELSE {}
    BY <1>1 DEF togglecode
  <1>4. ASSUME NEW flags
        PROVE  /\ k = "d" /\ "CTL" \notin flags => charcode(flags, Code(k), hi) \in {"d", "D"}
               /\ k = "up" => charcode(flags, Code(k), hi) = "KEY_UP"
               /\ k = "pad8" /\ "CTL" \notin flags => charcode(flags, Code(k), hi) = "8"
    BY <1>1 DEF charcode
  <1>5. Code(k) # "E0"
    BY <1>1
  <1> QED
    BY <1>2, <1>3, <1>4, <1>5

\* Bytes of the wire.
LEMMA ByteFacts ==
  ASSUME NEW b \in WireBytes
  PROVE  /\ b = E0 \/ (b.key \in KeyNames /\ b.code = Code(b.key) /\ b.code # "E0")
         /\ b = E0 => b.code = "E0" /\ b.key \notin Ctls \cup Shifts \cup Extended
  <1>1. CASE b = E0
    BY <1>1 DEF E0, Ctls, Shifts, Extended
  <1>2. CASE b # E0
    <2>1. b.key \in KeyNames /\ b.code = Code(b.key)
      BY <1>2 DEF WireBytes
    <2>2. \A k \in KeyNames : Code(k) # "E0"
      BY DEF Code, KeyNames
    <2> QED
      BY <1>2, <2>1, <2>2
  <1> QED
    BY <1>1, <1>2

\* A flag follows the keys F when byte b is read.
Follows(F, flag, b) ==
  /\ b.key \in F => (flag \in shift' <=> ~b.released)
  /\ b.key \notin F => (flag \in shift' <=> flag \in shift)

\* One byte is read: what becomes of the flags and the character.
LEMMA ByteRead ==
  ASSUME KbdInv, kbdgetc
  PROVE  /\ Len(wire) \in Nat \ {0} /\ wire[1] \in WireBytes
         /\ wire' = Tail(wire) /\ UNCHANGED down
         /\ "E0ESC" \in shift' <=> wire[1].code = "E0"
         /\ Follows(Ctls, "CTL", wire[1]) /\ Follows(Shifts, "SHIFT", wire[1])
         /\ OwnChar'
  <1> DEFINE b == wire[1]
             k == b.key
             hi == "E0ESC" \in shift
             pressed == (shift \ {"E0ESC"}) \cup shiftcode(b.code, hi)
             toggled == togglecode(b.code, hi)
             flags == (pressed \ toggled) \cup (toggled \ pressed)
             c == charcode(flags, b.code, hi)
  <1>1. wire \in Seq(WireBytes) /\ wire # <<>> /\ wire' = Tail(wire) /\ UNCHANGED down
    BY DEF KbdInv, KbdType, kbdgetc
  <1>2. Len(wire) \in Nat \ {0} /\ b \in WireBytes /\ Head(wire) = b /\ 1 \in 1..Len(wire)
    BY <1>1
  <1>3. IF b.code = "E0" THEN shift' = shift \cup {"E0ESC"} /\ UNCHANGED char
        ELSE IF b.released THEN shift' = shift \ (shiftcode(b.code, hi) \cup {"E0ESC"}) /\ UNCHANGED char
        ELSE /\ shift' = flags
             /\ char' = [c |-> IF "CAPSLOCK" \in flags THEN CapsLocked(c) ELSE c,
                         key |-> b.key, plain |-> b.plain]
    BY <1>2 DEF kbdgetc, Released
  <1>4. CASE b.code = "E0"
    <2>1. b = E0
      BY <1>2, <1>4, ByteFacts
    <2>2. b.key \notin Ctls /\ b.key \notin Shifts
      BY <1>2, <2>1, ByteFacts
    <2>3. shift' = shift \cup {"E0ESC"} /\ UNCHANGED char
      BY <1>3, <1>4
    <2> QED
      BY <1>1, <1>2, <1>4, <2>2, <2>3 DEF Follows, OwnChar, KbdInv
  <1>5. CASE b.code # "E0"
    <2>1. k \in KeyNames /\ b.code = Code(k)
      <3>1. b # E0
        <4>1. E0.code = "E0"
          BY DEF E0
        <4> HIDE DEF b
        <4> QED
          BY <1>5, <4>1
      <3> QED
        BY <1>2, <3>1, ByteFacts
    <2>2. hi <=> k \in Extended
      BY <1>2, <1>5 DEF KbdInv, Framed
    <2>3. /\ shiftcode(b.code, hi) = IF k \in Ctls THEN {"CTL"} ELSE IF k \in Shifts THEN {"SHIFT"}
                                      ELSE IF k = "alt" THEN {"ALT"} ELSE {}
          /\ togglecode(b.code, hi) = IF k = "caps" THEN {"CAPSLOCK"} ELSE {}
          /\ \A f :
              /\ k = "d" /\ "CTL" \notin f => charcode(f, b.code, hi) \in {"d", "D"}
              /\ k = "up" => charcode(f, b.code, hi) = "KEY_UP"
              /\ k = "pad8" /\ "CTL" \notin f => charcode(f, b.code, hi) = "8"
      BY <2>1, <2>2, Decoded
    <2>4. "E0ESC" \notin shift' /\ Follows(Ctls, "CTL", b) /\ Follows(Shifts, "SHIFT", b)
      <3>1. CASE b.released
        BY <1>3, <1>5, <2>3, <3>1 DEF Follows, Ctls, Shifts
      <3>2. CASE ~b.released
        <4>1. shift' = flags
          BY <1>3, <1>5, <3>2
        <4> QED
          BY <2>3, <3>2, <4>1 DEF Follows, Ctls, Shifts
      <3> QED
        BY <3>1, <3>2
    <2>5. OwnChar'
      <3>1. CASE b.released
        BY <1>3, <1>5, <3>1 DEF KbdInv, OwnChar
      <3>2. CASE ~b.released
        <4>1. char'.key = k /\ char'.plain = b.plain
              /\ char'.c = IF "CAPSLOCK" \in flags THEN CapsLocked(c) ELSE c
          BY <1>3, <1>5, <3>2
        <4>2. b.plain => "CTL" \notin shift
          BY <1>2, <1>5 DEF KbdInv, PlainLater, NoneOf
        <4>3. b.plain /\ k \in {"d", "pad8"} => "CTL" \notin flags
          BY <2>3, <4>2 DEF Ctls, Shifts
        <4>4. b.plain /\ k = "d" => c \in {"d", "D"}
          BY <2>3, <4>3
        <4>5. b.plain /\ k = "pad8" => c = "8"
          BY <2>3, <4>3
        <4>6. k = "up" => c = "KEY_UP"
          BY <2>3
        <4>7. c = "d" => CapsLocked(c) = "D"
          BY DEF CapsLocked
        <4>8. c = "D" => CapsLocked(c) = "d"
          BY DEF CapsLocked
        <4>9. c \in {"8", "KEY_UP"} => CapsLocked(c) = c
          BY DEF CapsLocked
        <4> HIDE DEF c, flags, b, k
        <4>10. /\ char'.plain /\ char'.key = "d" => char'.c \in {"d", "D"}
               /\ char'.plain /\ char'.key = "up" => char'.c = "KEY_UP"
               /\ char'.plain /\ char'.key = "pad8" => char'.c = "8"
          BY <4>1, <4>4, <4>5, <4>6, <4>7, <4>8, <4>9
        <4> QED
          BY <4>10 DEF OwnChar
      <3> QED
        BY <3>1, <3>2
    <2> QED
      BY <1>1, <1>2, <1>5, <2>4, <2>5
  <1> QED
    BY <1>4, <1>5

\* The wire without its first byte.
LEMMA WireRead ==
  ASSUME wire \in Seq(WireBytes), Len(wire) \in Nat \ {0}, wire' = Tail(wire)
  PROVE  /\ wire' \in Seq(WireBytes) /\ Len(wire') = Len(wire) - 1
         /\ \A i \in 1..(Len(wire) - 1) : i + 1 \in 1..Len(wire) /\ wire'[i] = wire[i + 1]
  OBVIOUS

\* kbdgetc takes a byte off the wire: a flag that follows the keys still does.
LEMMA TrackedRead ==
  ASSUME KbdInv, kbdgetc, NEW F, NEW flag, Tracked(F, flag), Follows(F, flag, wire[1])
  PROVE  Tracked(F, flag)'
  <1> DEFINE n == Len(wire)
             w == wire'
  <1>1. n \in Nat \ {0} /\ UNCHANGED down /\ Len(w) = n - 1
        /\ \A i \in 1..(n - 1) : i + 1 \in 1..n /\ w[i] = wire[i + 1]
    <2>1. wire \in Seq(WireBytes) /\ Len(wire) \in Nat \ {0} /\ wire' = Tail(wire) /\ UNCHANGED down
      BY ByteRead DEF KbdInv, KbdType
    <2> QED
      BY <2>1, WireRead
  <1> HIDE DEF w, n
  <1>2. ASSUME NEW i \in 1..Len(w), w[i].key \in F, \A l \in (i + 1)..Len(w) : w[l].key \notin F,
               ~w[i].released
        PROVE  w[i].key \in down
    <2>1. i + 1 \in 1..n /\ wire[i + 1] = w[i] /\ i \in Nat
      BY <1>1, <1>2
    <2>2. ASSUME NEW l \in (i + 2)..n PROVE wire[l].key \notin F
      <3>1. l - 1 \in (i + 1)..Len(w) /\ l - 1 \in 1..(n - 1) /\ (l - 1) + 1 = l
        BY <1>1, <2>1
      <3> QED
        BY <1>1, <1>2, <3>1
    <2>3. NoneOf(F, (i + 1) + 1, n)
      BY <2>1, <2>2 DEF NoneOf
    <2> QED
      BY <1>2, <2>1, <2>3 DEF Tracked, n
  <1>3. ASSUME flag \in shift', \A l \in 1..Len(w) : w[l].key \notin F
        PROVE  down \cap F # {}
    <2>1. ASSUME NEW l \in 2..n PROVE wire[l].key \notin F
      <3>1. l - 1 \in 1..Len(w) /\ l - 1 \in 1..(n - 1) /\ (l - 1) + 1 = l
        BY <1>1
      <3> QED
        BY <1>1, <1>3, <3>1
    <2>2. CASE wire[1].key \in F
      <3>1. ~wire[1].released
        BY <1>3, <2>2 DEF Follows
      <3>2. 1 \in 1..n /\ NoneOf(F, 1 + 1, n)
        BY <1>1, <2>1 DEF NoneOf
      <3>3. wire[1].key \in down
        BY <2>2, <3>1, <3>2 DEF Tracked, n
      <3> QED
        BY <2>2, <3>3
    <2>3. CASE wire[1].key \notin F
      <3>1. flag \in shift
        BY <1>3, <2>3 DEF Follows
      <3>2. \A l \in 1..n : l = 1 \/ l \in 2..n
        BY <1>1
      <3>3. NoneOf(F, 1, n)
        BY <2>1, <2>3, <3>2 DEF NoneOf
      <3> QED
        BY <3>1, <3>3 DEF Tracked, n
    <2> QED
      BY <2>2, <2>3
  <1> QED
    BY <1>1, <1>2, <1>3 DEF Tracked, NoneOf, w

\* kbdgetc takes a byte off the wire: before a plain key control is still released.
LEMMA PlainRead ==
  ASSUME KbdInv, kbdgetc
  PROVE  PlainLater'
  <1> DEFINE n == Len(wire)
             w == wire'
             C == Ctls
  <1>1. n \in Nat \ {0} /\ Len(w) = n - 1
        /\ \A i \in 1..(n - 1) : i + 1 \in 1..n /\ w[i] = wire[i + 1]
    <2>1. wire \in Seq(WireBytes) /\ Len(wire) \in Nat \ {0} /\ wire' = Tail(wire)
      BY ByteRead DEF KbdInv, KbdType
    <2> QED
      BY <2>1, WireRead
  <1>0. Follows(C, "CTL", wire[1]) /\ PlainLater
    BY ByteRead DEF KbdInv
  <1> HIDE DEF w, n, C
  <1>2. ASSUME NEW j \in 1..Len(w), w[j].plain, w[j].code # "E0"
        PROVE  /\ \A i \in 1..(j - 1) : w[i].key \in C /\ (\A l \in (i + 1)..(j - 1) : w[l].key \notin C)
                                        => w[i].released
               /\ (\A l \in 1..(j - 1) : w[l].key \notin C) => "CTL" \notin shift'
    <2>1. j \in Nat /\ j + 1 \in 1..n /\ wire[j + 1] = w[j] /\ (j + 1) - 1 = j
          /\ \A l \in 2..j : l - 1 \in 1..(n - 1) /\ l - 1 \in 1..(j - 1) /\ (l - 1) + 1 = l
      BY <1>1
    <2>2. /\ \A i \in 1..j : wire[i].key \in C /\ NoneOf(C, i + 1, j) => wire[i].released
          /\ NoneOf(C, 1, j) => "CTL" \notin shift
      BY <1>0, <1>2, <2>1 DEF PlainLater, n, C
    <2>3. \A l \in 2..j : wire[l] = w[l - 1] /\ l - 1 \in 1..(j - 1)
      BY <1>1, <2>1
    <2>4. ASSUME NEW i \in 1..(j - 1), w[i].key \in C, \A l \in (i + 1)..(j - 1) : w[l].key \notin C
          PROVE  w[i].released
      <3>1. i \in Nat /\ i + 1 \in 1..j /\ i + 1 \in 2..j /\ (i + 1) - 1 = i
        BY <2>1
      <3>2. ASSUME NEW l \in ((i + 1) + 1)..j PROVE wire[l].key \notin C
        <4>1. l \in 2..j /\ l - 1 \in (i + 1)..(j - 1)
          BY <2>1, <3>1
        <4> QED
          BY <2>3, <2>4, <4>1
      <3>3. NoneOf(C, (i + 1) + 1, j)
        BY <3>2 DEF NoneOf
      <3>4. wire[i + 1] = w[i]
        BY <2>3, <3>1
      <3> QED
        BY <2>2, <2>4, <3>1, <3>3, <3>4
    <2>5. ASSUME \A l \in 1..(j - 1) : w[l].key \notin C
          PROVE  "CTL" \notin shift'
      <3>1. \A l \in 2..j : wire[l].key \notin C
        BY <2>3, <2>5
      <3>2. CASE wire[1].key \in C
        <4>1. 1 \in 1..j /\ NoneOf(C, 1 + 1, j)
          BY <2>1, <3>1 DEF NoneOf
        <4>2. wire[1].released
          BY <2>2, <3>2, <4>1
        <4> QED
          BY <1>0, <3>2, <4>2 DEF Follows
      <3>3. CASE wire[1].key \notin C
        <4>1. \A l \in 1..j : l = 1 \/ l \in 2..j
          BY <2>1
        <4>2. NoneOf(C, 1, j)
          BY <3>1, <3>3, <4>1 DEF NoneOf
        <4> QED
          BY <1>0, <2>2, <3>3, <4>2 DEF Follows
      <3> QED
        BY <3>2, <3>3
    <2> QED
      BY <2>4, <2>5
  <1> QED
    BY <1>2 DEF PlainLater, NoneOf, w, C

\* kbdgetc takes a byte off the wire: the escape prefix still frames what is left.
LEMMA FramedRead ==
  ASSUME KbdInv, kbdgetc
  PROVE  KbdType' /\ Framed'
  <1> DEFINE n == Len(wire)
             w == wire'
  <1>1. n \in Nat \ {0} /\ Len(w) = n - 1 /\ w \in Seq(WireBytes)
        /\ \A i \in 1..(n - 1) : i + 1 \in 1..n /\ w[i] = wire[i + 1]
    <2>1. wire \in Seq(WireBytes) /\ Len(wire) \in Nat \ {0} /\ wire' = Tail(wire)
      BY ByteRead DEF KbdInv, KbdType
    <2> QED
      BY <2>1, WireRead
  <1>2. /\ "E0ESC" \in shift' <=> wire[1].code = "E0"
        /\ Framed
    BY ByteRead DEF KbdInv
  <1> HIDE DEF w, n
  <1>3. ASSUME NEW i \in 1..Len(w), w[i].code = "E0"
        PROVE  i + 1 \in 1..Len(w) /\ w[i + 1].key \in Extended
    <2>1. i + 1 \in 1..n /\ wire[i + 1].code = "E0" /\ i \in Nat
      BY <1>1, <1>3
    <2>2. (i + 1) + 1 \in 1..n /\ wire[(i + 1) + 1].key \in Extended
      BY <1>2, <2>1 DEF Framed, n
    <2>3. i + 1 \in 1..(n - 1)
      BY <1>1, <2>1, <2>2
    <2> QED
      BY <1>1, <2>2, <2>3
  <1>4. ASSUME NEW i \in 1..Len(w), w[i].key \in Extended
        PROVE  IF i = 1 THEN "E0ESC" \in shift' ELSE w[i - 1].code = "E0"
    <2>1. i + 1 \in 1..n /\ wire[i + 1].key \in Extended /\ i \in Nat /\ i + 1 # 1 /\ (i + 1) - 1 = i
      BY <1>1, <1>4
    <2>2. wire[i].code = "E0"
      BY <1>2, <2>1 DEF Framed, n
    <2>3. i # 1 => i - 1 \in 1..(n - 1) /\ (i - 1) + 1 = i
      BY <1>1, <2>1
    <2>4. i # 1 => w[i - 1] = wire[i]
      BY <1>1, <2>3
    <2> QED
      BY <1>2, <2>2, <2>4
  <1>5. ASSUME "E0ESC" \in shift'
        PROVE  1 \in 1..Len(w) /\ w[1].key \in Extended
    <2>1. 1 \in 1..n /\ wire[1].code = "E0"
      BY <1>1, <1>2, <1>5
    <2>2. 1 + 1 \in 1..n /\ wire[1 + 1].key \in Extended
      BY <1>2, <2>1 DEF Framed, n
    <2>3. 1 \in 1..(n - 1)
      BY <1>1, <2>2
    <2> QED
      BY <1>1, <2>2, <2>3
  <1> QED
    BY <1>1, <1>3, <1>4, <1>5 DEF KbdType, Framed, w

\* A key goes down or up: its byte is the last of the wire, after an E0 for
\* an extended one.
LEMMA KeyStep ==
  ASSUME KbdInv, NEW k \in Keys, Key(k)
  PROVE  KbdInv'
  <1> DEFINE n == Len(wire)
             w == wire'
             b == Byte(k, k \in down)
             z == IF k \in Extended THEN n + 2 ELSE n + 1
  <1>0. wire \in Seq(WireBytes) /\ n \in Nat /\ k \in KeyNames /\ Framed /\ PlainLater
    BY KeysAssumption DEF KbdInv, KbdType
  <1>1. b \in WireBytes /\ E0 \in WireBytes /\ b.key = k /\ (b.released <=> k \in down)
        /\ (b.plain <=> down \cap Modifiers = {}) /\ b.code # "E0"
    <2>1. Code(k) # "E0"
      BY <1>0 DEF Code, KeyNames
    <2>2. (k \in down) \in BOOLEAN /\ (down \cap Modifiers = {}) \in BOOLEAN
      OBVIOUS
    <2>3. b \in WireBytes
      <3>1. Code(k) \in {Code(x) : x \in KeyNames} /\ k \in KeyNames
        BY <1>0
      <3>2. b \in [code : {Code(x) : x \in KeyNames}, released : BOOLEAN,
                   key : KeyNames, plain : BOOLEAN]
        BY <2>2, <3>1 DEF Byte
      <3>3. b.code = Code(b.key)
        BY DEF Byte
      <3> QED
        BY <3>2, <3>3 DEF WireBytes
    <2>4. E0 \in WireBytes
      BY DEF WireBytes
    <2>5. b.key = k /\ b.code = Code(k)
      BY DEF Byte
    <2>6. b.released = (k \in down)
      BY DEF Byte
    <2>7. b.plain = (down \cap Modifiers = {})
      BY DEF Byte
    <2> QED
      BY <2>1, <2>3, <2>4, <2>5, <2>6, <2>7, Zenon
  <1>2. E0.key = "" /\ E0.code = "E0"
    BY DEF E0
  <1>3. /\ wire' = wire \o ((IF k \in Extended THEN <<E0>> ELSE <<>>) \o <<b>>)
        /\ down' = (IF k \in down THEN down \ {k} ELSE down \cup {k})
        /\ shift' = shift /\ char' = char
    BY DEF Key
  <1> HIDE DEF b
  <1>4. /\ w \in Seq(WireBytes) /\ Len(w) = z
        /\ \A i \in 1..n : w[i] = wire[i]
        /\ w[z] = b
        /\ k \in Extended => w[n + 1] = E0
    <2>1. CASE k \in Extended
      <3> DEFINE u == <<E0>> \o <<b>>
      <3>1. wire' = wire \o u
        BY <1>3, <2>1
      <3>2. <<E0>> \in Seq(WireBytes) /\ Len(<<E0>>) = 1 /\ <<b>> \in Seq(WireBytes) /\ Len(<<b>>) = 1
            /\ <<E0>>[1] = E0 /\ <<b>>[1] = b
        BY <1>1
      <3>3. u \in Seq(WireBytes) /\ Len(u) = 2 /\ u[1] = E0 /\ u[2] = b
        BY <3>2, ConcatProperties
      <3> HIDE DEF u
      <3>4. w \in Seq(WireBytes) /\ Len(w) = n + 2 /\ (\A i \in 1..n : w[i] = wire[i])
            /\ w[n + 1] = E0 /\ w[n + 2] = b
        <4>1. /\ w \in Seq(WireBytes) /\ Len(w) = n + 2
              /\ \A i \in 1..(n + 2) : w[i] = IF i <= n THEN wire[i] ELSE u[i - n]
          <5>1. /\ wire \o u \in Seq(WireBytes) /\ Len(wire \o u) = Len(wire) + Len(u)
                /\ \A i \in 1..(Len(wire) + Len(u)) :
                     (wire \o u)[i] = IF i <= Len(wire) THEN wire[i] ELSE u[i - Len(wire)]
            BY <1>0, <3>3, ConcatProperties
          <5> QED
            BY <3>1, <3>3, <5>1
        <4>2. (n + 1) - n = 1 /\ (n + 2) - n = 2 /\ ~(n + 1 <= n) /\ ~(n + 2 <= n)
              /\ n + 1 \in 1..(n + 2) /\ n + 2 \in 1..(n + 2) /\ \A i \in 1..n : i \in 1..(n + 2) /\ i <= n
          BY <1>0
        <4> QED
          BY <3>3, <4>1, <4>2
      <3> QED
        BY <2>1, <3>4
    <2>2. CASE k \notin Extended
      <3>1. (IF k \in Extended THEN <<E0>> ELSE <<>>) \o <<b>> = <<b>>
        BY <2>2
      <3>2. wire' = wire \o <<b>>
        BY <1>3, <3>1
      <3>3. w \in Seq(WireBytes) /\ Len(w) = n + 1 /\ (\A i \in 1..n : w[i] = wire[i])
            /\ w[n + 1] = b
        BY <1>0, <1>1, <3>2
      <3> QED
        BY <2>2, <3>3
    <2> QED
      BY <2>1, <2>2
  <1>5. /\ z \in Nat /\ z \in 1..z /\ n < z
        /\ \A i \in 1..z : i \in 1..n \/ i = z \/ (i = n + 1 /\ k \in Extended)
        /\ \A i \in 1..n : i \in 1..z
    BY <1>0
  <1>6. \A i \in 1..z : i \in 1..n \/ w[i] = b \/ w[i] = E0
    BY <1>4, <1>5
  <1> HIDE DEF w
  <1>b. \A i \in 1..n : i # 1 => i - 1 \in 1..n
    BY <1>0
  <1>7. Framed'
    <2>1. ASSUME NEW i \in 1..Len(w), w[i].code = "E0"
          PROVE  i + 1 \in 1..Len(w) /\ w[i + 1].key \in Extended
      <3>1. CASE i \in 1..n
        <4>1. i + 1 \in 1..n /\ wire[i + 1].key \in Extended
          BY <1>0, <1>4, <2>1, <3>1 DEF Framed
        <4> QED
          BY <1>4, <1>5, <4>1
      <3>2. CASE i = n + 1 /\ k \in Extended
        BY <1>0, <1>1, <1>4, <3>2
      <3>3. CASE i = z
        BY <1>1, <1>4, <2>1, <3>3
      <3> QED
        BY <1>4, <1>5, <3>1, <3>2, <3>3
    <2>2. ASSUME NEW i \in 1..Len(w), w[i].key \in Extended
          PROVE  IF i = 1 THEN "E0ESC" \in shift' ELSE w[i - 1].code = "E0"
      <3>1. CASE i \in 1..n
        <4>1. IF i = 1 THEN "E0ESC" \in shift ELSE wire[i - 1].code = "E0"
          BY <1>0, <1>4, <2>2, <3>1 DEF Framed
        <4> QED
          BY <1>3, <1>4, <1>b, <3>1, <4>1
      <3>2. CASE i = n + 1 /\ k \in Extended
        <4>1. w[i] = E0
          BY <1>4, <3>2
        <4> QED
          BY <1>2, <2>2, <4>1 DEF Extended
      <3>3. CASE i = z
        <4>1. k \in Extended
          BY <1>1, <1>4, <2>2, <3>3
        <4>2. z - 1 = n + 1 /\ z # 1
          BY <1>0, <4>1
        <4> QED
          BY <1>2, <1>4, <3>3, <4>1, <4>2
      <3> QED
        BY <1>4, <1>5, <3>1, <3>2, <3>3
    <2>3. ASSUME "E0ESC" \in shift'
          PROVE  1 \in 1..Len(w) /\ w[1].key \in Extended
      <3>1. 1 \in 1..n /\ wire[1].key \in Extended
        BY <1>0, <1>3, <2>3 DEF Framed
      <3> QED
        BY <1>4, <1>5, <3>1
    <2> QED
      BY <2>1, <2>2, <2>3 DEF Framed, w
  <1>8. ASSUME NEW F, NEW flag, Tracked(F, flag), "" \notin F
        PROVE  Tracked(F, flag)'
    <2>1. ASSUME NEW i \in 1..Len(w), w[i].key \in F, \A l \in (i + 1)..Len(w) : w[l].key \notin F,
                 ~w[i].released
          PROVE  w[i].key \in down'
      <3>1. CASE k \in F
        <4>1. i = z
          <5>1. i = z \/ z \in (i + 1)..Len(w)
            BY <1>4, <1>5, <2>1
          <5> QED
            BY <1>1, <1>4, <2>1, <3>1, <5>1
        <4>2. w[i] = b
          BY <1>4, <4>1
        <4>3. k \notin down
          BY <1>1, <2>1, <4>2
        <4> QED
          BY <1>1, <1>3, <4>2, <4>3
      <3>2. CASE k \notin F
        <4>1. i \in 1..n
          <5>1. i \in 1..z
            BY <1>4
          <5>2. b.key = k /\ E0.key = ""
            BY <1>1, <1>2
          <5>3. w[i] # b /\ w[i] # E0
            BY <1>8, <2>1, <3>2, <5>2
          <5> QED
            BY <1>6, <5>1, <5>3
        <4>2. w[i] = wire[i] /\ wire[i].key # k
          BY <1>4, <2>1, <3>2, <4>1
        <4>3. \A l \in (i + 1)..n : l \in (i + 1)..Len(w) /\ l \in 1..n
          BY <1>0, <1>4, <1>5, <4>1
        <4>4. NoneOf(F, i + 1, n)
          BY <1>4, <2>1, <4>3 DEF NoneOf
        <4>5. wire[i].key \in down
          BY <1>8, <2>1, <4>1, <4>2, <4>4 DEF Tracked
        <4> QED
          BY <1>3, <4>2, <4>5
      <3> QED
        BY <3>1, <3>2
    <2>2. ASSUME flag \in shift', \A l \in 1..Len(w) : w[l].key \notin F
          PROVE  down' \cap F # {}
      <3>1. k \notin F
        BY <1>1, <1>4, <1>5, <2>2
      <3>2. NoneOf(F, 1, n)
        BY <1>4, <1>5, <2>2 DEF NoneOf
      <3>3. down \cap F # {}
        BY <1>3, <1>8, <2>2, <3>2 DEF Tracked
      <3> QED
        BY <1>3, <3>1, <3>3
    <2> QED
      BY <2>1, <2>2 DEF Tracked, NoneOf, w
  <1>9. PlainLater'
    <2>1. ASSUME NEW j \in 1..Len(w), w[j].plain, w[j].code # "E0"
          PROVE  /\ \A i \in 1..(j - 1) : w[i].key \in Ctls
                                          /\ (\A l \in (i + 1)..(j - 1) : w[l].key \notin Ctls)
                                          => w[i].released
                 /\ (\A l \in 1..(j - 1) : w[l].key \notin Ctls) => "CTL" \notin shift'
      <3>1. CASE j \in 1..n
        <4>1. /\ \A i \in 1..(j - 1) : wire[i].key \in Ctls /\ NoneOf(Ctls, i + 1, j - 1) => wire[i].released
              /\ NoneOf(Ctls, 1, j - 1) => "CTL" \notin shift
          BY <1>0, <1>4, <2>1, <3>1 DEF PlainLater
        <4>2. \A i \in 1..(j - 1) : i \in 1..n /\ w[i] = wire[i]
          BY <1>0, <1>4, <3>1
        <4>3. \A i \in 1..(j - 1) : \A l \in (i + 1)..(j - 1) : l \in 1..(j - 1)
          BY <1>0, <3>1
        <4> QED
          BY <1>3, <4>1, <4>2, <4>3 DEF NoneOf
      <3>2. CASE j = n + 1 /\ k \in Extended
        BY <1>2, <1>4, <2>1, <3>2
      <3>3. CASE j = z
        <4>1. down \cap Modifiers = {}
          BY <1>1, <1>4, <2>1, <3>3
        <4>2. down \cap Ctls = {} /\ "" \notin Ctls
          BY <4>1 DEF Modifiers, Ctls
        <4>3. \A i \in 1..(j - 1) : i \in 1..n \/ w[i] = E0
          BY <1>0, <1>4, <1>5, <3>3
        <4>4. \A i \in 1..n : i \in 1..(j - 1) /\ w[i] = wire[i]
          BY <1>0, <1>4, <3>3
        <4>5. \A i \in 1..n : \A l \in (i + 1)..n : l \in (i + 1)..(j - 1) /\ l \in 1..n
          BY <1>0, <3>3
        <4>6. ASSUME NEW i \in 1..(j - 1), w[i].key \in Ctls, \A l \in (i + 1)..(j - 1) : w[l].key \notin Ctls
              PROVE  w[i].released
          <5>1. i \in 1..n
            BY <1>2, <4>2, <4>3, <4>6
          <5>2. NoneOf(Ctls, i + 1, n)
            BY <4>4, <4>5, <4>6, <5>1 DEF NoneOf
          <5>3. ~wire[i].released => wire[i].key \in down
            BY <4>4, <4>6, <5>1, <5>2 DEF Tracked, KbdInv
          <5> QED
            BY <4>2, <4>4, <4>6, <5>1, <5>3
        <4>7. ASSUME \A l \in 1..(j - 1) : w[l].key \notin Ctls
              PROVE  "CTL" \notin shift'
          <5>1. NoneOf(Ctls, 1, n)
            BY <4>4, <4>7 DEF NoneOf
          <5> QED
            BY <1>3, <4>2, <5>1 DEF Tracked, KbdInv
        <4> QED
          BY <4>6, <4>7
      <3> QED
        BY <1>4, <1>5, <3>1, <3>2, <3>3
    <2> QED
      BY <2>1 DEF PlainLater, NoneOf, w
  <1>10. Tracked(Ctls, "CTL")' /\ Tracked(Shifts, "SHIFT")'
    <2>1. "" \notin Ctls /\ "" \notin Shifts /\ Tracked(Ctls, "CTL") /\ Tracked(Shifts, "SHIFT")
      BY DEF Ctls, Shifts, KbdInv
    <2> QED
      BY <1>8, <2>1
  <1>11. KbdType' /\ OwnChar'
    BY <1>3, <1>4 DEF KbdType, OwnChar, KbdInv, w
  <1> QED
    BY <1>7, <1>9, <1>10, <1>11 DEF KbdInv

\* Keys do not get mixed up (kbdgetc).
THEOREM KeysRight == KbdSpec => []KeysMeanWhatTheySay
  <1>1. KbdInit => KbdInv
    <2> SUFFICES ASSUME KbdInit PROVE KbdInv
      OBVIOUS
    <2>1. wire = <<>> /\ shift = {}
      BY DEF KbdInit
    <2>2. KbdType
      BY <2>1, EmptySeq DEF KbdType
    <2>4. char.key = ""
      BY DEF KbdInit
    <2>3. \A i \in 1..Len(wire) : FALSE
      BY <2>1
    <2> QED
      BY <2>1, <2>2, <2>3, <2>4 DEF KbdInv, Framed, Tracked, PlainLater, OwnChar
  <1>2. KbdInv /\ [KbdNext]_kbdvars => KbdInv'
    <2> SUFFICES ASSUME KbdInv, [KbdNext]_kbdvars PROVE KbdInv'
      OBVIOUS
    <2>1. CASE kbdgetc
      <3>1. Tracked(Ctls, "CTL") /\ Tracked(Shifts, "SHIFT")
        BY DEF KbdInv
      <3>2. Follows(Ctls, "CTL", wire[1]) /\ Follows(Shifts, "SHIFT", wire[1]) /\ OwnChar'
        BY <2>1, ByteRead
      <3>3. Tracked(Ctls, "CTL")' /\ Tracked(Shifts, "SHIFT")'
        BY <2>1, <3>1, <3>2, TrackedRead
      <3> QED
        BY <2>1, <3>2, <3>3, PlainRead, FramedRead DEF KbdInv
    <2>2. ASSUME NEW k \in Keys, Key(k) PROVE KbdInv'
      BY <2>2, KeyStep
    <2>3. CASE UNCHANGED kbdvars
      BY <2>3 DEF kbdvars, KbdInv, KbdType, Framed, Tracked, NoneOf, PlainLater, OwnChar
    <2> QED
      BY <2>1, <2>2, <2>3 DEF KbdNext
  <1>3. KbdInv => KeysMeanWhatTheySay
    <2> SUFFICES ASSUME KbdInv PROVE KeysMeanWhatTheySay
      OBVIOUS
    <2>1. ASSUME wire = <<>>
          PROVE  /\ "E0ESC" \notin shift
                 /\ "SHIFT" \in shift => down \cap Shifts # {}
                 /\ "CTL" \in shift => down \cap Ctls # {}
      <3>1. \A i \in 1..Len(wire) : FALSE
        BY <2>1
      <3> QED
        BY <3>1 DEF KbdInv, Framed, Tracked, NoneOf
    <2> QED
      BY <2>1 DEF KeysMeanWhatTheySay, KbdInv, OwnChar, Ctls, Shifts
  <1> QED
    BY <1>1, <1>2, <1>3, PTL DEF KbdSpec

-----------------------------------------------------------------------------
(* Screen.                                                                 *)

\* The whole part of a quotient.
LEMMA Quotient ==
  ASSUME NEW a \in Nat, NEW n \in Nat \ {0}, NEW k \in Nat
  PROVE  a \div n >= k <=> a >= k * n
  <1> DEFINE q == a \div n
  <1>1. q \in Int /\ n * q <= a /\ a < n * q + n
    OBVIOUS
  <1> HIDE DEF q
  <1>2. CASE q >= k
    <2>1. n * (q - k) >= 0
      BY <1>1, <1>2
    <2>2. n * (q - k) = n * q - k * n
      BY <1>1
    <2> QED
      BY <1>1, <1>2, <2>1, <2>2 DEF q
  <1>3. CASE q < k
    <2>1. n * ((k - 1) - q) >= 0
      BY <1>1, <1>3
    <2>2. n * ((k - 1) - q) = k * n - n - n * q
      BY <1>1
    <2> QED
      BY <1>1, <1>3, <2>1, <2>2 DEF q
  <1> QED
    BY <1>1, <1>2, <1>3

\* memmove() to the start, of bytes that do not lie before their target.
LEMMA MovedDown ==
  ASSUME NEW V, NEW m \in [Cells -> V], NEW s \in Nat, NEW n \in Nat, s + n <= ROWS * COLS
  PROVE  \A i \in Cells : memmove(m, 0, s, n)[i] = IF i < n THEN m[i + s] ELSE m[i]
  <1> DEFINE at(k) == IF s < 0 /\ s + n > 0 THEN n - k ELSE k - 1
             Copies(f) == f = [k \in 0..n |->
                IF k = 0 THEN m ELSE [f[k - 1] EXCEPT ![0 + at(k)] = f[k - 1][s + at(k)]]]
             g == [k \in 0..n |-> [i \in Cells |-> IF i < k THEN m[i + s] ELSE m[i]]]
  <1>1. memmove(m, 0, s, n) = (CHOOSE f : Copies(f))[n]
    BY DEF memmove
  <1>2. \A k \in 1..n : 0 + at(k) = k - 1 /\ s + at(k) = s + k - 1
    OBVIOUS
  <1> HIDE DEF at
  <1>3. g \in [0..n -> [Cells -> V]]
    <2>1. ASSUME NEW k \in 0..n, NEW i \in Cells, i < k PROVE i + s \in Cells
      BY <2>1, ScreenAssumption DEF Cells
    <2> QED
      BY <2>1
  <1>4. ASSUME NEW k \in 1..n
        PROVE  g[k] = [g[k - 1] EXCEPT ![0 + at(k)] = g[k - 1][s + at(k)]]
    <2>1. k \in 0..n /\ k - 1 \in 0..n /\ k \in Nat /\ 0 + at(k) = k - 1 /\ s + at(k) = s + k - 1
      BY <1>2
    <2>2. k - 1 \in Cells /\ s + k - 1 \in Cells
      BY <2>1, ScreenAssumption DEF Cells
    <2>3. g[k - 1] = [i \in Cells |-> IF i < k - 1 THEN m[i + s] ELSE m[i]]
          /\ g[k] = [i \in Cells |-> IF i < k THEN m[i + s] ELSE m[i]]
      BY <2>1
    <2>4. g[k - 1][s + k - 1] = m[s + k - 1]
      BY <2>1, <2>2, <2>3
    <2>5. [g[k - 1] EXCEPT ![k - 1] = m[s + k - 1]] = [i \in Cells |-> IF i = k - 1 THEN m[s + k - 1] ELSE g[k - 1][i]]
      <3> HIDE DEF g
      <3> QED
        BY <2>2, <2>3
    <2>6. ASSUME NEW i \in Cells
          PROVE  g[k][i] = IF i = k - 1 THEN m[s + k - 1] ELSE g[k - 1][i]
      <3>1. i \in Int
        BY DEF Cells
      <3>2. CASE i = k - 1
        <4>1. i < k /\ i + s = s + k - 1
          BY <2>1, <3>2
        <4> QED
          BY <2>3, <3>2, <4>1
      <3>3. CASE i # k - 1
        <4>1. i < k <=> i < k - 1
          BY <2>1, <3>1, <3>3
        <4> QED
          BY <2>3, <3>3, <4>1
      <3> QED
        BY <3>2, <3>3
    <2>7. g[k] = [i \in Cells |-> IF i = k - 1 THEN m[s + k - 1] ELSE g[k - 1][i]]
      <3> HIDE DEF g
      <3> QED
        BY <2>3, <2>6
    <2> HIDE DEF g
    <2> QED
      BY <2>1, <2>4, <2>5, <2>7
  <1>5. g[0] = m
    BY DEF Cells
  <1>6. Copies(g)
    <2>1. g = [k \in 0..n |-> g[k]]
      OBVIOUS
    <2>2. \A k \in 0..n : k = 0 \/ k \in 1..n
      OBVIOUS
    <2> HIDE DEF g
    <2> QED
      BY <1>4, <1>5, <2>1, <2>2
  <1>7. PICK f : f = (CHOOSE x : Copies(x)) /\ Copies(f)
    <2> HIDE DEF Copies, g
    <2> QED
      BY <1>6
  <1>8. f[n] = g[n]
    <2> DEFINE T == {k \in 0..n : f[k] = g[k]}
    <2> HIDE DEF g
    <2>0. f[0] = m
      <3>1. 0 \in 0..n
        OBVIOUS
      <3>2. \A k \in 0..n : f[k] = IF k = 0 THEN m
                                 ELSE [f[k - 1] EXCEPT ![0 + at(k)] = f[k - 1][s + at(k)]]
        BY <1>7, Zenon
      <3> QED
        BY <3>1, <3>2, Zenon
    <2>1. 0 \in T
      BY <1>5, <2>0
    <2>2. \A k \in 0..(n - 1) : k \in T => k + 1 \in T
      <3> SUFFICES ASSUME NEW k \in 0..(n - 1), k \in T PROVE k + 1 \in T
        OBVIOUS
      <3>1. k + 1 \in 1..n /\ k + 1 \in 0..n /\ (k + 1) - 1 = k /\ k + 1 # 0
        OBVIOUS
      <3>2. f[k + 1] = [f[k] EXCEPT ![0 + at(k + 1)] = f[k][s + at(k + 1)]]
        BY <1>7, <3>1
      <3>3. g[k + 1] = [g[k] EXCEPT ![0 + at(k + 1)] = g[k][s + at(k + 1)]]
        BY <1>4, <3>1
      <3> QED
        BY <3>1, <3>2, <3>3
    <2>3. 0..n \subseteq T
      <3> HIDE DEF T
      <3> QED
        BY <2>1, <2>2, UpTo
    <2>4. n \in 0..n
      OBVIOUS
    <2> QED
      BY <2>3, <2>4
  <1>9. g[n] = [i \in Cells |-> IF i < n THEN m[i + s] ELSE m[i]]
    OBVIOUS
  <1> QED
    BY <1>1, <1>7, <1>8, <1>9

Marks == Glyphs \cup {Blank, Space}

\* What is on the paper at place a, counted from 0.
View(s, a) == IF a < Len(s) THEN s[a + 1] ELSE Blank

ScrInv ==
  /\ crt \in [Cells -> Marks] /\ paper \in Seq(Marks)
  /\ cur \in Nat /\ top \in Nat /\ pos \in Nat
  /\ top % COLS = 0
  /\ pos = cur - top /\ pos < Shown
  /\ Len(paper) <= top + Shown
  /\ \A i \in 0..(Shown - 1) : crt[i] = View(paper, top + i)

\* The constants as the leaves need them.
LEMMA ScreenSizes ==
  /\ COLS \in Nat \ {0} /\ ROWS \in Nat /\ ROWS > 1
  /\ Shown \in Nat /\ Shown >= COLS /\ ROWS * COLS = Shown + COLS
  /\ (ROWS - 2) * COLS = Shown - COLS
  /\ Cells = 0..(Shown + COLS - 1)
  <1>1. COLS \in Nat \ {0} /\ ROWS \in Nat /\ ROWS > 1
    BY ScreenAssumption
  <1>2. ROWS * COLS = Shown + COLS /\ (ROWS - 2) * COLS = Shown - COLS
    BY <1>1 DEF Shown
  <1>3. (ROWS - 2) * COLS >= 0 /\ Shown \in Int
    BY <1>1 DEF Shown
  <1> HIDE DEF Shown
  <1> QED
    BY <1>1, <1>2, <1>3 DEF Cells

\* A mark put on the paper.
LEMMA PutOnPaper ==
  ASSUME NEW s \in Seq(Marks), NEW k \in Nat, NEW c \in Marks
  PROVE  /\ OnPaper(s, k + 1, c) \in Seq(Marks)
         /\ Len(OnPaper(s, k + 1, c)) = IF k + 1 > Len(s) THEN k + 1 ELSE Len(s)
         /\ \A a \in Nat : View(OnPaper(s, k + 1, c), a) = IF a = k THEN c ELSE View(s, a)
  <1> DEFINE L == IF k + 1 > Len(s) THEN k + 1 ELSE Len(s)
             F(j) == IF j = k + 1 THEN c ELSE IF j <= Len(s) THEN s[j] ELSE Blank
             t == OnPaper(s, k + 1, c)
  <1>1. Len(s) \in Nat /\ L \in Nat /\ Blank \in Marks
    BY DEF Marks
  <1>2. t = [j \in 1..L |-> F(j)]
    BY DEF OnPaper
  <1>3. ASSUME NEW j \in 1..L PROVE F(j) \in Marks
    BY <1>1
  <1> HIDE DEF F, t
  <1>4. t \in Seq(Marks) /\ Len(t) = L /\ \A j \in 1..L : t[j] = F(j)
    <2> HIDE DEF L
    <2> QED
      BY <1>1, <1>2, <1>3
  <1>5. ASSUME NEW a \in Nat
        PROVE  View(t, a) = IF a = k THEN c ELSE View(s, a)
    <2>1. CASE a < L
      <3>1. View(t, a) = F(a + 1)
        BY <1>1, <1>4, <2>1 DEF View
      <3>2. a + 1 = k + 1 <=> a = k
        OBVIOUS
      <3>3. a + 1 <= Len(s) <=> a < Len(s)
        BY <1>1
      <3> QED
        BY <3>1, <3>2, <3>3 DEF F, View
    <2>2. CASE ~(a < L)
      <3>1. View(t, a) = Blank
        BY <1>4, <2>2 DEF View
      <3>2. a # k /\ ~(a < Len(s))
        BY <1>1, <2>2
      <3> QED
        BY <3>1, <3>2 DEF View
    <2> QED
      BY <2>1, <2>2
  <1> QED
    BY <1>4, <1>5 DEF t

\* The multiples of a positive number are in order and the number apart.
LEMMA NextMultiple ==
  ASSUME NEW a \in Nat \ {0}, NEW b \in Int, NEW d \in Int, a * b < a * d
  PROVE  a * (b + 1) <= a * d
  <1> DEFINE g == a * (b - d)
             h == a * (d - (b + 1))
             u == a * b
             v == a * d
             w == a * (b + 1)
  <1>1. g \in Int /\ h \in Int /\ u \in Int /\ v \in Int /\ w \in Int
    OBVIOUS
  <1>2. g = u - v
    OBVIOUS
  <1>3. h = v - w
    OBVIOUS
  <1>4. b >= d => g >= 0
    OBVIOUS
  <1>5. d - (b + 1) >= 0 => h >= 0
    OBVIOUS
  <1>6. u < v
    OBVIOUS
  <1> HIDE DEF g, h, u, v, w
  <1>7. b < d
    BY <1>1, <1>2, <1>4, <1>6
  <1>8. w <= v
    BY <1>1, <1>3, <1>5, <1>7
  <1> QED
    BY <1>8 DEF w, v

\* The cursor: on the screen and on the paper.
LEMMA Cursor ==
  ASSUME ScrInv, NEW c, NEW k,
         k = CASE c = NEWLINE -> cur + COLS - (cur % COLS)
               [] c = BACKSPACE -> IF cur > top THEN cur - 1 ELSE cur
               [] OTHER -> cur + 1
  PROVE  /\ k \in Nat /\ Moved(c) = k - top /\ Moved(c) \in 0..Shown
         /\ Moved(c) \div COLS >= ROWS - 1 <=> Moved(c) = Shown
  <1> DEFINE p == Moved(c)
  <1>1. cur \in Nat /\ top \in Nat /\ pos \in Nat /\ pos = cur - top /\ pos < Shown /\ top % COLS = 0
    BY DEF ScrInv
  <1>0. COLS \in Nat \ {0} /\ Shown \in Nat /\ Shown >= COLS /\ top \in Int /\ pos \in Int
    BY <1>1, ScreenSizes
  <1>2. p = k - top /\ p \in 0..Shown /\ k \in Nat
    <2>1. CASE c = NEWLINE
      <3>1. PICK y \in Int : top = COLS * y + (top % COLS)
        BY <1>0, DivMod
      <3>2. cur = pos + COLS * y
        BY <1>1, <3>1, ScreenSizes, SMTT(30)
      <3>3. cur % COLS = pos % COLS
        BY <1>1, <3>2, ScreenSizes, ModShift, SMTT(30)
      <3>4. PICK x \in Int : pos = COLS * x + (pos % COLS)
        BY <1>0, DivMod
      <3>5. pos % COLS \in 0..(COLS - 1)
        BY <1>0
      <3>6. p = pos + COLS - (pos % COLS) /\ k = cur + COLS - (pos % COLS)
        BY <2>1, <3>3 DEF Moved, NEWLINE, BACKSPACE
      <3>7. p <= Shown
        <4>1. p = COLS * (x + 1)
          <5>1. COLS * (x + 1) = COLS * x + COLS
            BY ScreenSizes
          <5> QED
            BY <3>4, <3>5, <3>6, <5>1, ScreenSizes, SMTT(30)
        <4>2. COLS * x < COLS * (ROWS - 1)
          <5>1. COLS * (ROWS - 1) = Shown
            BY ScreenSizes DEF Shown
          <5>2. COLS * x \in Int
            BY <1>0
          <5> DEFINE m == pos % COLS
                     y1 == COLS * x
          <5>3. pos = y1 + m /\ m >= 0 /\ m \in Int /\ y1 \in Int
            BY <1>0, <3>4, <3>5, <5>2
          <5> HIDE DEF m, y1
          <5>4. y1 < Shown
            BY <1>0, <1>1, <5>3
          <5> QED
            BY <5>1, <5>4 DEF y1
        <4>3. COLS \in Nat \ {0} /\ ROWS - 1 \in Int
          BY ScreenSizes
        <4>4. COLS * (x + 1) <= COLS * (ROWS - 1)
          BY <4>2, <4>3, NextMultiple
        <4>5. COLS * (ROWS - 1) = Shown
          BY ScreenSizes DEF Shown
        <4> DEFINE u == COLS * (x + 1)
                   v == COLS * (ROWS - 1)
        <4>6. u \in Int /\ v \in Int
          BY <4>3
        <4>7. p = u /\ u <= v /\ v = Shown
          BY <4>1, <4>4, <4>5
        <4> HIDE DEF u, v, p
        <4> QED
          BY <4>6, <4>7
      <3> DEFINE m == pos % COLS
      <3>8. m \in 0..(COLS - 1) /\ p = pos + COLS - m /\ k = cur + COLS - m
        BY <3>5, <3>6
      <3> HIDE DEF p, m
      <3> QED
        BY <1>0, <1>1, <3>7, <3>8
    <2>2. CASE c = BACKSPACE
      <3>1. p = (IF pos > 0 THEN pos - 1 ELSE pos) /\ k = (IF cur > top THEN cur - 1 ELSE cur)
        BY <2>2 DEF Moved, NEWLINE, BACKSPACE
      <3> HIDE DEF p
      <3> QED
        BY <1>0, <1>1, <3>1
    <2>3. CASE c # NEWLINE /\ c # BACKSPACE
      <3>1. p = pos + 1 /\ k = cur + 1
        BY <2>3 DEF Moved
      <3> HIDE DEF p
      <3> QED
        BY <1>0, <1>1, <3>1
    <2> QED
      BY <2>1, <2>2, <2>3
  <1>3. p \div COLS >= ROWS - 1 <=> p >= (ROWS - 1) * COLS
    <2>1. p \in Nat /\ ROWS - 1 \in Nat /\ COLS \in Nat \ {0}
      BY <1>2, ScreenSizes
    <2> HIDE DEF p
    <2> QED
      BY <2>1, Quotient
  <1>4. p >= Shown <=> p = Shown
    <2> HIDE DEF p
    <2> QED
      BY <1>2, ScreenSizes, SMTT(30)
  <1> QED
    BY <1>2, <1>3, <1>4 DEF Shown

\* A character on the screen and on the paper.
LEMMA PutStep ==
  ASSUME ScrInv, NEW c \in Glyphs \cup {NEWLINE, BACKSPACE}, cgaputc(c), Write(c)
  PROVE  ScrInv'
  <1> DEFINE k == CASE c = NEWLINE -> cur + COLS - (cur % COLS)
                    [] c = BACKSPACE -> IF cur > top THEN cur - 1 ELSE cur
                    [] OTHER -> cur + 1
             p == Moved(c)
             full == p \div COLS >= ROWS - 1
             q == IF full THEN p - COLS ELSE p
             put == IF c \in {NEWLINE, BACKSPACE} THEN crt ELSE [crt EXCEPT ![pos] = c]
             pap == IF c \in {NEWLINE, BACKSPACE} THEN paper ELSE OnPaper(paper, cur + 1, c)
  <1>1. /\ crt \in [Cells -> Marks] /\ paper \in Seq(Marks)
        /\ cur \in Nat /\ top \in Nat /\ pos \in Nat /\ top % COLS = 0
        /\ pos = cur - top /\ pos < Shown
        /\ Len(paper) <= top + Shown /\ Len(paper) \in Nat
        /\ \A i \in 0..(Shown - 1) : crt[i] = View(paper, top + i)
    BY DEF ScrInv
  <1>2. /\ COLS \in Nat \ {0} /\ Shown \in Nat /\ Shown >= COLS
        /\ Cells = 0..(Shown + COLS - 1)
    BY ScreenSizes
  <1>3. k \in Nat /\ p = k - top /\ p \in 0..Shown /\ (full <=> p = Shown)
    BY Cursor
  <1>4. /\ crt' = [(IF full THEN Scrolled(put, q) ELSE put) EXCEPT ![q] = Space]
        /\ pos' = q
        /\ paper' = OnPaper(pap, k + 1, Space) /\ cur' = k
        /\ top' = IF k - top >= Shown THEN top + COLS ELSE top
    BY DEF cgaputc, Write
  <1> HIDE DEF k, p, full
  <1>5. /\ put \in [Cells -> Marks] /\ pap \in Seq(Marks)
        /\ Len(pap) \in Nat /\ Len(pap) <= top + Shown
        /\ \A i \in 0..(Shown - 1) : put[i] = View(pap, top + i)
    <2>1. CASE c \in {NEWLINE, BACKSPACE}
      BY <1>1, <2>1
    <2>2. CASE c \notin {NEWLINE, BACKSPACE}
      <3>1. c \in Marks /\ pos \in Cells
        BY <1>1, <1>2, <2>2 DEF Marks
      <3>2. put = [crt EXCEPT ![pos] = c] /\ pap = OnPaper(paper, cur + 1, c)
        BY <2>2
      <3>3. /\ pap \in Seq(Marks) /\ Len(pap) = (IF cur + 1 > Len(paper) THEN cur + 1 ELSE Len(paper))
            /\ \A a \in Nat : View(pap, a) = IF a = cur THEN c ELSE View(paper, a)
        BY <1>1, <3>1, <3>2, PutOnPaper
      <3> HIDE DEF put, pap
      <3>4. put \in [Cells -> Marks] /\ \A i \in Cells : put[i] = IF i = pos THEN c ELSE crt[i]
        BY <1>1, <3>1, <3>2
      <3>5. Len(pap) \in Nat /\ Len(pap) <= top + Shown
        BY <1>1, <1>2, <3>3
      <3>6. ASSUME NEW i \in 0..(Shown - 1) PROVE put[i] = View(pap, top + i)
        <4>1. i \in Cells /\ top + i \in Nat /\ (i = pos <=> top + i = cur)
          BY <1>1, <1>2
        <4> QED
          BY <1>1, <3>3, <3>4, <4>1
      <3> QED
        BY <3>3, <3>4, <3>5, <3>6
    <2> QED
      BY <2>1, <2>2
  <1> HIDE DEF put, pap
  <1>6. Space \in Marks /\ Blank \in Marks
    BY DEF Marks
  <1>7. /\ paper' \in Seq(Marks)
        /\ Len(paper') = (IF k + 1 > Len(pap) THEN k + 1 ELSE Len(pap))
        /\ \A a \in Nat : View(paper', a) = IF a = k THEN Space ELSE View(pap, a)
    BY <1>3, <1>4, <1>5, <1>6, PutOnPaper
  <1>8. CASE ~full
    <2>1. q = p /\ p < Shown /\ p \in Nat
      BY <1>2, <1>3, <1>8
    <2>2. top' = top /\ cur' = k /\ pos' = p /\ q \in Cells
      BY <1>1, <1>2, <1>3, <1>4, <2>1
    <2>3. crt' = [put EXCEPT ![p] = Space]
      BY <1>4, <1>8, <2>1
    <2>4. crt' \in [Cells -> Marks] /\ \A i \in Cells : crt'[i] = IF i = p THEN Space ELSE put[i]
      BY <1>5, <1>6, <2>1, <2>2, <2>3
    <2>5. Len(paper') <= top' + Shown
      BY <1>1, <1>2, <1>3, <1>5, <1>7, <2>1, <2>2
    <2>6. ASSUME NEW i \in 0..(Shown - 1) PROVE crt'[i] = View(paper', top' + i)
      <3>1. i \in Cells /\ top + i \in Nat /\ (i = p <=> top + i = k)
        BY <1>1, <1>2, <1>3
      <3> QED
        BY <1>5, <1>7, <2>2, <2>4, <3>1
    <2>7. pos' = cur' - top'
      BY <1>3, <2>2
    <2> QED
      BY <1>1, <1>3, <1>7, <2>1, <2>2, <2>4, <2>5, <2>6, <2>7 DEF ScrInv
  <1>9. CASE full
    <2>1. p = Shown /\ q = Shown - COLS /\ k = top + Shown
      BY <1>1, <1>2, <1>3, <1>9
    <2>2. top' = top + COLS /\ cur' = k /\ pos' = q /\ q \in Cells /\ q \in Nat /\ q < Shown
      BY <1>1, <1>2, <1>4, <2>1
    <2>3. pos' = cur' - top'
      BY <1>1, <1>2, <2>1, <2>2
    <2>4. top' \in Nat /\ top' % COLS = 0
      <3>1. (top + COLS * 1) % COLS = top % COLS
        <4>1. top \in Int /\ 1 \in Int
          BY <1>1
        <4> QED
          BY <1>2, <4>1, ModShift
      <3>2. COLS * 1 = COLS
        BY <1>2
      <3>3. (top + COLS) % COLS = 0
        BY <1>1, <3>1, <3>2
      <3> QED
        BY <1>1, <1>2, <2>2, <3>3
    <2> DEFINE up == memmove(put, 0, COLS, (ROWS - 2) * COLS)
               scr == Scrolled(put, q)
    <2>5. \A i \in Cells : up[i] = IF i < (ROWS - 2) * COLS THEN put[i + COLS] ELSE put[i]
      <3> DEFINE n == (ROWS - 2) * COLS
      <3>1. n \in Nat /\ COLS + n <= ROWS * COLS /\ COLS \in Nat
        BY ScreenSizes
      <3> HIDE DEF n
      <3>2. \A i \in Cells : memmove(put, 0, COLS, n)[i] = IF i < n THEN put[i + COLS] ELSE put[i]
        <4>1. put \in [Cells -> Marks]
          BY <1>5
        <4> QED
          BY <3>1, <4>1, MovedDown
      <3> QED
        BY <3>2 DEF n
    <2>6. \A i \in Cells : up[i] = IF i < q THEN put[i + COLS] ELSE put[i]
      <3>1. (ROWS - 2) * COLS = q
        BY <2>1, ScreenSizes
      <3> HIDE DEF up, q
      <3> QED
        BY <2>5, <3>1
    <2>7. scr = [i \in Cells |-> IF i \in q..(Shown - 1) THEN Blank ELSE up[i]]
      BY DEF Scrolled
    <2> HIDE DEF up, scr, q
    <2>8. \A i \in Cells : scr[i] = IF i \in q..(Shown - 1) THEN Blank
                                    ELSE IF i < q THEN put[i + COLS] ELSE put[i]
      BY <2>6, <2>7
    <2>9. scr \in [Cells -> Marks]
      <3>1. \A i \in Cells : i < q => i + COLS \in Cells
        BY <1>2, <2>1
      <3>2. \A i \in Cells : scr[i] \in Marks
        BY <1>5, <1>6, <2>8, <3>1
      <3> QED
        BY <2>7, <3>2
    <2>10. crt' = [scr EXCEPT ![q] = Space]
      BY <1>4, <1>9 DEF scr, q
    <2>11. crt' \in [Cells -> Marks] /\ \A i \in Cells : crt'[i] = IF i = q THEN Space ELSE scr[i]
      BY <1>6, <2>2, <2>9, <2>10
    <2>12. Len(paper') <= top' + Shown
      BY <1>1, <1>2, <1>3, <1>5, <1>7, <2>1, <2>2
    <2>13. ASSUME NEW i \in 0..(Shown - 1) PROVE crt'[i] = View(paper', top' + i)
      <3>1. i \in Cells /\ top' + i \in Nat /\ (i = q <=> top' + i = k)
        BY <1>1, <1>2, <2>1, <2>2
      <3>2. View(paper', top' + i) = IF i = q THEN Space ELSE View(pap, top' + i)
        BY <1>7, <3>1
      <3>3. CASE i < q
        <4>1. i + COLS \in 0..(Shown - 1) /\ top + (i + COLS) = top' + i
          BY <1>1, <1>2, <2>1, <2>2, <3>3
        <4>2. scr[i] = put[i + COLS]
          BY <2>2, <2>8, <3>1, <3>3
        <4>3. put[i + COLS] = View(pap, top + (i + COLS))
          BY <1>5, <4>1
        <4> QED
          BY <2>11, <3>1, <3>2, <4>1, <4>2, <4>3
      <3>4. CASE ~(i < q)
        <4>1. i \in q..(Shown - 1)
          BY <2>2, <3>4
        <4>2. scr[i] = Blank
          BY <2>8, <3>1, <4>1
        <4>3. ~(top' + i < Len(pap))
          BY <1>1, <1>2, <1>5, <2>1, <2>2, <4>1
        <4>4. View(pap, top' + i) = Blank
          BY <4>3 DEF View
        <4> QED
          BY <2>11, <3>1, <3>2, <4>2, <4>4
      <3> QED
        BY <3>3, <3>4
    <2> QED
      BY <1>3, <1>7, <2>2, <2>3, <2>4, <2>11, <2>12, <2>13 DEF ScrInv
  <1> QED
    BY <1>8, <1>9

\* The screen shows the end of what was put out (cgaputc).
THEOREM ScreenRight == ScrSpec => []ShowsTheEnd
  <1>1. ScrInit => ScrInv
    <2> SUFFICES ASSUME ScrInit PROVE ScrInv
      OBVIOUS
    <2>1. COLS \in Nat \ {0} /\ Shown \in Nat /\ Shown >= COLS /\ Cells = 0..(Shown + COLS - 1)
      BY ScreenSizes
    <2>2. paper = <<>> /\ cur = 0 /\ top = 0 /\ pos = 0 /\ crt = [i \in Cells |-> Blank]
      BY DEF ScrInit
    <2>3. paper \in Seq(Marks) /\ Len(paper) = 0
      BY <2>2, EmptySeq
    <2>4. 0 % COLS = 0
      BY <2>1
    <2>5. crt \in [Cells -> Marks]
      BY <2>2 DEF Marks
    <2>6. ASSUME NEW i \in 0..(Shown - 1) PROVE crt[i] = View(paper, top + i)
      <3>1. i \in Cells /\ ~(top + i < 0)
        BY <2>1, <2>2
      <3> QED
        BY <2>2, <2>3, <3>1 DEF View
    <2> QED
      BY <2>1, <2>2, <2>3, <2>4, <2>5, <2>6 DEF ScrInv
  <1>2. ScrInv /\ [ScrNext]_scrvars => ScrInv'
    <2> SUFFICES ASSUME ScrInv, [ScrNext]_scrvars PROVE ScrInv'
      OBVIOUS
    <2>1. CASE consputc
      BY <2>1, PutStep DEF consputc
    <2>2. CASE UNCHANGED scrvars
      BY <2>2 DEF ScrInv, View, scrvars
    <2> QED
      BY <2>1, <2>2 DEF ScrNext, ScrDone
  <1>3. ScrInv => ShowsTheEnd
    BY DEF ScrInv, ShowsTheEnd, View
  <1> QED
    BY <1>1, <1>2, <1>3, PTL DEF ScrSpec

-----------------------------------------------------------------------------
(* Names.                                                                  *)

PathChars == NameChars \cup {"/"}
Text == [Bytes -> PathChars \cup {NUL}]
Entry == [inum : {0, 1}, name : Text]

NamesInv ==
  /\ path \in Seq(PathChars) /\ name \in Text /\ dir \in Seq(Entry)
  /\ OneEntryPerName

\* The constants as the leaves need them.
LEMMA NameSizes ==
  DIRSIZ \in Nat \ {0} /\ Bytes = 0..(DIRSIZ - 1) /\ NUL \notin PathChars
  BY NamesAssumption DEF Bytes, PathChars, NUL

\* n bytes come before the first zero byte.
Ends_(t, n) == ~Ended(t, n) /\ (n < DIRSIZ => t[n] = NUL)

\* There is one such n.
LEMMA LengthIs ==
  ASSUME NEW t, NEW n \in 0..DIRSIZ, Ends_(t, n)
  PROVE  (CHOOSE x \in 0..DIRSIZ : Ends_(t, x)) = n
  <1>1. ASSUME NEW x \in 0..DIRSIZ, NEW y \in 0..DIRSIZ, Ends_(t, x), Ends_(t, y), x < y PROVE FALSE
    <2>1. x \in 0..(y - 1) /\ x < DIRSIZ
      BY <1>1, NameSizes
    <2>2. t[x] = NUL
      BY <1>1, <2>1 DEF Ends_
    <2> QED
      BY <1>1, <2>1, <2>2 DEF Ends_, Ended
  <1>2. ASSUME NEW x \in 0..DIRSIZ, Ends_(t, x) PROVE x = n
    <2>1. x < n \/ n < x \/ x = n
      BY NameSizes
    <2> QED
      BY <1>1, <1>2, <2>1
  <1> HIDE DEF Ends_
  <1> QED
    BY <1>2

\* Every directory name field ends: at a NUL or at DIRSIZ.
LEMMA HasLength ==
  ASSUME NEW t
  PROVE  \E n \in 0..DIRSIZ : Ends_(t, n)
  <1> DEFINE Z == {i \in 0..DIRSIZ : i < DIRSIZ => t[i] = NUL}
  <1>1. Z \subseteq Nat /\ DIRSIZ \in Z
    BY NameSizes
  <1>2. PICK n \in Z : \A m \in Z : n <= m
    <2> HIDE DEF Z
    <2> QED
      BY <1>1, LeastNumber
  <1>3. ~Ended(t, n)
    <2> SUFFICES ASSUME NEW j \in 0..(n - 1), t[j] = NUL PROVE FALSE
      BY DEF Ended
    <2>1. j \in Z /\ j < n /\ n \in Nat
      BY <1>1, NameSizes
    <2> QED
      BY <1>2, <2>1
  <1> QED
    BY <1>3 DEF Ends_

\* What a buffer spells.
LEMMA SpeltIs ==
  ASSUME NEW t \in Text, NEW n \in 0..DIRSIZ, Ends_(t, n)
  PROVE  /\ Spelt(t) \in Seq(PathChars) /\ Len(Spelt(t)) = n
         /\ \A i \in 1..n : Spelt(t)[i] = t[i - 1]
  <1>1. (CHOOSE x \in 0..DIRSIZ : Ends_(t, x)) = n
    BY LengthIs
  <1>2. Spelt(t) = [i \in 1..n |-> t[i - 1]]
    BY <1>1 DEF Spelt, Ends_
  <1>3. ASSUME NEW i \in 1..n PROVE t[i - 1] \in PathChars
    <2>1. i - 1 \in 0..(n - 1) /\ i - 1 \in Bytes
      BY NameSizes
    <2>2. t[i - 1] # NUL
      BY <2>1 DEF Ends_, Ended
    <2> QED
      BY <2>1, <2>2 DEF Text
  <1>4. n \in Nat
    BY NameSizes
  <1> QED
    BY <1>2, <1>3, <1>4

\* Two fields that end at the same place and agree up to it spell the same name.
LEMMA SpeltEqual ==
  ASSUME NEW t \in Text, NEW u \in Text, NEW n \in 0..DIRSIZ, Ends_(t, n), Ends_(u, n),
         \A i \in 0..(n - 1) : t[i] = u[i]
  PROVE  Spelt(t) = Spelt(u)
  <1>1. /\ Spelt(t) \in Seq(PathChars) /\ Len(Spelt(t)) = n
        /\ \A i \in 1..n : Spelt(t)[i] = t[i - 1]
    BY SpeltIs
  <1>2. /\ Spelt(u) \in Seq(PathChars) /\ Len(Spelt(u)) = n
        /\ \A i \in 1..n : Spelt(u)[i] = u[i - 1]
    BY SpeltIs
  <1>3. \A i \in 1..n : i - 1 \in 0..(n - 1)
    BY NameSizes
  <1>4. \A i \in 1..n : Spelt(t)[i] = Spelt(u)[i]
    BY <1>1, <1>2, <1>3
  <1> QED
    BY <1>1, <1>2, <1>4, SeqEqual

\* strncmp() finds no difference between what spells the same.
LEMMA SameSpelling ==
  ASSUME NEW p \in Text, NEW q \in Text
  PROVE  Same(p, q) <=> Spelt(p) = Spelt(q)
  <1>1. PICK n \in 0..DIRSIZ : Ends_(p, n)
    BY HasLength
  <1>2. ASSUME Same(p, q) PROVE Spelt(p) = Spelt(q)
    <2>1. ASSUME NEW i \in Bytes, i <= n PROVE p[i] = q[i]
      <3>1. p[i] = q[i] \/ \E j \in 0..(i - 1) : p[j] = NUL /\ q[j] = NUL
        BY <1>2 DEF Same
      <3>2. \A j \in 0..(i - 1) : j \in 0..(n - 1)
        BY <2>1, NameSizes
      <3> QED
        BY <1>1, <3>1, <3>2 DEF Ends_, Ended
    <2>2. \A i \in 0..(n - 1) : i \in Bytes /\ i <= n
      BY NameSizes
    <2>3. ~Ended(q, n)
      BY <1>1, <2>1, <2>2 DEF Ends_, Ended
    <2>4. n < DIRSIZ => q[n] = NUL
      <3>1. n < DIRSIZ => n \in Bytes /\ n <= n
        BY NameSizes
      <3> QED
        BY <1>1, <2>1, <3>1 DEF Ends_
    <2>5. Ends_(q, n)
      BY <2>3, <2>4 DEF Ends_
    <2> QED
      BY <1>1, <2>1, <2>2, <2>5, SpeltEqual
  <1>3. ASSUME Spelt(p) = Spelt(q) PROVE Same(p, q)
    <2>1. PICK m \in 0..DIRSIZ : Ends_(q, m)
      BY HasLength
    <2>2. Len(Spelt(p)) = n /\ \A i \in 1..n : Spelt(p)[i] = p[i - 1]
      BY <1>1, SpeltIs
    <2>3. Len(Spelt(q)) = m /\ \A i \in 1..m : Spelt(q)[i] = q[i - 1]
      BY <2>1, SpeltIs
    <2>4. n = m
      BY <1>3, <2>2, <2>3
    <2>5. ASSUME NEW i \in 0..(n - 1) PROVE p[i] = q[i]
      <3>1. i + 1 \in 1..n /\ (i + 1) - 1 = i
        BY NameSizes
      <3> QED
        BY <1>3, <2>2, <2>3, <2>4, <3>1
    <2>6. ASSUME NEW i \in Bytes
          PROVE  p[i] = q[i] \/ \E j \in 0..(i - 1) : p[j] = NUL /\ q[j] = NUL
      <3>1. i \in 0..(n - 1) \/ (n < DIRSIZ /\ (i = n \/ n \in 0..(i - 1)))
        BY NameSizes
      <3>2. n < DIRSIZ => p[n] = NUL /\ q[n] = NUL
        BY <1>1, <2>1, <2>4 DEF Ends_
      <3> QED
        BY <2>5, <3>1, <3>2
    <2> QED
      BY <2>6 DEF Same
  <1> QED
    BY <1>2, <1>3

\* strncpy() keeps what is spelt.
LEMMA CopySpelt ==
  ASSUME NEW t \in Text
  PROVE  strncpy(t) \in Text /\ Spelt(strncpy(t)) = Spelt(t)
  <1> DEFINE u == strncpy(t)
  <1>1. u \in Text /\ \A i \in Bytes : u[i] = IF Ended(t, i) THEN NUL ELSE t[i]
    BY DEF strncpy, Text
  <1>2. PICK n \in 0..DIRSIZ : Ends_(t, n)
    BY HasLength
  <1> HIDE DEF u
  <1>3. ASSUME NEW i \in Bytes, i <= n PROVE u[i] = t[i]
    <2>1. \A j \in 0..(i - 1) : j \in 0..(n - 1)
      BY <1>3, NameSizes
    <2>2. ~Ended(t, i)
      BY <1>2, <2>1 DEF Ends_, Ended
    <2> QED
      BY <1>1, <2>2
  <1>4. \A i \in 0..(n - 1) : i \in Bytes /\ i <= n
    BY NameSizes
  <1>5. n < DIRSIZ => n \in Bytes /\ n <= n
    BY NameSizes
  <1>6. Ends_(u, n)
    BY <1>2, <1>3, <1>4, <1>5 DEF Ends_, Ended
  <1>7. \A i \in 0..(n - 1) : u[i] = t[i]
    BY <1>3, <1>4
  <1>8. Spelt(u) = Spelt(t)
    BY <1>1, <1>2, <1>6, <1>7, SpeltEqual
  <1> QED
    BY <1>1, <1>8 DEF u

\* skipelem() leaves an element cut to DIRSIZ bytes, whatever was in the
\* buffer.
LEMMA ElemSpelt ==
  ASSUME NEW s \in Seq(PathChars), NEW len \in 0..Len(s), name \in Text
  PROVE  /\ Elem(s, len) \in Text
         /\ Spelt(Elem(s, len)) = SubSeq(s, 1, IF len < DIRSIZ THEN len ELSE DIRSIZ)
  <1> DEFINE n == IF len < DIRSIZ THEN len ELSE DIRSIZ
             t == Elem(s, len)
             v == SubSeq(s, 1, n)
  <1>0. Len(s) \in Nat /\ n \in 0..DIRSIZ /\ n <= Len(s) /\ n \in Nat
        /\ \A i \in 0..(n - 1) : i \in Bytes /\ i + 1 \in 1..Len(s)
    BY NameSizes
  <1>1. t \in Text /\ (\A i \in 0..(n - 1) : t[i] = s[i + 1]) /\ (n < DIRSIZ => t[n] = NUL)
    <2> DEFINE g == memmoveName(name, s, n)
    <2>1. g = [i \in Bytes |-> IF i < n THEN s[i + 1] ELSE name[i]]
      BY DEF memmoveName
    <2>2. \A i \in Bytes : i < n => i + 1 \in 1..Len(s)
      BY <1>0, NameSizes
    <2>3. \A i \in 0..(n - 1) : i \in Bytes /\ i < n
      BY <1>0
    <2> HIDE DEF n, g
    <2>4. g \in Text /\ \A i \in 0..(n - 1) : g[i] = s[i + 1]
      BY <2>1, <2>2, <2>3 DEF Text
    <2>5. CASE len >= DIRSIZ
      <3>1. t = g /\ ~(n < DIRSIZ)
        BY <2>5, NameSizes DEF Elem, g, n
      <3> QED
        BY <2>4, <3>1
    <2>6. CASE ~(len >= DIRSIZ)
      <3>1. n = len /\ n \in Bytes
        BY <2>6, NameSizes DEF n
      <3>2. t = [g EXCEPT ![n] = NUL]
        BY <2>6, <3>1 DEF Elem, g
      <3>3. \A i \in 0..(n - 1) : i # n
        BY <1>0
      <3> HIDE DEF t
      <3> QED
        BY <2>3, <2>4, <3>1, <3>2, <3>3 DEF Text
    <2> QED
      BY <2>5, <2>6
  <1> HIDE DEF n, t
  <1>2. ~Ended(t, n)
    <2>1. \A i \in 0..(n - 1) : s[i + 1] \in PathChars
      BY <1>0
    <2> QED
      BY <1>1, <2>1, NameSizes DEF Ended
  <1>3. /\ Spelt(t) \in Seq(PathChars) /\ Len(Spelt(t)) = n
        /\ \A i \in 1..n : Spelt(t)[i] = t[i - 1]
    <2>1. Ends_(t, n)
      BY <1>1, <1>2 DEF Ends_
    <2> QED
      BY <1>0, <1>1, <2>1, SpeltIs
  <1>4. v \in Seq(PathChars) /\ Len(v) = n /\ \A i \in 1..n : v[i] = s[i]
    <2>1. \A i \in 1..n : s[i] \in PathChars
      BY <1>0
    <2>2. 1 \in Int /\ n \in Int /\ n - 1 + 1 = n /\ (1 <= n \/ n = 0) /\ \A i \in 1..n : 1 + i - 1 = i
      BY <1>0
    <2>3. /\ v \in Seq(PathChars) /\ Len(v) = (IF 1 <= n THEN n - 1 + 1 ELSE 0)
          /\ \A i \in 1..(n - 1 + 1) : v[i] = s[1 + i - 1]
      BY <2>1, <2>2, SubSeqProperties
    <2> HIDE DEF v
    <2> QED
      BY <1>0, <2>2, <2>3
  <1>5. ASSUME NEW i \in 1..n PROVE Spelt(t)[i] = v[i]
    <2>1. i - 1 \in 0..(n - 1) /\ (i - 1) + 1 = i
      BY <1>0
    <2>2. t[i - 1] = s[i]
      BY <1>1, <2>1
    <2> QED
      BY <1>3, <1>4, <2>2
  <1> HIDE DEF v
  <1>6. Spelt(t) = v
    BY <1>3, <1>4, <1>5, SeqEqual
  <1> QED
    BY <1>1, <1>6 DEF t, v, n

\* The first of a set of positions, 0 if there is none.
LEMMA FirstOf ==
  ASSUME NEW L \in Nat, NEW I, I \subseteq 1..L, NEW k, k = IF I # {} THEN Min(I) ELSE 0
  PROVE  /\ k \in 0..L
         /\ I = {} => k = 0
         /\ I # {} => k \in I /\ k # 0
  <1>1. CASE I = {}
    BY <1>1
  <1>2. CASE I # {}
    <2>1. I \subseteq Nat
      OBVIOUS
    <2>2. \E n \in I : \A m \in I : n <= m
      BY <1>2, <2>1, LeastNumber
    <2>3. Min(I) \in I
      BY <2>2 DEF Min
    <2>4. k = Min(I)
      BY <1>2
    <2>5. k \in 1..L
      BY <2>3, <2>4
    <2> QED
      BY <1>2, <2>3, <2>4, <2>5
  <1> QED
    BY <1>1, <1>2

\* Paths without their first slashes, and the length of an element.
LEMMA PathFacts ==
  ASSUME NEW p \in Seq(PathChars)
  PROVE  /\ Unslashed(p) \in Seq(PathChars)
         /\ ElemLen(p) \in 0..Len(p)
  <1>0. Len(p) \in Nat
    OBVIOUS
  <1>1. Unslashed(p) \in Seq(PathChars)
    <2> DEFINE I == {i \in 1..Len(p) : p[i] # "/"}
               k == IF I # {} THEN Min(I) ELSE 0
    <2>1. Unslashed(p) = IF k = 0 THEN <<>> ELSE SubSeq(p, k, Len(p))
      BY DEF Unslashed, SelectInSeq
    <2>2. k \in 0..Len(p)
      <3>1. I \subseteq 1..Len(p)
        OBVIOUS
      <3> HIDE DEF I
      <3> QED
        BY <1>0, <3>1, FirstOf
    <2> HIDE DEF k
    <2>3. k # 0 => SubSeq(p, k, Len(p)) \in Seq(PathChars)
      <3>1. k # 0 => \A i \in k..Len(p) : p[i] \in PathChars
        BY <1>0, <2>2
      <3>2. k \in Int /\ Len(p) \in Int
        BY <1>0, <2>2
      <3> QED
        BY <3>1, <3>2, SubSeqProperties
    <2> QED
      BY <2>1, <2>3, EmptySeq
  <1>2. ElemLen(p) \in 0..Len(p)
    <2> DEFINE I == {i \in 1..Len(p) : p[i] = "/"}
               k == IF I # {} THEN Min(I) ELSE 0
    <2>1. ElemLen(p) = IF k = 0 THEN Len(p) ELSE k - 1
      BY DEF ElemLen, SelectInSeq
    <2>2. k \in 0..Len(p)
      <3>1. I \subseteq 1..Len(p)
        OBVIOUS
      <3> HIDE DEF I
      <3> QED
        BY <1>0, <3>1, FirstOf
    <2> HIDE DEF k
    <2> QED
      BY <1>0, <2>1, <2>2
  <1> QED
    BY <1>1, <1>2

\* dirlookup() finds the entry that spells a name, if there is one.
LEMMA Lookup ==
  ASSUME dir \in Seq(Entry), NEW nm \in Text
  PROVE  /\ dirlookup(nm) = 0 => \A j \in Used : Spelt(dir[j].name) # Spelt(nm)
         /\ dirlookup(nm) # 0 => dirlookup(nm) \in Used /\ Spelt(dir[dirlookup(nm)].name) = Spelt(nm)
  <1> DEFINE I == {i \in 1..Len(dir) : dir[i].inum # 0 /\ namecmp(nm, dir[i].name)}
             k == dirlookup(nm)
  <1>1. k = IF I # {} THEN Min(I) ELSE 0
    BY DEF dirlookup, SelectInSeq
  <1>2. Len(dir) \in Nat /\ I \subseteq 1..Len(dir)
    OBVIOUS
  <1>3. (I = {} => k = 0) /\ (I # {} => k \in I /\ k # 0)
    <2> HIDE DEF I, k
    <2> QED
      BY <1>1, <1>2, FirstOf
  <1>4. \A i \in 1..Len(dir) : dir[i].name \in Text
    <2>1. \A i \in 1..Len(dir) : dir[i] \in Entry
      OBVIOUS
    <2> QED
      BY <2>1 DEF Entry
  <1>5. \A i \in 1..Len(dir) : namecmp(nm, dir[i].name) <=> Spelt(nm) = Spelt(dir[i].name)
    BY <1>4, SameSpelling DEF namecmp
  <1>6. ASSUME k = 0, NEW j \in Used PROVE Spelt(dir[j].name) # Spelt(nm)
    <2>1. I = {}
      BY <1>3, <1>6
    <2> QED
      BY <1>5, <2>1 DEF Used
  <1>7. ASSUME k # 0 PROVE k \in Used /\ Spelt(dir[k].name) = Spelt(nm)
    <2>1. k \in I
      BY <1>3, <1>7
    <2>2. k \in 1..Len(dir) /\ dir[k].inum # 0 /\ namecmp(nm, dir[k].name)
      BY <2>1
    <2> HIDE DEF k
    <2> QED
      BY <1>5, <2>2 DEF Used
  <1> QED
    BY <1>6, <1>7

\* One entry of the directory is written.
LEMMA EntryWritten ==
  ASSUME dir \in Seq(Entry), NEW k \in 1..(Len(dir) + 1), NEW de \in Entry,
         dir' \in Seq(Entry), Len(dir') = (IF k = Len(dir) + 1 THEN Len(dir) + 1 ELSE Len(dir)),
         dir'[k] = de, \A i \in 1..Len(dir) : i # k => dir'[i] = dir[i]
  PROVE  /\ Used' = (Used \ {k}) \cup (IF de.inum # 0 THEN {k} ELSE {})
         /\ \A i \in Used \ {k} : dir'[i] = dir[i]
  <1>1. Len(dir) \in Nat
    OBVIOUS
  <1>2. \A i : i \in 1..Len(dir') <=> i \in 1..Len(dir) \/ i = k
    BY <1>1
  <1>3. \A i \in 1..Len(dir') : dir'[i].inum # 0 <=> IF i = k THEN de.inum # 0 ELSE dir[i].inum # 0
    BY <1>2
  <1> QED
    BY <1>2, <1>3 DEF Used

\* Create or remove a file by an element of a path.
LEMMA ElementStep ==
  ASSUME NamesInv, skipelem
  PROVE  NamesInv'
  <1> DEFINE s == Unslashed(path)
             len == ElemLen(s)
             nm == Elem(s, len)
             spelt == SubSeq(s, 1, IF len < DIRSIZ THEN len ELSE DIRSIZ)
             k == dirlookup(nm)
             Sp(j) == Spelt(dir[j].name)
  <1>1. /\ path \in Seq(PathChars) /\ name \in Text /\ dir \in Seq(Entry)
        /\ {Sp(j) : j \in Used} = made
        /\ \A j, i \in Used : Sp(j) = Sp(i) => j = i
    BY DEF NamesInv, OneEntryPerName
  <1>2. s \in Seq(PathChars) /\ len \in 0..Len(s)
    BY <1>1, PathFacts
  <1>3. nm \in Text /\ Spelt(nm) = spelt
    <2> HIDE DEF s, len
    <2> QED
      BY <1>1, <1>2, ElemSpelt
  <1>4. /\ k = 0 => \A j \in Used : Sp(j) # spelt
        /\ k # 0 => k \in Used /\ Sp(k) = spelt
    <2> HIDE DEF nm
    <2> QED
      BY <1>1, <1>3, Lookup
  <1>5. path' \in Seq(PathChars)
    <2>1. SubSeq(s, len + 1, Len(s)) \in Seq(PathChars)
      <3> HIDE DEF s, len
      <3>1. len + 1 \in Int /\ Len(s) \in Int /\ \A i \in (len + 1)..Len(s) : s[i] \in PathChars
        BY <1>2
      <3> QED
        BY <3>1, SubSeqProperties
    <2>2. path' = Unslashed(SubSeq(s, len + 1, Len(s)))
      BY DEF skipelem
    <2> QED
      BY <2>1, <2>2, PathFacts
  <1>6. name' \in Text
    BY <1>3 DEF skipelem
  <1>7. \/ /\ IF k = 0 THEN dirlink(nm) ELSE UNCHANGED dir
           /\ made' = made \cup {spelt}
        \/ /\ dir' = IF k = 0 THEN dir ELSE [dir EXCEPT ![k] = Cleared]
           /\ made' = made \ {spelt}
    BY DEF skipelem
  <1> HIDE DEF s, len, nm, spelt, k
  <1>8. ASSUME UNCHANGED dir, made' = made PROVE NamesInv'
    BY <1>1, <1>5, <1>6, <1>8 DEF NamesInv, OneEntryPerName, Used
  <1>9. CASE k = 0 /\ dirlink(nm) /\ made' = made \cup {spelt}
    <2> DEFINE de == [inum |-> 1, name |-> strncpy(nm)]
               I == {i \in 1..Len(dir) : dir[i].inum = 0}
               f == IF I # {} THEN Min(I) ELSE 0
               e == IF f # 0 THEN f ELSE Len(dir) + 1
    <2>1. de \in Entry /\ Spelt(de.name) = spelt /\ de.inum # 0
      BY <1>3, CopySpelt DEF Entry
    <2>2. dir' = IF f # 0 THEN [dir EXCEPT ![f] = de] ELSE Append(dir, de)
      BY <1>9 DEF dirlink, SelectInSeq
    <2>3. Len(dir) \in Nat /\ I \subseteq 1..Len(dir)
      BY <1>1
    <2>4. f \in 0..Len(dir) /\ (f # 0 => f \in I)
      <3> HIDE DEF I, f
      <3>1. f = IF I # {} THEN Min(I) ELSE 0
        BY DEF f
      <3> QED
        BY <2>3, <3>1, FirstOf
    <2>5. f # 0 => dir[f].inum = 0
      <3> HIDE DEF f
      <3> QED
        BY <2>4
    <2> HIDE DEF f, I, de
    <2>6. /\ e \in 1..(Len(dir) + 1) /\ e \notin Used
          /\ dir' \in Seq(Entry) /\ Len(dir') = (IF e = Len(dir) + 1 THEN Len(dir) + 1 ELSE Len(dir))
          /\ dir'[e] = de /\ \A i \in 1..Len(dir) : i # e => dir'[i] = dir[i]
      <3>1. CASE f # 0
        <4>1. e = f /\ f \in 1..Len(dir) /\ f # Len(dir) + 1
          BY <2>3, <2>4, <3>1
        <4>2. dir' = [dir EXCEPT ![f] = de]
          BY <2>2, <3>1
        <4>3. dir' \in Seq(Entry) /\ Len(dir') = Len(dir) /\ dir'[f] = de
              /\ \A i \in 1..Len(dir) : i # f => dir'[i] = dir[i]
          BY <1>1, <2>1, <4>1, <4>2
        <4>4. f \notin Used
          BY <2>5, <3>1 DEF Used
        <4>5. f \in 1..(Len(dir) + 1)
          BY <2>3, <4>1
        <4> QED
          BY <4>1, <4>3, <4>4, <4>5
      <3>2. CASE f = 0
        <4>1. e = Len(dir) + 1 /\ e \in 1..(Len(dir) + 1) /\ e \notin 1..Len(dir)
          BY <2>3, <3>2
        <4>2. dir' = Append(dir, de)
          BY <2>2, <3>2
        <4>3. dir' \in Seq(Entry) /\ Len(dir') = Len(dir) + 1 /\ dir'[Len(dir) + 1] = de
              /\ \A i \in 1..Len(dir) : dir'[i] = dir[i]
          BY <1>1, <2>1, <4>2
        <4> QED
          BY <4>1, <4>3 DEF Used
      <3> QED
        BY <3>1, <3>2
    <2> HIDE DEF e
    <2>7. Used' = Used \cup {e} /\ \A i \in Used : i # e /\ dir'[i] = dir[i]
      <3>1. /\ Used' = (Used \ {e}) \cup (IF de.inum # 0 THEN {e} ELSE {})
            /\ \A i \in Used \ {e} : dir'[i] = dir[i]
        BY <1>1, <2>1, <2>6, EntryWritten
      <3> QED
        BY <2>1, <2>6, <3>1
    <2>8. {Spelt(dir'[j].name) : j \in Used'} = made'
      BY <1>1, <1>9, <2>1, <2>6, <2>7, SMTT(30)
    <2>9. \A j, i \in Used' : Spelt(dir'[j].name) = Spelt(dir'[i].name) => j = i
      BY <1>1, <1>4, <1>9, <2>1, <2>6, <2>7
    <2> QED
      BY <1>5, <1>6, <2>6, <2>8, <2>9 DEF NamesInv, OneEntryPerName
  <1>10. CASE k # 0 /\ UNCHANGED dir /\ made' = made \cup {spelt}
    BY <1>1, <1>4, <1>8, <1>10
  <1>11. CASE k = 0 /\ UNCHANGED dir /\ made' = made \ {spelt}
    BY <1>1, <1>4, <1>8, <1>11
  <1>12. CASE k # 0 /\ dir' = [dir EXCEPT ![k] = Cleared] /\ made' = made \ {spelt}
    <2>1. Cleared \in Entry /\ Cleared.inum = 0
      BY DEF Cleared, Entry, Text
    <2>2. k \in Used /\ k \in 1..Len(dir) /\ Sp(k) = spelt /\ Len(dir) \in Nat
      BY <1>1, <1>4, <1>12 DEF Used
    <2>3. k \in 1..(Len(dir) + 1) /\ k # Len(dir) + 1
      BY <2>2
    <2>4. dir' \in Seq(Entry) /\ Len(dir') = Len(dir) /\ dir'[k] = Cleared
          /\ \A i \in 1..Len(dir) : i # k => dir'[i] = dir[i]
      BY <1>1, <1>12, <2>1, <2>2
    <2>5. Used' = Used \ {k} /\ \A i \in Used \ {k} : dir'[i] = dir[i]
      <3>1. /\ Used' = (Used \ {k}) \cup (IF Cleared.inum # 0 THEN {k} ELSE {})
            /\ \A i \in Used \ {k} : dir'[i] = dir[i]
        BY <1>1, <2>1, <2>3, <2>4, EntryWritten
      <3> QED
        BY <2>1, <3>1
    <2>6. {Spelt(dir'[j].name) : j \in Used'} = made'
      BY <1>1, <1>12, <2>2, <2>5
    <2>7. \A j, i \in Used' : Spelt(dir'[j].name) = Spelt(dir'[i].name) => j = i
      BY <1>1, <2>5
    <2> QED
      BY <1>5, <1>6, <2>4, <2>6, <2>7 DEF NamesInv, OneEntryPerName
  <1> QED
    BY <1>7, <1>9, <1>10, <1>11, <1>12

\* The directory has the names that were created and not removed, each once
\* (skipelem, dirlookup, dirlink).
THEOREM NamesRight == NamesSpec => []OneEntryPerName
  <1>1. NamesInit => NamesInv
    <2> SUFFICES ASSUME NamesInit PROVE NamesInv
      OBVIOUS
    <2>1. path \in Seq(PathChars)
      BY NamesAssumption DEF NamesInit, Paths, PathChars
    <2>2. name \in Text
      BY DEF NamesInit, Text, PathChars
    <2>3. dir = <<>> /\ made = {}
      BY DEF NamesInit
    <2>4. dir \in Seq(Entry) /\ Len(dir) = 0
      BY <2>3, EmptySeq
    <2>5. Used = {}
      BY <2>4 DEF Used
    <2> QED
      BY <2>1, <2>2, <2>3, <2>4, <2>5 DEF NamesInv, OneEntryPerName
  <1>2. NamesInv /\ [NamesNext]_namevars => NamesInv'
    <2> SUFFICES ASSUME NamesInv, [NamesNext]_namevars PROVE NamesInv'
      OBVIOUS
    <2>1. CASE skipelem
      BY <2>1, ElementStep
    <2>2. CASE UNCHANGED namevars
      BY <2>2 DEF NamesInv, OneEntryPerName, Used, namevars
    <2> QED
      BY <2>1, <2>2 DEF NamesNext, NamesDone
  <1>3. NamesInv => OneEntryPerName
    BY DEF NamesInv
  <1> QED
    BY <1>1, <1>2, <1>3, PTL DEF NamesSpec

-----------------------------------------------------------------------------
ArgsType ==
  /\ call.sz \in 0..MAXSZ
  /\ call.esp \in UInts
  /\ call = [sz |-> call.sz, esp |-> call.esp, op |-> call.op, at |-> call.at,
             n |-> call.n, ok |-> call.ok]

\* The inductive invariant: the memory's size is one that allocuvm() allows.
ArgsInv == ArgsType /\ Inside

-----------------------------------------------------------------------------
\* A sum that fits is not changed by the wrap.
LEMMA NoWrap ==
  ASSUME Layout, NEW x \in Nat, x < WORD
  PROVE  uint(x) = x
  BY DEF Layout, uint

\* The last byte of an int that fetchint() accepts is below the size: as the
\* address is, the end does not wrap.
LEMMA FetchintInside ==
  ASSUME Layout, ArgsType, NEW addr \in UInts, fetchint(addr)
  PROVE  \A k \in 0..(INT - 1) : addr + k < call.sz
  <1>1. /\ WORD \in Nat /\ WORD > 0 /\ MAXSZ \in Nat /\ INT \in Nat
        /\ MAXSZ <= WORD \div 2 /\ INT <= WORD \div 2
        /\ call.sz \in 0..MAXSZ /\ addr \in Nat
    BY DEF Layout, ArgsType, UInts
  <1>2. addr < call.sz
    BY DEF fetchint
  <1>3. addr + INT \in Nat /\ addr + INT < WORD
    BY <1>1, <1>2
  <1>4. uint(addr + INT) = addr + INT
    BY <1>3, NoWrap
  <1>5. addr + INT <= call.sz
    BY <1>4 DEF fetchint
  <1> QED
    BY <1>1, <1>5

\* The last byte of a block that argptr() accepts is below the size, whatever
\* length the caller was given.
LEMMA ArgptrInside ==
  ASSUME Layout, ArgsType, NEW i \in UInts, NEW size \in Ints,
         ~(size < 0 \/ i >= call.sz \/ uint(i + size) > call.sz)
  PROVE  \A k \in 0..(size - 1) : i + k < call.sz
  <1>1. /\ WORD \in Nat /\ WORD > 0 /\ MAXSZ \in Nat
        /\ MAXSZ <= WORD \div 2
        /\ call.sz \in 0..MAXSZ /\ i \in Nat
        /\ size \in Int /\ size <= WORD \div 2 - 1
    BY DEF Layout, ArgsType, UInts, Ints
  <1>2. i < call.sz /\ size >= 0
    BY <1>1
  <1>3. i + size \in Nat /\ i + size < WORD
    BY <1>1, <1>2
  <1>4. uint(i + size) = i + size
    BY <1>3, NoWrap
  <1>5. i + size <= call.sz
    BY <1>1, <1>3, <1>4
  <1> QED
    BY <1>1, <1>5

\* A string that fetchstr() accepts ends at the first zero byte, which is in
\* the memory.
LEMMA FetchstrInside ==
  ASSUME Layout, ArgsType, NEW i \in UInts, NEW zeros, fetchstr(i, zeros)
  PROVE  /\ Length(i, zeros) \in Nat
         /\ i + Length(i, zeros) < call.sz
         /\ i + Length(i, zeros) \in zeros
  <1>1. call.sz \in Nat /\ i \in Nat
    BY DEF ArgsType, UInts, Layout
  <1> DEFINE Z == {k \in 0..call.sz : i + k \in zeros}
  <1>2. PICK s \in i..(call.sz - 1) : s \in zeros
    BY DEF fetchstr
  <1>3. s - i \in Z /\ s - i < call.sz - i
    <2>1. s - i \in 0..call.sz /\ i + (s - i) = s
      BY <1>1, <1>2
    <2> QED
      BY <1>1, <1>2, <2>1
  <1>4. Z \subseteq Nat /\ Z # {}
    BY <1>1, <1>3
  <1>5. PICK l \in Z : \A k \in Z : l <= k
    BY <1>4, LeastNumber, Zenon
  <1>6. l \in 0..call.sz /\ i + l \in zeros /\ \A j \in 0..(l - 1) : i + j \notin zeros
    <2>1. l \in 0..call.sz /\ i + l \in zeros
      BY <1>5
    <2>2. ASSUME NEW j \in 0..(l - 1), i + j \in zeros PROVE FALSE
      <3>1. j \in 0..call.sz /\ j < l
        BY <1>1, <2>1
      <3>2. j \in Z
        BY <2>2, <3>1
      <3> QED
        BY <1>5, <2>1, <3>1, <3>2
    <2> QED
      BY <2>1, <2>2
  <1> DEFINE n == Length(i, zeros)
  <1>7. n \in 0..call.sz /\ i + n \in zeros /\ \A j \in 0..(n - 1) : i + j \notin zeros
    BY <1>6 DEF Length
  <1> HIDE DEF n
  <1>8. n <= s - i
    <2>1. ~(s - i < n)
      <3> SUFFICES ASSUME s - i < n PROVE FALSE
        OBVIOUS
      <3>1. s - i \in 0..(n - 1) /\ i + (s - i) = s
        BY <1>1, <1>2, <1>7
      <3> QED
        BY <1>2, <1>7, <3>1
    <2> QED
      BY <1>1, <1>2, <1>7, <2>1
  <1>9. n \in Nat /\ i + n < call.sz
    BY <1>1, <1>2, <1>7, <1>8
  <1> QED
    BY <1>7, <1>9 DEF n

-----------------------------------------------------------------------------
\* An answer changes nothing but the answer.
LEMMA Answered ==
  ASSUME ArgsType, NEW op, NEW at, NEW n, NEW ok, Answer(op, at, n, ok)
  PROVE  /\ ArgsType' /\ call'.sz = call.sz
         /\ call'.at = at /\ call'.n = n /\ call'.ok = ok
  BY DEF ArgsType, Answer

\* An argument that argint(), argptr() or argstr() accepts lies in the memory
\* of the process, to its last byte, for words of every width and every size,
\* stack pointer, address and length.
THEOREM ArgumentsInside ==
  ASSUME Layout
  PROVE  ArgsSpec => []Inside
  <1>1. ArgsInit => ArgsInv
    BY DEF ArgsInit, ArgsInv, ArgsType, Inside
  <1>2. ArgsInv /\ [ArgsNext]_call => ArgsInv'
    <2> SUFFICES ASSUME ArgsInv, [ArgsNext]_call PROVE ArgsInv'
      OBVIOUS
    <2>0. ArgsType /\ Inside
      BY DEF ArgsInv
    <2>a. \A n \in {0, 1} : argaddr(n) \in UInts
      BY <2>0 DEF argaddr, uint, UInts, Layout, ArgsType
    <2>1. ASSUME NEW n \in {0, 1}, argint(n) PROVE ArgsInv'
      <3>1. Answer("argint", argaddr(n), INT, fetchint(argaddr(n)))
        BY <2>1 DEF argint
      <3>2. /\ ArgsType' /\ call'.sz = call.sz /\ call'.at = argaddr(n) /\ call'.n = INT
            /\ call'.ok = fetchint(argaddr(n))
        BY <2>0, <3>1, Answered
      <3>3. argaddr(n) \in UInts
        BY <2>a
      <3>4. fetchint(argaddr(n)) => \A k \in 0..(INT - 1) : argaddr(n) + k < call.sz
        BY <2>0, <3>3, FetchintInside
      <3> QED
        BY <3>2, <3>4 DEF ArgsInv, Inside
    <2>2. ASSUME NEW n \in {0, 1}, NEW i \in UInts, NEW size \in Ints, argptr(n, i, size)
          PROVE  ArgsInv'
      <3> DEFINE ok == fetchint(argaddr(n))
                       /\ ~(size < 0 \/ i >= call.sz \/ uint(i + size) > call.sz)
      <3>1. Answer("argptr", i, size, ok)
        BY <2>2 DEF argptr
      <3>2. /\ ArgsType' /\ call'.sz = call.sz /\ call'.at = i /\ call'.n = size
            /\ call'.ok = ok
        <4> HIDE DEF ok
        <4> QED
          BY <2>0, <3>1, Answered
      <3>3. ok => \A k \in 0..(size - 1) : i + k < call.sz
        BY <2>0, ArgptrInside
      <3> HIDE DEF ok
      <3> QED
        BY <3>2, <3>3 DEF ArgsInv, Inside
    <2>3. ASSUME NEW n \in {0, 1}, NEW i \in UInts, NEW zeros \in SUBSET {0, 1, MAXSZ - 1},
                 argstr(n, i, zeros)
          PROVE  ArgsInv'
      <3> DEFINE ok == fetchint(argaddr(n)) /\ i < call.sz /\ fetchstr(i, zeros)
                 len == IF ok THEN Length(i, zeros) + 1 ELSE 0
      <3>1. Answer("argstr", i, len, ok)
        BY <2>3 DEF argstr
      <3>2. /\ ArgsType' /\ call'.sz = call.sz /\ call'.at = i /\ call'.n = len
            /\ call'.ok = ok
        <4> HIDE DEF ok, len
        <4> QED
          BY <2>0, <3>1, Answered
      <3>3. ok => \A k \in 0..(len - 1) : i + k < call.sz
        <4> SUFFICES ASSUME ok PROVE \A k \in 0..(len - 1) : i + k < call.sz
          OBVIOUS
        <4>1. len = Length(i, zeros) + 1 /\ fetchstr(i, zeros)
          OBVIOUS
        <4>2. Length(i, zeros) \in Nat /\ i + Length(i, zeros) < call.sz
          BY <2>0, <4>1, FetchstrInside
        <4>3. i \in Nat /\ call.sz \in Nat
          BY <2>0 DEF ArgsType, UInts, Layout
        <4> HIDE DEF ok, len
        <4> QED
          BY <4>1, <4>2, <4>3
      <3> HIDE DEF ok, len
      <3> QED
        BY <3>2, <3>3 DEF ArgsInv, Inside
    <2>4. CASE UNCHANGED call
      BY <2>0, <2>4 DEF ArgsInv, ArgsType, Inside
    <2> QED
      BY <2>1, <2>2, <2>3, <2>4 DEF ArgsNext, Fetch, ArgsDone
  <1>3. ArgsInv => Inside
    BY DEF ArgsInv
  <1> QED
    BY <1>1, <1>2, <1>3, PTL DEF ArgsSpec

-----------------------------------------------------------------------------
(* malloc() and free() of umalloc.c.                                       *)

HeapRec == [ptr : [Headers -> Headers], size : [Headers -> Nat],
            freep : Headers \cup {NULL}, brk : Nat]

\* The headers Fr are a ring in the order of their addresses, base first.
NextIn(Fr, a, x) ==
  /\ x \in Fr
  /\ IF x = base THEN \A y \in Fr : y <= a
     ELSE x > a /\ \A y \in Fr : y <= a \/ y >= x
Linked(h, Fr) == \A a \in Fr : NextIn(Fr, a, h.ptr[a])

\* The blocks Fr and U lie between 1 and the break without overlap or gap.
EndAt(h, a) == a + h.size[a]
Tiled(h, Fr, U) ==
  /\ Fr \subseteq Headers /\ base \in Fr /\ U \subseteq Headers
  /\ base \notin U /\ Fr \cap U = {}
  /\ h.size[base] = 0 /\ h.brk \in 1..(LIMIT + 1)
  /\ \A a \in (Fr \ {base}) \cup U : h.size[a] # 0 /\ EndAt(h, a) <= h.brk
  /\ \A a, b \in (Fr \ {base}) \cup U : a < b => EndAt(h, a) <= b
  /\ \A u \in 1..(h.brk - 1) : \E a \in (Fr \ {base}) \cup U : a <= u /\ u < EndAt(h, a)

\* No free block ends where another begins.
Apart(h, Fr) == \A a, b \in Fr \ {base} : EndAt(h, a) # b

Good(h, Fr, U) ==
  /\ h \in HeapRec /\ h.freep \in Fr
  /\ Linked(h, Fr) /\ Tiled(h, Fr, U) /\ Apart(h, Fr)

\* The constants as the leaves need them.
LEMMA UnitFacts ==
  /\ LIMIT \in Nat /\ Headers = 0..LIMIT /\ base = 0 /\ NULL \notin Headers
  /\ CHUNK \in Nat /\ Requests \subseteq Nat \ {0}
  BY UnitsAssumption DEF Headers, base, NULL

\* A walk along the pointers.
LEMMA WalkIs ==
  ASSUME NEW h \in HeapRec, NEW start \in Headers
  PROVE  /\ Walk(h, start) \in [0..(LIMIT + 1) -> Headers]
         /\ Walk(h, start)[0] = start
         /\ \A k \in 0..LIMIT : Walk(h, start)[k + 1] = h.ptr[Walk(h, start)[k]]
  <1> DEFINE N == LIMIT + 1
             Goes(f, n) == f[0] = start /\ \A k \in 1..n : f[k] = h.ptr[f[k - 1]]
             T == {n \in 0..N : \E f \in [0..n -> Headers] : Goes(f, n)}
             Rec(f) == f = [k \in 0..N |-> IF k = 0 THEN start ELSE h.ptr[f[k - 1]]]
  <1>1. N \in Nat /\ LIMIT \in Nat /\ h.ptr \in [Headers -> Headers]
    BY UnitFacts, SMTT(30) DEF HeapRec
  <1>2. 0 \in T
    <2> DEFINE f == [k \in 0..0 |-> start]
    <2>1. f \in [0..0 -> Headers] /\ f[0] = start
      OBVIOUS
    <2>2. \A k \in 1..0 : FALSE
      OBVIOUS
    <2>3. Goes(f, 0)
      <3> HIDE DEF f
      <3> QED
        BY <2>1, <2>2
    <2> HIDE DEF f, Goes
    <2> QED
      BY <1>1, <2>1, <2>3
  <1>3. \A n \in 0..(N - 1) : n \in T => n + 1 \in T
    <2> SUFFICES ASSUME NEW n \in 0..(N - 1), n \in T PROVE n + 1 \in T
      OBVIOUS
    <2>1. PICK f \in [0..n -> Headers] : Goes(f, n)
      OBVIOUS
    <2> DEFINE g == [k \in 0..(n + 1) |-> IF k = n + 1 THEN h.ptr[f[n]] ELSE f[k]]
    <2>2. n \in Nat /\ n + 1 \in 0..N /\ \A k \in 0..(n + 1) : k = n + 1 \/ k \in 0..n
      BY <1>1
    <2>3. g \in [0..(n + 1) -> Headers]
      BY <1>1, <2>1, <2>2
    <2>4. g[n + 1] = h.ptr[f[n]] /\ \A k \in 0..n : g[k] = f[k]
      BY <2>2
    <2>5. ASSUME NEW k \in 1..(n + 1) PROVE g[k] = h.ptr[g[k - 1]]
      <3>1. k = n + 1 \/ (k \in 1..n /\ k \in 0..n)
        BY <2>2
      <3>2. k - 1 \in 0..n /\ (k = n + 1 => k - 1 = n)
        BY <2>2
      <3> HIDE DEF g
      <3> QED
        BY <2>1, <2>4, <3>1, <3>2
    <2>6. g[0] = start
      <3>1. 0 \in 0..n
        BY <2>2
      <3> HIDE DEF g
      <3> QED
        BY <2>1, <2>4, <3>1
    <2>7. Goes(g, n + 1)
      BY <2>5, <2>6
    <2> HIDE DEF g, Goes
    <2> QED
      BY <2>2, <2>3, <2>7
  <1>4. N \in T
    <2>1. 0..N \subseteq T
      <3> HIDE DEF T
      <3> QED
        BY <1>1, <1>2, <1>3, UpTo
    <2>2. N \in 0..N
      BY <1>1
    <2> HIDE DEF T
    <2> QED
      BY <2>1, <2>2
  <1>5. PICK f \in [0..N -> Headers] : Goes(f, N)
    BY <1>4
  <1>6. Rec(f)
    <2>1. \A k \in 0..N : k = 0 \/ k \in 1..N
      BY <1>1
    <2>2. \A k \in 0..N : f[k] = IF k = 0 THEN start ELSE h.ptr[f[k - 1]]
      BY <1>5, <2>1
    <2> QED
      BY <2>2
  <1>7. PICK w : w = Walk(h, start) /\ Rec(w)
    <2>1. Walk(h, start) = CHOOSE x : Rec(x)
      BY DEF Walk
    <2> HIDE DEF Rec
    <2> QED
      BY <1>6, <2>1
  <1>8. \A k \in 0..N : w[k] = IF k = 0 THEN start ELSE h.ptr[w[k - 1]]
    BY <1>7, Zenon
  <1>9. w[0] = start /\ \A k \in 0..LIMIT : w[k + 1] = h.ptr[w[k]]
    <2>1. 0 \in 0..N /\ \A k \in 0..LIMIT : k + 1 \in 0..N /\ k + 1 # 0 /\ (k + 1) - 1 = k
      BY <1>1
    <2> QED
      BY <1>8, <2>1
  <1>10. \A k \in 0..N : w[k] \in Headers
    <2> DEFINE S == {k \in 0..N : w[k] \in Headers}
    <2>1. 0 \in S
      BY <1>1, <1>9
    <2>2. \A k \in 0..(N - 1) : k \in S => k + 1 \in S
      <3>1. \A k \in 0..(N - 1) : k \in 0..LIMIT /\ k + 1 \in 0..N
        BY <1>1
      <3> QED
        BY <1>1, <1>9, <3>1
    <2>3. 0..N \subseteq S
      <3> HIDE DEF S
      <3> QED
        BY <1>1, <2>1, <2>2, UpTo
    <2> QED
      BY <2>3
  <1>11. w \in [0..N -> Headers]
    <2>1. w = [k \in 0..N |-> IF k = 0 THEN start ELSE h.ptr[w[k - 1]]]
      BY <1>7
    <2>2. \E F : w = [k \in 0..N |-> F[k]]
      <3>1. w = [k \in 0..N |-> w[k]]
        BY <2>1, Zenon
      <3> QED
        BY <3>1
    <2> QED
      BY <1>10, <2>2
  <1> QED
    BY <1>7, <1>9, <1>11

\* The first number of a range in a set.
LEMMA LeastIndex ==
  ASSUME NEW N \in Nat, NEW K, K \subseteq 0..N, K # {}
  PROVE  \E k \in K : \A j \in 0..(k - 1) : j \notin K
  <1>1. K \subseteq Nat
    OBVIOUS
  <1>2. PICK k \in K : \A m \in K : k <= m
    BY <1>1, LeastNumber, Zenon
  <1>3. \A j \in 0..(k - 1) : j \notin K
    <2>1. k \in Nat
      BY <1>1
    <2> QED
      BY <1>2, <2>1
  <1> QED
    BY <1>3

\* Pointers followed from a free header meet every free header, and no other.
LEMMA Covers ==
  ASSUME NEW h \in HeapRec, NEW Fr, Fr \subseteq Headers, base \in Fr,
         Linked(h, Fr), NEW s \in Fr
  PROVE  /\ \A k \in 0..(LIMIT + 1) : Walk(h, s)[k] \in Fr
         /\ \A y \in Fr : \E k \in 0..LIMIT : Walk(h, s)[k] = y
  <1> DEFINE w == Walk(h, s)
             N == LIMIT + 1
             D(x) == IF x >= s THEN x - s ELSE x - s + N
             Best(d, k) == D(w[k]) <= d /\ \A y \in Fr : D(y) <= d => D(y) <= D(w[k])
             T == {d \in 0..LIMIT : \E k \in 0..d : Best(d, k)}
             S == {k \in 0..N : w[k] \in Fr}
  <1>1. LIMIT \in Nat /\ N = LIMIT + 1 /\ N \in Nat /\ Headers = 0..LIMIT /\ base = 0
    BY UnitFacts
  <1>2. /\ w \in [0..N -> Headers] /\ w[0] = s
        /\ \A k \in 0..LIMIT : w[k + 1] = h.ptr[w[k]]
    BY WalkIs
  <1> HIDE DEF w, N
  <1>3. 0..N \subseteq S
    <2>1. 0 \in S
      BY <1>1, <1>2
    <2>2. \A k \in 0..(N - 1) : k \in S => k + 1 \in S
      <3> SUFFICES ASSUME NEW k \in 0..(N - 1), w[k] \in Fr PROVE k + 1 \in S
        OBVIOUS
      <3>1. k \in 0..LIMIT /\ k + 1 \in 0..N
        BY <1>1
      <3>2. h.ptr[w[k]] \in Fr
        BY DEF Linked, NextIn
      <3> QED
        BY <1>2, <3>1, <3>2
    <2> HIDE DEF S
    <2> QED
      BY <1>1, <2>1, <2>2, UpTo
  <1>4. \A k \in 0..N : w[k] \in Fr
    BY <1>3
  <1>5. \A y \in Fr : D(y) \in 0..LIMIT /\ y \in 0..LIMIT
    BY <1>1
  <1>6. 0 \in T
    <2>1. D(s) = 0
      BY <1>1
    <2>2. Best(0, 0)
      BY <1>2, <2>1
    <2> HIDE DEF Best
    <2> QED
      BY <1>1, <2>2
  <1>7. \A d \in 0..(LIMIT - 1) : d \in T => d + 1 \in T
    <2> SUFFICES ASSUME NEW d \in 0..(LIMIT - 1), d \in T PROVE d + 1 \in T
      OBVIOUS
    <2>1. PICK k \in 0..d : Best(d, k)
      OBVIOUS
    <2>2. d \in Nat /\ k \in 0..N /\ k \in 0..LIMIT /\ k + 1 \in 0..(d + 1) /\ k \in 0..(d + 1)
          /\ d + 1 \in 0..LIMIT
      BY <1>1
    <2>3. w[k] \in Fr /\ D(w[k]) <= d /\ \A y \in Fr : D(y) <= d => D(y) <= D(w[k])
      BY <1>4, <2>1, <2>2
    <2>4. CASE \A y \in Fr : D(y) # d + 1
      <3>1. ASSUME NEW y \in Fr, D(y) <= d + 1 PROVE D(y) <= D(w[k])
        <4>1. D(y) \in Int /\ D(y) # d + 1
          BY <1>5, <2>4
        <4>2. D(y) <= d
          <5> HIDE DEF D
          <5> QED
            BY <2>2, <3>1, <4>1
        <4> QED
          BY <2>3, <4>2
      <3>2. D(w[k]) <= d + 1
        <4>1. D(w[k]) \in 0..LIMIT
          BY <1>5, <2>3
        <4> HIDE DEF D
        <4> QED
          BY <2>2, <2>3, <4>1
      <3>3. Best(d + 1, k)
        BY <3>1, <3>2
      <3> HIDE DEF Best
      <3> QED
        BY <2>2, <3>3
    <2>5. CASE \E y \in Fr : D(y) = d + 1
      <3>1. PICK y \in Fr : D(y) = d + 1
        BY <2>5
      <3> DEFINE x == w[k]
                 n == h.ptr[x]
      <3>2. x \in Fr /\ NextIn(Fr, x, n)
        BY <2>3 DEF Linked
      <3>3. /\ n \in Fr /\ x \in 0..LIMIT /\ n \in 0..LIMIT /\ y \in 0..LIMIT
            /\ s \in 0..LIMIT /\ N = LIMIT + 1 /\ LIMIT \in Nat
        BY <1>1, <3>2 DEF NextIn
      <3>4. IF n = 0 THEN y <= x /\ s <= x
            ELSE n > x /\ (y <= x \/ y >= n) /\ (s <= x \/ s >= n)
        BY <1>1, <3>1, <3>2 DEF NextIn
      <3>5. D(x) < D(y)
        <4>1. D(x) \in 0..LIMIT
          BY <1>5, <3>2
        <4>2. D(x) <= d
          BY <2>3
        <4> HIDE DEF D, x
        <4> QED
          BY <2>2, <3>1, <4>1, <4>2
      <3>6. D(n) > D(x) => D(n) >= D(y)
        <4>1. D(n) \in 0..LIMIT /\ D(x) \in 0..LIMIT
          BY <1>5, <3>2, <3>3
        <4>2. D(n) <= d => D(n) <= D(x)
          BY <2>3, <3>3
        <4> HIDE DEF D, x, n
        <4> QED
          BY <2>2, <3>1, <4>1, <4>2
      <3>7. n = y
        <4> HIDE DEF x, n
        <4>1. CASE n = 0
          BY <3>3, <3>4, <3>5, <3>6, <4>1
        <4>2. CASE n # 0 /\ x >= s
          BY <3>3, <3>4, <3>5, <3>6, <4>2
        <4>3. CASE n # 0 /\ x < s
          BY <3>3, <3>4, <3>5, <3>6, <4>3
        <4> QED
          BY <3>3, <4>1, <4>2, <4>3
      <3>8. w[k + 1] = y
        BY <1>2, <2>2, <3>7
      <3>9. Best(d + 1, k + 1)
        <4> HIDE DEF D
        <4>1. d + 1 \in Int
          BY <2>2
        <4> QED
          BY <3>1, <3>8, <4>1
      <3> HIDE DEF Best
      <3> QED
        BY <2>2, <3>9
    <2> QED
      BY <2>4, <2>5
  <1>8. 0..LIMIT \subseteq T
    <2> HIDE DEF T
    <2> QED
      BY <1>1, <1>6, <1>7, UpTo
  <1>9. ASSUME NEW y \in Fr PROVE \E k \in 0..LIMIT : w[k] = y
    <2>1. D(y) \in 0..LIMIT /\ D(y) \in T
      BY <1>5, <1>8
    <2>2. PICK k \in 0..D(y) : Best(D(y), k)
      BY <2>1
    <2>3. k \in 0..LIMIT /\ k \in 0..N
      <3> HIDE DEF D, Best
      <3> QED
        BY <1>1, <2>1
    <2>4. w[k] \in Fr /\ w[k] \in 0..LIMIT /\ D(w[k]) \in 0..LIMIT
      BY <1>4, <1>5, <2>3
    <2>5. D(w[k]) <= D(y) /\ D(y) <= D(w[k])
      <3>1. D(y) <= D(y)
        BY <2>1
      <3> QED
        BY <2>2, <3>1
    <2>6. w[k] = y
      <3>1. s \in 0..LIMIT /\ y \in 0..LIMIT /\ N = LIMIT + 1
        BY <1>1
      <3> QED
        BY <1>1, <2>4, <2>5, <3>1
    <2> QED
      BY <2>3, <2>6
  <1> QED
    BY <1>1, <1>4, <1>9 DEF w, N

\* The ring that malloc() searches is the whole of the free list.
LEMMA RingIs ==
  ASSUME NEW h, NEW Fr, NEW U, Good(h, Fr, U)
  PROVE  Ring(h) = Fr
  <1> DEFINE w == Walk(h, h.ptr[h.freep])
             n == FirstAt(w, LAMBDA q : q = h.freep)
             Is(k) == w[k] = h.freep /\ \A j \in 0..(k - 1) : ~(w[j] = h.freep)
             R == {w[k] : k \in 0..n}
             N == LIMIT + 1
  <1>1. /\ h \in HeapRec /\ h.freep \in Fr /\ Linked(h, Fr) /\ Fr \subseteq Headers
        /\ base \in Fr /\ h.ptr[h.freep] \in Fr
    BY DEF Good, Tiled, Linked, NextIn
  <1>2. LIMIT \in Nat /\ N = LIMIT + 1 /\ N \in Nat /\ 0..LIMIT \subseteq 0..N
    BY UnitFacts
  <1>3. /\ w \in [0..N -> Headers] /\ w[0] = h.ptr[h.freep]
        /\ \A k \in 0..LIMIT : w[k + 1] = h.ptr[w[k]]
    BY <1>1, WalkIs
  <1>4. /\ \A k \in 0..N : w[k] \in Fr
        /\ \A y \in Fr : \E k \in 0..LIMIT : w[k] = y
    BY <1>1, Covers
  <1>5. \E k \in DOMAIN w : Is(k)
    <2> DEFINE K == {k \in 0..N : w[k] = h.freep}
    <2>1. K # {} /\ K \subseteq 0..N
      BY <1>1, <1>2, <1>4
    <2>2. PICK k \in K : \A j \in 0..(k - 1) : j \notin K
      <3> HIDE DEF K
      <3> QED
        BY <1>2, <2>1, LeastIndex
    <2>3. \A j \in 0..(k - 1) : j \in 0..N
      BY <1>2
    <2> QED
      BY <1>3, <2>2, <2>3
  <1>6. n = CHOOSE k \in DOMAIN w : Is(k)
    BY DEF FirstAt
  <1> HIDE DEF w, n, N
  <1>7. n \in 0..N /\ w[n] = h.freep
    <2>1. n \in DOMAIN w /\ Is(n)
      <3> HIDE DEF Is
      <3> QED
        BY <1>5, <1>6
    <2> QED
      BY <1>3, <2>1
  <1>8. Ring(h) = R
    BY DEF Ring, w, n
  <1>9. R \subseteq Fr
    <2>1. \A k \in 0..n : k \in 0..N
      BY <1>2, <1>7
    <2> QED
      BY <1>4, <2>1
  <1>10. \A k \in 0..N : w[k] \in R
    <2> DEFINE S == {k \in 0..N : w[k] \in R}
    <2>1. 0 \in S
      BY <1>2, <1>7
    <2>2. \A k \in 0..(N - 1) : k \in S => k + 1 \in S
      <3> SUFFICES ASSUME NEW k \in 0..(N - 1), w[k] \in R PROVE k + 1 \in S
        OBVIOUS
      <3>1. k + 1 \in 0..N /\ k \in 0..LIMIT /\ w[k + 1] = h.ptr[w[k]]
        BY <1>2, <1>3
      <3>2. PICK j \in 0..n : w[k] = w[j]
        OBVIOUS
      <3>3. CASE j = n
        <4>1. w[k + 1] = w[0] /\ 0 \in 0..n
          BY <1>2, <1>3, <1>7, <3>1, <3>2, <3>3
        <4> QED
          BY <3>1, <4>1
      <3>4. CASE j # n
        <4>1. j \in 0..LIMIT /\ j + 1 \in 0..n
          BY <1>2, <1>7, <3>4
        <4>2. w[k + 1] = w[j + 1]
          BY <1>3, <3>1, <3>2, <4>1
        <4> QED
          BY <3>1, <4>1, <4>2
      <3> QED
        BY <3>3, <3>4
    <2>3. 0..N \subseteq S
      <3> HIDE DEF S
      <3> QED
        BY <1>2, <2>1, <2>2, UpTo
    <2> QED
      BY <2>3
  <1>11. Fr \subseteq R
    <2> HIDE DEF R
    <2> QED
      BY <1>2, <1>4, <1>10
  <1> QED
    BY <1>8, <1>9, <1>11

\* The free header below an address.
Below(Fr, bp, p) == p \in Fr /\ p < bp /\ \A y \in Fr : y <= p \/ y > bp

\* A block given to free() has a free header below it: base at the least.
LEMMA BelowIs ==
  ASSUME NEW Fr, Fr \subseteq Headers, base \in Fr, NEW bp \in Headers \ Fr
  PROVE  \E p \in Fr : Below(Fr, bp, p)
  <1> DEFINE T == {d \in Nat : \E y \in Fr : y < bp /\ d = bp - y}
  <1>1. Headers = 0..LIMIT /\ base = 0 /\ LIMIT \in Nat
    BY UnitFacts
  <1>2. \A y \in Fr : y \in Int /\ y >= 0 /\ y # bp
    BY <1>1
  <1>3. bp \in Nat /\ bp - 0 \in T
    BY <1>1, <1>2
  <1>4. PICK d \in T : \A e \in T : d <= e
    <2>1. T \subseteq Nat /\ T # {}
      BY <1>3
    <2> HIDE DEF T
    <2> QED
      BY <2>1, LeastNumber, Zenon
  <1>5. PICK p \in Fr : p < bp /\ d = bp - p
    OBVIOUS
  <1>6. ASSUME NEW y \in Fr PROVE y <= p \/ y > bp
    <2>1. CASE y < bp
      <3>1. bp - y \in T
        BY <1>2, <1>3, <2>1
      <3>2. d <= bp - y
        BY <1>4, <3>1
      <3> QED
        BY <1>2, <1>3, <1>5, <3>2
    <2> QED
      BY <1>2, <1>3, <2>1
  <1> QED
    BY <1>5, <1>6 DEF Below

\* free() finds that header.
LEMMA FreedPlace ==
  ASSUME NEW h, NEW Fr, NEW U, Good(h, Fr, U), NEW bp \in U
  PROVE  \E p \in Fr : /\ Below(Fr, bp, p)
                       /\ FreeBlock(h, bp) = JoinLower(JoinUpper(h, bp, p), bp, p)
  <1> DEFINE w == Walk(h, h.freep)
             k == FirstAt(w, LAMBDA q : Belongs(h, bp, q))
             Is(i) == Belongs(h, bp, w[i]) /\ \A j \in 0..(i - 1) : ~Belongs(h, bp, w[j])
             N == LIMIT + 1
  <1>1. /\ h \in HeapRec /\ h.freep \in Fr /\ Linked(h, Fr) /\ Fr \subseteq Headers
        /\ base \in Fr /\ bp \in Headers \ Fr /\ h.freep \in Headers
    BY DEF Good, Tiled
  <1>2. LIMIT \in Nat /\ N = LIMIT + 1 /\ N \in Nat /\ 0..LIMIT \subseteq 0..N
        /\ Headers = 0..LIMIT /\ base = 0
    BY UnitFacts
  <1>3. w \in [0..N -> Headers]
    BY <1>1, WalkIs
  <1>4. /\ \A i \in 0..N : w[i] \in Fr
        /\ \A y \in Fr : \E i \in 0..LIMIT : w[i] = y
    BY <1>1, Covers
  <1>5. ASSUME NEW q \in Fr PROVE Belongs(h, bp, q) <=> Below(Fr, bp, q)
    <2>1. NextIn(Fr, q, h.ptr[q])
      BY <1>1 DEF Linked
    <2>2. /\ \A y \in Fr : y \in Int /\ y >= 0
          /\ bp \in Int /\ bp >= 0 /\ bp \notin Fr /\ base = 0 /\ 0 \in Fr
          /\ h.ptr[q] \in Fr
      BY <1>1, <1>2, <2>1 DEF NextIn
    <2>3. CASE h.ptr[q] = base
      <3>1. \A y \in Fr : y <= q
        BY <2>1, <2>3 DEF NextIn
      <3> QED
        BY <2>2, <2>3, <3>1 DEF Belongs, Below
    <2>4. CASE h.ptr[q] # base
      <3>1. h.ptr[q] > q /\ \A y \in Fr : y <= q \/ y >= h.ptr[q]
        BY <2>1, <2>4 DEF NextIn
      <3>2. Belongs(h, bp, q) <=> bp > q /\ bp < h.ptr[q]
        BY <2>2, <3>1 DEF Belongs
      <3>3. Below(Fr, bp, q) => bp > q /\ bp < h.ptr[q]
        BY <2>2, <3>1 DEF Below
      <3>4. bp > q /\ bp < h.ptr[q] => Below(Fr, bp, q)
        BY <2>2, <3>1 DEF Below
      <3> QED
        BY <3>2, <3>3, <3>4
    <2> QED
      BY <2>3, <2>4
  <1>6. \E i \in DOMAIN w : Is(i)
    <2> DEFINE K == {i \in 0..N : Belongs(h, bp, w[i])}
    <2>1. PICK p \in Fr : Below(Fr, bp, p)
      BY <1>1, BelowIs
    <2>2. PICK i \in 0..LIMIT : w[i] = p
      BY <1>4
    <2>3. i \in K
      BY <1>2, <1>5, <2>1, <2>2
    <2>4. PICK m \in K : \A j \in 0..(m - 1) : j \notin K
      <3>1. K # {} /\ K \subseteq 0..N
        BY <2>3
      <3> HIDE DEF K
      <3> QED
        BY <1>2, <3>1, LeastIndex
    <2>5. \A j \in 0..(m - 1) : j \in 0..N
      BY <1>2
    <2> HIDE DEF w
    <2> QED
      BY <1>3, <2>4, <2>5
  <1>7. k = CHOOSE i \in DOMAIN w : Is(i)
    BY DEF FirstAt
  <1>8. FreeBlock(h, bp) = JoinLower(JoinUpper(h, bp, w[k]), bp, w[k])
    BY DEF FreeBlock
  <1> HIDE DEF w, k, N
  <1>9. k \in 0..N /\ Belongs(h, bp, w[k])
    <2>1. k \in DOMAIN w /\ Is(k)
      <3> HIDE DEF Is
      <3> QED
        BY <1>6, <1>7
    <2> QED
      BY <1>3, <2>1
  <1> QED
    BY <1>4, <1>5, <1>8, <1>9

\* Between the two joins of free(): bp is in the ring but for the pointer of p.
Joining(g, F, U, bp, p) ==
  /\ g \in HeapRec /\ bp \in Headers \ F /\ Below(F, bp, p)
  /\ Tiled(g, F \cup {bp}, U)
  /\ \A a \in (F \ {p}) \cup {bp} : NextIn(F \cup {bp}, a, g.ptr[a])
  /\ \A a \in (F \ {base}) \cup {bp}, b \in F \ {base} : EndAt(g, a) # b

\* What a good heap says of numbers.
LEMMA GoodFacts ==
  ASSUME NEW h, NEW Fr, NEW U, Good(h, Fr, U)
  PROVE  /\ h \in HeapRec /\ Fr \subseteq Headers /\ U \subseteq Headers
         /\ h.ptr \in [Headers -> Headers] /\ h.size \in [Headers -> Nat]
         /\ h.brk \in 1..(LIMIT + 1) /\ h.freep \in Fr
         /\ 0 \in Fr /\ 0 \notin U /\ \A a \in U : a \notin Fr
         /\ \A a \in Fr \cup U : a \in Int /\ a >= 0 /\ a <= LIMIT /\ h.size[a] \in Int /\ h.size[a] >= 0
  <1>1. /\ h \in HeapRec /\ Fr \subseteq Headers /\ U \subseteq Headers
        /\ h.brk \in 1..(LIMIT + 1) /\ h.freep \in Fr
        /\ base \in Fr /\ base \notin U /\ Fr \cap U = {}
    BY DEF Good, Tiled
  <1>2. h.ptr \in [Headers -> Headers] /\ h.size \in [Headers -> Nat]
    BY <1>1 DEF HeapRec
  <1>3. LIMIT \in Nat /\ Headers = 0..LIMIT /\ base = 0
    BY UnitFacts
  <1>4. ASSUME NEW a \in Fr \cup U
        PROVE  a \in Int /\ a >= 0 /\ a <= LIMIT /\ h.size[a] \in Int /\ h.size[a] >= 0
    <2>1. a \in Headers
      BY <1>1
    <2>2. h.size[a] \in Nat
      BY <1>2, <2>1
    <2> QED
      BY <1>3, <2>1, <2>2
  <1> QED
    BY <1>1, <1>2, <1>3, <1>4

\* free() joins the block with the free block above it, or links it before that one.
LEMMA UpperJoin ==
  ASSUME NEW h, NEW Fr, NEW U, Good(h, Fr, U), NEW bp \in U, NEW p \in Fr,
         Below(Fr, bp, p)
  PROVE  \E F : /\ Joining(JoinUpper(h, bp, p), F, U \ {bp}, bp, p)
                /\ JoinUpper(h, bp, p).brk = h.brk
                /\ \A a \in U \ {bp} : JoinUpper(h, bp, p).size[a] = h.size[a]
                /\ JoinUpper(h, bp, p).size[bp] >= h.size[bp]
  <1> DEFINE g == JoinUpper(h, bp, p)
             n == h.ptr[p]
             x == h.ptr[n]
             B == (Fr \ {base}) \cup U
  <1>1. /\ h \in HeapRec /\ Fr \subseteq Headers /\ U \subseteq Headers
        /\ h.ptr \in [Headers -> Headers] /\ h.size \in [Headers -> Nat]
        /\ h.brk \in 1..(LIMIT + 1)
        /\ 0 \in Fr /\ 0 \notin U /\ \A a \in U : a \notin Fr
        /\ \A a \in Fr \cup U : a \in Int /\ a >= 0 /\ a <= LIMIT /\ h.size[a] \in Int /\ h.size[a] >= 0
    BY GoodFacts
  <1>2. base = 0 /\ Headers = 0..LIMIT /\ LIMIT \in Nat
    BY UnitFacts
  <1>3. /\ h.size[base] = 0
        /\ \A a \in B : h.size[a] # 0 /\ EndAt(h, a) <= h.brk
        /\ \A a, b \in B : a < b => EndAt(h, a) <= b
        /\ \A u \in 1..(h.brk - 1) : \E a \in B : a <= u /\ u < EndAt(h, a)
    BY DEF Good, Tiled
  <1>4. \A a \in Fr : NextIn(Fr, a, h.ptr[a])
    BY DEF Good, Linked
  <1>5. n \in Fr /\ x \in Fr /\ NextIn(Fr, p, n) /\ NextIn(Fr, n, x)
    BY <1>4 DEF NextIn
  <1>6. p < bp /\ (\A y \in Fr : y <= p \/ y > bp) /\ bp \in Int /\ bp > 0 /\ bp \in Headers /\ bp \notin Fr
    BY <1>1 DEF Below
  <1>7. n = 0 \/ (n > bp /\ n > p)
    <2>1. n = 0 \/ n > p
      BY <1>2, <1>5 DEF NextIn
    <2>2. n \in Int /\ p \in Int /\ (n <= p \/ n > bp)
      BY <1>1, <1>5, <1>6
    <2> QED
      BY <2>1, <2>2
  <1>8. \A a, b \in Fr \ {base} : EndAt(h, a) # b
    BY DEF Good, Apart
  <1>9. \A y \in Fr : y <= p \/ (n # 0 /\ y >= n)
    BY <1>1, <1>2, <1>5 DEF NextIn
  <1>10. CASE bp + h.size[bp] = n
    <2> DEFINE F == Fr \ {n}
    <2>1. n > bp /\ n > p /\ n # 0 /\ n \in B /\ bp \in B /\ n # bp
      <3>1. n \in Int /\ p \in Int /\ h.size[bp] \in Int /\ h.size[bp] >= 0
        BY <1>1, <1>5
      <3>2. n > bp /\ n > p /\ n # 0 /\ n # bp
        BY <1>6, <1>7, <1>10, <3>1
      <3> QED
        BY <1>2, <1>5, <3>2
    <2>2. g = [h EXCEPT !.size = [[h.size EXCEPT ![bp] = h.size[bp] + h.size[n]] EXCEPT ![n] = 0],
                        !.ptr = [[h.ptr EXCEPT ![bp] = x] EXCEPT ![n] = 0]]
      BY <1>1, <1>2, <1>10 DEF JoinUpper, Gone, HeapRec
    <2>3. /\ g \in HeapRec /\ g.brk = h.brk
          /\ g.size[n] = 0 /\ g.ptr[bp] = x
          /\ g.size[bp] = h.size[bp] + h.size[n]
          /\ \A a \in Headers \ {bp, n} : g.ptr[a] = h.ptr[a] /\ g.size[a] = h.size[a]
      <3>1. n \in Headers /\ x \in Headers /\ 0 \in Headers /\ h.size[bp] + h.size[n] \in Nat
        <4>1. n \in Headers /\ x \in Headers /\ 0 \in Headers
          BY <1>1, <1>5
        <4>2. h.size[bp] \in Nat /\ h.size[n] \in Nat
          BY <1>1, <1>6, <4>1
        <4> QED
          BY <4>1, <4>2
      <3> HIDE DEF g, n, x
      <3> QED
        BY <1>1, <1>6, <2>1, <2>2, <3>1 DEF HeapRec
    <2> HIDE DEF g, x
    <2>4. /\ h.size[bp] \in Int /\ h.size[n] \in Int /\ h.size[bp] >= 0 /\ h.size[n] >= 0
          /\ n \in Int /\ p \in Int
      BY <1>1, <1>5
    <2>5. F \subseteq Fr /\ 0 \in F /\ bp \notin F /\ p \in F /\ n \in Headers
          /\ (\A a \in Fr \cup U : a # n => a \in F \cup U) /\ F \subseteq Headers
      <3>1. p # n
        BY <2>1, <2>4
      <3> QED
        BY <1>1, <1>5, <1>6, <2>1, <3>1
    <2>6. EndAt(g, bp) = EndAt(h, n) /\ \A a \in (F \cup U) \ {bp} : EndAt(g, a) = EndAt(h, a)
      <3>1. EndAt(g, bp) = EndAt(h, n)
        BY <1>6, <1>10, <2>3, <2>4 DEF EndAt
      <3>2. \A a \in (F \cup U) \ {bp} : a \in Headers \ {bp, n}
        BY <1>1, <1>5
      <3> QED
        BY <2>3, <3>1, <3>2 DEF EndAt
    <2> DEFINE C == ((F \cup {bp}) \ {base}) \cup (U \ {bp})
    <2>7. \A a \in C : a \in B /\ a # n /\ (a = bp \/ a \in (F \cup U) \ {bp})
      BY <1>1, <1>5
    <2>8. \A a \in B : a # n => a \in C
      BY <1>6, <1>2
    <2>9. Tiled(g, F \cup {bp}, U \ {bp})
      <3>1. F \cup {bp} \subseteq Headers /\ base \in F \cup {bp} /\ U \ {bp} \subseteq Headers
            /\ base \notin U \ {bp} /\ (F \cup {bp}) \cap (U \ {bp}) = {}
        BY <1>1, <1>2, <1>6, <2>5
      <3>2. g.size[base] = 0 /\ g.brk \in 1..(LIMIT + 1)
        BY <1>1, <1>2, <1>3, <1>6, <2>1, <2>3
      <3>3. ASSUME NEW a \in C PROVE g.size[a] # 0 /\ EndAt(g, a) <= g.brk
        <4>1. CASE a = bp
          BY <1>3, <2>1, <2>3, <2>4, <2>6, <4>1
        <4>2. CASE a # bp
          <5>1. a \in B /\ a \in Headers \ {bp, n} /\ EndAt(g, a) = EndAt(h, a)
            BY <1>1, <2>6, <2>7, <4>2
          <5> QED
            BY <1>3, <2>3, <5>1
        <4> QED
          BY <4>1, <4>2
      <3>4. ASSUME NEW a \in C, NEW b \in C, a < b PROVE EndAt(g, a) <= b
        <4>1. a \in B /\ b \in B /\ b # n /\ a \in Int /\ b \in Int
          BY <1>1, <2>7
        <4>2. CASE a = bp
          <5>1. EndAt(h, bp) = n /\ EndAt(h, bp) <= b
            BY <1>3, <1>10, <2>1, <3>4, <4>1, <4>2 DEF EndAt
          <5>2. n < b
            BY <2>4, <4>1, <5>1
          <5> QED
            BY <1>3, <2>1, <2>6, <4>1, <4>2, <5>2
        <4>3. CASE a # bp
          BY <1>3, <2>6, <2>7, <3>4, <4>1, <4>3
        <4> QED
          BY <4>2, <4>3
      <3>5. ASSUME NEW u \in 1..(g.brk - 1) PROVE \E a \in C : a <= u /\ u < EndAt(g, a)
        <4>1. PICK a \in B : a <= u /\ u < EndAt(h, a)
          BY <1>3, <2>3
        <4>2. CASE a = n \/ a = bp
          <5>1. bp \in C
            BY <2>1, <2>8
          <5>2. bp <= u /\ u < EndAt(h, n)
            <6>1. u \in Int /\ EndAt(h, n) = n + h.size[n] /\ EndAt(h, bp) = n
              BY <1>1, <1>10, <2>3 DEF EndAt
            <6> QED
              BY <1>6, <2>1, <2>4, <4>1, <4>2, <6>1
          <5> QED
            BY <2>6, <5>1, <5>2
        <4>3. CASE a # n /\ a # bp
          <5>1. a \in C /\ EndAt(g, a) = EndAt(h, a)
            BY <2>6, <2>7, <2>8, <4>3
          <5> QED
            BY <4>1, <5>1
        <4> QED
          BY <4>2, <4>3
      <3> QED
        BY <3>1, <3>2, <3>3, <3>4, <3>5 DEF Tiled
    <2>10. ASSUME NEW a \in (F \ {p}) \cup {bp} PROVE NextIn(F \cup {bp}, a, g.ptr[a])
      <3>1. CASE a = bp
        <4>1. x \in F
          <5>1. x \in Fr /\ x \in Int /\ (x = 0 \/ x > n)
            BY <1>1, <1>2, <1>5 DEF NextIn
          <5> QED
            BY <2>1, <2>4, <5>1
        <4>2. \A y \in F : y <= p \/ y > n
          BY <1>1, <1>9, <2>4
        <4>3. CASE x = base
          <5>1. \A y \in F : y < n
            BY <1>1, <1>5, <2>4, <4>3 DEF NextIn
          <5>2. \A y \in F \cup {bp} : y <= bp
            <6>1. \A y \in F : y \in Int /\ y <= p
              <7> SUFFICES ASSUME NEW y \in F PROVE y \in Int /\ y <= p
                OBVIOUS
              <7>1. y \in Int
                BY <1>1
              <7>2. y < n /\ (y <= p \/ y > n)
                BY <4>2, <5>1
              <7> HIDE DEF n
              <7> QED
                BY <2>4, <7>1, <7>2
            <6>2. \A y \in F : y <= bp
              BY <1>6, <2>4, <6>1
            <6> QED
              BY <1>6, <6>2
          <5> QED
            BY <2>3, <3>1, <4>1, <4>3, <5>2 DEF NextIn
        <4>4. CASE x # base
          <5>1. x > n /\ \A y \in F : y <= n \/ y >= x
            BY <1>5, <4>4 DEF NextIn
          <5>2. x \in Int
            BY <1>1, <1>5
          <5>3. x > bp /\ \A y \in F \cup {bp} : y <= bp \/ y >= x
            BY <1>1, <1>6, <2>1, <2>4, <4>2, <5>1, <5>2
          <5> QED
            BY <2>3, <3>1, <4>1, <4>4, <5>3 DEF NextIn
        <4> QED
          BY <4>3, <4>4
      <3>2. CASE a # bp
        <4> DEFINE z == h.ptr[a]
        <4>1. a \in F /\ a \in Fr /\ a # p /\ a # n /\ NextIn(Fr, a, z) /\ a \in Int /\ z \in Fr /\ z \in Int
              /\ a \in Headers \ {bp, n}
          BY <1>1, <1>4, <3>2 DEF NextIn
        <4>2. g.ptr[a] = z
          BY <2>3, <4>1
        <4> HIDE DEF z
        <4>3. a < p \/ a > n
          BY <1>9, <2>4, <4>1
        <4>4. CASE z = base
          <5>1. n <= a /\ \A y \in Fr : y <= a
            BY <1>5, <4>1, <4>4 DEF NextIn
          <5>2. bp <= a
            BY <1>6, <2>1, <2>4, <4>1, <5>1
          <5> QED
            <6>1. \A y \in F \cup {bp} : y <= a
              BY <5>1, <5>2
            <6>2. base \in F \cup {bp}
              BY <1>2, <2>5
            <6> QED
              BY <4>2, <4>4, <6>1, <6>2 DEF NextIn
        <4>5. CASE z # base
          <5>1. z > a /\ \A y \in Fr : y <= a \/ y >= z
            BY <4>1, <4>5 DEF NextIn
          <5>2. z # n /\ (bp <= a \/ bp >= z)
            <6>1. p <= a \/ p >= z
              BY <5>1
            <6>2. bp < n /\ p < bp
              BY <1>6, <2>1
            <6> QED
              BY <1>6, <2>4, <4>1, <4>3, <5>1, <6>1, <6>2
          <5>3. z \in F
            BY <4>1, <5>2
          <5> QED
            BY <2>5, <4>2, <4>5, <5>1, <5>2, <5>3 DEF NextIn
        <4> QED
          BY <4>4, <4>5
      <3> QED
        BY <3>1, <3>2
    <2>11. ASSUME NEW a \in (F \ {base}) \cup {bp}, NEW b \in F \ {base} PROVE EndAt(g, a) # b
      <3>1. CASE a = bp
        BY <1>2, <1>5, <1>8, <2>1, <2>6, <3>1
      <3>2. CASE a # bp
        BY <1>8, <2>6, <3>2
      <3> QED
        BY <3>1, <3>2
    <2>12. Below(F, bp, p)
      BY <1>6, <2>5 DEF Below
    <2>13. Joining(g, F, U \ {bp}, bp, p)
      BY <1>6, <2>3, <2>5, <2>9, <2>10, <2>11, <2>12 DEF Joining
    <2>14. (\A a \in U \ {bp} : g.size[a] = h.size[a]) /\ g.size[bp] >= h.size[bp]
      <3>1. \A a \in U \ {bp} : a \in Headers \ {bp, n}
        BY <1>1, <1>5
      <3>2. g.size[bp] >= h.size[bp]
        BY <2>3, <2>4
      <3> QED
        BY <2>3, <3>1, <3>2
    <2> QED
      BY <2>3, <2>13, <2>14 DEF g
  <1>11. CASE bp + h.size[bp] # n
    <2>1. g = [h EXCEPT !.ptr = [h.ptr EXCEPT ![bp] = n]]
      BY <1>1, <1>11 DEF JoinUpper, HeapRec
    <2>2. /\ g \in HeapRec /\ g.brk = h.brk /\ g.size = h.size /\ g.ptr[bp] = n
          /\ \A a \in Headers \ {bp} : g.ptr[a] = h.ptr[a]
      <3>1. n \in Headers
        BY <1>1, <1>5
      <3> HIDE DEF g, n
      <3> QED
        BY <1>1, <1>6, <2>1, <3>1 DEF HeapRec
    <2> HIDE DEF g, x
    <2>3. \A a \in Headers : EndAt(g, a) = EndAt(h, a)
      BY <2>2 DEF EndAt
    <2> DEFINE F == Fr
               C == ((F \cup {bp}) \ {base}) \cup (U \ {bp})
    <2>4. C = B
      BY <1>2, <1>6
    <2>5. n \in Int /\ p \in Int /\ h.size[bp] \in Int
      BY <1>1, <1>5
    <2>6. Tiled(g, F \cup {bp}, U \ {bp})
      <3>1. F \cup {bp} \subseteq Headers /\ base \in F \cup {bp} /\ U \ {bp} \subseteq Headers
            /\ base \notin U \ {bp} /\ (F \cup {bp}) \cap (U \ {bp}) = {}
        BY <1>1, <1>2, <1>6
      <3>2. B \subseteq Headers
        BY <1>1
      <3>3. /\ \A a \in C : g.size[a] # 0 /\ EndAt(g, a) <= g.brk
            /\ \A a, b \in C : a < b => EndAt(g, a) <= b
            /\ \A u \in 1..(g.brk - 1) : \E a \in C : a <= u /\ u < EndAt(g, a)
        <4> HIDE DEF C, B
        <4> QED
          BY <1>3, <2>2, <2>3, <2>4, <3>2
      <3>4. g.size[base] = 0 /\ g.brk \in 1..(LIMIT + 1)
        BY <1>1, <1>3, <2>2
      <3> QED
        BY <3>1, <3>3, <3>4 DEF Tiled
    <2>7. ASSUME NEW a \in (F \ {p}) \cup {bp} PROVE NextIn(F \cup {bp}, a, g.ptr[a])
      <3>1. CASE a = bp
        <4>1. CASE n = 0
          <5>1. \A y \in F \cup {bp} : y <= bp
            BY <1>1, <1>6, <1>9, <2>5, <4>1
          <5> QED
            BY <1>2, <1>5, <2>2, <3>1, <4>1, <5>1 DEF NextIn
        <4>2. CASE n # 0
          <5>1. n > bp /\ \A y \in F \cup {bp} : y <= bp \/ y >= n
            BY <1>1, <1>6, <1>7, <1>9, <2>5, <4>2
          <5> QED
            BY <1>2, <1>5, <2>2, <3>1, <4>2, <5>1 DEF NextIn
        <4> QED
          BY <4>1, <4>2
      <3>2. CASE a # bp
        <4> DEFINE z == h.ptr[a]
        <4>1. a \in Fr /\ a # p /\ NextIn(Fr, a, z) /\ a \in Int /\ z \in Fr /\ z \in Int
              /\ a \in Headers \ {bp}
          BY <1>1, <1>4, <3>2 DEF NextIn
        <4>2. g.ptr[a] = z
          BY <2>2, <4>1
        <4> HIDE DEF z
        <4>3. a < p \/ a > bp
          BY <1>6, <2>5, <4>1
        <4>4. CASE z = base
          <5>1. p <= a /\ \A y \in Fr : y <= a
            BY <4>1, <4>4 DEF NextIn
          <5>2. bp <= a
            BY <1>6, <2>5, <4>1, <4>3, <5>1
          <5> QED
            BY <4>1, <4>2, <4>4, <5>1, <5>2 DEF NextIn
        <4>5. CASE z # base
          <5>1. z > a /\ \A y \in Fr : y <= a \/ y >= z
            BY <4>1, <4>5 DEF NextIn
          <5>2. bp <= a \/ bp >= z
            <6>1. p <= a \/ p >= z
              BY <5>1
            <6> QED
              BY <1>6, <2>5, <4>1, <4>3, <6>1
          <5> QED
            BY <4>1, <4>2, <4>5, <5>1, <5>2 DEF NextIn
        <4> QED
          BY <4>4, <4>5
      <3> QED
        BY <3>1, <3>2
    <2>8. ASSUME NEW a \in (F \ {base}) \cup {bp}, NEW b \in F \ {base} PROVE EndAt(g, a) # b
      <3>1. CASE a = bp
        <4>1. EndAt(g, bp) = bp + h.size[bp] /\ EndAt(h, bp) = bp + h.size[bp]
          BY <2>2 DEF EndAt
        <4>2. b \in B /\ b \in Int /\ b \in Fr /\ bp \in B /\ b # 0
          BY <1>1, <1>2
        <4>3. CASE b <= p
          BY <1>3, <1>6, <2>5, <3>1, <4>1, <4>2, <4>3, <1>1
        <4>4. CASE n # 0 /\ b >= n
          <5>1. n \in B /\ n > bp
            BY <1>2, <1>5, <1>7, <4>4
          <5>2. EndAt(h, bp) <= n
            BY <1>3, <4>2, <5>1
          <5> QED
            BY <1>6, <1>11, <2>5, <3>1, <4>1, <4>2, <4>4, <5>2
        <4> QED
          BY <1>9, <4>2, <4>3, <4>4
      <3>2. CASE a # bp
        BY <1>1, <1>8, <2>3, <3>2
      <3> QED
        BY <3>1, <3>2
    <2>9. Joining(g, F, U \ {bp}, bp, p)
      <3>1. Below(F, bp, p)
        OBVIOUS
      <3> QED
        BY <1>6, <2>2, <2>6, <2>7, <2>8, <3>1 DEF Joining
    <2>10. (\A a \in U \ {bp} : g.size[a] = h.size[a]) /\ g.size[bp] >= h.size[bp]
      BY <2>2, <2>5
    <2> QED
      BY <2>2, <2>9, <2>10 DEF g
  <1> QED
    BY <1>10, <1>11

\* free() joins the block with the free header below it, or links it after that one.
LEMMA LowerJoin ==
  ASSUME NEW g, NEW F, NEW U, NEW bp, NEW p, Joining(g, F, U, bp, p)
  PROVE  \E Fr : /\ Good(JoinLower(g, bp, p), Fr, U)
                 /\ JoinLower(g, bp, p).brk = g.brk
                 /\ \A a \in U : JoinLower(g, bp, p).size[a] = g.size[a]
                 /\ \E y \in Fr : JoinLower(g, bp, p).size[y] >= g.size[bp]
  <1> DEFINE r == JoinLower(g, bp, p)
             x == g.ptr[bp]
             A == F \cup {bp}
             B == (A \ {base}) \cup U
  <1>1. /\ g \in HeapRec /\ bp \in Headers /\ bp \notin F /\ p \in F /\ p < bp
        /\ \A y \in F : y <= p \/ y > bp
    BY DEF Joining, Below
  <1>2. base = 0 /\ Headers = 0..LIMIT /\ LIMIT \in Nat
    BY UnitFacts
  <1>3. /\ A \subseteq Headers /\ base \in A /\ U \subseteq Headers
        /\ base \notin U /\ A \cap U = {}
        /\ g.size[base] = 0 /\ g.brk \in 1..(LIMIT + 1)
        /\ \A a \in B : g.size[a] # 0 /\ EndAt(g, a) <= g.brk
        /\ \A a, b \in B : a < b => EndAt(g, a) <= b
        /\ \A u \in 1..(g.brk - 1) : \E a \in B : a <= u /\ u < EndAt(g, a)
    BY DEF Joining, Tiled
  <1>4. /\ \A a \in (F \ {p}) \cup {bp} : NextIn(A, a, g.ptr[a])
        /\ \A a \in (F \ {base}) \cup {bp}, b \in F \ {base} : EndAt(g, a) # b
    BY DEF Joining
  <1>5. /\ g.ptr \in [Headers -> Headers] /\ g.size \in [Headers -> Nat]
        /\ \A a \in Headers : g.size[a] \in Nat
    BY <1>1 DEF HeapRec
  <1>6. \A a \in Headers : a \in Int /\ a >= 0 /\ a <= LIMIT /\ g.size[a] \in Int /\ g.size[a] >= 0
    BY <1>2, <1>5
  <1>7. p \in Headers /\ p \in Int /\ bp \in Int /\ bp > 0 /\ bp # p /\ 0 \in F
    <2>1. p \in Headers
      BY <1>1, <1>3
    <2>2. p \in Int /\ p >= 0 /\ bp \in Int
      BY <1>1, <1>6, <2>1
    <2>3. bp > 0 /\ bp # p
      BY <1>1, <2>2
    <2> QED
      BY <1>2, <1>3, <2>1, <2>2, <2>3
  <1>8. ASSUME NEW a \in F \ {p}
        PROVE  a \in A /\ a \in Int /\ g.ptr[a] \in F /\ NextIn(A, a, g.ptr[a])
    <2> DEFINE z == g.ptr[a]
    <2>1. NextIn(A, a, z) /\ z \in A /\ a \in Int /\ a \in Headers
      BY <1>3, <1>4, <1>6 DEF NextIn
    <2>2. CASE z = bp
      <3>1. bp > a /\ (p <= a \/ p >= bp)
        BY <1>1, <1>2, <1>7, <2>1, <2>2 DEF NextIn
      <3>2. a <= p \/ a > bp
        BY <1>1
      <3>3. a = p
        <4> HIDE DEF z
        <4> QED
          BY <1>1, <1>7, <2>1, <3>1, <3>2
      <3> QED
        BY <3>3
    <2> QED
      BY <2>1, <2>2
  <1>9. /\ NextIn(A, bp, x) /\ x \in F /\ x \in Headers /\ x # bp
    <2>1. NextIn(A, bp, x) /\ x \in A /\ x \in Headers
      BY <1>3, <1>4 DEF NextIn
    <2>2. x # bp
      BY <1>2, <1>6, <1>7, <2>1 DEF NextIn
    <2> QED
      BY <2>1, <2>2
  <1>10. CASE p + g.size[p] = bp
    <2>1. p # 0
      BY <1>2, <1>3, <1>7, <1>10
    <2>2. r = [g EXCEPT !.size = [[g.size EXCEPT ![p] = g.size[p] + g.size[bp]] EXCEPT ![bp] = 0],
                        !.ptr = [[g.ptr EXCEPT ![p] = x] EXCEPT ![bp] = 0],
                        !.freep = p]
      BY <1>1, <1>2, <1>5, <1>10 DEF JoinLower, Gone, HeapRec
    <2>3. /\ r \in HeapRec /\ r.brk = g.brk /\ r.freep = p /\ r.ptr[p] = x
          /\ r.size[p] = g.size[p] + g.size[bp]
          /\ \A a \in Headers \ {bp, p} : r.ptr[a] = g.ptr[a] /\ r.size[a] = g.size[a]
      <3>1. g.size[p] + g.size[bp] \in Nat
        <4>1. g.size[p] \in Nat /\ g.size[bp] \in Nat
          BY <1>1, <1>5, <1>7
        <4> QED
          BY <4>1
      <3>2. 0 \in Headers
        BY <1>2
      <3> HIDE DEF r, x
      <3> QED
        BY <1>1, <1>5, <1>7, <1>9, <2>2, <3>1, <3>2 DEF HeapRec
    <2> HIDE DEF r, x
    <2> DEFINE C == (F \ {base}) \cup U
    <2>4. /\ \A a \in C : a \in B /\ a # bp /\ a \in Headers /\ a \in Int
          /\ \A a \in B : a # bp => a \in C
          /\ p \in C /\ bp \in B /\ p \in B
      BY <1>1, <1>2, <1>3, <1>6, <1>7, <2>1
    <2>5. EndAt(r, p) = EndAt(g, bp) /\ EndAt(g, p) = bp
      <3>1. g.size[p] \in Int /\ g.size[bp] \in Int
        BY <1>1, <1>6, <1>7
      <3> QED
        BY <1>7, <1>10, <2>3, <3>1 DEF EndAt
    <2>6. \A a \in C \ {p} : EndAt(r, a) = EndAt(g, a) /\ r.size[a] = g.size[a]
      BY <2>3, <2>4 DEF EndAt
    <2>7. Tiled(r, F, U)
      <3>1. F \subseteq Headers /\ base \in F /\ F \cap U = {} /\ base \notin U /\ U \subseteq Headers
        BY <1>2, <1>3, <1>7
      <3>2. r.size[base] = 0 /\ r.brk \in 1..(LIMIT + 1)
        <4>1. base \in Headers \ {bp, p}
          BY <1>2, <1>3, <1>7, <2>1
        <4> QED
          BY <1>3, <2>3, <4>1
      <3>3. ASSUME NEW a \in C PROVE r.size[a] # 0 /\ EndAt(r, a) <= r.brk
        <4>1. CASE a = p
          <5>1. g.size[p] \in Nat /\ g.size[bp] \in Nat /\ g.size[p] # 0
            BY <1>1, <1>3, <1>5, <1>7, <2>4
          <5>2. r.size[p] # 0
            BY <2>3, <5>1
          <5> QED
            BY <1>3, <2>3, <2>4, <2>5, <4>1, <5>2
        <4>2. CASE a # p
          BY <1>3, <2>3, <2>4, <2>6, <4>2
        <4> QED
          BY <4>1, <4>2
      <3>4. ASSUME NEW a \in C, NEW b \in C, a < b PROVE EndAt(r, a) <= b
        <4>1. a \in B /\ b \in B /\ b # bp /\ b \in Int
          BY <2>4
        <4>2. CASE a = p
          <5>1. EndAt(g, p) <= b
            BY <1>3, <2>4, <3>4, <4>1, <4>2
          <5>2. bp < b
            BY <1>7, <2>5, <4>1, <5>1
          <5> QED
            BY <1>3, <2>4, <2>5, <4>1, <4>2, <5>2
        <4>3. CASE a # p
          BY <1>3, <2>6, <3>4, <4>1, <4>3
        <4> QED
          BY <4>2, <4>3
      <3>5. ASSUME NEW u \in 1..(r.brk - 1) PROVE \E a \in C : a <= u /\ u < EndAt(r, a)
        <4>1. PICK a \in B : a <= u /\ u < EndAt(g, a)
          BY <1>3, <2>3
        <4>2. CASE a = bp
          <5>1. p <= u
            BY <1>1, <1>3, <1>7, <2>3, <4>1, <4>2
          <5> QED
            BY <2>4, <2>5, <4>1, <4>2, <5>1
        <4>3. CASE a = p
          <5>1. EndAt(g, bp) = bp + g.size[bp] /\ g.size[bp] \in Nat
            BY <1>1, <1>5 DEF EndAt
          <5>2. u \in Int
            BY <1>3, <2>3
          <5>3. u < EndAt(r, p)
            BY <1>7, <2>5, <4>1, <4>3, <5>1, <5>2
          <5> QED
            BY <2>4, <4>1, <4>3, <5>3
        <4>4. CASE a # bp /\ a # p
          <5>1. a \in C \ {p}
            BY <2>4, <4>4
          <5> QED
            BY <2>6, <4>1, <5>1
        <4> QED
          BY <4>2, <4>3, <4>4
      <3> QED
        BY <3>1, <3>2, <3>3, <3>4, <3>5 DEF Tiled
    <2>8. Linked(r, F)
      <3> SUFFICES ASSUME NEW a \in F PROVE NextIn(F, a, r.ptr[a])
        BY DEF Linked
      <3>1. CASE a = p
        <4>1. CASE x = base
          <5>1. \A y \in F : y <= bp
            BY <1>9, <4>1 DEF NextIn
          <5>2. ASSUME NEW y \in F PROVE y <= p
            <6>1. y \in Int /\ y <= bp /\ (y <= p \/ y > bp)
              BY <1>1, <1>3, <1>6, <5>1
            <6> QED
              BY <1>7, <6>1
          <5> QED
            BY <1>9, <2>3, <3>1, <4>1, <5>2 DEF NextIn
        <4>2. CASE x # base
          <5>1. x > bp /\ \A y \in F : y <= bp \/ y >= x
            BY <1>9, <4>2 DEF NextIn
          <5>2. ASSUME NEW y \in F PROVE y <= p \/ y >= x
            <6>1. y \in Int /\ x \in Int /\ (y <= bp \/ y >= x) /\ (y <= p \/ y > bp)
              BY <1>1, <1>3, <1>6, <1>9, <5>1
            <6> QED
              BY <1>7, <6>1
          <5>3. x > p
            <6>1. x \in Int /\ p < bp /\ x > bp
              BY <1>1, <1>6, <1>9, <5>1
            <6> QED
              BY <1>7, <6>1
          <5> QED
            BY <1>9, <2>3, <3>1, <4>2, <5>2, <5>3 DEF NextIn
        <4> QED
          BY <4>1, <4>2
      <3>2. CASE a # p
        <4>1. r.ptr[a] = g.ptr[a]
          BY <1>1, <1>3, <2>3, <3>2
        <4>2. g.ptr[a] \in F /\ NextIn(A, a, g.ptr[a])
          BY <1>8, <3>2
        <4> QED
          BY <4>1, <4>2 DEF NextIn
      <3> QED
        BY <3>1, <3>2
    <2>9. Apart(r, F)
      <3> SUFFICES ASSUME NEW a \in F \ {base}, NEW b \in F \ {base} PROVE EndAt(r, a) # b
        BY DEF Apart
      <3>1. CASE a = p
        BY <1>4, <2>5, <3>1
      <3>2. CASE a # p
        BY <1>4, <2>6, <3>2
      <3> QED
        BY <3>1, <3>2
    <2>10. Good(r, F, U)
      BY <1>1, <2>3, <2>7, <2>8, <2>9 DEF Good
    <2>11. \A a \in U : r.size[a] = g.size[a]
      <3>1. \A a \in U : a \in C \ {p}
        BY <1>1, <1>3
      <3> QED
        BY <2>6, <3>1
    <2>12. r.size[p] >= g.size[bp]
      <3>1. g.size[p] \in Nat /\ g.size[bp] \in Nat
        BY <1>1, <1>5, <1>7
      <3> QED
        BY <2>3, <3>1
    <2> QED
      BY <1>1, <2>3, <2>10, <2>11, <2>12 DEF r
  <1>11. CASE p + g.size[p] # bp
    <2>1. r = [g EXCEPT !.ptr = [g.ptr EXCEPT ![p] = bp], !.freep = p]
      BY <1>1, <1>5, <1>11 DEF JoinLower, HeapRec
    <2>2. /\ r \in HeapRec /\ r.brk = g.brk /\ r.freep = p /\ r.ptr[p] = bp /\ r.size = g.size
          /\ \A a \in Headers \ {p} : r.ptr[a] = g.ptr[a]
      <3> HIDE DEF r
      <3> QED
        BY <1>1, <1>5, <1>7, <2>1 DEF HeapRec
    <2> HIDE DEF r, x
    <2>3. \A a : EndAt(r, a) = EndAt(g, a)
      BY <2>2 DEF EndAt
    <2>4. Tiled(r, A, U)
      <3> HIDE DEF A
      <3> QED
        BY <1>3, <2>2, <2>3 DEF Tiled
    <2>5. Linked(r, A)
      <3> SUFFICES ASSUME NEW a \in A PROVE NextIn(A, a, r.ptr[a])
        BY DEF Linked
      <3>1. CASE a = p
        <4>1. \A y \in A : y <= p \/ y >= bp
          <5> SUFFICES ASSUME NEW y \in A PROVE y <= p \/ y >= bp
            OBVIOUS
          <5>1. y \in Int /\ (y = bp \/ y <= p \/ y > bp)
            BY <1>1, <1>3, <1>6
          <5> QED
            BY <1>7, <5>1
        <4> QED
          BY <1>1, <1>2, <1>7, <2>2, <3>1, <4>1 DEF NextIn
      <3>2. CASE a # p
        <4>1. r.ptr[a] = g.ptr[a]
          BY <1>1, <1>3, <2>2, <3>2
        <4> QED
          BY <1>4, <3>2, <4>1
      <3> QED
        BY <3>1, <3>2
    <2>6. Apart(r, A)
      <3> SUFFICES ASSUME NEW a \in A \ {base}, NEW b \in A \ {base} PROVE EndAt(g, a) # b
        BY <2>3 DEF Apart
      <3>1. CASE b # bp
        BY <1>4, <3>1
      <3>2. CASE b = bp
        <4>1. a \in B /\ a \in Headers /\ a \in Int /\ a # 0 /\ g.size[a] \in Int /\ g.size[a] >= 0
              /\ g.size[a] # 0 /\ EndAt(g, a) = a + g.size[a]
          BY <1>2, <1>3, <1>6 DEF EndAt
        <4>2. CASE a >= bp
          BY <1>7, <3>2, <4>1, <4>2
        <4>3. CASE a = p
          BY <1>11, <3>2, <4>1, <4>3
        <4>4. CASE a < bp /\ a # p
          <5>1. a < p /\ a >= 0
            BY <1>1, <1>6, <1>7, <4>1, <4>4
          <5>2. p # 0 /\ p \in B
            BY <1>1, <1>2, <1>7, <4>1, <5>1
          <5>3. EndAt(g, a) <= p
            BY <1>3, <4>1, <5>1, <5>2
          <5> QED
            BY <1>1, <1>7, <3>2, <4>1, <5>3
        <4> QED
          BY <1>7, <4>1, <4>2, <4>3, <4>4
      <3> QED
        BY <3>1, <3>2
    <2>7. Good(r, A, U)
      BY <1>1, <2>2, <2>4, <2>5, <2>6 DEF Good
    <2>8. r.size[bp] >= g.size[bp]
      BY <1>1, <1>6, <2>2
    <2> QED
      BY <2>2, <2>7, <2>8 DEF r
  <1> QED
    BY <1>10, <1>11

\* free() keeps the heap good, and what it was given can be had again.
LEMMA FreeKeeps ==
  ASSUME NEW h, NEW Fr, NEW U, Good(h, Fr, U), NEW bp \in U
  PROVE  \E F : /\ Good(FreeBlock(h, bp), F, U \ {bp})
                /\ FreeBlock(h, bp).brk = h.brk
                /\ \A a \in U \ {bp} : FreeBlock(h, bp).size[a] = h.size[a]
                /\ \E y \in F : FreeBlock(h, bp).size[y] >= h.size[bp]
  <1>1. PICK p \in Fr : /\ Below(Fr, bp, p)
                        /\ FreeBlock(h, bp) = JoinLower(JoinUpper(h, bp, p), bp, p)
    BY FreedPlace
  <1> DEFINE g == JoinUpper(h, bp, p)
             r == JoinLower(g, bp, p)
  <1>2. PICK F : /\ Joining(g, F, U \ {bp}, bp, p)
                 /\ g.brk = h.brk
                 /\ \A a \in U \ {bp} : g.size[a] = h.size[a]
                 /\ g.size[bp] >= h.size[bp]
    BY <1>1, UpperJoin
  <1> HIDE DEF g
  <1>3. PICK F2 : /\ Good(r, F2, U \ {bp})
                  /\ r.brk = g.brk
                  /\ \A a \in U \ {bp} : r.size[a] = g.size[a]
                  /\ \E y \in F2 : r.size[y] >= g.size[bp]
    BY <1>2, LowerJoin
  <1>4. \E y \in F2 : r.size[y] >= h.size[bp]
    <2> HIDE DEF r
    <2>1. PICK y \in F2 : r.size[y] >= g.size[bp]
      BY <1>3
    <2>2. r.size[y] \in Int /\ h.size[bp] \in Int
      BY <1>3, GoodFacts
    <2>3. g.size[bp] \in Int
      <3>1. g \in HeapRec /\ bp \in Headers
        BY <1>2 DEF Joining
      <3>2. g.size \in [Headers -> Nat]
        BY <3>1 DEF HeapRec
      <3>3. g.size[bp] \in Nat
        BY <3>1, <3>2
      <3> QED
        BY <3>3
    <2>4. r.size[y] >= h.size[bp]
      BY <1>2, <2>1, <2>2, <2>3
    <2> QED
      BY <2>4
  <1>5. FreeBlock(h, bp) = r
    BY <1>1 DEF g
  <1> HIDE DEF r
  <1> QED
    BY <1>2, <1>3, <1>4, <1>5

\* morecore() makes the new units a free block, joined to the one below.
LEMMA MorecoreKeeps ==
  ASSUME NEW h, NEW Fr, NEW U, Good(h, Fr, U), NEW n \in Nat \ {0},
         CanGrow(h, IF n < CHUNK THEN CHUNK ELSE n)
  PROVE  \E F : /\ Good(Morecore(h, n), F, U)
                /\ \A a \in U : Morecore(h, n).size[a] = h.size[a]
                /\ \E y \in F : Morecore(h, n).size[y] >= n
  <1> DEFINE nu == IF n < CHUNK THEN CHUNK ELSE n
             hp == h.brk
             m == [h EXCEPT !.brk = h.brk + nu, !.size = [h.size EXCEPT ![hp] = nu]]
             B == (Fr \ {base}) \cup U
             V == U \cup {hp}
             C == (Fr \ {base}) \cup V
  <1>1. /\ h \in HeapRec /\ Fr \subseteq Headers /\ U \subseteq Headers
        /\ h.ptr \in [Headers -> Headers] /\ h.size \in [Headers -> Nat]
        /\ h.brk \in 1..(LIMIT + 1) /\ h.freep \in Fr
        /\ 0 \in Fr /\ 0 \notin U /\ \A a \in U : a \notin Fr
        /\ \A a \in Fr \cup U : a \in Int /\ a >= 0 /\ a <= LIMIT /\ h.size[a] \in Int /\ h.size[a] >= 0
    BY GoodFacts
  <1>2. base = 0 /\ Headers = 0..LIMIT /\ LIMIT \in Nat /\ CHUNK \in Nat
    BY UnitFacts
  <1>3. /\ h.size[base] = 0
        /\ \A a \in B : h.size[a] # 0 /\ EndAt(h, a) <= h.brk
        /\ \A a, b \in B : a < b => EndAt(h, a) <= b
        /\ \A u \in 1..(h.brk - 1) : \E a \in B : a <= u /\ u < EndAt(h, a)
    BY DEF Good, Tiled
  <1>4. nu \in Nat /\ nu >= n /\ nu # 0 /\ hp + nu <= LIMIT + 1
    BY <1>2 DEF CanGrow
  <1> HIDE DEF nu
  <1>5. hp \in Headers /\ hp \in Int /\ hp > 0
    <2>1. h.brk \in 1..(LIMIT + 1) /\ LIMIT \in Nat
      BY <1>1, <1>2
    <2>2. hp \in 0..LIMIT /\ hp \in Int /\ hp > 0
      BY <1>4, <2>1
    <2> QED
      BY <1>2, <2>2
  <1>6. /\ m \in HeapRec /\ m.brk = hp + nu /\ m.ptr = h.ptr /\ m.freep = h.freep
        /\ m.size[hp] = nu /\ \A a \in Headers \ {hp} : m.size[a] = h.size[a]
    <2>1. h.brk + nu \in Nat
      BY <1>4, <1>5
    <2> QED
      BY <1>1, <1>4, <1>5, <2>1 DEF HeapRec
  <1> HIDE DEF m
  <1>7. ASSUME NEW a \in B
        PROVE  /\ a \in Headers /\ a \in Int /\ a > 0 /\ a < hp /\ a \in Headers \ {hp}
               /\ EndAt(m, a) = EndAt(h, a) /\ EndAt(h, a) <= hp /\ m.size[a] = h.size[a]
               /\ EndAt(h, a) \in Int
    <2>1. a \in Headers /\ a \in Int /\ a >= 0 /\ h.size[a] \in Int /\ h.size[a] >= 0 /\ h.size[a] # 0
      BY <1>1, <1>3
    <2>2. a # 0
      BY <1>1, <1>2
    <2>3. EndAt(h, a) <= hp /\ EndAt(h, a) = a + h.size[a]
      BY <1>3 DEF EndAt
    <2>4. a < hp
      BY <1>5, <2>1, <2>3
    <2>5. a \in Headers \ {hp} /\ m.size[a] = h.size[a]
      BY <1>5, <1>6, <2>1, <2>4
    <2> QED
      BY <2>1, <2>2, <2>3, <2>4, <2>5 DEF EndAt
  <1>8. hp \notin Fr /\ hp \notin U /\ C = B \cup {hp}
    <2>1. hp \notin B /\ hp # 0
      BY <1>5, <1>7
    <2> QED
      BY <1>2, <2>1
  <1>9. EndAt(m, hp) = hp + nu /\ hp + nu \in Int /\ hp + nu > hp
    BY <1>4, <1>5, <1>6 DEF EndAt
  <1>10. Tiled(m, Fr, V)
    <2>1. V \subseteq Headers /\ base \notin V /\ base \in Fr /\ Fr \cap V = {} /\ Fr \subseteq Headers
      BY <1>1, <1>2, <1>5, <1>8
    <2>2. m.size[base] = 0 /\ m.brk \in 1..(LIMIT + 1)
      <3>1. base \in Headers \ {hp}
        BY <1>2, <1>5
      <3>2. hp + nu \in 1..(LIMIT + 1)
        <4>1. h.brk \in 1..(LIMIT + 1) /\ LIMIT \in Nat
          BY <1>1, <1>2
        <4> QED
          BY <1>4, <4>1
      <3> QED
        BY <1>3, <1>6, <3>1, <3>2
    <2>3. ASSUME NEW a \in C PROVE m.size[a] # 0 /\ EndAt(m, a) <= m.brk
      <3>1. CASE a = hp
        BY <1>4, <1>6, <1>9, <3>1
      <3>2. CASE a \in B
        <4>1. EndAt(m, a) <= hp /\ EndAt(m, a) \in Int /\ m.size[a] # 0
          BY <1>3, <1>7, <3>2
        <4> QED
          BY <1>4, <1>5, <1>6, <4>1
      <3> QED
        BY <1>8, <3>1, <3>2
    <2>4. ASSUME NEW a \in C, NEW b \in C, a < b PROVE EndAt(m, a) <= b
      <3>1. CASE a = hp
        <4>1. b = hp \/ (b \in Int /\ b < hp)
          BY <1>7, <1>8
        <4> QED
          BY <1>5, <2>4, <3>1, <4>1
      <3>2. CASE a \in B /\ b = hp
        BY <1>7, <3>2
      <3>3. CASE a \in B /\ b \in B
        BY <1>3, <1>7, <2>4, <3>3
      <3> QED
        BY <1>8, <3>1, <3>2, <3>3
    <2>5. ASSUME NEW u \in 1..(m.brk - 1) PROVE \E a \in C : a <= u /\ u < EndAt(m, a)
      <3>1. u \in Int /\ u >= 1 /\ u < hp + nu
        BY <1>4, <1>5, <1>6
      <3>2. CASE u >= hp
        BY <1>8, <1>9, <3>1, <3>2
      <3>3. CASE u < hp
        <4>1. u \in 1..(h.brk - 1)
          BY <1>5, <3>1, <3>3
        <4>2. PICK a \in B : a <= u /\ u < EndAt(h, a)
          BY <1>3, <4>1
        <4> QED
          BY <1>7, <1>8, <4>2
      <3> QED
        BY <1>5, <3>1, <3>2, <3>3
    <2> QED
      BY <2>1, <2>2, <2>3, <2>4, <2>5 DEF Tiled
  <1>11. Good(m, Fr, V)
    <2>1. Linked(m, Fr)
      BY <1>6 DEF Good, Linked
    <2>2. Apart(m, Fr)
      <3> SUFFICES ASSUME NEW a \in Fr \ {base}, NEW b \in Fr \ {base} PROVE EndAt(m, a) # b
        BY DEF Apart
      <3> QED
        BY <1>7 DEF Good, Apart
    <2> QED
      BY <1>1, <1>6, <1>10, <2>1, <2>2 DEF Good
  <1>12. Morecore(h, n) = FreeBlock(m, hp)
    BY DEF Morecore, m, nu
  <1>13. PICK F : /\ Good(FreeBlock(m, hp), F, V \ {hp})
                  /\ \A a \in V \ {hp} : FreeBlock(m, hp).size[a] = m.size[a]
                  /\ \E y \in F : FreeBlock(m, hp).size[y] >= m.size[hp]
    <2>1. hp \in V
      OBVIOUS
    <2> HIDE DEF V, hp
    <2> QED
      BY <1>11, <2>1, FreeKeeps, SMTT(30)
  <1>14. V \ {hp} = U
    BY <1>8
  <1>15. \A a \in U : Morecore(h, n).size[a] = h.size[a]
    BY <1>7, <1>12, <1>13, <1>14
  <1>16. \E y \in F : Morecore(h, n).size[y] >= n
    <2>1. PICK y \in F : FreeBlock(m, hp).size[y] >= nu
      BY <1>6, <1>13
    <2>2. FreeBlock(m, hp).size[y] \in Int
      BY <1>13, GoodFacts
    <2>3. FreeBlock(m, hp).size[y] >= n
      BY <1>4, <2>1, <2>2
    <2> QED
      BY <1>12, <2>3
  <1>17. Good(Morecore(h, n), F, U)
    BY <1>12, <1>13, <1>14
  <1> QED
    BY <1>15, <1>16, <1>17

\* malloc() takes the first block that is large enough, or its tail.
LEMMA FirstFitKeeps ==
  ASSUME NEW h, NEW Fr, NEW U, Good(h, Fr, U), NEW n \in Nat \ {0},
         \E y \in Fr : h.size[y] >= n
  PROVE  LET t == FirstFit(h, n)
         IN  \E F : /\ t.at \notin U /\ Good(t.heap, F, U \cup {t.at})
                    /\ t.heap.size[t.at] = n
                    /\ \A a \in U : t.heap.size[a] = h.size[a]
  <1> DEFINE w == Walk(h, h.ptr[h.freep])
             k == FirstAt(w, LAMBDA q : h.size[q] >= n)
             Is(i) == h.size[w[i]] >= n /\ \A j \in 0..(i - 1) : ~(h.size[w[j]] >= n)
             N == LIMIT + 1
             p == w[k]
             prevp == IF k = 0 THEN h.freep ELSE w[k - 1]
             rest == h.size[p] - n
             t == FirstFit(h, n)
             B == (Fr \ {base}) \cup U
  <1>1. /\ h \in HeapRec /\ Fr \subseteq Headers /\ U \subseteq Headers
        /\ h.ptr \in [Headers -> Headers] /\ h.size \in [Headers -> Nat]
        /\ h.brk \in 1..(LIMIT + 1) /\ h.freep \in Fr
        /\ 0 \in Fr /\ 0 \notin U /\ \A a \in U : a \notin Fr
        /\ \A a \in Fr \cup U : a \in Int /\ a >= 0 /\ a <= LIMIT /\ h.size[a] \in Int /\ h.size[a] >= 0
    BY GoodFacts
  <1>2. base = 0 /\ Headers = 0..LIMIT /\ LIMIT \in Nat /\ N = LIMIT + 1 /\ N \in Nat
        /\ 0..LIMIT \subseteq 0..N
    BY UnitFacts
  <1>3. /\ h.size[base] = 0
        /\ \A a \in B : h.size[a] # 0 /\ EndAt(h, a) <= h.brk
        /\ \A a, b \in B : a < b => EndAt(h, a) <= b
        /\ \A u \in 1..(h.brk - 1) : \E a \in B : a <= u /\ u < EndAt(h, a)
    BY DEF Good, Tiled
  <1>4. Linked(h, Fr) /\ (\A a \in Fr : NextIn(Fr, a, h.ptr[a])) /\ h.ptr[h.freep] \in Fr
        /\ \A a, b \in Fr \ {base} : EndAt(h, a) # b
    BY DEF Good, Linked, NextIn, Apart
  <1>5. /\ w \in [0..N -> Headers] /\ w[0] = h.ptr[h.freep]
        /\ \A i \in 0..LIMIT : w[i + 1] = h.ptr[w[i]]
    <2>1. h \in HeapRec /\ h.ptr[h.freep] \in Headers
      BY <1>1, <1>4
    <2>2. /\ Walk(h, h.ptr[h.freep]) \in [0..(LIMIT + 1) -> Headers]
          /\ Walk(h, h.ptr[h.freep])[0] = h.ptr[h.freep]
          /\ \A i \in 0..LIMIT : Walk(h, h.ptr[h.freep])[i + 1] = h.ptr[Walk(h, h.ptr[h.freep])[i]]
      BY <2>1, WalkIs
    <2> QED
      BY <2>2
  <1>6. /\ \A i \in 0..N : w[i] \in Fr
        /\ \A y \in Fr : \E i \in 0..LIMIT : w[i] = y
    <2>1. h \in HeapRec /\ Fr \subseteq Headers /\ base \in Fr /\ Linked(h, Fr) /\ h.ptr[h.freep] \in Fr
      BY <1>1, <1>2, <1>4
    <2> QED
      BY <2>1, Covers
  <1>7. \E i \in DOMAIN w : Is(i)
    <2> DEFINE K == {i \in 0..N : h.size[w[i]] >= n}
    <2>1. PICK i \in 0..LIMIT : h.size[w[i]] >= n
      BY <1>6
    <2>2. PICK j \in K : \A l \in 0..(j - 1) : l \notin K
      <3>1. K # {} /\ K \subseteq 0..N
        BY <1>2, <2>1
      <3> HIDE DEF K
      <3> QED
        BY <1>2, <3>1, LeastIndex
    <2>3. \A l \in 0..(j - 1) : l \in 0..N
      BY <1>2
    <2> HIDE DEF w
    <2> QED
      BY <1>5, <2>2, <2>3
  <1>8. k = CHOOSE i \in DOMAIN w : Is(i)
    BY DEF FirstAt
  <1>9. t = IF rest = 0
            THEN [at |-> p, heap |-> [h EXCEPT !.ptr[prevp] = h.ptr[p], !.ptr[p] = base,
                                               !.freep = prevp]]
            ELSE [at |-> p + rest,
                  heap |-> [h EXCEPT !.size[p] = rest, !.size[p + rest] = n,
                                     !.freep = prevp]]
    BY DEF FirstFit
  <1> HIDE DEF w, k, N, t
  <1>10. k \in 0..N /\ h.size[p] >= n
    <2>1. k \in DOMAIN w /\ Is(k)
      <3> HIDE DEF Is
      <3> QED
        BY <1>7, <1>8
    <2> QED
      BY <1>5, <2>1
  <1>11. p \in Fr /\ prevp \in Fr /\ h.ptr[prevp] = p
    <2>1. CASE k = 0
      BY <1>1, <1>5, <1>6, <1>10, <2>1
    <2>2. CASE k # 0
      <3>1. k - 1 \in 0..N /\ k - 1 \in 0..LIMIT /\ (k - 1) + 1 = k
        BY <1>2, <1>10, <2>2
      <3> QED
        BY <1>5, <1>6, <1>10, <2>2, <3>1
    <2> QED
      BY <2>1, <2>2
  <1> HIDE DEF p, prevp
  <1>12. /\ p \in Int /\ prevp \in Int /\ h.size[p] \in Int /\ p \in Headers /\ prevp \in Headers
         /\ n \in Int /\ n > 0 /\ h.size[p] >= n /\ rest \in Nat
         /\ p # 0 /\ p \in B /\ p > prevp /\ p # prevp /\ p > 0
    <2>1. p \in Int /\ p >= 0 /\ h.size[p] \in Int /\ p \in Headers /\ prevp \in Headers
          /\ prevp \in Int /\ n \in Int /\ n > 0 /\ h.size[p] >= n
      BY <1>1, <1>10, <1>11
    <2>2. p # 0
      BY <1>2, <1>3, <2>1
    <2>3. p > prevp
      BY <1>2, <1>4, <1>11, <2>2 DEF NextIn
    <2> QED
      BY <1>2, <1>11, <2>1, <2>2, <2>3
  <1>13. \A y \in Fr : y <= prevp \/ y >= p
    BY <1>2, <1>4, <1>11, <1>12 DEF NextIn
  <1>14. CASE rest = 0
    <2> DEFINE r == t.heap
               x == h.ptr[p]
               F == Fr \ {p}
               V == U \cup {p}
    <2>1. /\ t.at = p
          /\ r = [h EXCEPT !.ptr = [[h.ptr EXCEPT ![prevp] = x] EXCEPT ![p] = 0], !.freep = prevp]
      BY <1>1, <1>2, <1>9, <1>14 DEF HeapRec
    <2>2. NextIn(Fr, p, x) /\ x \in Fr /\ x \in Headers /\ x \in Int
      BY <1>1, <1>4, <1>11 DEF NextIn
    <2> HIDE DEF x, r
    <2>3. /\ r \in HeapRec /\ r.size = h.size /\ r.brk = h.brk /\ r.freep = prevp
          /\ r.ptr[prevp] = x /\ \A a \in Headers \ {p, prevp} : r.ptr[a] = h.ptr[a]
      <3>1. 0 \in Headers
        BY <1>2
      <3> QED
        BY <1>1, <1>12, <2>1, <2>2, <3>1 DEF HeapRec
    <2>4. \A a : EndAt(r, a) = EndAt(h, a)
      BY <2>3 DEF EndAt
    <2>5. (F \ {base}) \cup V = B
      BY <1>2, <1>11, <1>12
    <2>6. Tiled(r, F, V)
      <3>1. F \subseteq Headers /\ base \in F /\ V \subseteq Headers /\ base \notin V /\ F \cap V = {}
        BY <1>1, <1>2, <1>12
      <3> HIDE DEF F, V, B
      <3> QED
        BY <1>1, <1>3, <2>3, <2>4, <2>5, <3>1 DEF Tiled
    <2>7. Linked(r, F)
      <3> SUFFICES ASSUME NEW a \in F PROVE NextIn(F, a, r.ptr[a])
        BY DEF Linked
      <3>1. CASE a = prevp
        <4>1. ASSUME NEW y \in F PROVE y \in Int /\ (y <= prevp \/ y > p)
          <5>1. y \in Int /\ y # p /\ (y <= prevp \/ y >= p)
            BY <1>1, <1>13
          <5> QED
            BY <1>12, <5>1
        <4>2. CASE x = base
          <5>1. \A y \in F : y <= p
            BY <2>2, <4>2 DEF NextIn
          <5>2. \A y \in F : y <= prevp
            <6> SUFFICES ASSUME NEW y \in F PROVE y <= prevp
              OBVIOUS
            <6>1. y \in Int /\ y <= p /\ (y <= prevp \/ y > p)
              BY <4>1, <5>1
            <6> QED
              BY <1>12, <6>1
          <5>3. x \in F
            BY <1>2, <1>12, <2>2, <4>2
          <5> QED
            BY <2>3, <3>1, <4>2, <5>2, <5>3 DEF NextIn
        <4>3. CASE x # base
          <5>1. x > p /\ \A y \in F : y <= p \/ y >= x
            BY <2>2, <4>3 DEF NextIn
          <5>2. ASSUME NEW y \in F PROVE y <= prevp \/ y >= x
            <6>1. y \in Int /\ (y <= prevp \/ y > p) /\ (y <= p \/ y >= x)
              BY <4>1, <5>1
            <6> QED
              BY <1>12, <2>2, <6>1
          <5>3. x \in F /\ x > prevp
            BY <1>12, <2>2, <5>1
          <5> QED
            BY <2>3, <3>1, <4>3, <5>2, <5>3 DEF NextIn
        <4> QED
          BY <4>2, <4>3
      <3>2. CASE a # prevp
        <4> DEFINE z == h.ptr[a]
        <4>1. a \in Int /\ r.ptr[a] = z /\ NextIn(Fr, a, z) /\ a # p /\ a \in Fr /\ z \in Fr
          BY <1>1, <1>4, <2>3, <3>2 DEF NextIn
        <4>2. z # p
          <5> SUFFICES ASSUME z = p PROVE FALSE
            OBVIOUS
          <5>1. p > a /\ (prevp <= a \/ prevp >= p)
            BY <1>2, <1>11, <1>12, <4>1 DEF NextIn
          <5>2. a <= prevp \/ a >= p
            BY <1>13, <4>1
          <5> HIDE DEF z
          <5> QED
            BY <1>12, <3>2, <4>1, <5>1, <5>2
        <4> QED
          BY <4>1, <4>2 DEF NextIn
      <3> QED
        BY <3>1, <3>2
    <2>8. Apart(r, F)
      BY <1>4, <2>4 DEF Apart
    <2>9. Good(r, F, V)
      BY <1>11, <1>12, <2>3, <2>6, <2>7, <2>8 DEF Good
    <2>10. r.size[p] = n
      <3>1. h.size[p] = n
        BY <1>12, <1>14
      <3> QED
        BY <2>3, <3>1
    <2>11. p \notin U
      BY <1>1, <1>11
    <2>12. \A a \in U : r.size[a] = h.size[a]
      BY <2>3
    <2>13. t.at \notin U /\ Good(t.heap, F, U \cup {t.at}) /\ t.heap.size[t.at] = n
           /\ \A a \in U : t.heap.size[a] = h.size[a]
      BY <2>1, <2>9, <2>10, <2>11, <2>12 DEF r
    <2> QED
      BY <2>13 DEF t
  <1>15. CASE rest # 0
    <2> DEFINE r == t.heap
               q == p + rest
               V == U \cup {q}
    <2>1. /\ t.at = q
          /\ r = [h EXCEPT !.size = [[h.size EXCEPT ![p] = rest] EXCEPT ![q] = n], !.freep = prevp]
      BY <1>1, <1>9, <1>15 DEF HeapRec
    <2>2. q \in Int /\ q > p /\ q + n = EndAt(h, p) /\ EndAt(h, p) <= h.brk /\ q \in Headers /\ q # p
          /\ q > 0 /\ EndAt(h, p) \in Int /\ EndAt(h, p) > q
      <3>1. q \in Int /\ q > p /\ q + n = EndAt(h, p) /\ q # p
        BY <1>12, <1>15 DEF EndAt
      <3>2. EndAt(h, p) <= h.brk
        BY <1>3, <1>12
      <3>3. q + n <= LIMIT + 1
        <4>1. h.brk \in 1..(LIMIT + 1) /\ LIMIT \in Nat
          BY <1>1, <1>2
        <4> HIDE DEF q
        <4> QED
          BY <1>12, <3>1, <3>2, <4>1
      <3>4. q \in 0..LIMIT
        <4>1. LIMIT \in Nat
          BY <1>2
        <4> HIDE DEF q
        <4> QED
          BY <1>12, <3>1, <3>3, <4>1
      <3> HIDE DEF q
      <3> QED
        BY <1>2, <1>12, <3>1, <3>2, <3>4
    <2>3. /\ r \in HeapRec /\ r.brk = h.brk /\ r.freep = prevp /\ r.ptr = h.ptr
          /\ r.size[p] = rest /\ r.size[q] = n
          /\ \A a \in Headers \ {p, q} : r.size[a] = h.size[a]
      <3> HIDE DEF q, r, rest
      <3> QED
        BY <1>1, <1>12, <2>1, <2>2 DEF HeapRec
    <2>4. q \notin B
      BY <1>3, <1>12, <2>2
    <2>5. EndAt(r, p) = q /\ EndAt(r, q) = EndAt(h, p)
      BY <2>2, <2>3 DEF EndAt
    <2> HIDE DEF q, r
    <2> DEFINE C == (Fr \ {base}) \cup V
    <2>6. ASSUME NEW a \in B, a # p
          PROVE  r.size[a] = h.size[a] /\ EndAt(r, a) = EndAt(h, a) /\ a \in Int
      <3>1. a \in Headers \ {p, q}
        BY <1>1, <2>4, <2>6
      <3> QED
        BY <1>1, <2>3, <3>1 DEF EndAt
    <2>7. C = B \cup {q}
      OBVIOUS
    <2>8. Tiled(r, Fr, V)
      <3>1. q \notin Fr /\ q # base
        BY <1>2, <2>2, <2>4
      <3>2. Fr \subseteq Headers /\ base \in Fr /\ V \subseteq Headers /\ base \notin V /\ Fr \cap V = {}
        BY <1>1, <1>2, <2>2, <3>1
      <3>3. r.size[base] = 0 /\ r.brk \in 1..(LIMIT + 1)
        <4>1. base \in Headers \ {p, q}
          BY <1>2, <1>12, <2>2
        <4> QED
          BY <1>1, <1>3, <2>3, <4>1
      <3>4. ASSUME NEW a \in C PROVE r.size[a] # 0 /\ EndAt(r, a) <= r.brk
        <4>1. CASE a = q
          BY <1>12, <2>2, <2>3, <2>5, <4>1
        <4>2. CASE a = p
          <5>1. q <= h.brk
            BY <1>1, <2>2
          <5> QED
            BY <1>15, <2>3, <2>5, <4>2, <5>1
        <4>3. CASE a \in B /\ a # p
          BY <1>3, <2>3, <2>6, <4>3
        <4> QED
          BY <2>7, <4>1, <4>2, <4>3
      <3>5. ASSUME NEW a \in C, NEW b \in C, a < b PROVE EndAt(r, a) <= b
        <4>1. CASE a = q
          <5>1. b \in B /\ b \in Int
            BY <1>1, <2>2, <2>7, <3>5, <4>1
          <5>2. p < b
            BY <1>12, <2>2, <3>5, <4>1, <5>1
          <5> QED
            BY <1>3, <1>12, <2>5, <4>1, <5>1, <5>2
        <4>2. CASE a = p /\ b # q
          <5>1. b \in B /\ b \in Int
            BY <1>1, <2>7, <4>2
          <5>2. EndAt(h, p) <= b
            BY <1>3, <1>12, <3>5, <4>2, <5>1
          <5> QED
            BY <2>2, <2>5, <4>2, <5>1, <5>2
        <4>3. CASE a = p /\ b = q
          BY <2>2, <2>5, <4>3
        <4>4. CASE a \in B /\ a # p /\ b = q
          <5>1. a \in Int /\ a < q /\ EndAt(r, a) = EndAt(h, a)
            BY <2>6, <3>5, <4>4
          <5>2. CASE a < p
            <6>1. EndAt(h, a) <= p
              BY <1>3, <1>12, <4>4, <5>2
            <6>2. EndAt(h, a) \in Int
              BY <1>1, <4>4, <5>1 DEF EndAt
            <6> QED
              BY <1>12, <2>2, <4>4, <5>1, <6>1, <6>2
          <5>3. CASE a > p
            <6>1. EndAt(h, p) <= a
              BY <1>3, <1>12, <4>4, <5>3
            <6> QED
              BY <2>2, <5>1, <6>1
          <5> QED
            BY <1>12, <4>4, <5>1, <5>2, <5>3
        <4>5. CASE a \in B /\ a # p /\ b \in B
          BY <1>3, <2>6, <3>5, <4>5
        <4> QED
          BY <2>7, <4>1, <4>2, <4>3, <4>4, <4>5
      <3>6. ASSUME NEW u \in 1..(r.brk - 1) PROVE \E a \in C : a <= u /\ u < EndAt(r, a)
        <4>1. PICK a \in B : a <= u /\ u < EndAt(h, a)
          BY <1>3, <2>3
        <4>2. u \in Int
          BY <1>1, <2>3
        <4>3. CASE a # p
          BY <2>6, <2>7, <4>1, <4>3
        <4>4. CASE a = p /\ u < q
          BY <2>5, <2>7, <4>1, <4>4
        <4>5. CASE a = p /\ u >= q
          BY <2>2, <2>5, <2>7, <4>1, <4>5
        <4> QED
          BY <2>2, <4>2, <4>3, <4>4, <4>5
      <3> QED
        BY <3>2, <3>3, <3>4, <3>5, <3>6 DEF Tiled
    <2>9. Linked(r, Fr)
      BY <1>4, <2>3 DEF Linked
    <2>10. Apart(r, Fr)
      <3> SUFFICES ASSUME NEW a \in Fr \ {base}, NEW b \in Fr \ {base} PROVE EndAt(r, a) # b
        BY DEF Apart
      <3>1. CASE a = p
        BY <2>4, <2>5, <3>1
      <3>2. CASE a # p
        BY <1>4, <2>6, <3>2
      <3> QED
        BY <3>1, <3>2
    <2>11. Good(r, Fr, V)
      BY <1>11, <2>3, <2>8, <2>9, <2>10 DEF Good
    <2>12. q \notin U
      BY <2>4
    <2>13. \A a \in U : r.size[a] = h.size[a]
      <3>1. \A a \in U : a \in B /\ a # p
        BY <1>1, <1>11
      <3> QED
        BY <2>6, <3>1
    <2>14. t.at \notin U /\ Good(t.heap, Fr, U \cup {t.at}) /\ t.heap.size[t.at] = n
           /\ \A a \in U : t.heap.size[a] = h.size[a]
      <3>1. t.at = q
        BY <2>1
      <3> QED
        BY <2>3, <2>11, <2>12, <2>13, <3>1 DEF r
    <2> QED
      BY <2>14 DEF t
  <1> QED
    BY <1>14, <1>15

\* The inductive invariant: the program's blocks and some set of free headers
\* share the heap, and before the first malloc() there is none.
UmInv ==
  /\ heap \in HeapRec
  /\ \E Fr : Good(Started(heap), Fr, DOMAIN owned)
  /\ \A a \in DOMAIN owned : heap.size[a] = owned[a]
  /\ heap.freep = NULL => heap.brk = 1

\* The heap before the first malloc() satisfies the inductive invariant.
LEMMA UmInitially == UmInit => UmInv
  <1> SUFFICES ASSUME UmInit PROVE UmInv
    OBVIOUS
  <1> DEFINE h == Started(heap)
             Fr == {base}
  <1>1. base = 0 /\ Headers = 0..LIMIT /\ LIMIT \in Nat /\ NULL \notin Headers /\ 0 \in Headers
    BY UnitFacts
  <1>2. heap \in HeapRec /\ heap.freep = NULL /\ heap.brk = 1 /\ DOMAIN owned = {}
    BY <1>1 DEF UmInit, HeapRec
  <1>3. h \in HeapRec /\ h.freep = base /\ h.brk = 1 /\ h.ptr[base] = base /\ h.size[base] = 0
    BY <1>1 DEF UmInit, HeapRec, Started
  <1> HIDE DEF h
  <1>4. Linked(h, Fr)
    BY <1>1, <1>3 DEF Linked, NextIn
  <1>5. Tiled(h, Fr, {})
    <2>1. h.brk \in 1..(LIMIT + 1)
      BY <1>1, <1>3
    <2>2. \A u \in 1..(h.brk - 1) : FALSE
      BY <1>3
    <2> QED
      BY <1>1, <1>3, <2>1, <2>2 DEF Tiled
  <1>6. Good(h, Fr, {})
    BY <1>3, <1>4, <1>5 DEF Good, Apart
  <1> QED
    BY <1>2, <1>6 DEF UmInv, h

\* Every malloc() and free() keeps the inductive invariant.
LEMMA UmStep == UmInv /\ [UmNext]_umvars => UmInv'
  <1> SUFFICES ASSUME UmInv, [UmNext]_umvars PROVE UmInv'
    OBVIOUS
  <1> DEFINE h == Started(heap)
             U == DOMAIN owned
  <1>1. PICK Fr : Good(h, Fr, U)
    BY DEF UmInv
  <1>2. /\ heap \in HeapRec /\ \A a \in U : heap.size[a] = owned[a]
        /\ h.size = heap.size /\ h.brk = heap.brk
    BY DEF UmInv, Started, HeapRec
  <1>3. \A g, F, V : Good(g, F, V) => g.freep # NULL /\ Started(g) = g /\ g \in HeapRec
    <2> SUFFICES ASSUME NEW g, NEW F, NEW V, Good(g, F, V)
                 PROVE  g.freep # NULL /\ Started(g) = g /\ g \in HeapRec
      OBVIOUS
    <2>1. g.freep \in Headers /\ g \in HeapRec
      BY GoodFacts
    <2> QED
      BY <2>1, UnitFacts DEF Started
  <1>4. ASSUME NEW n \in Requests, malloc(n) PROVE UmInv'
    <2> DEFINE grown == IF Fits(h, n) THEN h ELSE Morecore(h, n)
               t == FirstFit(grown, n)
    <2>1. n \in Nat \ {0}
      BY UnitFacts
    <2>2. Fits(h, n) <=> \E y \in Fr : h.size[y] >= n
      BY <1>1, RingIs DEF Fits
    <2>3. CASE /\ Fits(h, n) \/ CanGrow(h, IF n < CHUNK THEN CHUNK ELSE n)
               /\ heap' = t.heap
               /\ owned' = [a \in U \cup {t.at} |-> IF a = t.at THEN n ELSE owned[a]]
      <3>1. PICK F : /\ Good(grown, F, U) /\ (\A a \in U : grown.size[a] = h.size[a])
                     /\ \E y \in F : grown.size[y] >= n
        <4>1. CASE Fits(h, n)
          BY <1>1, <2>2, <4>1
        <4>2. CASE ~Fits(h, n)
          <5>1. CanGrow(h, IF n < CHUNK THEN CHUNK ELSE n)
            BY <2>3, <4>2
          <5>2. grown = Morecore(h, n)
            BY <4>2
          <5> HIDE DEF grown, h, U
          <5> QED
            BY <1>1, <2>1, <5>1, <5>2, MorecoreKeeps
        <4> QED
          BY <4>1, <4>2
      <3> HIDE DEF grown
      <3>2. PICK F2 : /\ t.at \notin U /\ Good(t.heap, F2, U \cup {t.at})
                      /\ t.heap.size[t.at] = n
                      /\ \A a \in U : t.heap.size[a] = grown.size[a]
        <4> HIDE DEF U
        <4> QED
          BY <2>1, <3>1, FirstFitKeeps
      <3> HIDE DEF t
      <3>3. DOMAIN owned' = U \cup {t.at} /\ owned'[t.at] = n /\ \A a \in U : owned'[a] = owned[a]
        BY <2>3, <3>2
      <3>4. heap' = t.heap
        BY <2>3
      <3>5. heap' \in HeapRec /\ heap'.freep # NULL /\ Started(heap') = heap'
        BY <1>3, <3>2, <3>4
      <3>6. \A a \in DOMAIN owned' : heap'.size[a] = owned'[a]
        BY <1>2, <3>1, <3>2, <3>3, <3>4
      <3>7. Good(Started(heap'), F2, DOMAIN owned')
        BY <3>2, <3>3, <3>4, <3>5
      <3> QED
        BY <3>5, <3>6, <3>7 DEF UmInv, Started
    <2>4. CASE heap' = h /\ UNCHANGED owned
      <3>1. Started(h) = h /\ h.freep # NULL /\ h \in HeapRec
        BY <1>1, <1>3
      <3>2. Good(Started(heap'), Fr, DOMAIN owned')
        BY <1>1, <2>4, <3>1
      <3>3. \A a \in DOMAIN owned' : heap'.size[a] = owned'[a]
        BY <1>2, <2>4
      <3> HIDE DEF h
      <3> QED
        BY <2>4, <3>1, <3>2, <3>3 DEF UmInv, Started
    <2> QED
      BY <1>4, <2>3, <2>4 DEF malloc
  <1>5. ASSUME NEW a \in U, free(a) PROVE UmInv'
    <2>1. heap.freep # NULL /\ h = heap
      <3>1. h.brk # 1
        <4>1. /\ a \in Int /\ a >= 0 /\ a # 0 /\ h.size[a] \in Int /\ h.size[a] >= 0
              /\ h.brk \in 1..(LIMIT + 1)
          BY <1>1, GoodFacts
        <4>2. h.size[a] # 0 /\ a + h.size[a] <= h.brk
          BY <1>1 DEF Good, Tiled, EndAt
        <4> HIDE DEF h
        <4> QED
          BY <4>1, <4>2
      <3> QED
        BY <1>2, <3>1 DEF UmInv, Started
    <2>2. heap' = FreeBlock(h, a) /\ owned' = [b \in U \ {a} |-> owned[b]]
      BY <1>5, <2>1 DEF free
    <2> HIDE DEF h
    <2>3. PICK F : /\ Good(FreeBlock(h, a), F, U \ {a})
                   /\ \A b \in U \ {a} : FreeBlock(h, a).size[b] = h.size[b]
      <3> HIDE DEF U
      <3> QED
        BY <1>1, FreeKeeps
    <2>4. heap' \in HeapRec /\ heap'.freep # NULL /\ Started(heap') = heap'
      BY <1>3, <2>2, <2>3
    <2>5. \A b \in DOMAIN owned' : heap'.size[b] = owned'[b]
      BY <1>2, <2>2, <2>3
    <2>6. Good(Started(heap'), F, DOMAIN owned')
      BY <2>2, <2>3, <2>4
    <2> QED
      BY <2>4, <2>5, <2>6 DEF UmInv, Started
  <1>6. CASE UNCHANGED umvars
    BY <1>6 DEF umvars, UmInv, Started
  <1> QED
    BY <1>4, <1>5, <1>6 DEF UmNext

\* The inductive invariant gives what the run checks: no unit lost, none shared, no two
\* free neighbours.
LEMMA UmSays == UmInv => Partition /\ Coalesced
  <1> SUFFICES ASSUME UmInv PROVE Partition /\ Coalesced
    OBVIOUS
  <1> DEFINE U == DOMAIN owned
  <1>1. CASE heap.freep = NULL
    <2>1. heap.brk = 1 /\ FreeList = {}
      BY <1>1 DEF UmInv, FreeList
    <2>2. \A u \in 1..(heap.brk - 1) : FALSE
      BY <2>1
    <2> QED
      BY <2>1, <2>2 DEF UmInv, Partition, Coalesced
  <1>2. CASE heap.freep # NULL
    <2>1. PICK Fr : Good(heap, Fr, U)
      BY <1>2 DEF UmInv, Started
    <2> DEFINE L == Fr \ {base}
               B == L \cup U
    <2>2. FreeList = L
      BY <1>2, <2>1, RingIs DEF FreeList
    <2>3. /\ \A a \in B : a \in Int /\ heap.size[a] \in Int
          /\ \A a \in U : a \notin Fr
      BY <2>1, GoodFacts
    <2>4. /\ \A a, b \in B : a < b => EndAt(heap, a) <= b
          /\ \A u \in 1..(heap.brk - 1) : \E a \in B : a <= u /\ u < EndAt(heap, a)
          /\ \A a, b \in L : EndAt(heap, a) # b
      BY <2>1 DEF Good, Tiled, Apart
    <2>5. Coalesced
      BY <2>2, <2>4 DEF Coalesced, EndAt
    <2>6. \A a \in U : heap.size[a] = owned[a]
      BY DEF UmInv
    <2>7. ASSUME NEW u \in 1..(heap.brk - 1)
          PROVE  Cardinality({a \in L : u \in Range_(a, heap.size[a])})
                 + Cardinality({a \in U : u \in Range_(a, owned[a])}) = 1
      <3> DEFINE X == {a \in L : u \in Range_(a, heap.size[a])}
                 Y == {a \in U : u \in Range_(a, owned[a])}
      <3> SUFFICES Cardinality(X) + Cardinality(Y) = 1
        OBVIOUS
      <3>1. u \in Int
        OBVIOUS
      <3>2. ASSUME NEW a \in B
            PROVE  u \in Range_(a, heap.size[a]) <=> a <= u /\ u < EndAt(heap, a)
        <4>1. a \in Int /\ heap.size[a] \in Int
          BY <2>3
        <4> QED
          BY <3>1, <4>1 DEF Range_, EndAt
      <3>3. PICK a \in B : a <= u /\ u < EndAt(heap, a)
        BY <2>4
      <3>4. ASSUME NEW b \in B, b <= u, u < EndAt(heap, b) PROVE b = a
        <4>1. a \in Int /\ b \in Int /\ EndAt(heap, a) \in Int /\ EndAt(heap, b) \in Int
          BY <2>3 DEF EndAt
        <4>2. (a < b => EndAt(heap, a) <= b) /\ (b < a => EndAt(heap, b) <= a)
          BY <2>4
        <4> QED
          BY <3>1, <3>3, <3>4, <4>1, <4>2
      <3>5. \A b \in X \cup Y : b = a
        BY <2>6, <3>2, <3>4
      <3>6. Cardinality({}) = 0 /\ Cardinality({a}) = 1
        BY FS_EmptySet, FS_Singleton
      <3>7. CASE a \in L
        <4>1. X = {a} /\ Y = {}
          <5>1. a \in X /\ a \notin Y
            BY <2>3, <3>2, <3>3, <3>7
          <5> HIDE DEF X, Y
          <5> QED
            BY <3>5, <5>1
        <4> HIDE DEF X, Y
        <4> QED
          BY <3>6, <4>1
      <3>8. CASE a \in U
        <4>1. X = {} /\ Y = {a}
          <5>1. a \notin X /\ a \in Y
            BY <2>3, <2>6, <3>2, <3>3, <3>8
          <5> HIDE DEF X, Y
          <5> QED
            BY <3>5, <5>1
        <4> HIDE DEF X, Y
        <4> QED
          BY <3>6, <4>1
      <3> QED
        BY <3>7, <3>8
    <2> QED
      BY <2>2, <2>5, <2>6, <2>7 DEF Partition
  <1> QED
    BY <1>1, <1>2

\* malloc() and free() of umalloc.c: every unit below the break is in exactly
\* one block, and no two free blocks touch.
THEOREM UmHeapRight == UmSpec => []UmHeap
  <1>1. UmInit => UmInv
    BY UmInitially
  <1>2. UmInv /\ [UmNext]_umvars => UmInv'
    BY UmStep
  <1>3. UmInv => UmHeap
    BY UmSays DEF UmHeap
  <1> QED
    BY <1>1, <1>2, <1>3, PTL DEF UmSpec

-----------------------------------------------------------------------------
(* The properties of Parts.                                                *)

\* The console's ring implements a line discipline, and an end of file is
\* seen by one read.
THEOREM ConsoleDisciplined == ConSpec => ConsoleLineByLine
  BY ConsoleRefines DEF ConsoleLineByLine

\* No reader of the console sleeps over a line, keys do not get mixed up, and
\* the screen shows the end of what was put out.
THEOREM TerminalRight == ConSpec /\ KbdSpec /\ ScrSpec => []Terminal
  <1>1. ReaderAwake /\ KeysMeanWhatTheySay /\ ShowsTheEnd => Terminal
    BY DEF Terminal
  <1> QED
    BY <1>1, ReadersAwake, KeysRight, ScreenRight, PTL

\* Directories have one entry for a name, and arguments of system calls lie
\* in the memory of the process.
THEOREM NamesAndArgumentsRight == NamesSpec /\ ArgsSpec => []NamesAndArguments
  <1>1. OneEntryPerName /\ Inside => NamesAndArguments
    BY DEF NamesAndArguments
  <1>2. ArgsSpec => []Inside
    BY ArgumentsInside, LayoutAssumption
  <1> QED
    BY <1>1, <1>2, NamesRight, PTL
=============================================================================
