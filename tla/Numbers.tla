------------------------------ MODULE Numbers ------------------------------
(***************************************************************************)
(* Facts about numbers that several proofs need.  Induction over sets: the *)
(* induction theorems of the library take a predicate, these take the set  *)
(* of the numbers that satisfy it.  Remainders: counters that wrap around, *)
(* and the positions in a ring that they stand for.                        *)
(***************************************************************************)
EXTENDS Integers, WellFoundedInduction, TLAPS

\* Every nonempty set of natural numbers has a least element.
LEMMA LeastNumber ==
  ASSUME NEW T, T \subseteq Nat, T # {}
  PROVE  \E n \in T : \A m \in T : n <= m
  <1>1. PICK n \in T : \A m \in T : ~(<<m, n>> \in OpToRel(<, Nat))
    BY NatLessThanWellFounded, WFMin
  <1>2. ASSUME NEW m \in T PROVE n <= m
    <2>1. ~(<<m, n>> \in {ss \in Nat \X Nat : ss[1] < ss[2]})
      BY <1>1 DEF OpToRel
    <2> QED
      BY <2>1
  <1> QED
    BY <1>2

\* A set that holds 0 and is closed under successor up to N holds 0..N.
LEMMA UpTo ==
  ASSUME NEW N \in Nat, NEW T, 0 \in T,
         \A n \in 0..(N - 1) : n \in T => n + 1 \in T
  PROVE  0..N \subseteq T
  <1> SUFFICES ASSUME ~(0..N \subseteq T) PROVE FALSE
    OBVIOUS
  <1> DEFINE Out == (0..N) \ T
  <1>1. Out \subseteq Nat /\ Out # {}
    OBVIOUS
  <1>2. PICK n \in Out : \A m \in Out : n <= m
    BY <1>1, LeastNumber, Zenon
  <1>3. n # 0 /\ n - 1 \in 0..(N - 1)
    BY <1>2
  <1>4. n - 1 \in T
    BY <1>2, <1>3
  <1>5. (n - 1) + 1 = n
    BY <1>3
  <1> QED
    BY <1>3, <1>4, <1>5

-----------------------------------------------------------------------------
(* Arithmetic: counters modulo W and ring positions modulo n.              *)

\* Every integer is a multiple of n plus its remainder.
LEMMA DivMod ==
  ASSUME NEW a \in Int, NEW n \in Nat \ {0}
  PROVE  \E k \in Int : a = n * k + (a % n)
  <1>1. a = n * (a \div n) + (a % n) /\ a \div n \in Int
    OBVIOUS
  <1> QED
    BY <1>1

\* The remainder is determined by that equation.
LEMMA ModUnique ==
  ASSUME NEW a \in Int, NEW n \in Nat \ {0}, NEW k \in Int,
         NEW r \in 0..(n - 1), a = n * k + r
  PROVE  a % n = r
  OBVIOUS

\* Multiples of n do not change a remainder.
LEMMA ModShift ==
  ASSUME NEW a \in Int, NEW n \in Nat \ {0}, NEW k \in Int
  PROVE  (a + n * k) % n = a % n
  <1>1. PICK j \in Int : a = n * j + (a % n)
    BY DivMod
  <1>2. a % n \in 0..(n - 1)
    OBVIOUS
  <1>3. /\ a + n * k = n * (j + k) + (a % n)
        /\ a + n * k \in Int /\ j + k \in Int
    BY <1>1, <1>2
  <1> QED
    BY <1>2, <1>3, ModUnique, Zenon

\* The only multiple of n below n is zero.
LEMMA SmallMultiple ==
  ASSUME NEW n \in Nat \ {0}, NEW d \in Int, 0 <= n * d, n * d < n
  PROVE  d = 0
  OBVIOUS

\* The positions of a window of n consecutive counter values are distinct.
LEMMA Window ==
  ASSUME NEW n \in Nat \ {0}, NEW a \in Int, NEW b \in a..(a + n - 1),
         a % n = b % n
  PROVE  a = b
  <1>1. PICK j \in Int : a = n * j + (a % n)
    BY DivMod
  <1>2. b \in Int
    OBVIOUS
  <1>3. PICK k \in Int : b = n * k + (b % n)
    BY <1>2, DivMod, Zenon
  <1>4. a % n \in 0..(n - 1)
    OBVIOUS
  <1>5. b - a = n * (k - j)
    BY <1>1, <1>3, <1>4
  <1>6. k - j = 0
    BY <1>5, SmallMultiple
  <1> QED
    BY <1>5, <1>6

\* When n divides W, reducing a counter modulo W does not move positions.
LEMMA SamePosition ==
  ASSUME NEW n \in Nat \ {0}, NEW W \in Nat \ {0}, W % n = 0,
         NEW a \in Int, NEW x \in Int
  PROVE  ((a % W) + x) % n = (a + x) % n
  <1>1. PICK j \in Int : a = W * j + (a % W)
    BY DivMod
  <1>2. W \in Int
    OBVIOUS
  <1>3. PICK m \in Int : W = n * m + (W % n)
    BY <1>2, DivMod, Zenon
  <1>4. (a % W) + x \in Int /\ m * j \in Int /\ a % W \in Int
    OBVIOUS
  <1>5. a + x = ((a % W) + x) + n * (m * j)
    <2>1. W = n * m
      BY <1>3
    <2>a. W * j = n * (m * j)
      BY <1>2, <2>1
    <2>2. n * (m * j) \in Int
      BY <1>4
    <2>b. a = (a % W) + n * (m * j)
      <3>1. a = n * (m * j) + (a % W)
        BY <1>1, <2>a, Zenon
      <3> HIDE <1>1, <1>3, <2>1, <2>a
      <3> QED
        BY <1>4, <2>2, <3>1
    <2> QED
      BY <1>4, <2>b, <2>2
  <1>6. (((a % W) + x) + n * (m * j)) % n = ((a % W) + x) % n
    BY <1>4, ModShift, ZenonT(40)
  <1> QED
    BY <1>5, <1>6, Zenon

\* Counter values less than n apart have different positions.
LEMMA DistinctPositions ==
  ASSUME NEW n \in Nat \ {0}, NEW a \in Int, NEW b \in Int,
         a - b < n, b - a < n, a % n = b % n
  PROVE  a = b
  <1>1. CASE a <= b
    <2>1. b \in a..(a + n - 1)
      BY <1>1
    <2> QED
      BY <2>1, Window
  <1>2. CASE b < a
    <2>1. a \in b..(b + n - 1)
      BY <1>2
    <2> QED
      BY <2>1, Window
  <1> QED
    BY <1>1, <1>2

\* One step around the counter's range.
LEMMA ModStep ==
  ASSUME NEW W \in Nat \ {0}, NEW a \in (-W)..(2 * W - 1)
  PROVE  a % W = IF a < 0 THEN a + W ELSE IF a < W THEN a ELSE a - W
  <1>1. CASE a < 0
    <2>1. a = W * (-1) + (a + W) /\ a + W \in 0..(W - 1) /\ a \in Int
      BY <1>1
    <2> QED
      BY <1>1, <2>1, ModUnique
  <1>2. CASE a \in 0..(W - 1)
    <2>1. a = W * 0 + a /\ a \in Int
      BY <1>2
    <2> QED
      BY <1>2, <2>1, ModUnique
  <1>3. CASE a >= W
    <2>1. a = W * 1 + (a - W) /\ a - W \in 0..(W - 1) /\ a \in Int
      BY <1>3
    <2> QED
      BY <1>3, <2>1, ModUnique
  <1> QED
    BY <1>1, <1>2, <1>3

\* The distance of two counters in the range.
LEMMA Gap ==
  ASSUME NEW W \in Nat \ {0}, NEW r \in 0..(W - 1), NEW w \in 0..(W - 1)
  PROVE  (w - r) % W = IF w < r THEN w - r + W ELSE w - r
  <1>1. w - r \in (-W)..(2 * W - 1)
    OBVIOUS
  <1>2. (w - r) % W = IF w - r < 0 THEN w - r + W
                      ELSE IF w - r < W THEN w - r ELSE w - r - W
    BY <1>1, ModStep, Zenon
  <1> QED
    BY <1>2

\* A counter in the range, moved on.
LEMMA MovedOn ==
  ASSUME NEW W \in Nat \ {0}, NEW w \in 0..(W - 1), NEW k \in 0..(W - 1)
  PROVE  (w + k) % W = IF w + k < W THEN w + k ELSE w + k - W
  <1>1. w + k \in (-W)..(2 * W - 1)
    OBVIOUS
  <1>2. (w + k) % W = IF w + k < 0 THEN w + k + W
                      ELSE IF w + k < W THEN w + k ELSE (w + k) - W
    BY <1>1, ModStep, Zenon
  <1> QED
    BY <1>2

\* The distance of two counters leads from one to the other.
LEMMA Distance ==
  ASSUME NEW W \in Nat \ {0}, NEW r \in 0..(W - 1), NEW w \in 0..(W - 1)
  PROVE  (r + ((w - r) % W)) % W = w
  <1> DEFINE c == (w - r) % W
  <1>1. c = IF w < r THEN w - r + W ELSE w - r
    BY Gap
  <1>2. c \in 0..(W - 1)
    BY <1>1
  <1>3. (r + c) % W = IF r + c < W THEN r + c ELSE r + c - W
    BY <1>2, MovedOn, Zenon
  <1> QED
    BY <1>1, <1>2, <1>3

\* No other distance leads there.
LEMMA DistanceUnique ==
  ASSUME NEW W \in Nat \ {0}, NEW r \in 0..(W - 1), NEW s \in 0..(W - 1)
  PROVE  (((r + s) % W) - r) % W = s
  <1> DEFINE w == (r + s) % W
  <1>1. w = IF r + s < W THEN r + s ELSE r + s - W
    BY MovedOn
  <1>2. w \in 0..(W - 1)
    BY <1>1
  <1>3. (w - r) % W = IF w < r THEN w - r + W ELSE w - r
    BY <1>2, Gap, Zenon
  <1> QED
    BY <1>1, <1>2, <1>3

\* Moving the counter that is ahead moves the distance with it, unless it
\* laps the other.
LEMMA Ahead ==
  ASSUME NEW W \in Nat \ {0}, NEW r \in 0..(W - 1), NEW w \in 0..(W - 1),
         NEW k \in Nat, ((w - r) % W) + k < W
  PROVE  /\ (w + k) % W \in 0..(W - 1)
         /\ (((w + k) % W) - r) % W = ((w - r) % W) + k
  <1> DEFINE v == (w + k) % W
  <1>1. (w - r) % W = IF w < r THEN w - r + W ELSE w - r
    BY Gap
  <1>2. k \in 0..(W - 1)
    BY <1>1
  <1>3. v = IF w + k < W THEN w + k ELSE w + k - W
    BY <1>2, MovedOn, Zenon
  <1>4. v \in 0..(W - 1)
    BY <1>2, <1>3
  <1>5. (v - r) % W = IF v < r THEN v - r + W ELSE v - r
    BY <1>4, Gap, Zenon
  <1> QED
    BY <1>1, <1>3, <1>4, <1>5

\* Moving the counter that is behind brings the two together.
LEMMA Behind ==
  ASSUME NEW W \in Nat \ {0}, NEW r \in 0..(W - 1), NEW w \in 0..(W - 1),
         NEW k \in 0..((w - r) % W)
  PROVE  /\ (r + k) % W \in 0..(W - 1)
         /\ (w - ((r + k) % W)) % W = ((w - r) % W) - k
  <1> DEFINE s == (r + k) % W
  <1>1. (w - r) % W = IF w < r THEN w - r + W ELSE w - r
    BY Gap
  <1>2. k \in 0..(W - 1)
    BY <1>1
  <1>3. s = IF r + k < W THEN r + k ELSE r + k - W
    BY <1>2, MovedOn, Zenon
  <1>4. s \in 0..(W - 1)
    BY <1>2, <1>3
  <1>5. (w - s) % W = IF w < s THEN w - s + W ELSE w - s
    BY <1>4, Gap, Zenon
  <1> QED
    BY <1>1, <1>3, <1>4, <1>5
=============================================================================
