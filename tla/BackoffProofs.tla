---------------------------- MODULE BackoffProofs ----------------------------
(* The backoff of the supervisor for every number of failures, and every     *)
(* SLEEP_ON_ERROR of at most 1099 seconds.                                   *)
EXTENDS Backoff, TLAPS

\* The powers of two that calcBackoff uses on the bits it looks at.
LEMMA SmallPowers ==
  /\ Pow(0) = 1 /\ Pow(1) = 2 /\ Pow(2) = 4 /\ Pow(3) = 8 /\ Pow(4) = 16
  /\ Pow(5) = 32 /\ Pow(6) = 64 /\ Pow(7) = 128 /\ Pow(8) = 256
  /\ Pow(9) = 512 /\ Pow(10) = 1024 /\ Pow(11) = 2048 /\ Pow(12) = 4096
  /\ Pow(13) = 8192 /\ Pow(14) = 16384 /\ Pow(15) = 32768
BY DEF Pow

LEMMA LargePowers ==
  /\ Pow(16) = 65536 /\ Pow(17) = 131072 /\ Pow(18) = 262144
  /\ Pow(19) = 524288 /\ Pow(20) = 1048576 /\ Pow(21) = 2097152
  /\ Pow(22) = 4194304 /\ Pow(23) = 8388608 /\ Pow(24) = 16777216
  /\ Pow(25) = 33554432 /\ Pow(26) = 67108864 /\ Pow(27) = 134217728
  /\ Pow(28) = 268435456 /\ Pow(29) = 536870912 /\ Pow(30) = 1073741824
BY DEF Pow

\* Each power is positive, and twice the one before.
LEMMA Powers ==
  ASSUME NEW k \in 0 .. 30
  PROVE  /\ Pow(k) \in Nat /\ Pow(k) > 0
         /\ k < 30 => Pow(k + 1) = 2 * Pow(k)
<1>1. CASE k < 15
  <2>1. \/ k = 0 \/ k = 1 \/ k = 2 \/ k = 3 \/ k = 4 \/ k = 5 \/ k = 6 \/ k = 7
        \/ k = 8 \/ k = 9 \/ k = 10 \/ k = 11 \/ k = 12 \/ k = 13 \/ k = 14
    BY <1>1
  <2> QED
    BY <2>1, SmallPowers
<1>2. CASE k >= 15
  <2>1. \/ k = 15 \/ k = 16 \/ k = 17 \/ k = 18 \/ k = 19 \/ k = 20 \/ k = 21
        \/ k = 22 \/ k = 23 \/ k = 24 \/ k = 25 \/ k = 26 \/ k = 27 \/ k = 28
        \/ k = 29 \/ k = 30
    BY <1>2
  <2> QED
    BY <2>1, SmallPowers, LargePowers
<1> QED
  BY <1>1, <1>2

\* A base is a whole number of seconds, up to 1099.
IsBase(b) == \E n \in 1 .. 1099 : b = n * Second

LEMMA BaseOf ==
  ASSUME NEW s \in Sleeps
  PROVE  IsBase(Base(s))
<1>1. s \in Int /\ s < 1100
  BY BackoffAssumption
<1>2. CASE s <= 0
  BY <1>1, <1>2 DEF Base, IsBase
<1>3. CASE s > 0
  BY <1>1, <1>3 DEF Base, IsBase
<1> QED
  BY <1>1, <1>2, <1>3

\* No base leaves a small residue that could pass for a short sleep once its
\* high bits are shifted out: modulo 2^26 it is zero or more than 17 units, since
\* a second is odd and has an inverse there.
LEMMA NoSmallRest ==
  ASSUME NEW b, IsBase(b), NEW q \in Int, NEW r \in 1 .. 17
  PROVE  b # q * Pow(26) + r
<1>1. PICK n \in 1 .. 1099 : b = n * 1953125
  BY DEF IsBase, Second
<1>2. SUFFICES ASSUME n * 1953125 = q * 67108864 + r PROVE FALSE
  BY <1>1, LargePowers
<1> DEFINE z == q * 36609133 - n * 1065466
<1>3. z \in Int /\ n = r * 36609133 + z * 67108864
  <2>1. 1953125 * 36609133 = 1065466 * 67108864 + 1
    OBVIOUS
  <2> QED
    BY <1>2, <2>1
<1> HIDE DEF z
<1>4. \/ z = 0 \/ z = -1 \/ z = -2 \/ z = -3 \/ z = -4 \/ z = -5 \/ z = -6
      \/ z = -7 \/ z = -8 \/ z = -9
  BY <1>3
<1> QED
  BY <1>3, <1>4

\* The comparison with the cap before the shift is the one after it.
LEMMA Compare ==
  ASSUME NEW b \in Nat, NEW c \in Nat, NEW p \in Nat, p > 0
  PROVE  b > c \div p <=> b * p > c
OBVIOUS

-----------------------------------------------------------------------------
(* What calcBackoff returns. *)

\* The backoff without a machine word: the base, doubled k times, at most Cap.
Doubled(b, k) == IF k < 24 /\ b * Pow(k) <= Cap THEN b * Pow(k) ELSE Cap

Capped(b, k) == NotPositive(b, k) \/ AboveCap(b, k)

\* A base is a number of units, and 24 doublings take it beyond the cap.
LEMMA BaseNumber ==
  ASSUME NEW b, IsBase(b)
  PROVE  b \in Nat /\ b >= Second /\ b < 2147483648
BY DEF IsBase, Second

\* Nothing is shifted out.
LEMMA ShortShift ==
  ASSUME NEW b, IsBase(b), NEW k \in 0 .. 23
  PROVE  IF Capped(b, k) THEN Doubled(b, k) = Cap
         ELSE Kept(b, k) * Pow(k) = Doubled(b, k)
<1>1. b \in Nat /\ b >= Second
  BY BaseNumber
<1>2. Pow(k) \in Nat /\ Pow(k) > 0
  BY Powers
<1>3. Kept(b, k) = b
  BY DEF Kept, WordBits
<1>4. ~NotPositive(b, k)
  BY <1>1, <1>3 DEF NotPositive, Second
<1>5. AboveCap(b, k) <=> b > Cap \div Pow(k)
  BY <1>3 DEF AboveCap
<1>6. Cap \in Nat
  BY DEF Cap, Second
<1>7. AboveCap(b, k) <=> b * Pow(k) > Cap
  BY <1>1, <1>2, <1>5, <1>6, Compare
<1>8. b * Pow(k) \in Nat
  BY <1>1, <1>2
<1> QED
  BY <1>3, <1>4, <1>6, <1>7, <1>8 DEF Capped, Doubled

\* The bits that a long shift leaves are negative, zero, or above the cap.
LEMMA LongShift ==
  ASSUME NEW b, IsBase(b), NEW k \in Nat, k >= 24
  PROVE  Capped(b, k)
<1>1. b \in Nat /\ b >= Second
  BY BaseNumber
<1>2. CASE k = 24
  <2>1. Kept(b, k) = b
    BY <1>2 DEF Kept, WordBits
  <2>2. Cap \div Pow(k) < b
    BY <1>1, <1>2, LargePowers DEF Cap, Second
  <2> QED
    BY <1>2, <2>1, <2>2 DEF Capped, AboveCap
<1>3. CASE k \in 25 .. 29
  <2>1. Kept(b, k) = b % Pow(55 - k)
    BY <1>3 DEF Kept, WordBits
  <2>2. PICK m \in {1, 2, 4, 8, 16} : Pow(55 - k) = m * Pow(26)
    <3>1. k = 25 \/ k = 26 \/ k = 27 \/ k = 28 \/ k = 29
      BY <1>3
    <3> QED
      BY <3>1, LargePowers
  <2>3. Kept(b, k) \in Nat
    BY <1>1, <2>1, <2>2, LargePowers
  <2>4. PICK d \in Int : b = d * (m * Pow(26)) + Kept(b, k)
    <3>1. m * Pow(26) \in Nat /\ m * Pow(26) > 0
      BY <2>2, LargePowers
    <3>2. \A p \in Nat : p > 0 => /\ b \div p \in Int
                              /\ b = (b \div p) * p + (b % p)
      BY <1>1
    <3> QED
      BY <2>1, <2>2, <3>1, <3>2
  <2>5. d * m \in Int /\ d * (m * Pow(26)) = (d * m) * Pow(26)
    BY <2>2, LargePowers
  <2>6. Kept(b, k) \notin 1 .. 17
    BY <2>4, <2>5, NoSmallRest
  <2>7. Cap \div Pow(k) <= 17
    <3>1. k = 25 \/ k = 26 \/ k = 27 \/ k = 28 \/ k = 29
      BY <1>3
    <3> QED
      BY <3>1, LargePowers DEF Cap, Second
  <2>8. Cap \div Pow(k) \in Int
    <3>1. Pow(k) \in Nat /\ Pow(k) > 0
      BY <1>3, Powers
    <3> QED
      BY <3>1 DEF Cap, Second
  <2> QED
    BY <1>3, <2>3, <2>6, <2>7, <2>8 DEF Capped, NotPositive, AboveCap
<1>4. CASE k \in 30 .. 54
  <2>1. Kept(b, k) = b % Pow(55 - k)
    BY <1>4 DEF Kept, WordBits
  <2>2. Pow(55 - k) \in Nat /\ Pow(55 - k) > 0
    <3>1. 55 - k \in 0 .. 30
      BY <1>4
    <3> QED
      BY <3>1, Powers
  <2>3. Kept(b, k) \in Nat
    BY <1>1, <2>1, <2>2
  <2> QED
    BY <1>4, <2>3 DEF Capped, NotPositive, AboveCap
<1>5. CASE k > 54
  BY <1>5 DEF Kept, WordBits, Capped, NotPositive
<1> QED
  BY <1>2, <1>3, <1>4, <1>5

\* The machine's word never shows.
LEMMA Value ==
  ASSUME NEW s \in Sleeps, NEW f \in Nat, f > 0
  PROVE  calcBackoff(s, f) = Doubled(Base(s), f - 1)
<1>1. IsBase(Base(s))
  BY BaseOf
<1>2. CASE f - 1 < 24
  <2>1. f - 1 \in 0 .. 23
    BY <1>2
  <2> QED
    BY <1>1, <2>1, ShortShift DEF calcBackoff, Capped
<1>3. CASE f - 1 >= 24
  <2>1. f - 1 \in Nat
    OBVIOUS
  <2> QED
    BY <1>1, <1>3, <2>1, LongShift DEF calcBackoff, Capped, Doubled
<1> QED
  BY <1>2, <1>3

\* The smaller of two numbers.
LEMMA Smaller ==
  ASSUME NEW x \in Nat, NEW y \in Nat
  PROVE  Min({x, y}) = IF x <= y THEN x ELSE y
<1> DEFINE m == IF x <= y THEN x ELSE y
           S == {x, y}
<1>1. m \in S /\ \A z \in S : m <= z
  OBVIOUS
<1>2. \A z \in S : (\A u \in S : z <= u) => z = m
  OBVIOUS
<1>3. Min(S) = m
  <2> HIDE DEF S, m
  <2> QED
    BY <1>1, <1>2 DEF Min
<1> QED
  BY <1>3

\* calcBackoff is never negative, never more than the cap, and zero only
\* without a failure: a tunnel that fails is never restarted at once, and never
\* left alone for more than five minutes (controller.go:261-274).
THEOREM NoTightLoop ==
  ASSUME NEW s \in Sleeps, NEW f \in Nat, f > 0
  PROVE  calcBackoff(s, f) \in 1 .. Cap
<1>1. Base(s) \in Nat /\ Base(s) >= Second
  BY BaseOf, BaseNumber
<1>2. Cap \in Nat /\ Cap > 0
  BY DEF Cap, Second
<1>3. CASE f - 1 < 24
  <2>1. Pow(f - 1) \in Nat /\ Pow(f - 1) > 0
    <3>1. f - 1 \in 0 .. 30
      BY <1>3
    <3> QED
      BY <3>1, Powers
  <2>2. Base(s) * Pow(f - 1) \in Nat /\ Base(s) * Pow(f - 1) > 0
    BY <1>1, <2>1 DEF Second
  <2> QED
    BY <1>2, <2>2, Value DEF Doubled
<1>4. CASE f - 1 >= 24
  BY <1>2, <1>4, Value DEF Doubled
<1> QED
  BY <1>3, <1>4

\* Each failure doubles the backoff up to the cap, for any number of failures:
\* the sequence the comment gives never breaks, although the shift overflows
\* (controller.go:260-274).
THEOREM Documented == BackoffAsDocumented
<1>1. Cap \in Nat /\ Cap > 0
  BY DEF Cap, Second
<1> SUFFICES ASSUME NEW s \in Sleeps
    PROVE  /\ calcBackoff(s, 0) = 0
           /\ calcBackoff(s, 1) = Min({Base(s), Cap})
           /\ \A f \in Failures :
                calcBackoff(s, f + 1) = Min({2 * calcBackoff(s, f), Cap})
  BY DEF BackoffAsDocumented
<1> DEFINE b == Base(s)
<1>2. b \in Nat /\ b >= Second
  BY BaseOf, BaseNumber
<1>3. calcBackoff(s, 0) = 0
  BY DEF calcBackoff
<1>4. calcBackoff(s, 1) = Min({b, Cap})
  <2>1. calcBackoff(s, 1) = Doubled(b, 0)
    BY Value
  <2>2. Min({b, Cap}) = IF b <= Cap THEN b ELSE Cap
    BY <1>1, <1>2, Smaller
  <2> QED
    BY <1>2, <2>1, <2>2, SmallPowers DEF Doubled
<1>5. ASSUME NEW f \in Failures
      PROVE  calcBackoff(s, f + 1) = Min({2 * calcBackoff(s, f), Cap})
  <2>1. f \in Nat /\ f > 0
    BY BackoffAssumption
  <2> DEFINE k == f - 1
             c == Doubled(b, k)
  <2>2. k \in Nat /\ k + 1 = (f + 1) - 1
    BY <2>1
  <2>3. calcBackoff(s, f) = c /\ calcBackoff(s, f + 1) = Doubled(b, k + 1)
    BY <2>1, <2>2, Value
  <2>4. c \in Nat
    BY <1>1, <2>1, <2>3, NoTightLoop
  <2>5. Min({2 * c, Cap}) = IF 2 * c <= Cap THEN 2 * c ELSE Cap
    <3>1. 2 * c \in Nat
      BY <2>4
    <3> QED
      BY <1>1, <3>1, Smaller
  <2>6. Doubled(b, k + 1) = IF 2 * c <= Cap THEN 2 * c ELSE Cap
    <3>1. CASE k < 24
      <4>1. /\ Pow(k) \in Nat /\ Pow(k) > 0
            /\ Pow(k + 1) = 2 * Pow(k)
        <5>1. k \in 0 .. 30
          BY <2>1, <3>1
        <5> QED
          BY <3>1, <5>1, Powers
      <4>2. b * Pow(k + 1) = 2 * (b * Pow(k)) /\ b * Pow(k) \in Nat
        BY <1>2, <4>1
      <4>3. k = 23 => b * Pow(k) > Cap
        BY <1>2, LargePowers DEF Cap, Second
      <4> QED
        BY <1>1, <2>1, <3>1, <4>2, <4>3 DEF Doubled
    <3>2. CASE k >= 24
      BY <1>1, <2>2, <3>2 DEF Doubled
    <3> QED
      BY <2>2, <3>1, <3>2
  <2> QED
    BY <2>3, <2>5, <2>6
<1> QED
  BY <1>3, <1>4, <1>5
=============================================================================
