------------------------------ MODULE Backoff ------------------------------
(***************************************************************************)
(* calcBackoff of internal/controller/controller.go: how long the loop     *)
(* sleeps after a number of failures, an int64 of nanoseconds shifted left.*)
(*                                                                         *)
(* A second is 1953125 * 512 ns, so a Duration that is a whole number of   *)
(* seconds shifted left is a multiple of 512 ns.  calcBackoff is computed  *)
(* in that unit: a 64-bit word of nanoseconds is then a word of 55 bits.   *)
(* base << shift keeps the low 55 - shift bits of base, and is negative    *)
(* when the highest bit it keeps is set.                                   *)
(***************************************************************************)
EXTENDS Integers, FiniteSetsExt

CONSTANTS
  Sleeps,   \* values of SLEEP_ON_ERROR, in seconds
  Failures  \* counts of failures

\* Up to 1099 seconds a base has 31 bits, TLC's integers.
ASSUME BackoffAssumption ==
  /\ \A s \in Sleeps : s \in Int /\ s < 1100
  /\ \A f \in Failures : f \in Nat /\ f > 0

Second == 1953125
Cap == 300 * Second
WordBits == 55

Pow(k) == 2 ^ k

\* The bits of base that a shift by k leaves in the word (a base of less than
\* 2^31 fits whole while k <= 24).
Kept(base, k) ==
  CASE k >= WordBits -> 0
    [] k < 25        -> base
    [] OTHER         -> base % Pow(WordBits - k)

\* d <= 0 and d > 5*time.Minute for d = base << k.
NotPositive(base, k) ==
  \/ Kept(base, k) = 0
  \/ k >= 24 /\ Kept(base, k) >= Pow(WordBits - 1 - k)

AboveCap(base, k) ==
  Kept(base, k) > (IF k < 30 THEN Cap \div Pow(k) ELSE 0)

\* SleepOnError; zero or less means 5.
Base(sleepOnError) == (IF sleepOnError <= 0 THEN 5 ELSE sleepOnError) * Second

\* Mutant: the sign is not looked at.
calcBackoffUnsigned(sleepOnError, failures) ==
  LET base == Base(sleepOnError)
      k == failures - 1
  IN  IF failures = 0 \/ NotPositive(base, k) THEN 0
      ELSE IF AboveCap(base, k) THEN Cap
      ELSE Kept(base, k) * Pow(k)

calcBackoff(sleepOnError, failures) ==
  LET base == Base(sleepOnError)
      k == failures - 1
  IN  IF failures = 0 THEN 0
      ELSE IF NotPositive(base, k) \/ AboveCap(base, k) THEN Cap
      ELSE Kept(base, k) * Pow(k)

\* "5s, 10s, 20s, 40s, 80s, 160s, 300s(cap)" (controller.go:260): each failure
\* doubles the backoff, up to the cap.  The shift that overflows an int64 never
\* shows; a sleep of zero or less would restart the tunnel in a tight loop
\* (controller.go:261-274).
BackoffAsDocumented ==
  \A s \in Sleeps :
    /\ calcBackoff(s, 0) = 0
    /\ calcBackoff(s, 1) = Min({Base(s), Cap})
    /\ \A f \in Failures :
         calcBackoff(s, f + 1) = Min({2 * calcBackoff(s, f), Cap})
=============================================================================
