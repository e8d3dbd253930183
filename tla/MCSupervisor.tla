---------------------------- MODULE MCSupervisor ----------------------------
(* Small instances of Supervisor for TLC.  The .cfg files give the constants *)
(* their values; the slots of Pid are interchangeable, and so are providers. *)
EXTENDS Supervisor, Backoff, TLC

CONSTANTS p1, p2, prA, prB

TwoSlots == {p1, p2}
TwoProviders == {prA, prB}
OneProvider == {prA}

OnlyDefinitive == {"definitive"}
Silent == {}

\* Unset, the default, an odd number, more than the cap, nearly 31 bits.
SomeSleeps == {0, 5, 7, 301, 1024}
ManyFailures == 1 .. 66

Interchangeable == Permutations(TwoSlots) \cup Permutations(TwoProviders)
=============================================================================
