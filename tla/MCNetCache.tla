----------------------------- MODULE MCNetCache -----------------------------
(* The ticker and two overlapping refreshes. *)
EXTENDS NetCache
CONSTANTS ticker, r1, r2
Three == {ticker, r1, r2}
Two == {ticker, r1}
=============================================================================
