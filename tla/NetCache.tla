------------------------------ MODULE NetCache ------------------------------
(***************************************************************************)
(* The diagnostics cache: internal/controller/netcache.go.                 *)
(*                                                                         *)
(* refresh reads sing-box's status, measures the delay and only then       *)
(* stores what it read, without a lock.  The background goroutine runs it  *)
(* every 30s, SetRoute starts one in a goroutine of its own, and the       *)
(* guardian runs one after a demotion, so refreshes overlap and may store  *)
(* in another order than they read.                                        *)
(*                                                                         *)
(* PingDNS is a wait before the status is read; the RTT is whether one was *)
(* measured.                                                               *)
(***************************************************************************)
CONSTANTS
  Ticker,      \* the background goroutine
  Refresher,   \* it and the goroutines of SetRoute and of the guardian
  NoSnapshot,  \* the nil pointer
  Drift,       \* does sing-box change without a refresh that follows it?
  StatusFaults \* can Status misreport a sing-box that is up?

ASSUME NetCacheAssumption ==
  /\ Ticker \in Refresher
  /\ NoSnapshot \notin [sbAlive : BOOLEAN, sbRoute : {"direct", "proxy", ""}, hasRTT : BOOLEAN]
  /\ Drift \in BOOLEAN /\ StatusFaults \in BOOLEAN

VARIABLES
  alive,    \* is sing-box up?
  route,    \* where its selector points
  current,  \* the atomic pointer
  at,       \* at[r]: where refresher r is
  snap,     \* snap[r]: what it has read
  stopped   \* is the stop channel closed (or ctx cancelled)?

vars == <<alive, route, current, at, snap, stopped>>

Modes == {"direct", "proxy"}
Snapshot == [sbAlive : BOOLEAN, sbRoute : Modes \cup {""}, hasRTT : BOOLEAN]

\* An RTT is shown only beside a sing-box that was up.
Honest(s) == s \in Snapshot /\ (s.hasRTT => s.sbAlive)

Init ==
  /\ alive \in BOOLEAN
  /\ route = "direct"
  /\ current = NoSnapshot
  /\ at = [r \in Refresher |-> IF r = Ticker THEN "status" ELSE "idle"]
  /\ snap = [r \in Refresher |-> NoSnapshot]
  /\ stopped = FALSE

-----------------------------------------------------------------------------
(* refresh *)

\* Mutant: the delay is measured whatever Status said.
ReadUnguarded(r, up, mode) ==
  /\ at[r] = "status"
  /\ snap' = [snap EXCEPT ![r] =
       [sbAlive |-> up, sbRoute |-> mode, hasRTT |-> FALSE]]
  /\ at' = [at EXCEPT ![r] = "delay"]
  /\ UNCHANGED <<alive, route, current, stopped>>

\* Status gave an answer; the delay is measured only if it said alive.
Read(r, up, mode) ==
  /\ at[r] = "status"
  /\ snap' = [snap EXCEPT ![r] =
       [sbAlive |-> up, sbRoute |-> mode, hasRTT |-> FALSE]]
  /\ at' = [at EXCEPT ![r] = IF up THEN "delay" ELSE "store"]
  /\ UNCHANGED <<alive, route, current, stopped>>

ReadStatus(r) == Read(r, alive, IF alive THEN route ELSE "")

\* A sing-box that is up did not answer in 2s, or answered what cannot be read.
ReadStatusFault(r) ==
  /\ StatusFaults /\ alive
  /\ Read(r, FALSE, "") \/ Read(r, TRUE, "")

\* DelayTest takes up to 8s, and may fail.
ReadDelay(r) ==
  /\ at[r] = "delay"
  /\ \E ok \in BOOLEAN : snap' = [snap EXCEPT ![r].hasRTT = ok]
  /\ at' = [at EXCEPT ![r] = "store"]
  /\ UNCHANGED <<alive, route, current, stopped>>

\* Mutant: only the first snapshot is stored.
StoreOnce(r) ==
  /\ at[r] = "store"
  /\ current' = IF current = NoSnapshot THEN snap[r] ELSE current
  /\ snap' = [snap EXCEPT ![r] = NoSnapshot]
  /\ at' = [at EXCEPT ![r] = "idle"]
  /\ UNCHANGED <<alive, route, stopped>>

Store(r) ==
  /\ at[r] = "store"
  /\ current' = snap[r]
  /\ snap' = [snap EXCEPT ![r] = NoSnapshot]
  /\ at' = [at EXCEPT ![r] = "idle"]
  /\ UNCHANGED <<alive, route, stopped>>

Refresh(r) == ReadStatus(r) \/ ReadStatusFault(r) \/ ReadDelay(r) \/ Store(r)

-----------------------------------------------------------------------------
(* Who refreshes. *)

Tick ==
  /\ at[Ticker] = "idle"
  /\ at' = [at EXCEPT ![Ticker] = "status"]
  /\ UNCHANGED <<alive, route, current, snap, stopped>>

\* Mutant: the goroutine does not listen to stop.
TickerNeverExits == FALSE /\ UNCHANGED vars

\* Both cases of the select may be ready; this is the one that leaves.
TickerExits ==
  /\ stopped
  /\ at[Ticker] = "idle"
  /\ at' = [at EXCEPT ![Ticker] = "exited"]
  /\ UNCHANGED <<alive, route, current, snap, stopped>>

\* A SetRoute of the user that took effect starts a refresh; the guardian
\* refreshes after a demotion, also after one whose PUT failed.
Switch(r, mode) ==
  /\ r # Ticker /\ at[r] = "idle"
  /\ route' \in IF alive THEN {mode, route} ELSE {route}
  /\ at' = [at EXCEPT ![r] = "status"]
  /\ UNCHANGED <<alive, current, snap, stopped>>

Stop ==
  /\ ~stopped
  /\ stopped' = TRUE
  /\ UNCHANGED <<alive, route, current, at, snap>>

\* sing-box stops or starts, or the supervisor switches the selector.
Change ==
  /\ Drift
  /\ alive' \in BOOLEAN
  /\ route' \in IF alive THEN Modes ELSE {"direct"}
  /\ UNCHANGED <<current, at, snap, stopped>>

Next ==
  \/ \E r \in Refresher : Refresh(r)
  \/ \E r \in Refresher, mode \in Modes : Switch(r, mode)
  \/ Tick \/ TickerExits \/ Stop \/ Change

Spec == Init /\ [][Next]_vars

\* Calls have timeouts, the ticker fires, and a select in which stop is ready
\* time and again takes it in the end.
Fairness ==
  /\ \A r \in Refresher : WF_vars(Refresh(r))
  /\ WF_vars(Tick) /\ SF_vars(TickerExits)

FairSpec == Spec /\ Fairness

-----------------------------------------------------------------------------
(* Properties. *)

Places == {"idle", "status", "delay", "store", "exited"}

\* Every variable keeps its type, and what a refresh holds and what readers see
\* is honest: a delay that answers after Status did not is not taken
\* (netcache.go:94-109).
TypeOK ==
  /\ alive \in BOOLEAN /\ stopped \in BOOLEAN
  /\ route \in Modes
  /\ current = NoSnapshot \/ Honest(current)
  /\ at \in [Refresher -> Places]
  /\ snap \in [Refresher -> Snapshot \cup {NoSnapshot}]
  /\ \A r \in Refresher :
       IF at[r] \in {"delay", "store"} THEN Honest(snap[r]) ELSE snap[r] = NoSnapshot

\* When sing-box stops changing and its answers can be read, the cache comes to
\* show what it is and keeps showing it, whatever refreshes overlapped and
\* failed before (netcache.go:53-78).
EventuallyFresh ==
  \A m \in Modes :
    /\ <>[](alive /\ route = m /\ ~stopped)
    /\ <>[][\A r \in Refresher : ~ReadStatusFault(r)]_vars
    => <>[](current # NoSnapshot /\ current.sbAlive /\ current.sbRoute = m)

\* Stop ends the background goroutine (netcache.go:80-85).
StopEndsTicker == stopped ~> (at[Ticker] = "exited")
=============================================================================
