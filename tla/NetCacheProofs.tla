--------------------------- MODULE NetCacheProofs ---------------------------
(* The cache's safety for any number of overlapping refreshes. *)
EXTENDS NetCache, TLAPS

\* A refresher that has yet to measure the delay read a sing-box that was up.
CInv == TypeOK /\ \A r \in Refresher : at[r] = "delay" => snap[r].sbAlive

\* What the refresher q holds after a step.
Holds(q) ==
  /\ IF at[q] \in {"delay", "store"} THEN Honest(snap[q]) ELSE snap[q] = NoSnapshot
  /\ at[q] = "delay" => snap[q].sbAlive

\* What a refresh reads is a snapshot, and NoSnapshot is none.
LEMMA Snapshots ==
  /\ NoSnapshot \notin Snapshot
  /\ \A up, rtt \in BOOLEAN, m \in Modes \cup {""} :
       [sbAlive |-> up, sbRoute |-> m, hasRTT |-> rtt] \in Snapshot
<1>1. Modes \cup {""} = {"direct", "proxy", ""}
  BY DEF Modes
<1> QED
  BY <1>1, NetCacheAssumption DEF Snapshot

\* Read preserves the invariant when what it claims to have read is typed.
LEMMA ReadStep ==
  ASSUME CInv, NEW r \in Refresher, NEW up \in BOOLEAN, NEW m \in Modes \cup {""},
         Read(r, up, m)
  PROVE  CInv'
<1> DEFINE new == [sbAlive |-> up, sbRoute |-> m, hasRTT |-> FALSE]
           place == IF up THEN "delay" ELSE "store"
<1>1. new \in Snapshot /\ new.sbAlive = up /\ new.hasRTT = FALSE
  BY Snapshots
<1>2. /\ snap' = [snap EXCEPT ![r] = new]
      /\ at' = [at EXCEPT ![r] = place]
      /\ UNCHANGED <<alive, route, current, stopped>>
  BY DEF Read
<1>3. /\ at' \in [Refresher -> Places] /\ at'[r] = place
      /\ snap' \in [Refresher -> Snapshot \cup {NoSnapshot}]
  BY <1>1, <1>2 DEF CInv, TypeOK, Places
<1> HIDE DEF new, place
<1>4. ASSUME NEW q \in Refresher
      PROVE  Holds(q)'
  <2>1. CASE q = r
    <3>1. snap'[q] = new
      BY <2>1, <1>2 DEF CInv, TypeOK
    <3> QED
      BY <2>1, <3>1, <1>1, <1>3 DEF place, Honest, Holds
  <2>2. CASE q # r
    <3>1. snap'[q] = snap[q] /\ at'[q] = at[q]
      BY <2>2, <1>2 DEF CInv, TypeOK
    <3> QED
      BY <3>1 DEF CInv, TypeOK, Holds
  <2> QED
    BY <2>1, <2>2
<1> QED
  BY <1>2, <1>3, <1>4 DEF CInv, TypeOK, Holds

\* The measured delay, whether or not there is one.
LEMMA DelayStep ==
  ASSUME CInv, NEW r \in Refresher, ReadDelay(r)
  PROVE  CInv'
<1>1. PICK ok \in BOOLEAN : snap' = [snap EXCEPT ![r].hasRTT = ok]
  BY DEF ReadDelay
<1>2. /\ snap[r] \in Snapshot /\ snap[r].sbAlive
      /\ at[r] = "delay"
      /\ at' = [at EXCEPT ![r] = "store"]
      /\ UNCHANGED <<alive, route, current, stopped>>
  BY DEF CInv, TypeOK, ReadDelay, Honest
<1> DEFINE new == [snap[r] EXCEPT !.hasRTT = ok]
<1>3. new \in Snapshot /\ new.sbAlive
  BY <1>2 DEF Snapshot
<1>4. /\ at' \in [Refresher -> Places] /\ at'[r] = "store"
      /\ snap' = [snap EXCEPT ![r] = new]
      /\ snap' \in [Refresher -> Snapshot \cup {NoSnapshot}] /\ snap'[r] = new
  BY <1>1, <1>2, <1>3 DEF CInv, TypeOK, Places
<1> HIDE DEF new
<1>5. ASSUME NEW q \in Refresher
      PROVE  Holds(q)'
  <2>1. CASE q = r
    BY <2>1, <1>3, <1>4 DEF Honest, Holds
  <2>2. CASE q # r
    <3>1. snap'[q] = snap[q] /\ at'[q] = at[q]
      BY <2>2, <1>2, <1>4 DEF CInv, TypeOK
    <3> QED
      BY <3>1 DEF CInv, TypeOK, Holds
  <2> QED
    BY <2>1, <2>2
<1> QED
  BY <1>2, <1>4, <1>5 DEF CInv, TypeOK, Holds

\* A store publishes what the refresh holds.
LEMMA StoreStep ==
  ASSUME CInv, NEW r \in Refresher, Store(r)
  PROVE  CInv'
<1>1. /\ snap[r] \in Snapshot /\ Honest(snap[r])
      /\ current' = snap[r]
      /\ snap' = [snap EXCEPT ![r] = NoSnapshot]
      /\ at' = [at EXCEPT ![r] = "idle"]
      /\ UNCHANGED <<alive, route, stopped>>
  BY DEF CInv, TypeOK, Store, Honest
<1>2. /\ at' \in [Refresher -> Places] /\ at'[r] = "idle"
      /\ snap' \in [Refresher -> Snapshot \cup {NoSnapshot}] /\ snap'[r] = NoSnapshot
  BY <1>1 DEF CInv, TypeOK, Places
<1>3. ASSUME NEW q \in Refresher
      PROVE  Holds(q)'
  <2>1. CASE q = r
    BY <2>1, <1>2 DEF Holds
  <2>2. CASE q # r
    <3>1. snap'[q] = snap[q] /\ at'[q] = at[q]
      BY <2>2, <1>1 DEF CInv, TypeOK
    <3> QED
      BY <3>1 DEF CInv, TypeOK, Holds
  <2> QED
    BY <2>1, <2>2
<1> QED
  BY <1>1, <1>2, <1>3 DEF CInv, TypeOK, Holds

\* Starting a refresh or leaving the loop moves one refresher that holds no
\* snapshot to a place where none is held.
LEMMA MoveStep ==
  ASSUME CInv, NEW r \in Refresher, NEW to \in {"status", "exited"},
         at[r] = "idle", at' = [at EXCEPT ![r] = to],
         route' \in Modes, UNCHANGED <<alive, current, snap, stopped>>
  PROVE  CInv'
<1>1. at' \in [Refresher -> Places]
  BY DEF CInv, TypeOK, Places
<1>2. ASSUME NEW q \in Refresher
      PROVE  Holds(q)'
  <2>1. snap'[q] = snap[q] /\ at'[q] \in {at[q], "status", "exited"}
    BY DEF CInv, TypeOK
  <2>2. at'[q] \in {"delay", "store"} <=> at[q] \in {"delay", "store"}
    BY DEF CInv, TypeOK
  <2>3. at'[q] \in {"delay", "store"} => at'[q] = at[q]
    BY <2>1
  <2> QED
    BY <2>1, <2>2, <2>3 DEF CInv, TypeOK, Holds
<1> QED
  BY <1>1, <1>2 DEF CInv, TypeOK, Holds

\* The inductive invariant.
THEOREM CacheInvariance == Spec => []CInv
<1>1. Init => CInv
  <2> SUFFICES ASSUME Init PROVE CInv
    OBVIOUS
  <2> QED
    BY DEF Init, CInv, TypeOK, Places, Modes, Holds
<1>2. CInv /\ [Next]_vars => CInv'
  <2> SUFFICES ASSUME CInv, [Next]_vars PROVE CInv'
    OBVIOUS
  <2>1. ASSUME NEW r \in Refresher, ReadStatus(r) PROVE CInv'
    <3>1. alive \in BOOLEAN /\ (IF alive THEN route ELSE "") \in Modes \cup {""}
      BY DEF CInv, TypeOK
    <3> QED
      BY <2>1, <3>1, ReadStep DEF ReadStatus
  <2>2. ASSUME NEW r \in Refresher, ReadStatusFault(r) PROVE CInv'
    <3>1. Read(r, FALSE, "") \/ Read(r, TRUE, "")
      BY <2>2 DEF ReadStatusFault
    <3> QED
      BY <3>1, ReadStep
  <2>3. ASSUME NEW r \in Refresher, NEW mode \in Modes, Switch(r, mode) PROVE CInv'
    <3>1. route' \in Modes
      BY <2>3 DEF Switch, CInv, TypeOK
    <3> QED
      BY <2>3, <3>1, MoveStep DEF Switch
  <2>4. CASE Tick
    <3>1. Ticker \in Refresher /\ route' \in Modes
      BY <2>4, NetCacheAssumption DEF Tick, CInv, TypeOK
    <3> QED
      BY <2>4, <3>1, MoveStep DEF Tick
  <2>5. CASE TickerExits
    <3>1. Ticker \in Refresher /\ route' \in Modes
      BY <2>5, NetCacheAssumption DEF TickerExits, CInv, TypeOK
    <3> QED
      BY <2>5, <3>1, MoveStep DEF TickerExits
  <2>6. CASE Stop \/ Change
    BY <2>6 DEF Stop, Change, CInv, TypeOK, Modes
  <2>7. CASE UNCHANGED vars
    BY <2>7 DEF vars, CInv, TypeOK
  <2> QED
    BY <2>1, <2>2, <2>3, <2>4, <2>5, <2>6, <2>7, DelayStep, StoreStep
    DEF Next, Refresh
<1> QED
  BY <1>1, <1>2, PTL DEF Spec

\* Every variable keeps its type, and what a refresh holds and what readers see
\* shows an RTT only beside a sing-box that was up, for any number of refreshers
\* (netcache.go:94-109).
THEOREM CacheType == Spec => []TypeOK
<1>1. CInv => TypeOK
  BY DEF CInv
<1> QED
  BY <1>1, CacheInvariance, PTL
=============================================================================
