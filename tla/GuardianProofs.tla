--------------------------- MODULE GuardianProofs ---------------------------
(***************************************************************************)
(* The guardian for every combination of faults: its safety, and that it   *)
(* implements Watchdog.                                                    *)
(***************************************************************************)
EXTENDS Guardian, TLAPS

\* Types, and where the chain and the flag may disagree: before the startup
\* listing, between a firewall command and the assignment that follows it, and
\* once a failed listing or a foreign reload has made the flag wrong.
GInv ==
  /\ Types
  /\ FlagTracksChain
  /\ at = "flushing" /\ ~disturbed => chain = "empty"
  /\ at = "reloading" => chain = "full"

\* What Status can answer.
LEMMA AnswerType ==
  /\ Down \in Answer
  /\ [alive |-> TRUE, route |-> ""] \in Answer
  /\ \A m \in Modes : [alive |-> TRUE, route |-> m] \in Answer
<1>1. TRUE \in BOOLEAN /\ FALSE \in BOOLEAN
  OBVIOUS
<1> QED
  BY <1>1 DEF Down, Answer

\* The types hold when the guardian starts.
LEMMA GInit == Init => Types
<1> SUFFICES ASSUME Init PROVE Types
  OBVIOUS
<1>1. flushed \in BOOLEAN /\ disturbed \in BOOLEAN /\ seen \in Answer
  BY AnswerType, Zenon DEF Init
<1> QED
  BY <1>1 DEF Init, Types

\* Every variable of the guardian keeps its type, whatever fails.
LEMMA Typed == Spec => []Types
<1>1. Init => Types
  BY GInit
<1>2. Types /\ [Next]_vars => Types'
  <2> SUFFICES ASSUME Types, [Next]_vars PROVE Types'
    OBVIOUS
  <2> USE DEF Types, Step, outside
  <2>1. CASE Sync \/ SyncFault \/ Tick
    <3>1. flushed' \in BOOLEAN /\ disturbed' \in BOOLEAN
      BY <2>1 DEF Sync, SyncFault, Tick
    <3> QED
      BY <2>1, <3>1 DEF Sync, SyncFault, Tick
  <2>2. CASE Look \/ LookFault
    <3>1. seen' \in Answer
      BY <2>2, AnswerType DEF Look, LookFault
    <3> QED
      BY <2>2, <3>1 DEF Look, LookFault
  <2>3. CASE StillDown \/ FlushDone
    <3>1. flushed' \in BOOLEAN
      BY <2>3 DEF StillDown, FlushDone
    <3>2. downChecks' \in 0 .. 2
      BY <2>3 DEF StillDown, FlushDone
    <3> QED
      BY <2>3, <3>1, <3>2 DEF StillDown, FlushDone
  <2>4. CASE Flush \/ FlushFault
    <3>1. disturbed' \in BOOLEAN
      BY <2>4 DEF Flush, FlushFault
    <3> QED
      BY <2>4, <3>1 DEF Flush, FlushFault
  <2>5. CASE AllWell \/ Reload \/ ReloadFault \/ ReloadDone
    <3>1. flushed' \in BOOLEAN /\ disturbed' \in BOOLEAN
      BY <2>5 DEF AllWell, Reload, ReloadFault, ReloadDone
    <3>2. downChecks' \in 0 .. 2
      BY <2>5 DEF AllWell, Reload, ReloadFault, ReloadDone
    <3> QED
      BY <2>5, <3>1, <3>2 DEF AllWell, Reload, ReloadFault, ReloadDone
  <2>6. CASE NoDemotion \/ DeadPort \/ Demote \/ DemoteFault
    BY <2>6 DEF NoDemotion, DeadPort, Demote, DemoteFault, Modes
  <2>7. CASE SingboxStops \/ SingboxStarts \/ PortChanges \/ Promote \/ OtherReload
    <3>1. disturbed' \in BOOLEAN
      BY <2>7 DEF SingboxStops, SingboxStarts, PortChanges, Promote, OtherReload
    <3> QED
      BY <2>7, <3>1 DEF SingboxStops, SingboxStarts, PortChanges, Promote,
                        OtherReload, Modes
  <2>8. CASE Crash \/ Boot
    <3>1. flushed' \in BOOLEAN /\ disturbed' \in BOOLEAN /\ seen' \in Answer
      BY <2>8, AnswerType DEF Crash, Boot
    <3> QED
      BY <2>8, <3>1 DEF Crash, Boot
  <2>9. CASE UNCHANGED vars
    BY <2>9 DEF vars
  <2> QED
    BY <2>1, <2>2, <2>3, <2>4, <2>5, <2>6, <2>7, <2>8, <2>9
    DEF Next, Guard, Check, Outside
<1> QED
  BY <1>1, <1>2, PTL DEF Spec

\* Until a failed listing or a foreign reload makes it wrong, the flag is the
\* state of the chain between checks, also when commands fail, statuses are
\* wrong and the bot is killed at any point (guardian.go:59-68, 105-130).
THEOREM FlagIsTrue == Spec => []FlagTracksChain
<1>1. Init => GInv
  <2>1. Init => Types
    BY GInit
  <2> QED
    BY <2>1 DEF Init, GInv, FlagTracksChain
<1>2. Types' /\ GInv /\ [Next]_vars => GInv'
  <2> SUFFICES ASSUME Types', GInv, [Next]_vars PROVE GInv'
    OBVIOUS
  <2> USE DEF GInv, Types, FlagTracksChain, Step, outside
  <2>1. CASE Sync \/ SyncFault \/ Tick
    BY <2>1 DEF Sync, SyncFault, Tick
  <2>2. CASE Look \/ LookFault
    BY <2>2 DEF Look, LookFault
  <2>3. CASE StillDown \/ Flush \/ FlushFault \/ FlushDone
    BY <2>3 DEF StillDown, Flush, FlushFault, FlushDone
  <2>4. CASE AllWell \/ Reload \/ ReloadFault \/ ReloadDone
    BY <2>4 DEF AllWell, Reload, ReloadFault, ReloadDone
  <2>5. CASE NoDemotion \/ DeadPort \/ Demote \/ DemoteFault
    BY <2>5 DEF NoDemotion, DeadPort, Demote, DemoteFault
  <2>6. CASE Outside \/ Boot
    BY <2>6 DEF Outside, SingboxStops, SingboxStarts, PortChanges, Promote,
                OtherReload, Crash, Boot
  <2>7. CASE UNCHANGED vars
    BY <2>7 DEF vars
  <2> QED
    BY <2>1, <2>2, <2>3, <2>4, <2>5, <2>6, <2>7 DEF Next, Guard, Check
<1>3. GInv => FlagTracksChain
  BY DEF GInv
<1> QED
  BY <1>1, <1>2, <1>3, Typed, PTL DEF Spec

-----------------------------------------------------------------------------
(* The refinement. *)

\* A sing-box that is dead has no route.
Silent == ~seen.alive => seen.route = ""

\* Where a check is and what it has seen go together: Verdict and Suspect read
\* both.  A check that saw sing-box alive is past the firewall with downChecks
\* reset; one that did not is never at the port.
WInv ==
  /\ Types
  /\ Silent
  /\ at \in {"sync", "dead"} => ~seen.alive /\ downChecks = 0
  /\ at \in {"look", "port", "demote", "idle"} /\ seen.alive => downChecks = 0
  /\ at \in {"reloading", "port", "demote"} => seen.alive
  /\ at = "demote" => seen.route = "proxy"
  /\ at = "flushing" => ~seen.alive /\ downChecks = 2
  /\ at = "idle" /\ ~seen.alive => downChecks > 0

\* Its steps keep it.
LEMMA WInvStep ==
  ASSUME WInv, Types', [Next]_vars
  PROVE  WInv'
<1>0. downChecks \in 0 .. 2 /\ downChecks' \in 0 .. 2
  BY DEF WInv, Types
<1>1. Silent'
  <2>1. ASSUME seen' = Down
        PROVE  seen'.route = ""
    BY <2>1 DEF Down
  <2>2. ASSUME NEW m, seen' = [alive |-> TRUE, route |-> m]
        PROVE  seen'.alive = TRUE
    BY <2>2
  <2>3. CASE Look \/ LookFault
    <3>1. seen' = Down \/ \E m : seen' = [alive |-> TRUE, route |-> m]
      BY <2>3 DEF Look, LookFault
    <3> QED
      BY <2>1, <2>2, <3>1 DEF Silent
  <2>4. CASE seen' = seen
    BY <2>4 DEF WInv, Silent
  <2>5. CASE Crash
    BY <2>1, <2>5 DEF Crash, Silent
  <2> QED
    BY <2>3, <2>4, <2>5 DEF Next, Guard, Check, Outside, vars, outside, Sync,
       SyncFault, Tick, StillDown, Flush, FlushFault, FlushDone, AllWell, Reload,
       ReloadFault, ReloadDone, NoDemotion, DeadPort, Demote, DemoteFault,
       SingboxStops, SingboxStarts, PortChanges, Promote, OtherReload, Boot
<1> USE <1>0, <1>1 DEF WInv, Step, outside
<1>2. CASE Sync \/ SyncFault \/ Tick
  BY <1>2 DEF Sync, SyncFault, Tick
<1>3. CASE Look \/ LookFault
  <2>1. at' = "decide"
    BY <1>3 DEF Look, LookFault
  <2> QED
    BY <2>1
<1>4. CASE StillDown \/ Flush \/ FlushFault \/ FlushDone
  BY <1>4 DEF StillDown, Flush, FlushFault, FlushDone, PastThreshold
<1>5. CASE AllWell \/ Reload \/ ReloadFault \/ ReloadDone
  BY <1>5 DEF AllWell, Reload, ReloadFault, ReloadDone
<1>6. CASE NoDemotion \/ DeadPort \/ Demote \/ DemoteFault
  BY <1>6 DEF NoDemotion, DeadPort, Demote, DemoteFault
<1>7. CASE \/ SingboxStops \/ SingboxStarts \/ PortChanges \/ Promote
           \/ OtherReload \/ Boot
  BY <1>7 DEF SingboxStops, SingboxStarts, PortChanges, Promote, OtherReload, Boot
<1>8. CASE Crash
  <2>1. seen'.alive = FALSE
    BY <1>8 DEF Crash, Down
  <2>2. downChecks' = 0 /\ at' = "dead"
    BY <1>8 DEF Crash
  <2> QED
    BY <2>1, <2>2
<1>9. CASE UNCHANGED vars
  BY <1>9 DEF vars
<1> QED
  BY <1>2, <1>3, <1>4, <1>5, <1>6, <1>7, <1>8, <1>9
  DEF Next, Guard, Check, Outside

\* It holds when the guardian starts.
LEMMA WInvInit == Init => WInv
<1>1. Init => Types
  BY GInit
<1>2. ASSUME seen = Down
      PROVE  seen.alive = FALSE /\ seen.route = ""
  BY <1>2 DEF Down
<1>3. Init => Silent
  BY <1>2 DEF Init, Silent
<1> QED
  BY <1>1, <1>2, <1>3 DEF Init, WInv

\* It holds in every reachable state.
LEMMA WInvariance == Spec => []WInv
<1>1. Types' /\ WInv /\ [Next]_vars => WInv'
  BY WInvStep
<1> QED
  BY <1>1, WInvInit, Typed, PTL DEF Spec

\* Every variable keeps its type, and past the firewall downSince is set exactly
\* when the check found sing-box dead, whatever fails and whenever the bot is
\* killed (guardian.go:105-108, 129).
THEOREM GuardianType == Spec => []TypeOK
<1>1. WInv => TypeOK
  <2> SUFFICES ASSUME WInv PROVE TypeOK
    OBVIOUS
  <2>1. downChecks \in 0 .. 2
    BY DEF WInv, Types
  <2> QED
    BY <2>1 DEF WInv, TypeOK
<1> QED
  BY <1>1, WInvariance, PTL

\* A look is the watchdog's, also a faulty one.
LEMMA LookIsLook ==
  ASSUME WInv, WInv', Look \/ LookFault
  PROVE  Promise!SeeAlive \/ Promise!SeeDead
<1>1. at = "look" /\ at' = "decide" /\ UNCHANGED <<outside, downChecks>>
  BY DEF Look, LookFault, Step
<1>0. \/ singbox = "up" /\ seen'.alive = TRUE /\ seen'.route = route
      \/ singbox = "down" /\ seen'.alive = FALSE
      \/ StatusFaults /\ seen'.alive = FALSE
      \/ StatusFaults /\ singbox = "up" /\ seen'.alive = TRUE /\ seen'.route = ""
  <2>1. ASSUME seen' = Down
        PROVE  seen'.alive = FALSE
    BY <2>1 DEF Down
  <2>2. ASSUME NEW m, seen' = [alive |-> TRUE, route |-> m]
        PROVE  seen'.alive = TRUE /\ seen'.route = m
    BY <2>2
  <2>3. CASE Look
    BY <2>1, <2>2, <2>3 DEF Look, WInv, Types
  <2>4. CASE LookFault
    BY <2>1, <2>2, <2>4 DEF LookFault
  <2> QED
    BY <2>3, <2>4
<1>2. CASE seen'.alive = TRUE
  <2>1. singbox = "up"
    BY <1>0, <1>2
  <2>5. Verdict' = "alive"
    BY <1>2 DEF Verdict
  <2>2. seen'.route = route \/ (StatusFaults /\ seen'.route = "")
    BY <1>0, <1>2
  <2>3. Suspect' = IF seen'.route = "proxy" THEN "pointed" ELSE "no"
    BY <1>1 DEF Suspect
  <2>4. \/ route = "proxy" /\ Suspect' = "pointed"
        \/ (route = "direct" \/ StatusFaults) /\ Suspect' = "no"
    BY <2>2, <2>3 DEF WInv, Types, Modes
  <2> QED
    BY <1>1, <2>1, <2>4, <2>5 DEF Promise!SeeAlive, outside
<1>3. CASE seen'.alive = FALSE
  <2>1. singbox = "down" \/ StatusFaults
    BY <1>0, <1>3
  <2>2. Suspect' = "no"
    <3>1. seen'.route = ""
      BY <1>3 DEF WInv, Silent
    <3> QED
      BY <1>1, <3>1 DEF Suspect
  <2>3. downChecks \in 0 .. 2 /\ (seen.alive => downChecks = 0)
    BY <1>1 DEF WInv, Types
  <2>4. Verdict' = IF downChecks = 0 THEN "dead" ELSE "outage"
    BY <1>1, <1>3, <2>3 DEF Verdict
  <2>5. Verdict = IF seen.alive THEN "alive" ELSE <<"none", "dead", "outage">>[downChecks + 1]
    BY <1>1 DEF Verdict
  <2>6. Verdict' = IF Verdict \in {"dead", "outage"} THEN "outage" ELSE "dead"
    BY <2>3, <2>4, <2>5
  <2> QED
    BY <1>1, <2>1, <2>2, <2>6 DEF Promise!SeeDead, outside
<1>4. seen'.alive \in BOOLEAN
  BY DEF WInv, Types, Answer
<1> QED
  BY <1>2, <1>3, <1>4

\* A check that acts is one of the watchdog's steps.
LEMMA CommandIsStep ==
  ASSUME WInv,
         \/ Flush \/ Reload \/ NoDemotion \/ DeadPort \/ Demote \/ DemoteFault
  PROVE  \/ Promise!Bypass \/ Promise!Restore \/ Promise!Acquit
         \/ Promise!Convict \/ Promise!Demote
<1>1. CASE Flush
  <2>1. at = "decide" /\ at' = "flushing" /\ downChecks' = 2 /\ chain' = "empty"
        /\ ~seen.alive /\ UNCHANGED <<singbox, route, port, seen>>
    BY <1>1 DEF Flush, PastThreshold, Step
  <2>2. downChecks \in 0 .. 2 /\ downChecks > 0
    BY <1>1 DEF Flush, PastThreshold, WInv, Types
  <2>3. Verdict = "outage" /\ Verdict' = "outage"
    BY <2>1, <2>2 DEF Verdict
  <2>4. Suspect = "no" /\ Suspect' = "no"
    <3>1. seen.route = ""
      BY <2>1 DEF WInv, Silent
    <3> QED
      BY <2>1, <3>1 DEF Suspect
  <2> QED
    BY <2>1, <2>3, <2>4 DEF Promise!Bypass
<1>2. CASE Reload
  <2>1. at = "decide" /\ at' = "reloading" /\ chain' = "full" /\ seen.alive
        /\ UNCHANGED <<singbox, route, port, seen>>
    BY <1>2 DEF Reload, Step
  <2>2. Verdict = "alive" /\ Verdict' = "alive"
    BY <2>1 DEF Verdict
  <2>3. Suspect' = Suspect
    BY <2>1 DEF Suspect
  <2> QED
    BY <2>1, <2>2, <2>3 DEF Promise!Restore
<1>3. CASE NoDemotion \/ DeadPort \/ Demote \/ DemoteFault
  <2>1. at \in {"port", "demote"} /\ at' \in {"demote", "idle"} /\ seen.alive
        /\ UNCHANGED <<singbox, chain, port, seen>>
    BY <1>3 DEF NoDemotion, DeadPort, Demote, DemoteFault, Step, outside, WInv
  <2>2. Verdict = "alive" /\ Verdict' = "alive"
    BY <2>1 DEF Verdict
  <2>3. at' = "idle" => Suspect' = "no"
    BY DEF Suspect
  <2>4. CASE NoDemotion \/ DemoteFault
    BY <2>1, <2>2, <2>3, <2>4 DEF NoDemotion, DemoteFault, Step, outside, Promise!Acquit
  <2>5. CASE DeadPort
    <3>1. Suspect = "pointed" /\ Suspect' = "guilty"
      BY <2>5 DEF DeadPort, Step, Suspect
    <3> QED
      BY <2>1, <2>2, <2>5, <3>1 DEF DeadPort, outside, Promise!Convict
  <2>6. CASE Demote
    <3>1. Suspect = "guilty"
      BY <2>6 DEF Demote, Step, Suspect
    <3> QED
      BY <2>1, <2>2, <2>3, <2>6, <3>1 DEF Demote, Step, Promise!Demote
  <2> QED
    BY <1>3, <2>4, <2>5, <2>6
<1> QED
  BY <1>1, <1>2, <1>3

\* The rest of a check, and a start, change nothing the watchdog knows.
LEMMA RestIsStutter ==
  ASSUME WInv,
         \/ Sync \/ SyncFault \/ Tick \/ Boot \/ StillDown \/ FlushFault
         \/ FlushDone \/ AllWell \/ ReloadFault \/ ReloadDone
  PROVE  UNCHANGED Promise!vars
<1>1. UNCHANGED <<outside, seen>> /\ downChecks \in 0 .. 2
  BY DEF Sync, SyncFault, Tick, Boot, StillDown, FlushFault, FlushDone, AllWell,
     ReloadFault, ReloadDone, WInv, Types
<1>2. CASE Sync \/ SyncFault \/ Tick \/ Boot
  <2>1. at \notin {"decide", "reloading", "port", "demote"}
        /\ at' \notin {"decide", "reloading", "port", "demote"}
        /\ UNCHANGED downChecks
    BY <1>2 DEF Sync, SyncFault, Tick, Boot, Step
  <2> QED
    BY <1>1, <2>1 DEF Verdict, Suspect, Promise!vars, outside
<1>3. CASE AllWell \/ ReloadFault \/ ReloadDone
  <2>1. seen.alive /\ at \in {"decide", "reloading"} /\ at' = "port"
    BY <1>3 DEF AllWell, ReloadFault, ReloadDone, Step, WInv
  <2> QED
    BY <1>1, <2>1 DEF Verdict, Suspect, Promise!vars, outside
<1>4. CASE StillDown \/ FlushFault \/ FlushDone
  <2>1. ~seen.alive /\ at \in {"decide", "flushing"} /\ at' = "idle"
    BY <1>4 DEF StillDown, FlushFault, FlushDone, PastThreshold, Step, WInv
  <2>2. seen.route = ""
    BY <2>1 DEF WInv, Silent
  <2>3. Suspect = "no" /\ Suspect' = "no"
    BY <1>1, <2>1, <2>2 DEF Suspect
  <2>4. \/ at = "decide" /\ downChecks = 0 /\ downChecks' = 1
        \/ at = "decide" /\ downChecks > 0 /\ downChecks' = 2
        \/ at = "flushing" /\ downChecks = 2 /\ downChecks' = 2
    BY <1>1, <1>4 DEF StillDown, FlushFault, FlushDone, PastThreshold, Step, WInv
  <2>5. Verdict' = Verdict
    BY <1>1, <2>1, <2>4 DEF Verdict
  <2> QED
    BY <1>1, <2>3, <2>5 DEF Promise!vars, outside
<1> QED
  BY <1>2, <1>3, <1>4

\* What others do, they do to the watchdog.
LEMMA WorldIsWorld ==
  ASSUME WInv, Outside
  PROVE  Promise!World \/ Promise!Forget
<1>1. CASE Crash
  <2>1. Verdict' = "none" /\ Suspect' = "no"
    <3>1. at' = "dead" /\ downChecks' = 0 /\ seen'.alive = FALSE
      BY <1>1 DEF Crash, Down
    <3> QED
      BY <3>1 DEF Verdict, Suspect
  <2> QED
    BY <1>1, <2>1 DEF Crash, outside, Promise!Forget
<1>2. CASE SingboxStops \/ SingboxStarts \/ PortChanges \/ Promote \/ OtherReload
  <2>1. UNCHANGED <<downChecks, seen, at>>
    BY <1>2 DEF SingboxStops, SingboxStarts, PortChanges, Promote, OtherReload
  <2>2. Verdict' = Verdict /\ Suspect' = Suspect
    BY <2>1 DEF Verdict, Suspect
  <2> QED
    BY <1>2, <2>2 DEF SingboxStops, SingboxStarts, PortChanges, Promote,
       OtherReload, Promise!World, WInv, Types
<1> QED
  BY <1>1, <1>2 DEF Outside

\* The guardian implements the watchdog, for every combination of faults
\* (guardian.go:99-151).
THEOREM Refinement == Spec => ImplementsWatchdog
<1>1. Init => Promise!Init
  <2> SUFFICES ASSUME Init PROVE Promise!Init
    OBVIOUS
  <2>1. at = "sync" /\ downChecks = 0 /\ seen.alive = FALSE
    BY DEF Init, Down
  <2>2. Verdict = "none" /\ Suspect = "no"
    BY <2>1 DEF Verdict, Suspect
  <2> QED
    BY <2>2 DEF Init, Modes, Promise!Init
<1>2. WInv /\ WInv' /\ [Next]_vars => [Promise!Next]_(Promise!vars)
  <2> SUFFICES ASSUME WInv, WInv', [Next]_vars
               PROVE  Promise!Next \/ UNCHANGED Promise!vars
    OBVIOUS
  <2>1. CASE UNCHANGED vars
    BY <2>1 DEF vars, outside, Verdict, Suspect, Promise!vars
  <2>2. CASE Next
    BY <2>2, LookIsLook, CommandIsStep, RestIsStutter, WorldIsWorld
    DEF Next, Guard, Check, Promise!Next
  <2> QED
    BY <2>1, <2>2
<1> QED
  BY <1>1, <1>2, WInvariance, PTL
  DEF Spec, ImplementsWatchdog, Promise!Spec
=============================================================================
