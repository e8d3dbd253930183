------------------------------ MODULE Guardian ------------------------------
(***************************************************************************)
(* The tproxy guardian: internal/controller/guardian.go with the firewall  *)
(* and Clash API calls it makes (firewall/manager.go, singbox.Status and   *)
(* SetRoute, PortOpen).                                                    *)
(*                                                                         *)
(* The guardian is one goroutine, so its fields need no lock; what it acts *)
(* on does move under it.  A check is therefore several steps: the status  *)
(* it reads, the firewall command it runs, the flag it sets when the       *)
(* command returns, the port it probes and the PUT it sends are separate,  *)
(* and sing-box, olcrtc, the supervisor's promotion and other users of fw4 *)
(* act in between.                                                         *)
(*                                                                         *)
(* Time: a check comes every 10s and the threshold is 10s too, so the      *)
(* check after the one that set downSince may find the threshold passed or *)
(* just not, and the one after that finds it passed.  downChecks counts    *)
(* them and saturates.                                                     *)
(***************************************************************************)
EXTENDS Naturals

CONSTANTS
  ListFaults,     \* can `nft list chain` fail?
  CommandFaults,  \* can `nft flush chain`, `fw4 reload` or a PUT fail?
  StatusFaults,   \* can Status misreport a sing-box that is up?
  ForeignReload,  \* does anybody else run `fw4 reload`?
  Promotion,      \* does the supervisor see olcrtc up for 30s?
  MayCrash        \* is the bot ever killed or stopped?

ASSUME GuardianAssumption ==
  {ListFaults, CommandFaults, StatusFaults, ForeignReload, Promotion, MayCrash}
    \subseteq BOOLEAN

VARIABLES
  singbox,     \* is sing-box up?
  chain,       \* is the tproxy redirect in the nft chain ("full" or "empty")?
  route,       \* where the selector points
  port,        \* does olcrtc listen on 127.0.0.1:1080?
  downChecks,  \* 0: downSince is zero; else the checks since it was set
  flushed,     \* the guardian's flag
  seen,        \* the Status the current check works with
  at,          \* where the goroutine is; "dead" when there is no bot
  disturbed    \* history: has a fault or another made the flag wrong?

outside == <<singbox, chain, route, port>>
vars == <<outside, downChecks, flushed, seen, at, disturbed>>

Modes == {"direct", "proxy"}
Answer == [alive : BOOLEAN, route : Modes \cup {""}]
Down == [alive |-> FALSE, route |-> ""]

Init ==
  /\ singbox \in {"up", "down"}
  /\ chain \in {"full", "empty"}
  /\ route \in Modes
  /\ port \in {"open", "closed"}
  /\ downChecks = 0
  /\ flushed = FALSE
  /\ seen = Down
  /\ at = "sync"
  /\ disturbed = FALSE

Step(from, to) == at = from /\ at' = to

-----------------------------------------------------------------------------
(* Start. *)

\* Mutant: no startup sync.
SyncBlind ==
  /\ Step("sync", "look")
  /\ UNCHANGED <<outside, downChecks, flushed, seen, disturbed>>

\* The chain tells a restarted bot whether it was flushed.
Sync ==
  /\ Step("sync", "look")
  /\ flushed' = (chain = "empty")
  /\ disturbed' = FALSE
  /\ UNCHANGED <<outside, downChecks, seen>>

\* On an error the guardian assumes it was not.
SyncFault ==
  /\ ListFaults
  /\ Step("sync", "look")
  /\ flushed' = FALSE
  /\ disturbed' = (chain = "empty")
  /\ UNCHANGED <<outside, downChecks, seen>>

\* The ticker fires.
Tick ==
  /\ Step("idle", "look")
  /\ UNCHANGED <<outside, downChecks, flushed, seen, disturbed>>

-----------------------------------------------------------------------------
(* check: the status and the firewall. *)

\* singbox.Status, which answers {Alive: false} when the API is unreachable.
Look ==
  /\ Step("look", "decide")
  /\ seen' = IF singbox = "up" THEN [alive |-> TRUE, route |-> route] ELSE Down
  /\ UNCHANGED <<outside, downChecks, flushed, disturbed>>

\* It timed out (not alive), or could not be read (alive, no route).
LookFault ==
  /\ StatusFaults /\ singbox = "up"
  /\ Step("look", "decide")
  /\ seen' \in {Down, [alive |-> TRUE, route |-> ""]}
  /\ UNCHANGED <<outside, downChecks, flushed, disturbed>>

\* The first check that finds sing-box dead, or one before the threshold, or
\* one after the flush.
StillDown ==
  /\ ~seen.alive
  /\ downChecks \in {0, 1} \/ flushed
  /\ Step("decide", "idle")
  /\ downChecks' = IF downChecks = 2 THEN 2 ELSE downChecks + 1
  /\ UNCHANGED <<outside, flushed, seen, disturbed>>

\* Mutant: the first dead check is enough.
DeadOnce == ~seen.alive /\ ~flushed

PastThreshold == ~seen.alive /\ downChecks > 0 /\ ~flushed

\* FlushTproxy succeeds; the flag follows when it returns.
Flush ==
  /\ PastThreshold
  /\ Step("decide", "flushing")
  /\ chain' = "empty"
  /\ downChecks' = 2
  /\ disturbed' = FALSE
  /\ UNCHANGED <<singbox, route, port, flushed, seen>>

\* Mutant: the flag is set although the flush failed.
FlushFaultFlagged ==
  /\ CommandFaults /\ PastThreshold
  /\ Step("decide", "idle")
  /\ downChecks' = 2
  /\ flushed' = TRUE
  /\ UNCHANGED <<outside, seen, disturbed>>

FlushFault ==
  /\ CommandFaults /\ PastThreshold
  /\ Step("decide", "idle")
  /\ downChecks' = 2
  /\ UNCHANGED <<outside, flushed, seen, disturbed>>

FlushDone ==
  /\ Step("flushing", "idle")
  /\ flushed' = TRUE
  /\ UNCHANGED <<outside, downChecks, seen, disturbed>>

\* Mutant: downSince is reset only where the chain is restored.
AllWellTimerRuns ==
  /\ seen.alive /\ ~flushed
  /\ Step("decide", "port")
  /\ UNCHANGED <<outside, downChecks, flushed, seen, disturbed>>

\* sing-box is up and the chain was not flushed.
AllWell ==
  /\ seen.alive /\ ~flushed
  /\ Step("decide", "port")
  /\ downChecks' = 0
  /\ UNCHANGED <<outside, flushed, seen, disturbed>>

\* ReloadFw4 succeeds; the flag follows when it returns.
Reload ==
  /\ seen.alive /\ flushed
  /\ Step("decide", "reloading")
  /\ chain' = "full"
  /\ disturbed' = FALSE
  /\ UNCHANGED <<singbox, route, port, downChecks, flushed, seen>>

\* Mutant: the flag is reset although the reload failed.
ReloadFaultCleared ==
  /\ CommandFaults /\ seen.alive /\ flushed
  /\ Step("decide", "port")
  /\ downChecks' = 0
  /\ flushed' = FALSE
  /\ UNCHANGED <<outside, seen, disturbed>>

ReloadFault ==
  /\ CommandFaults /\ seen.alive /\ flushed
  /\ Step("decide", "port")
  /\ downChecks' = 0
  /\ UNCHANGED <<outside, flushed, seen, disturbed>>

ReloadDone ==
  /\ Step("reloading", "port")
  /\ flushed' = FALSE
  /\ downChecks' = 0
  /\ UNCHANGED <<outside, seen, disturbed>>

-----------------------------------------------------------------------------
(* check: the demotion of a selector that points to a dead SOCKS port. *)

NoDemotion ==
  /\ seen.route # "proxy" \/ port = "open"
  /\ Step("port", "idle")
  /\ UNCHANGED <<outside, downChecks, flushed, seen, disturbed>>

DeadPort ==
  /\ seen.route = "proxy" /\ port = "closed"
  /\ Step("port", "demote")
  /\ UNCHANGED <<outside, downChecks, flushed, seen, disturbed>>

\* Mutant: the wrong mode is sent.
DemoteToProxy ==
  /\ singbox = "up"
  /\ Step("demote", "idle")
  /\ route' = "proxy"
  /\ UNCHANGED <<singbox, chain, port, downChecks, flushed, seen, disturbed>>

\* The PUT of "direct"; a sing-box that is down does not take it.
Demote ==
  /\ singbox = "up"
  /\ Step("demote", "idle")
  /\ route' = "direct"
  /\ UNCHANGED <<singbox, chain, port, downChecks, flushed, seen, disturbed>>

DemoteFault ==
  /\ CommandFaults \/ singbox = "down"
  /\ Step("demote", "idle")
  /\ UNCHANGED <<outside, downChecks, flushed, seen, disturbed>>

Check ==
  \/ Look \/ LookFault \/ StillDown \/ Flush \/ FlushFault \/ FlushDone
  \/ AllWell \/ Reload \/ ReloadFault \/ ReloadDone
  \/ NoDemotion \/ DeadPort \/ Demote \/ DemoteFault

-----------------------------------------------------------------------------
(* What the guardian watches, and the bot's own life. *)

SingboxStops ==
  /\ singbox = "up"
  /\ singbox' = "down"
  /\ UNCHANGED <<chain, route, port, downChecks, flushed, seen, at, disturbed>>

\* The selector's default outbound is "direct".
SingboxStarts ==
  /\ singbox = "down"
  /\ singbox' = "up"
  /\ route' = "direct"
  /\ UNCHANGED <<chain, port, downChecks, flushed, seen, at, disturbed>>

PortChanges ==
  /\ port' = IF port = "open" THEN "closed" ELSE "open"
  /\ UNCHANGED <<singbox, chain, route, downChecks, flushed, seen, at, disturbed>>

\* The supervisor promotes on every tick once olcrtc has been up for 30s, or
\* the user asks for "proxy"; neither looks at the port.
Promote ==
  /\ Promotion /\ singbox = "up" /\ route = "direct"
  /\ route' = "proxy"
  /\ UNCHANGED <<singbox, chain, port, downChecks, flushed, seen, at, disturbed>>

\* Any other `fw4 reload` applies the include, and the redirect is back.
OtherReload ==
  /\ ForeignReload /\ chain = "empty"
  /\ chain' = "full"
  /\ disturbed' = (flushed \/ at = "flushing")
  /\ UNCHANGED <<singbox, route, port, downChecks, flushed, seen, at>>

Crash ==
  /\ MayCrash /\ at # "dead"
  /\ at' = "dead"
  /\ downChecks' = 0 /\ flushed' = FALSE /\ seen' = Down
  /\ disturbed' = FALSE
  /\ UNCHANGED outside

Boot ==
  /\ Step("dead", "sync")
  /\ UNCHANGED <<outside, downChecks, flushed, seen, disturbed>>

Outside ==
  SingboxStops \/ SingboxStarts \/ PortChanges \/ Promote \/ OtherReload \/ Crash

Guard == Sync \/ SyncFault \/ Tick \/ Check

Next == Guard \/ Outside \/ Boot

Spec == Init /\ [][Next]_vars

\* The goroutine runs, its ticker fires and procd respawns the bot; a call
\* that is made again and again does not fail every time; and the supervisor's
\* ticks do come.
Fairness ==
  /\ WF_vars(Guard) /\ WF_vars(Boot) /\ WF_vars(Promote)
  /\ SF_vars(Look) /\ SF_vars(Flush) /\ SF_vars(Reload) /\ SF_vars(Demote)

FairSpec == Spec /\ Fairness

-----------------------------------------------------------------------------
(* Properties. *)

Types ==
  /\ singbox \in {"up", "down"}
  /\ chain \in {"full", "empty"}
  /\ route \in Modes
  /\ port \in {"open", "closed"}
  /\ downChecks \in 0 .. 2
  /\ flushed \in BOOLEAN
  /\ seen \in Answer
  /\ disturbed \in BOOLEAN
  /\ at \in {"sync", "look", "decide", "flushing", "reloading", "port",
             "demote", "idle", "dead"}

\* Every variable keeps its type, and once a check is past the firewall downSince
\* is set exactly when that check found sing-box dead: two blips with an answer
\* between them never add up to an outage (guardian.go:105-108, 129).
TypeOK ==
  /\ Types
  /\ at \in {"port", "demote", "idle"} => (downChecks = 0 <=> seen.alive)

\* Between checks the flag is what the chain is, also after a crash between a
\* firewall command and the flag; only a failed startup listing or another
\* user's reload makes it wrong, and only until the next command that succeeds
\* or the next start (guardian.go:59-68, 111-115, 122-126).
FlagTracksChain ==
  at \in {"look", "decide", "port", "demote", "idle"} /\ ~disturbed
    => (flushed <=> chain = "empty")

\* What the looks so far amount to.  Until a check that saw sing-box alive resets
\* downChecks, and until one that did not counts itself, seen is ahead of it.
Verdict ==
  IF seen.alive THEN "alive"
  ELSE IF at = "decide"
  THEN IF downChecks = 0 THEN "dead" ELSE "outage"
  ELSE <<"none", "dead", "outage">>[downChecks + 1]

\* What the current check holds against the selector.
Suspect ==
  IF at = "demote" THEN "guilty"
  ELSE IF at \in {"decide", "reloading", "port"} /\ seen.route = "proxy"
  THEN "pointed"
  ELSE "no"

Promise == INSTANCE Watchdog WITH
  redirect <- chain,
  verdict <- Verdict,
  suspect <- Suspect,
  Misread <- StatusFaults

\* The guardian implements Watchdog: whatever moves under a check and whatever
\* fails, one lost answer costs no LAN client the proxy, and it takes a look that
\* found "proxy" and then a closed port to demote the selector, each time
\* (guardian.go:99-151).
ImplementsWatchdog == Promise!Spec

\* The bot is killed time and again, so that no check ever gets far.
KilledForever == []<>(at = "dead")

\* A "sing-box crash can never permanently block LAN internet"
\* (tests/test_guide.md:79-80): the redirect to a sing-box that stays dead is
\* flushed, also after faults and restarts of the bot, unless the flag was made
\* wrong (guardian.go:105-117).
DeadSingboxBypassed ==
  \/ KilledForever
  \/ (singbox = "down" /\ chain = "full")
       ~> (singbox = "up" \/ chain = "empty" \/ disturbed)

\* The redirect to a sing-box that stays up comes back after a flush, also when
\* the bot that flushed is not the one that reloads, unless the flag was made
\* wrong (guardian.go:59-68, 118-130).
RedirectRestored ==
  \/ KilledForever
  \/ (singbox = "up" /\ chain = "empty")
       ~> (singbox = "down" \/ chain = "full" \/ disturbed)

\* A selector that points to a dead SOCKS port is demoted, whatever the flag
\* says (guardian.go:134-147).
DeadPortDemoted ==
  \/ KilledForever
  \/ (singbox = "up" /\ route = "proxy" /\ port = "closed")
       ~> (singbox = "down" \/ route = "direct" \/ port = "open")
=============================================================================
