------------------------------ MODULE Routing ------------------------------
(***************************************************************************)
(* Who switches sing-box's selector, and under which lock, on a client     *)
(* router: singbox.SetRoute with its attempts, called by                   *)
(*   - Controller.SetRoute (a bot command or PUT /route), after it has     *)
(*     released Controller.mu,                                             *)
(*   - the loop's promotion and waitCmd's demotion, which hold             *)
(*     Controller.mu until the last attempt is over, and                   *)
(*   - the guardian, which has no lock.                                    *)
(* Beside them, GET /status and the other methods that need the mutex.     *)
(*                                                                         *)
(* The supervisor's other fields and its children are Supervisor's.        *)
(* Here an attempt may also time out and take effect later, when sing-box  *)
(* gets round to it, and the mutex is a variable.  Children are counted    *)
(* only as the loop sees them: none, up for 30s or less, or for more.      *)
(***************************************************************************)
EXTENDS Naturals

CONSTANTS
  Caller,    \* goroutines that call Controller.SetRoute
  Loop,      \* the loop goroutine
  Reaper,    \* the waitCmd goroutine of the current child
  Guardian,  \* the guardian's goroutine
  Nobody,    \* the mutex is free
  Attempts,  \* 3 in the code
  MaxLate    \* bound: late requests for one mode

Writer == Caller \cup {Loop, Reaper, Guardian}

ASSUME RoutingAssumption ==
  /\ {Loop, Reaper, Guardian} \cap Caller = {}
  /\ Loop # Reaper /\ Loop # Guardian /\ Reaper # Guardian
  /\ Nobody \notin Writer
  /\ Attempts \in Nat \ {0} /\ MaxLate \in Nat

VARIABLES
  mu,            \* who holds Controller.mu over several steps
  manualDirect,  \* Controller.manualDirect
  failures,      \* Controller.failures > 0
  tunnel,        \* the current child: "none", "young" or "stable"
  listening,     \* does olcrtc listen on 127.0.0.1:1080?
  pc,            \* pc[w]: is writer w idle, waiting for the mutex, or sending?
  mode,          \* mode[w]: what it wants ("" when idle)
  tries,         \* tries[w]: attempts it has left
  singbox,       \* is sing-box up?
  route,         \* where its selector points
  late,          \* late[m]: requests for m that timed out and may still land
  reader,        \* GET /status: "idle" or "lock"
  toldDirect     \* history: was the last caller answered that it is direct
                 \* while no other call overlapped that wants proxy, and did no
                 \* late request land since?

child == <<failures, tunnel, listening>>
sending == <<pc, mode, tries>>
box == <<singbox, route, late>>
vars == <<mu, manualDirect, child, sending, box, reader, toldDirect>>

Modes == {"direct", "proxy"}

Init ==
  /\ mu = Nobody
  /\ manualDirect = FALSE
  /\ failures = FALSE /\ tunnel = "none" /\ listening = FALSE
  /\ pc = [w \in Writer |-> "idle"]
  /\ mode = [w \in Writer |-> ""]
  /\ tries = [w \in Writer |-> 0]
  /\ singbox \in {"up", "down"}
  /\ route \in IF singbox = "up" THEN Modes ELSE {"direct"}
  /\ late = [m \in Modes |-> 0]
  /\ reader = "idle"
  /\ toldDirect = FALSE

Free == mu = Nobody

-----------------------------------------------------------------------------
(* singbox.SetRoute. *)

Send(w, m) ==
  /\ pc' = [pc EXCEPT ![w] = "put"]
  /\ mode' = [mode EXCEPT ![w] = m]
  /\ tries' = [tries EXCEPT ![w] = Attempts]

\* SetRoute returns; a writer that held the mutex over it unlocks.
Return(w) ==
  /\ pc' = [pc EXCEPT ![w] = "idle"]
  /\ mode' = [mode EXCEPT ![w] = ""]
  /\ tries' = [tries EXCEPT ![w] = 0]
  /\ mu' = IF mu = w THEN Nobody ELSE mu

\* Mutant: the attempts are not counted.
RetryForever(w) == UNCHANGED <<mu, sending>>

\* Mutant: one attempt too many.
RetryOnceMore(w) ==
  \/ /\ tries[w] > 0
     /\ tries' = [tries EXCEPT ![w] = @ - 1]
     /\ UNCHANGED <<mu, pc, mode>>
  \/ /\ tries[w] = 0
     /\ Return(w)

\* An attempt failed: sleep a second and try again, or give up.
Retry(w) ==
  \/ /\ tries[w] > 1
     /\ tries' = [tries EXCEPT ![w] = @ - 1]
     /\ UNCHANGED <<mu, pc, mode>>
  \/ /\ tries[w] = 1
     /\ Return(w)

Sending(w) == pc[w] = "put"

Lands(w) ==
  /\ Sending(w) /\ singbox = "up"
  /\ route' = mode[w]
  /\ Return(w)
  /\ toldDirect' = IF w \in Caller
                   THEN /\ mode[w] = "direct" /\ manualDirect
                        /\ \A c \in Caller \ {w} : ~Sending(c)
                   ELSE toldDirect
  /\ UNCHANGED <<manualDirect, child, singbox, late, reader>>

\* No connection, another status than 204, or a timeout and no effect.
Fails(w) ==
  /\ Sending(w)
  /\ Retry(w)
  /\ UNCHANGED <<manualDirect, child, box, reader, toldDirect>>

\* No answer in 5s, but sing-box has the request.
TimesOut(w) ==
  /\ Sending(w) /\ singbox = "up"
  /\ late[mode[w]] < MaxLate
  /\ late' = [late EXCEPT ![mode[w]] = @ + 1]
  /\ Retry(w)
  /\ UNCHANGED <<manualDirect, child, singbox, route, reader, toldDirect>>

Attempt(w) == Lands(w) \/ Fails(w) \/ TimesOut(w)

-----------------------------------------------------------------------------
(* Who calls it. *)

\* A bot command or a PUT /route comes in.
Call(c, m) ==
  /\ pc[c] = "idle"
  /\ pc' = [pc EXCEPT ![c] = "lock"]
  /\ mode' = [mode EXCEPT ![c] = m]
  /\ UNCHANGED <<mu, manualDirect, child, tries, box, reader, toldDirect>>

\* Controller.SetRoute: the flag, under the mutex; the PUT is sent after it.
SetRoute(c) ==
  /\ pc[c] = "lock" /\ Free
  /\ manualDirect' = (mode[c] = "direct")
  /\ Send(c, mode[c])
  /\ toldDirect' = FALSE
  /\ UNCHANGED <<mu, child, box, reader>>

\* Mutant: the mutex is released before the PUT is sent.
PromoteUnlocked ==
  /\ Free /\ pc[Loop] = "idle" /\ tunnel = "stable" /\ ~manualDirect
  /\ Send(Loop, "proxy")
  /\ failures' = FALSE
  /\ UNCHANGED <<mu, manualDirect, tunnel, listening, box, reader, toldDirect>>

\* Mutant: promotion is part of the reset of the counters.
PromoteAfterFailures ==
  /\ Free /\ tunnel = "stable" /\ ~manualDirect /\ failures
  /\ mu' = Loop
  /\ Send(Loop, "proxy")
  /\ failures' = FALSE
  /\ UNCHANGED <<manualDirect, tunnel, listening, box, reader, toldDirect>>

\* A tick of the loop finds the child up for more than 30s.
Promote ==
  /\ Free /\ tunnel = "stable" /\ ~manualDirect
  /\ mu' = Loop
  /\ Send(Loop, "proxy")
  /\ failures' = FALSE
  /\ UNCHANGED <<manualDirect, tunnel, listening, box, reader, toldDirect>>

\* The same tick under a manual DIRECT.
StableLocked ==
  /\ Free /\ tunnel = "stable" /\ manualDirect
  /\ failures' = FALSE
  /\ UNCHANGED <<mu, manualDirect, tunnel, listening, sending, box, reader,
                 toldDirect>>

\* waitCmd's second section, for a child that crashed without a definitive line.
ReapCrash ==
  /\ pc[Reaper] = "lock" /\ Free
  /\ mu' = Reaper
  /\ Send(Reaper, "direct")
  /\ tunnel' = "none" /\ failures' = TRUE
  /\ UNCHANGED <<manualDirect, listening, box, reader, toldDirect>>

\* The same for a clean exit (failures stays) or a definitive line (it is reset).
ReapQuietly ==
  /\ pc[Reaper] = "lock" /\ Free
  /\ pc' = [pc EXCEPT ![Reaper] = "idle"]
  /\ tunnel' = "none" /\ failures' \in {failures, FALSE}
  /\ UNCHANGED <<mu, manualDirect, listening, mode, tries, box, reader, toldDirect>>

\* The guardian's check found the selector on "proxy" and the port closed.
Demote ==
  /\ pc[Guardian] = "idle"
  /\ singbox = "up" /\ route = "proxy" /\ ~listening
  /\ Send(Guardian, "direct")
  /\ UNCHANGED <<mu, manualDirect, child, box, reader, toldDirect>>

-----------------------------------------------------------------------------
(* The child, as far as the routes depend on it. *)

Start ==
  /\ Free /\ tunnel = "none"
  /\ tunnel' = "young"
  /\ UNCHANGED <<mu, manualDirect, failures, listening, sending, box, reader,
                 toldDirect>>

\* 30s pass; startedAt is that of a child whose exit is not accounted yet, too.
Ages ==
  /\ tunnel = "young"
  /\ tunnel' = "stable"
  /\ UNCHANGED <<mu, manualDirect, failures, listening, sending, box, reader,
                 toldDirect>>

\* It opens or closes its port.
Listens ==
  /\ tunnel # "none" /\ pc[Reaper] = "idle"
  /\ listening' = ~listening
  /\ UNCHANGED <<mu, manualDirect, failures, tunnel, sending, box, reader,
                 toldDirect>>

\* It exits, and waitCmd's cmd.Wait() returns.
Exits ==
  /\ tunnel # "none" /\ pc[Reaper] = "idle"
  /\ pc' = [pc EXCEPT ![Reaper] = "lock"]
  /\ listening' = FALSE
  /\ UNCHANGED <<mu, manualDirect, failures, tunnel, mode, tries, box, reader,
                 toldDirect>>

\* The loop kills it for a restart; waitCmd then has nothing to account for.
Kill ==
  /\ Free /\ tunnel # "none"
  /\ tunnel' = "none" /\ listening' = FALSE
  /\ failures' \in {failures, FALSE}
  /\ pc' = [pc EXCEPT ![Reaper] = "idle"]
  /\ UNCHANGED <<mu, manualDirect, mode, tries, box, reader, toldDirect>>

-----------------------------------------------------------------------------
(* sing-box, and the readers. *)

SingboxStops ==
  /\ singbox = "up"
  /\ singbox' = "down"
  /\ late' = [m \in Modes |-> 0]
  /\ UNCHANGED <<mu, manualDirect, child, sending, route, reader, toldDirect>>

\* The selector's default outbound is "direct".
SingboxStarts ==
  /\ singbox = "down"
  /\ singbox' = "up"
  /\ route' = "direct"
  /\ UNCHANGED <<mu, manualDirect, child, sending, late, reader, toldDirect>>

LateLands(m) ==
  /\ late[m] > 0
  /\ late' = [late EXCEPT ![m] = @ - 1]
  /\ route' = m
  /\ toldDirect' = FALSE
  /\ UNCHANGED <<mu, manualDirect, child, sending, singbox, reader>>

\* GET /status, StatusText, SetProvider, ClearProvider, Restart, Stop.
Ask ==
  /\ reader = "idle"
  /\ reader' = "lock"
  /\ UNCHANGED <<mu, manualDirect, child, sending, box, toldDirect>>

Serve ==
  /\ reader = "lock" /\ Free
  /\ reader' = "idle"
  /\ UNCHANGED <<mu, manualDirect, child, sending, box, toldDirect>>

Next ==
  \/ \E w \in Writer : Attempt(w)
  \/ \E c \in Caller : SetRoute(c) \/ \E m \in Modes : Call(c, m)
  \/ Promote \/ StableLocked \/ ReapCrash \/ ReapQuietly \/ Demote
  \/ Start \/ Ages \/ Listens \/ Exits \/ Kill
  \/ SingboxStops \/ SingboxStarts \/ \E m \in Modes : LateLands(m)
  \/ Ask \/ Serve

Spec == Init /\ [][Next]_vars

\* An attempt ends (5s), and one that is made again and again succeeds in the
\* end; a sync.Mutex is not kept from anyone for ever; the loop ticks.
Fairness ==
  /\ \A w \in Writer \ {Guardian} : WF_vars(Attempt(w))
  /\ SF_vars(Lands(Loop))
  /\ \A c \in Caller : SF_vars(SetRoute(c))
  /\ SF_vars(Serve) /\ SF_vars(Promote)

FairSpec == Spec /\ Fairness

-----------------------------------------------------------------------------
(* Properties. *)

\* Every variable keeps its type.
TypeOK ==
  /\ mu \in {Nobody, Loop, Reaper}
  /\ manualDirect \in BOOLEAN /\ failures \in BOOLEAN
  /\ listening \in BOOLEAN /\ toldDirect \in BOOLEAN
  /\ tunnel \in {"none", "young", "stable"}
  /\ pc \in [Writer -> {"idle", "lock", "put"}]
  /\ mode \in [Writer -> Modes \cup {""}]
  /\ tries \in [Writer -> 0 .. Attempts]
  /\ singbox \in {"up", "down"} /\ route \in Modes
  /\ late \in [Modes -> 0 .. MaxLate]
  /\ reader \in {"idle", "lock"}
  /\ \A w \in Writer : Sending(w) => mode[w] \in Modes /\ tries[w] > 0

\* "manualDirect ... suppressing auto-promote" (controller.go:226): a user who
\* was answered that the route is direct keeps it until the next call, however
\* promotions, demotions, crashes and restarts of sing-box interleave with it.
\* Only a request that timed out before can undo it, when it lands late.
DirectSticks == toldDirect => manualDirect /\ route = "direct"

\* Nobody waits for the mutex for ever, although it is held over PUTs: the
\* attempts are bounded (controller.go:386, 602; singbox/controller.go:82).
Answered ==
  /\ reader = "lock" ~> reader = "idle"
  /\ \A c \in Caller : pc[c] = "lock" ~> pc[c] = "idle"

\* A tunnel that stays up is promoted in the end, also when it never failed
\* before, whatever demotions and late requests come first
\* (controller.go:374-391).
Promoted ==
  <>[](tunnel = "stable" /\ listening /\ ~manualDirect /\ singbox = "up")
    => <>[](route = "proxy")
=============================================================================
