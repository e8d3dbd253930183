--------------------------- MODULE RoutingProofs ---------------------------
(* The lock of a manual DIRECT, for any number of callers and attempts. *)
EXTENDS Routing, TLAPS

\* The writers as the proof needs them: four sorts, all different.
LEMMA Writers ==
  /\ Loop \in Writer /\ Reaper \in Writer /\ Guardian \in Writer
  /\ Caller \subseteq Writer
  /\ Loop \notin Caller /\ Reaper \notin Caller /\ Guardian \notin Caller
  /\ Loop # Reaper /\ Loop # Guardian /\ Reaper # Guardian
  /\ \A w \in Writer : w # Nobody
BY RoutingAssumption DEF Writer

\* There is an attempt, and the bounds are numbers.
LEMMA Numbers ==
  /\ Attempts \in Nat /\ Attempts > 0 /\ MaxLate \in Nat
  /\ Attempts \in 0 .. Attempts /\ 0 \in 0 .. Attempts
<1>1. Attempts \in Nat \ {0} /\ MaxLate \in Nat
  BY RoutingAssumption
<1> QED
  BY <1>1

\* The three functions of the writers are typed, and who sends has a mode and
\* an attempt left.
Sends ==
  /\ pc \in [Writer -> {"idle", "lock", "put"}]
  /\ mode \in [Writer -> Modes \cup {""}]
  /\ tries \in [Writer -> 0 .. Attempts]
  /\ \A w \in Writer : Sending(w) => mode[w] \in Modes /\ tries[w] > 0

\* Send makes w a sender of m and leaves the others alone.
LEMMA SendStep ==
  ASSUME Sends, NEW w \in Writer, NEW m \in Modes, Send(w, m)
  PROVE  /\ Sends'
         /\ pc'[w] = "put" /\ mode'[w] = m
         /\ \A v \in Writer \ {w} : pc'[v] = pc[v] /\ mode'[v] = mode[v]
<1>1. /\ pc' \in [Writer -> {"idle", "lock", "put"}]
      /\ mode' \in [Writer -> Modes \cup {""}]
      /\ pc'[w] = "put" /\ mode'[w] = m
      /\ \A v \in Writer \ {w} : pc'[v] = pc[v] /\ mode'[v] = mode[v]
  BY DEF Sends, Send
<1>2. tries' \in [Writer -> 0 .. Attempts]
  BY Numbers DEF Sends, Send
<1>3. ASSUME NEW v \in Writer, Sending(v)'
      PROVE  mode'[v] \in Modes /\ tries'[v] > 0
  BY <1>1, <1>3, Numbers DEF Sends, Send, Sending
<1> QED
  BY <1>1, <1>2, <1>3 DEF Sends

\* Return makes w idle.
LEMMA ReturnStep ==
  ASSUME Sends, NEW w \in Writer, Return(w)
  PROVE  /\ Sends'
         /\ pc'[w] = "idle" /\ mode'[w] = ""
         /\ \A v \in Writer \ {w} : pc'[v] = pc[v] /\ mode'[v] = mode[v]
<1>1. /\ pc' \in [Writer -> {"idle", "lock", "put"}]
      /\ mode' \in [Writer -> Modes \cup {""}]
      /\ pc'[w] = "idle" /\ mode'[w] = ""
      /\ \A v \in Writer \ {w} :
           pc'[v] = pc[v] /\ mode'[v] = mode[v] /\ tries'[v] = tries[v]
  BY DEF Sends, Return
<1>2. tries' \in [Writer -> 0 .. Attempts]
  BY Numbers DEF Sends, Return
<1>3. ASSUME NEW v \in Writer, Sending(v)'
      PROVE  mode'[v] \in Modes /\ tries'[v] > 0
  BY <1>1, <1>3 DEF Sends, Sending
<1> QED
  BY <1>1, <1>2, <1>3 DEF Sends

\* A retry leaves w sending the same, and the mutex with its holder; or it
\* returns.
LEMMA RetryStep ==
  ASSUME Sends, NEW w \in Writer, Sending(w), Retry(w)
  PROVE  /\ Sends'
         /\ \/ UNCHANGED <<mu, pc, mode>>
            \/ Return(w)
<1>1. CASE tries[w] > 1 /\ tries' = [tries EXCEPT ![w] = @ - 1]
           /\ UNCHANGED <<mu, pc, mode>>
  <2> DEFINE left == tries[w] - 1
  <2>3. tries[w] \in 0 .. Attempts
    BY DEF Sends
  <2>4. left \in 0 .. Attempts /\ left > 0
    BY <1>1, <2>3, Numbers
  <2>5. tries' = [tries EXCEPT ![w] = left]
    BY <1>1
  <2> HIDE DEF left
  <2>1. tries' \in [Writer -> 0 .. Attempts] /\ tries'[w] > 0
    BY <2>4, <2>5 DEF Sends
  <2>2. \A v \in Writer \ {w} : tries'[v] = tries[v]
    BY <1>1 DEF Sends
  <2> QED
    BY <1>1, <2>1, <2>2 DEF Sends, Sending
<1>2. CASE Return(w)
  BY <1>2, ReturnStep
<1> QED
  BY <1>1, <1>2 DEF Retry

\* An idle or waiting writer moves between the two.
LEMMA WaitStep ==
  ASSUME Sends, NEW w \in Writer, NEW at \in {"idle", "lock"},
         pc' = [pc EXCEPT ![w] = at], UNCHANGED <<mode, tries>>
  PROVE  /\ Sends'
         /\ pc'[w] = at /\ mode' = mode
         /\ \A v \in Writer \ {w} : pc'[v] = pc[v]
<1>1. /\ pc' \in [Writer -> {"idle", "lock", "put"}] /\ pc'[w] = at
      /\ \A v \in Writer \ {w} : pc'[v] = pc[v]
  BY DEF Sends
<1> QED
  BY <1>1 DEF Sends, Sending

-----------------------------------------------------------------------------
\* The inductive invariant: the mutex is with who sends under it; the loop only
\* sends while no DIRECT is locked, because the flag needs the mutex; and after
\* an answer of "direct" no caller has anything under way that could undo it.
RInv ==
  /\ TypeOK
  /\ mu = Loop <=> Sending(Loop)
  /\ mu = Reaper <=> Sending(Reaper)
  /\ Sending(Loop) => ~manualDirect
  /\ Sending(Reaper) => mode[Reaper] = "direct"
  /\ Sending(Guardian) => mode[Guardian] = "direct"
  /\ pc[Loop] # "lock" /\ pc[Guardian] # "lock"
  /\ \A c \in Caller : pc[c] = "lock" => mode[c] \in Modes
  /\ toldDirect =>
       manualDirect /\ route = "direct" /\ \A c \in Caller : ~Sending(c)

\* The part of the invariant that is not about the writers' functions.
Rest ==
  /\ mu \in {Nobody, Loop, Reaper}
  /\ manualDirect \in BOOLEAN /\ failures \in BOOLEAN
  /\ listening \in BOOLEAN /\ toldDirect \in BOOLEAN
  /\ tunnel \in {"none", "young", "stable"}
  /\ singbox \in {"up", "down"} /\ route \in Modes
  /\ late \in [Modes -> 0 .. MaxLate]
  /\ reader \in {"idle", "lock"}

\* The type invariant is the two together, before and after a step.
LEMMA TypeParts ==
  /\ TypeOK <=> Rest /\ Sends
  /\ TypeOK' <=> Rest' /\ Sends'
BY DEF TypeOK, Rest, Sends

LEMMA RInit == Init => RInv
<1> SUFFICES ASSUME Init PROVE RInv
  OBVIOUS
<1>1. Sends
  BY Numbers DEF Init, Sends, Sending
<1>2. Rest
  <2>1. /\ manualDirect \in BOOLEAN /\ failures \in BOOLEAN
        /\ listening \in BOOLEAN /\ toldDirect \in BOOLEAN
    BY Zenon DEF Init
  <2>2. late \in [Modes -> 0 .. MaxLate]
    <3>1. late = [m \in Modes |-> 0]
      BY DEF Init
    <3>2. 0 \in 0 .. MaxLate
      BY Numbers
    <3> QED
      BY <3>1, <3>2
  <2>3. /\ singbox \in {"up", "down"} /\ route \in Modes
        /\ mu = Nobody /\ tunnel = "none" /\ reader = "idle"
    BY DEF Init, Modes
  <2> QED
    BY <2>1, <2>2, <2>3 DEF Rest
<1>3. /\ \A w \in Writer : pc[w] = "idle"
      /\ mu = Nobody /\ ~toldDirect
  BY DEF Init
<1>4. \A w \in Writer : ~Sending(w) /\ pc[w] # "lock"
  BY <1>3 DEF Sending
<1> QED
  BY <1>1, <1>2, <1>3, <1>4, TypeParts, Writers DEF RInv

\* An attempt preserves the invariant.
LEMMA AttemptStep ==
  ASSUME RInv, NEW w \in Writer, Attempt(w)
  PROVE  RInv'
<1> USE TypeParts
<1>1. Sends /\ Rest /\ Sending(w) /\ mode[w] \in Modes
  BY DEF RInv, Attempt, Lands, Fails, TimesOut, TypeOK
<1>2. CASE Lands(w)
  <2>1. /\ Sends' /\ pc'[w] = "idle"
        /\ \A v \in Writer \ {w} : pc'[v] = pc[v] /\ mode'[v] = mode[v]
    BY <1>1, <1>2, ReturnStep DEF Lands
  <2>2. mu' = IF mu = w THEN Nobody ELSE mu
    BY <1>2 DEF Lands, Return
  <2>3. toldDirect' \in BOOLEAN
    <3>1. CASE w \in Caller
      BY <1>2, <3>1 DEF Lands
    <3>2. CASE w \notin Caller
      BY <1>1, <1>2, <3>2 DEF Lands, Rest
    <3> QED
      BY <3>1, <3>2
  <2>4. Rest'
    <3>1. route' \in Modes
      BY <1>1, <1>2 DEF Lands
    <3>2. /\ UNCHANGED <<manualDirect, failures, tunnel, listening>>
          /\ UNCHANGED <<singbox, late, reader>>
      BY <1>2 DEF Lands, child
    <3> QED
      BY <1>1, <2>2, <2>3, <3>1, <3>2 DEF Rest
  <2>5. toldDirect' => /\ manualDirect' /\ route' = "direct"
                       /\ \A c \in Caller : ~Sending(c)'
    <3>1. CASE w \in Caller
      BY <1>2, <2>1, <3>1, Writers DEF Lands, Sending
    <3>2. CASE w \notin Caller
      <4>1. w = Loop \/ w = Reaper \/ w = Guardian
        BY <3>2 DEF Writer
      <4>2. toldDirect' = toldDirect /\ route' = mode[w] /\ UNCHANGED manualDirect
        BY <1>2, <3>2 DEF Lands
      <4> QED
        BY <1>1, <2>1, <3>2, <4>1, <4>2, Writers DEF RInv, Sending
    <3> QED
      BY <3>1, <3>2
  <2>6. UNCHANGED manualDirect
    BY <1>2 DEF Lands
  <2>7. /\ mu' = Loop <=> Sending(Loop)'
        /\ mu' = Reaper <=> Sending(Reaper)'
    BY <1>1, <2>1, <2>2, Writers DEF RInv, Sending
  <2>8. pc'[Loop] # "lock" /\ pc'[Guardian] # "lock"
    BY <2>1, Writers DEF RInv
  <2>9. \A c \in Caller : pc'[c] = "lock" => mode'[c] \in Modes
    BY <2>1, Writers DEF RInv
  <2>10. /\ Sending(Loop)' => ~manualDirect'
         /\ Sending(Reaper)' => mode'[Reaper] = "direct"
         /\ Sending(Guardian)' => mode'[Guardian] = "direct"
    BY <2>1, <2>6, Writers DEF RInv, Sending
  <2> QED
    BY <2>1, <2>4, <2>5, <2>7, <2>8, <2>9, <2>10 DEF RInv
<1>3. CASE Fails(w) \/ TimesOut(w)
  <2>1. /\ Sends'
        /\ \/ UNCHANGED <<mu, pc, mode>>
           \/ Return(w)
    BY <1>1, <1>3, RetryStep DEF Fails, TimesOut
  <2>2. /\ UNCHANGED <<manualDirect, route, toldDirect>>
        /\ UNCHANGED <<failures, tunnel, listening, singbox, reader>>
    BY <1>3 DEF Fails, TimesOut, child, box
  <2>3. late' \in [Modes -> 0 .. MaxLate]
    <3>1. CASE Fails(w)
      BY <1>1, <3>1 DEF Fails, box, Rest
    <3>2. CASE TimesOut(w)
      BY <1>1, <3>2, Numbers DEF TimesOut, Rest
    <3> QED
      BY <1>3, <3>1, <3>2
  <2>4. CASE UNCHANGED <<mu, pc, mode>>
    BY <1>1, <2>1, <2>2, <2>3, <2>4 DEF RInv, Rest, Sending
  <2>5. CASE Return(w)
    <3>1. /\ pc'[w] = "idle"
          /\ \A v \in Writer \ {w} : pc'[v] = pc[v] /\ mode'[v] = mode[v]
      BY <1>1, <2>5, ReturnStep
    <3>2. mu' = IF mu = w THEN Nobody ELSE mu
      BY <2>5 DEF Return
    <3>3. Rest'
      BY <1>1, <2>2, <2>3, <3>2 DEF Rest
    <3>4. /\ mu' = Loop <=> Sending(Loop)'
          /\ mu' = Reaper <=> Sending(Reaper)'
      BY <1>1, <3>1, <3>2, Writers DEF RInv, Sending
    <3>5. /\ pc'[Loop] # "lock" /\ pc'[Guardian] # "lock"
          /\ \A c \in Caller : pc'[c] = "lock" => mode'[c] \in Modes
      BY <3>1, Writers DEF RInv
    <3>6. /\ Sending(Loop)' => ~manualDirect'
          /\ Sending(Reaper)' => mode'[Reaper] = "direct"
          /\ Sending(Guardian)' => mode'[Guardian] = "direct"
      BY <2>2, <3>1, Writers DEF RInv, Sending
    <3>7. toldDirect' => /\ manualDirect' /\ route' = "direct"
                         /\ \A c \in Caller : ~Sending(c)'
      BY <2>2, <3>1, Writers DEF RInv, Sending
    <3> QED
      BY <2>1, <3>3, <3>4, <3>5, <3>6, <3>7 DEF RInv
  <2> QED
    BY <2>1, <2>4, <2>5
<1> QED
  BY <1>2, <1>3 DEF Attempt

\* A caller's steps preserve the invariant.
LEMMA CallerStep ==
  ASSUME RInv, NEW c \in Caller,
         SetRoute(c) \/ \E m \in Modes : Call(c, m)
  PROVE  RInv'
<1> USE TypeParts
<1>1. Sends /\ Rest /\ c \in Writer
  BY Writers DEF RInv
<1>2. CASE SetRoute(c)
  <2>1. mode[c] \in Modes /\ mu = Nobody
    BY <1>2 DEF SetRoute, RInv, Free
  <2>2. /\ Sends'
        /\ \A v \in Writer \ {c} : pc'[v] = pc[v] /\ mode'[v] = mode[v]
        /\ pc'[c] = "put"
    BY <1>1, <1>2, <2>1, SendStep DEF SetRoute
  <2>3. Rest' /\ mu' = mu /\ toldDirect' = FALSE
    BY <1>1, <1>2 DEF SetRoute, Rest, child, box
  <2>4. ~Sending(Loop) /\ ~Sending(Reaper)
    BY <2>1, Writers DEF RInv
  <2> QED
    BY <2>1, <2>2, <2>3, <2>4, Writers DEF RInv, Sending
<1>3. ASSUME NEW m \in Modes, Call(c, m)
      PROVE  RInv'
  <2>1. /\ pc' \in [Writer -> {"idle", "lock", "put"}]
        /\ mode' \in [Writer -> Modes \cup {""}]
        /\ pc'[c] = "lock" /\ mode'[c] = m
        /\ \A v \in Writer \ {c} : pc'[v] = pc[v] /\ mode'[v] = mode[v]
    BY <1>1, <1>3 DEF Call, Sends
  <2>2. /\ Rest' /\ UNCHANGED <<mu, manualDirect, route, toldDirect, tries>>
    BY <1>1, <1>3 DEF Call, Rest, child, box
  <2>3. Sends'
    BY <1>1, <2>1, <2>2 DEF Sends, Sending
  <2> QED
    BY <2>1, <2>2, <2>3, Writers DEF RInv, Sending
<1> QED
  BY <1>2, <1>3

\* The loop, waitCmd and the guardian starting to send.
LEMMA SwitchStep ==
  ASSUME RInv, Promote \/ ReapCrash \/ Demote
  PROVE  RInv'
<1> USE TypeParts
<1>1. Sends /\ Rest /\ "proxy" \in Modes /\ "direct" \in Modes
  BY DEF RInv, Modes
<1>2. CASE Promote
  <2>1. /\ Sends' /\ pc'[Loop] = "put"
        /\ \A v \in Writer \ {Loop} : pc'[v] = pc[v] /\ mode'[v] = mode[v]
    BY <1>1, <1>2, SendStep, Writers DEF Promote
  <2>2. /\ Rest' /\ mu = Nobody /\ mu' = Loop /\ ~manualDirect
        /\ UNCHANGED <<manualDirect, route, toldDirect>>
    BY <1>1, <1>2 DEF Promote, Rest, Free, box
  <2> QED
    BY <2>1, <2>2, Writers DEF RInv, Sending
<1>3. CASE ReapCrash
  <2>1. /\ Sends' /\ pc'[Reaper] = "put" /\ mode'[Reaper] = "direct"
        /\ \A v \in Writer \ {Reaper} : pc'[v] = pc[v] /\ mode'[v] = mode[v]
    BY <1>1, <1>3, SendStep, Writers DEF ReapCrash
  <2>2. /\ Rest' /\ mu = Nobody /\ mu' = Reaper
        /\ UNCHANGED <<manualDirect, route, toldDirect>>
    BY <1>1, <1>3 DEF ReapCrash, Rest, Free, box
  <2> QED
    BY <2>1, <2>2, Writers DEF RInv, Sending
<1>4. CASE Demote
  <2>1. /\ Sends' /\ pc'[Guardian] = "put" /\ mode'[Guardian] = "direct"
        /\ \A v \in Writer \ {Guardian} : pc'[v] = pc[v] /\ mode'[v] = mode[v]
    BY <1>1, <1>4, SendStep, Writers DEF Demote
  <2>2. Rest' /\ UNCHANGED <<mu, manualDirect, route, toldDirect>>
    BY <1>1, <1>4 DEF Demote, Rest, child, box
  <2> QED
    BY <2>1, <2>2, Writers DEF RInv, Sending
<1> QED
  BY <1>2, <1>3, <1>4

\* The child's exit, and what is done about it without a PUT.
LEMMA ExitStep ==
  ASSUME RInv, ReapQuietly \/ Exits \/ Kill
  PROVE  RInv'
<1> USE TypeParts
<1>1. Sends /\ Rest
  BY DEF RInv
<1>2. ~Sending(Reaper)
  BY Writers DEF RInv, ReapQuietly, Exits, Kill, Free, Sending
<1>3. PICK at \in {"idle", "lock"} : pc' = [pc EXCEPT ![Reaper] = at]
  BY DEF ReapQuietly, Exits, Kill
<1>4. Rest' /\ UNCHANGED <<mu, manualDirect, mode, tries, route, toldDirect>>
  BY <1>1 DEF ReapQuietly, Exits, Kill, Rest, box
<1>5. /\ Sends' /\ pc'[Reaper] = at
      /\ \A v \in Writer \ {Reaper} : pc'[v] = pc[v]
  BY <1>1, <1>3, <1>4, WaitStep, Writers
<1> QED
  BY <1>2, <1>4, <1>5, Writers DEF RInv, Sending

\* The remaining steps leave the writers alone.
LEMMA QuietStep ==
  ASSUME RInv,
         \/ StableLocked \/ Start \/ Ages \/ Listens \/ SingboxStops
         \/ SingboxStarts \/ (\E m \in Modes : LateLands(m)) \/ Ask \/ Serve
         \/ UNCHANGED vars
  PROVE  RInv'
<1> USE TypeParts
<1>1. Sends /\ Rest
  BY DEF RInv
<1>2. UNCHANGED <<mu, manualDirect, pc, mode, tries>>
  BY DEF StableLocked, Start, Ages, Listens, SingboxStops, SingboxStarts,
         LateLands, Ask, Serve, vars, sending
<1>3. Sends'
  BY <1>1, <1>2 DEF Sends, Sending
<1>4. late' \in [Modes -> 0 .. MaxLate]
  <2>1. CASE \E m \in Modes : LateLands(m)
    BY <1>1, <2>1, Numbers DEF LateLands, Rest
  <2>2. CASE SingboxStops
    BY <2>2, Numbers DEF SingboxStops
  <2>3. CASE UNCHANGED late
    BY <1>1, <2>3 DEF Rest
  <2> QED
    BY <2>1, <2>2, <2>3 DEF StableLocked, Start, Ages, Listens, SingboxStarts,
       Ask, Serve, vars, box
<1>5. toldDirect' \in BOOLEAN /\ (toldDirect' => toldDirect /\ route' \in {route, "direct"})
  BY <1>1 DEF Rest, StableLocked, Start, Ages, Listens, SingboxStops,
     SingboxStarts, LateLands, Ask, Serve, vars, box
<1>6. Rest'
  <2>1. route' \in Modes /\ failures' \in BOOLEAN /\ listening' \in BOOLEAN
    BY <1>1 DEF Rest, StableLocked, Start, Ages, Listens, SingboxStops,
       SingboxStarts, LateLands, Ask, Serve, vars, box, child, Modes
  <2>2. /\ tunnel' \in {"none", "young", "stable"}
        /\ singbox' \in {"up", "down"} /\ reader' \in {"idle", "lock"}
    BY <1>1 DEF Rest, StableLocked, Start, Ages, Listens, SingboxStops,
       SingboxStarts, LateLands, Ask, Serve, vars, box, child
  <2> QED
    BY <1>1, <1>2, <1>4, <1>5, <2>1, <2>2 DEF Rest
<1> QED
  BY <1>2, <1>3, <1>5, <1>6 DEF RInv, Sending

-----------------------------------------------------------------------------
\* The invariant, for any number of callers, attempts and late requests.
THEOREM RouteInvariance == Spec => []RInv
<1>1. RInv /\ [Next]_vars => RInv'
  BY AttemptStep, CallerStep, SwitchStep, ExitStep, QuietStep DEF Next
<1> QED
  BY <1>1, RInit, PTL DEF Spec

\* Every variable keeps its type; in particular no attempt is made beyond the
\* last (singbox/controller.go:82).
THEOREM RouteType == Spec => []TypeOK
<1>1. RInv => TypeOK
  BY DEF RInv
<1> QED
  BY <1>1, RouteInvariance, PTL

\* A user who was answered that the route is direct keeps it until the next
\* call or a late request (controller.go:229-250, 383-391).
THEOREM DirectIsKept == Spec => []DirectSticks
<1>1. RInv => DirectSticks
  BY DEF RInv, DirectSticks
<1> QED
  BY <1>1, RouteInvariance, PTL
=============================================================================
