------------------------------ MODULE Watchdog ------------------------------
(***************************************************************************)
(* What the tproxy guardian promises, without saying how: Guardian refines *)
(* this specification (ImplementsWatchdog there).                          *)
(*                                                                         *)
(* A watchdog looks at sing-box now and then and passes a verdict.  Two    *)
(* looks in a row, neither of which saw it alive, make an outage; only     *)
(* then may the redirect be emptied, and only while the last look saw      *)
(* sing-box alive may the watchdog fill it.  A selector on "proxy" is      *)
(* suspect from the look that saw it until that check ends; it is guilty   *)
(* when the port was then found closed, and only a guilty one is demoted,  *)
(* once.  A watchdog that is killed remembers nothing of this.             *)
(***************************************************************************)
CONSTANTS
  Misread,         \* can a look misjudge a sing-box that is up?
  ForeignReload,   \* does anybody else fill the redirect?
  Promotion        \* does anybody else select "proxy"?

VARIABLES
  singbox,   \* "up" or "down"
  redirect,  \* "full" or "empty": does LAN traffic go to sing-box?
  route,     \* the selector: "direct" or "proxy"
  port,      \* the SOCKS port behind "proxy": "open" or "closed"
  verdict,   \* of the looks since the start: "none", "alive", "dead", "outage"
  suspect    \* is the selector accused: "no", "pointed" or "guilty"?

vars == <<singbox, redirect, route, port, verdict, suspect>>

Init ==
  /\ singbox \in {"up", "down"}
  /\ redirect \in {"full", "empty"}
  /\ route \in {"direct", "proxy"}
  /\ port \in {"open", "closed"}
  /\ verdict = "none"
  /\ suspect = "no"

SeeAlive ==
  /\ singbox = "up"
  /\ verdict' = "alive"
  /\ \/ route = "proxy" /\ suspect' = "pointed"
     \/ (route = "direct" \/ Misread) /\ suspect' = "no"
  /\ UNCHANGED <<singbox, redirect, route, port>>

SeeDead ==
  /\ singbox = "down" \/ Misread
  /\ verdict' = IF verdict \in {"dead", "outage"} THEN "outage" ELSE "dead"
  /\ suspect' = "no"
  /\ UNCHANGED <<singbox, redirect, route, port>>

Bypass ==
  /\ verdict = "outage"
  /\ redirect' = "empty"
  /\ UNCHANGED <<singbox, route, port, verdict, suspect>>

Restore ==
  /\ verdict = "alive"
  /\ redirect' = "full"
  /\ UNCHANGED <<singbox, route, port, verdict, suspect>>

Convict ==
  /\ suspect = "pointed" /\ port = "closed"
  /\ suspect' = "guilty"
  /\ UNCHANGED <<singbox, redirect, route, port, verdict>>

Demote ==
  /\ suspect = "guilty" /\ singbox = "up"
  /\ route' = "direct"
  /\ suspect' = "no"
  /\ UNCHANGED <<singbox, redirect, port, verdict>>

\* The check ends without a demotion.
Acquit ==
  /\ suspect' = "no"
  /\ UNCHANGED <<singbox, redirect, route, port, verdict>>

Forget ==
  /\ verdict' = "none"
  /\ suspect' = "no"
  /\ UNCHANGED <<singbox, redirect, route, port>>

\* What others do, at any time.
World ==
  /\ \/ singbox = "up" /\ singbox' = "down" /\ UNCHANGED <<redirect, route, port>>
     \/ /\ singbox = "down" /\ singbox' = "up" /\ route' = "direct"
        /\ UNCHANGED <<redirect, port>>
     \/ /\ port' \in {"open", "closed"} \ {port}
        /\ UNCHANGED <<singbox, redirect, route>>
     \/ /\ Promotion /\ singbox = "up" /\ route' = "proxy"
        /\ UNCHANGED <<singbox, redirect, port>>
     \/ ForeignReload /\ redirect' = "full" /\ UNCHANGED <<singbox, route, port>>
  /\ UNCHANGED <<verdict, suspect>>

Next ==
  \/ SeeAlive \/ SeeDead \/ Bypass \/ Restore \/ Convict \/ Demote \/ Acquit
  \/ Forget \/ World

Spec == Init /\ [][Next]_vars
=============================================================================
