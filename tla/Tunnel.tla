------------------------------- MODULE Tunnel -------------------------------
(***************************************************************************)
(* What the supervisor promises, without saying how: Supervisor refines    *)
(* this specification (ImplementsTunnel there).                            *)
(*                                                                         *)
(* A room is wanted or none is.  At most one tunnel runs, and it is opened *)
(* only to the room that is wanted at that moment.  The room on disk       *)
(* changes in two ways: it becomes the wanted room, in the same step that  *)
(* opens the tunnel to it, or it is lost, and it is lost only when no room *)
(* is wanted or the wanted one is still to be saved; also when the bot     *)
(* ends in the middle of that save.  A bot that comes back wants what is   *)
(* on disk.                                                                *)
(***************************************************************************)
CONSTANTS
  Room,       \* the rooms users send
  NoRoom,     \* no room
  Slot,       \* what tells one tunnel from another
  Rejecting   \* may a rejection by the service forget a room wanted since?

VARIABLES
  up,         \* is there a bot?
  wanted,     \* the room that is to be open
  unsaved,    \* is it still to be written to disk?
  saved,      \* the room on disk
  tunnels     \* the tunnels that run, each with its room

vars == <<up, wanted, unsaved, saved, tunnels>>

Init ==
  /\ up = TRUE
  /\ saved \in Room \cup {NoRoom}
  /\ wanted = saved
  /\ unsaved = FALSE
  /\ tunnels = {}

\* A user sends a link.
Want ==
  /\ up
  /\ wanted' \in Room
  /\ unsaved' = TRUE
  /\ UNCHANGED <<up, saved, tunnels>>

\* The user stops, the service rejects the room, or it crashed too often.
GiveUp ==
  /\ up
  /\ wanted' = NoRoom
  /\ unsaved' \in {FALSE, unsaved}
  /\ UNCHANGED <<up, saved, tunnels>>

\* The room may be given up in the very step that opens the last attempt.
Open ==
  /\ up /\ tunnels = {} /\ wanted # NoRoom
  /\ \E s \in Slot : tunnels' = {[slot |-> s, room |-> wanted]}
  /\ saved' = IF unsaved THEN wanted ELSE saved
  /\ unsaved' = FALSE
  /\ wanted' \in {wanted, NoRoom}
  /\ UNCHANGED up

Close ==
  /\ tunnels # {}
  /\ tunnels' = {}
  /\ UNCHANGED <<up, wanted, unsaved, saved>>

Forget ==
  /\ wanted = NoRoom \/ unsaved \/ Rejecting
  /\ saved' = NoRoom
  /\ UNCHANGED <<up, wanted, unsaved, tunnels>>

\* The bot ends.  A tunnel that goes on is nobody's.  If it ends in the middle of
\* a save, the room on disk is lost.
Leave ==
  /\ up
  /\ up' = FALSE
  /\ wanted' = NoRoom
  /\ unsaved' = FALSE
  /\ tunnels' = {}
  /\ saved' \in IF unsaved THEN {saved, NoRoom} ELSE {saved}

Return ==
  /\ ~up
  /\ up' = TRUE
  /\ wanted' = saved
  /\ UNCHANGED <<unsaved, saved, tunnels>>

Next == Want \/ GiveUp \/ Open \/ Close \/ Forget \/ Leave \/ Return

Spec == Init /\ [][Next]_vars
=============================================================================
