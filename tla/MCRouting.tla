----------------------------- MODULE MCRouting -----------------------------
(* The bot and one /route request beside the three switches of the code. *)
EXTENDS Routing
CONSTANTS bot, http
Two == {bot, http}
=============================================================================
