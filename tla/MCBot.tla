------------------------------- MODULE MCBot -------------------------------
(* A server and a client; what an owner and a stranger may write. *)
EXTENDS Bot
CONSTANTS server, client, owner, stranger, room
Everything ==
  {<<owner, room>>, <<owner, "stop">>, <<owner, "status">>, <<owner, "mode">>,
   <<owner, "other">>, <<stranger, room>>}
OnlyOrders == {<<owner, room>>, <<owner, "stop">>, <<stranger, room>>}
=============================================================================
