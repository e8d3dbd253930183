SPECIFICATION FairSpec
CONSTANTS
  server = server
  client = client
  owner = owner
  stranger = stranger
  room = room
  User = {owner, stranger}
  Allowed = {owner}
  Room = {room}
  NoProvider = none
  NoOrder = NoOrder
  Router = {client}
  Client = {client}
  Managed = {client}
  Said <- OnlyOrders
  InitialBackoff = 1
  MaxBackoff = 2
  MaxMessages = 2
  SamePath = TRUE
INVARIANTS
  RoomFollowsChat
PROPERTIES
  PanelServed
  CleanStop
  Reconnects
