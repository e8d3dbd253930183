SPECIFICATION Spec
CONSTANTS
  server = server
  client = client
  owner = owner
  stranger = stranger
  room = room
  User = {owner, stranger}
  Allowed = {owner}
  Room = {room}
  NoProvider = none
  NoOrder = NoOrder
  Router = {server, client}
  Client = {client}
  Managed = {}
  Said <- Everything
  InitialBackoff = 1
  MaxBackoff = 1
  MaxMessages = 2
  SamePath = TRUE
INVARIANTS
  TypeOK
  OneAnswer
  RoomFollowsChat
