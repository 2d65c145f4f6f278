\* One initiator and two responders of a room, and a stranger of another one.
CONSTANTS
  i1 = i1  i2 = i2  r1 = r1  r2 = r2
  roomA = roomA  roomB = roomB  None = None
  Initiator <- Initiators
  Responder <- Responders
  Room <- Rooms
  Nonce <- Nonces
  Version = {1}
  RoomOf <- RoomsOf
  NonceOf <- NonceIsSelf
  VersionOf <- OneVersion
  ChanOf <- Channels
SPECIFICATION LoopSpec
INVARIANTS LoopTypeOK ReentrancyBounded SettledBothSides
PROPERTY AnswerCompletes
CHECK_DEADLOCK FALSE
