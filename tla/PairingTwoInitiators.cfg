\* Two initiators in one room: the answer to one of them pairs the other.
CONSTANTS
  i1 = i1  i2 = i2  i3 = i3  i4 = i4  r1 = r1  r2 = r2  r3 = r3
  roomA = roomA  roomB = roomB  None = None
  Initiator <- TwoInitiators
  Responder <- TwoResponders
  Room <- Rooms
  Nonce <- Nonces
  Version = {1, 2}
  RoomOf <- RoomsOf
  NonceOf <- NonceIsSelf
  VersionOf <- VersionsOf
SPECIFICATION Spec
INVARIANT PairedInitiatorHasPeer
CHECK_DEADLOCK FALSE
