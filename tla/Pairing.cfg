\* Two rooms and two builds on one air, contention in the first room.
CONSTANTS
  i1 = i1  i2 = i2  i3 = i3  i4 = i4  r1 = r1  r2 = r2  r3 = r3
  roomA = roomA  roomB = roomB  None = None
  Initiator <- AllInitiators
  Responder <- AllResponders
  Room <- Rooms
  Nonce <- Nonces
  Version = {1, 2}
  RoomOf <- RoomsOf
  NonceOf <- NonceIsSelf
  VersionOf <- VersionsOf
SPECIFICATION Spec
INVARIANTS TypeOK Agreement SessionExclusive FailureExplained LoneInitiatorHasPeer
PROPERTIES BoundOnce ContractSpec
CHECK_DEADLOCK FALSE
