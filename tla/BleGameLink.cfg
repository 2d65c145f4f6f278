\* Four frames of two bytes, an ack names at most two of them, two transfers in range.
CONSTANTS
  mine = mine  twin = twin  long = long  short = short  huge = huge
  Transfer <- Transfers
  Wanted = mine
  GameOf <- Games
  IdOf <- Ids
  LenOf <- Lengths
  PayloadMax = 2
  Byte = 5
  Overheard <- Asks
  MaxSent = 2
SPECIFICATION Spec
INVARIANTS TypeOK DecodeExact NothingMissing
PROPERTY Recovers
CHECK_DEADLOCK FALSE
