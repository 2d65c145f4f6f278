CONSTANTS
  Payload <- Payloads
  ChunkPayloadLen = 2
  MaxChunks = 4
  MaxSeen = 4
  MaxShown = 2
  NoPayload = NoPayload
  Error = NoPayload
SPECIFICATION Spec
INVARIANTS AcceptedDecodes
CHECK_DEADLOCK FALSE
