\* The clock may be set back by one, what counts is one old, what is kept two.
CONSTANTS
  p = p  q = q  NoPeer = NoPeer
  Sighting <- Sightings
  TTL = 2
  Window = 1
  MaxObs = 3
  Skew = 1
  MaxTime = 4
SPECIFICATION Spec
INVARIANTS TypeOK PruningInvisible ViewAgrees
PROPERTIES FreshRecordCounts EvidenceNeverHurts
