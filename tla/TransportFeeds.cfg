\* Three calls on two goroutines; two observations fill the aggregator.
CONSTANTS
  p = p  NoPeer = NoPeer  None = None
  a = a  b = b
  Caller = {a, b}
  Sighting <- Sightings
  TTL = 2
  Window = 1
  MaxObs = 2
  Skew = 1
  MaxTime = 3
  MaxCalls = 3
SPECIFICATION FeedSpec
SYMMETRY Symmetry
INVARIANTS FeedTypeOK ZeroTrustExplained LatestIsNewest CompassBacked
