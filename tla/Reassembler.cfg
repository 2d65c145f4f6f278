\* Three transfers with ids of their own on one garbling medium.
CONSTANTS
  empty = empty  even = even  odd = odd  None = None  Noise = Noise
  Transfer <- AllTransfers
  IdOf <- OwnIds
  LenOf <- Lengths
  SizeOf <- Sizes
SPECIFICATION Spec
INVARIANTS TypeOK CompleteIsExact MissingDecidesCompletion
PROPERTY NeverLosesGround
