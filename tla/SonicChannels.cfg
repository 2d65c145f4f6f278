\* Two capability reports and three health reports, at any moment of a call.
CONSTANTS
  peer = peer  None = None
  Peer <- Peers
  Device <- Devices
  Report <- Reports
  Group <- Groups
  Extra <- Extras
  Purpose <- Purposes
  MaxSets = 2
  MaxReports = 3
SPECIFICATION Spec
INVARIANTS TypeOK BandWithinCaps FallbackExplained GrantExplained
PROPERTY CallEnds
