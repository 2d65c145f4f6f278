\* The constants of the code, in units of 120 samples, and the default -tol.
CONSTANTS
  phone = phone  stranger = stranger  ours = ours  theirs = theirs
  None = None  Garbled = Garbled
  WindowSize = 4
  StepSize = 2
  Locks = 5
  Preamble = 120
  Gap = 20
  SamplesPerBit = 16
  NBits = 128
  Postamble = 80
  Keep = 800
  Blocks = {34}
  EndOfStream = 2400
  Transmitter = {phone}
  SecretOf <- Secrets
  SkewOf <- Skews
  LobbySecret = ours
  Tolerance = 3
  SampleRate = 400
  Whistles = {}
  Latency = {0}
  Backlog = 0
  MaxSounds = 1
SPECIFICATION LinkSpec
INVARIANTS SameSecretVerifies
CHECK_DEADLOCK FALSE
