\* The unit is 120 samples, so windows, hop and slots have their sizes; the
\* preamble, the gap, the frame and the second are shorter.
CONSTANTS
  phone = phone  stranger = stranger  ours = ours  theirs = theirs
  None = None  Garbled = Garbled
  WindowSize = 4
  StepSize = 2
  Locks = 3
  Preamble = 12
  Gap = 4
  SamplesPerBit = 16
  NBits = 2
  Postamble = 6
  Keep = 9
  Blocks = {9}
  EndOfStream = 117
  Transmitter = {phone, stranger}
  SecretOf <- Secrets
  SkewOf <- Ahead
  LobbySecret = ours
  Tolerance = 8
  SampleRate = 9
  Whistles = {3, 11}
  Latency = {0, 4}
  Backlog = 6
  MaxSounds = 2
SPECIFICATION LinkSpec
INVARIANTS ModemTypeOK LockExplained FramesExact IdleBounded LobbyVerdict
PROPERTIES TransmissionHeard
CHECK_DEADLOCK FALSE
