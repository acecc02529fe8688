CONSTANTS
  Known <- Payloads
  CrcExtra <- MCCrcExtra
  RxSize = 280
  SigLen = 13
  Scenario = {"all", "damaged"}
  Sends <- MCSends
  MaxFrames <- MCMaxFrames
  MaxFaults <- MCMaxFaults
  Garbage = {0, 2}
  Noise <- MCNoise
SPECIFICATION Spec
INVARIANTS
  TypeOK
  IntactDelivered
  NothingInvented
  LossCostsTwoFrames
  WireOrder
CHECK_DEADLOCK FALSE
