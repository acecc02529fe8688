CONSTANTS
  Known <- Payloads
  CrcExtra <- MCCrcExtra
  RxSize = 280
  SigLen = 13
  Scenario = {"damaged"}
  Sends <- MCSends
  MaxFrames <- MCMaxFrames
  MaxFaults <- MCMaxFaults
  Garbage = {0, 2}
  Noise <- MCNoise
SPECIFICATION Spec
INVARIANTS
  DefinitionConsistent
CHECK_DEADLOCK FALSE
