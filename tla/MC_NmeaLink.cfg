CONSTANTS
  RxSize = 120
  Handlers <- MCHandlers
  Scenario = {"all", "damaged", "cut", "fixes"}
  Sends <- MCSends
  MaxSentences <- MCMaxSentences
  MaxFaults <- MCMaxFaults
  Garbage <- MCGarbage
  Noise <- MCNoise
  TicksPerSecond = 1000
  LastYear = 2101
SPECIFICATION Spec
INVARIANTS
  TypeOK
  IntactDelivered
  DamageDetected
  LossCostsTwoSentences
  TimestampArrives
  PositionArrives
CHECK_DEADLOCK FALSE
