CONSTANTS
  Null = Null
  Setups <- MCSetups
SPECIFICATION Spec
INVARIANTS HighestLayerWins OffMeansOff AssistIsOptIn
CHECK_DEADLOCK FALSE
