CONSTANTS
  Payloads <- MCPayloads
  Bare <- MCBare
  Width = 10
SPECIFICATION Spec
INVARIANT UnsupportedIsNeverHigh
CHECK_DEADLOCK FALSE
