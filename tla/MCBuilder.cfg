CONSTANTS
  Names <- MCNames
  Texts <- MCTexts
  IntOf <- MCIntOf
  Tags = {}
  Types = {}
  Statements <- AllStatements
  Symbols <- MCSymbols
SPECIFICATION Spec
INVARIANTS RunsHavePaths GraphIsSound EveryNodeOnAWay BackEdgesCloseLoops
CHECK_DEADLOCK FALSE
