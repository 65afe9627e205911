CONSTANTS
  Names <- MCNames
  Texts <- MCTexts
  IntOf <- MCIntOf
  Tags <- MCTags
  Types <- MCTypes
  MCPrograms <- Branching
  Graphs <- MCGraphs
  MaxDepth = 12
SPECIFICATION Spec
INVARIANT LoopFallsThroughOnFalse
