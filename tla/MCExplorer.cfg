CONSTANTS
  Names <- MCNames
  Texts <- MCTexts
  IntOf <- MCIntOf
  Tags <- MCTags
  Types <- MCTypes
  MCPrograms <- Programs
  Graphs <- MCGraphs
  MaxDepth = 8
SPECIFICATION FairSpec
INVARIANTS TypeOK TrailsAreWalks SearchComplete PathsCarryTheirUnwraps EventsFollowTheirPath NoNodeTwice
PROPERTIES EveryStepDescends Terminates ExploreIsASearch
