CONSTANTS
  Trees <- MCTrees
  Includes <- MCIncludes
  Excludes <- MCExcludes
  Ignores <- MCIgnores
  Swift <- MCSwift
  Undotted <- MCUndotted
SPECIFICATION Spec
INVARIANT DefaultExcludesHold
CHECK_DEADLOCK FALSE
