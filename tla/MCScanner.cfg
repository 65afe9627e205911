CONSTANTS
  Trees <- MCTrees
  Includes <- MCIncludes
  Excludes <- MCExcludes
  Ignores <- MCIgnores
  Swift <- MCSwift
  Undotted <- MCUndotted
SPECIFICATION Spec
INVARIANTS PlainFilesAnalysed CountedOnce
CHECK_DEADLOCK FALSE
