CONSTANTS
  m1 = m1
  m2 = m2
  f1 = f1
  f2 = f2
  Modules <- MCModules
  Ids <- MCIds
  Asked <- MCAsked
  Configs <- MCConfigs
SPECIFICATION Spec
INVARIANT NeverFatal
CHECK_DEADLOCK FALSE
