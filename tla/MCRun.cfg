CONSTANTS
  MaxRuns = 2
  Options <- MCOptions
  Results <- MCResults
  SafeName <- MCSafeName
SPECIFICATION FairSpec
INVARIANTS ZeroMeansClean HealthWins ReportsAreOfThisRun FailuresLeaveReports
PROPERTY RunEnds
CHECK_DEADLOCK FALSE
