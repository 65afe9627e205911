CONSTANTS
  Payloads <- MCPayloads
  Bare <- MCBare
  Width = 10
SPECIFICATION Spec
INVARIANTS TypeOK HighIsEarned OneFindingPerRiskySite PathOrderIrrelevant FileOrderIrrelevant EachFunctionOnce CallsSeeEveryFile DoubtsReachTheirFunction SilenceMeansUnderstood PartialExplained ReportIsComplete
PROPERTIES RerenderingChangesNothing
CHECK_DEADLOCK FALSE
