SPECIFICATION Spec
CONSTANTS
  MaxResources = 4
  ListPageSize = 2
  MaxReports = 2
  ReportPageSize = 1
  MaxImages = 2
  MaxCVEs = 2
  SnapshotAge = 3
  FutureSkew = 1
  Worlds <- MCWorlds
  Attempts = {1, 2}
  Readers = {1}
  Workloads <- MCWorkloads
  NamePrefixes = {}
  Freshness = 1
  FactLimit = 3
  MaxFactLimit = 4
INVARIANTS
  OneAttemptStored
  SnapshotComplete
  RuntimeProven
  AnswersConsistent
CHECK_DEADLOCK FALSE
