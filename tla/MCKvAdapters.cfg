CONSTANTS
  Rows = 3
  Operations = 2
  ScanOperations = 2
  ScanLength = 2
  Repetitions = 2
  Engines <- MCEngines
SPECIFICATION Spec
INVARIANTS
  ReportsAgree
  LeavesOthers
