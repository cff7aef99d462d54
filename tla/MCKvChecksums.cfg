CONSTANTS
  Rows = 3
  Operations = 2
  ScanOperations = 2
  ScanLength = 2
  Repetitions = 1
  Engines <- MCEngines
SPECIFICATION Spec
INVARIANTS
  ChecksumsMatch
