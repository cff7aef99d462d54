CONSTANTS
  Records = 1
  WriterThreads = 1
  ReaderThreads = 1
  Operations = 3
  Buckets = 2
  DeleteEvery = 0
  ScanEvery = 2
  Vacuum = FALSE
  Defects <- StaleUnique
  Absent = Absent
SPECIFICATION Spec
INVARIANTS
  PassedMeansNoStaleUnique
