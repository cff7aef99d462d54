CONSTANTS
  Records = 2
  WriterThreads = 1
  ReaderThreads = 1
  Operations = 6
  Buckets = 2
  DeleteEvery = 4
  ScanEvery = 2
  Vacuum = FALSE
  Defects <- WritesFail
  Absent = Absent
SPECIFICATION Spec
INVARIANTS
  PassedMeansExact
  PassedMeansComplete
  AlarmsHaveCauses
