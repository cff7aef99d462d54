CONSTANTS
  Records = 2
  WriterThreads = 2
  ReaderThreads = 1
  Operations = 4
  Buckets = 2
  DeleteEvery = 2
  ScanEvery = 2
  Vacuum = TRUE
  Defects <- NoDefects
  Absent = Absent
SPECIFICATION FairSpec
INVARIANTS
  NoFalseAlarm
  StableMeansQuiet
PROPERTIES
  VerdictGiven
