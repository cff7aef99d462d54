CONSTANTS
  Threads = 2
  Records = 2
  Operations = 4
  MaxRetries = 2
  Workloads <- MCWorkloads
  Drivers <- MCDrivers
  Faults <- MCFaults
SPECIFICATION FairSpec
INVARIANTS
  OnlyMeasured
  WellFounded
  ReportComplete
  ReportMatchesTable
  GivesUpLate
PROPERTIES
  RunEnds
