CONSTANTS
  Threads = 2
  Subscribers = 1
  Operations = 3
  SfTypes <- MCSfTypes
  StartTimes <- MCStartTimes
SPECIFICATION Spec
INVARIANTS
  TypeOK
  Referential
  AbortsWriteNothing
  Conservation
  CleanReport
PROPERTIES
  FacilitiesKept
