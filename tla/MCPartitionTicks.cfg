CONSTANTS
  Partitions = 2
  Readers = 2
  TicksPerReader = 3
  Batch = 2
  MaxChurn = 3
  Routings <- MCRoutings
  Spreads <- MCSpreads
  Churns = {TRUE, FALSE}
SPECIFICATION Spec
INVARIANTS
  ReportExact
  PartitionsWhole
  HotNeverMisses
