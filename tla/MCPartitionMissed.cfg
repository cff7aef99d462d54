CONSTANTS
  Partitions = 2
  Readers = 2
  TicksPerReader = 3
  Batch = 2
  MaxChurn = 3
  Routings <- MCRoutings
  Spreads <- MCHot
  Churns <- MCChurning
SPECIFICATION Spec
INVARIANTS
  NoMissMeansNoChurn
