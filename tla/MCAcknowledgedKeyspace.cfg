CONSTANTS
  w1 = w1
  w2 = w2
  w3 = w3
  NoWorker = NoWorker
  Worker <- MCWorker
  Records <- MCRecords
  Inserts <- MCInserts
  MayFail <- MCMayFail
  MaxReads <- MCMaxReads
  KeyMax <- MCKeyMax
SPECIFICATION FairSpec
INVARIANTS
  ReadsHit
  NoAckLost
  IInv
PROPERTIES
  FrontierMonotone
  ImplementsPrefix
  FrontierSettles
