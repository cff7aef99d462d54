------------------------ MODULE MCAcknowledgedKeyspace ------------------------
(* Three threads, three inserted keys of which one may be refused, one read  *)
(* per stream: a key can be parked behind a gap that a second thread holds  *)
(* open while the third drains across it.                                   *)
EXTENDS AcknowledgedKeyspace

CONSTANTS w1, w2, w3

MCWorker == {w1, w2, w3}
MCRecords == 2
MCInserts == 3
MCMayFail == {3}
MCMaxReads == 1
MCKeyMax == 5

================================================================================
