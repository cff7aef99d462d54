---------------------------- MODULE MCPartitionTicks ----------------------------
(* Two readers of three ticks, in batches of two (so that the last batch is *)
(* a short one), over two partitions, and up to three removals: a partition *)
(* is retired while a reader is pinned, and collected or not before the end. *)
EXTENDS PartitionTicks

MCRoutings == {"arc", "ref", "pinned"}
MCSpreads == {"hot", "spread"}
MCHot == {"hot"}
MCChurning == {TRUE}

================================================================================
