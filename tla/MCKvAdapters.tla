------------------------------ MODULE MCKvAdapters ------------------------------
(* Three rows, two operations and scans of two rows: the keys of the point *)
(* phases may repeat, key 0 is overwritten by itself (0 * 17 = 0), and a   *)
(* scan of the last rows has no row after it.                              *)
EXTENDS KvAdapters

MCEngines == {"worktable", "sqlite-memory", "redb", "lmdb", "duckdb"}

================================================================================
