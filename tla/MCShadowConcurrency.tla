------------------------- MODULE MCShadowConcurrency -------------------------
(* Instances of the shadow harness.  The Sound instance has two writers of *)
(* two rows and one reader over a table that keeps its contract.  In the   *)
(* Faulty one a reader watches a writer whose six turns let the table      *)
(* refuse every write, leave an entry in a bucket and take the wrong one   *)
(* out, so that an old entry may come to stand for a lost one; the other   *)
(* defects only make a run fail, but for stale_unique, the third instance. *)
EXTENDS ShadowConcurrency

NoDefects == {}
StaleUnique == {"stale_unique"}
WritesFail ==
  {"update_error", "delete_error", "insert_error", "stale_bucket", "wrong_removal"}

================================================================================
