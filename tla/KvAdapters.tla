------------------------------- MODULE KvAdapters -------------------------------
(***************************************************************************)
(* The adapters of the key-value workload: one driver per engine, which    *)
(* runs the same five phases over the same keys and reports a checksum for *)
(* each.  They differ in how a phase is cut into transactions, in what     *)
(* writing or reading an absent key does, in what bounds a scan and in what *)
(* they report, so that the checksums agree is not obvious.                *)
(* The engines are external: a table is a function from keys to payloads.  *)
(* A payload is the seed it is generated from, and a checksum, a sum of    *)
(* hashes of keys and payloads, is the bag of what is hashed (collisions   *)
(* are left out).  A checksum that is a count is kept apart.               *)
(***************************************************************************)
EXTENDS Integers, FiniteSets, Sequences, Bags

CONSTANTS
  Rows, Operations, ScanOperations, ScanLength,   \* KvConfig
  Repetitions,
  Engines          \* the adapters to run

(* KvConfig::validate                                                      *)
ASSUME ConfigAssumption ==
  /\ {Rows, Operations, ScanOperations, ScanLength, Repetitions} \subseteq Nat \ {0}
  /\ ScanLength <= Rows
ASSUME EnginesAssumption ==
  Engines \subseteq {"worktable", "sqlite-memory", "redb", "lmdb", "duckdb"}

Key == 0 .. (Rows - 1)

VARIABLES
  engine, scope,          \* which adapter, and TransactionScope
  pointKeys, scanStarts,  \* the keys the seed yields
  repetition,
  phase,                  \* of the repetition
  position,               \* operations of the phase done
  committed,              \* the table, as committed
  table,                  \* and as the open transaction sees it
  open,                   \* whether one is open
  hashed,                 \* the rows in the phase's checksum
  deleted,                \* the rows deleted so far
  reports                 \* what the repetition emitted

config == <<engine, scope, pointKeys, scanStarts>>
tables == <<committed, table>>
sums == <<hashed, deleted>>
vars == <<config, repetition, phase, position, tables, open, sums, reports>>

Phases == <<"insert", "point_read", "overwrite", "range_scan", "delete_random">>
NoRows == [k \in {} |-> 0]

(* Operations of a phase.                                                  *)
Work ==
  IF phase = "insert" THEN Rows
  ELSE IF phase = "range_scan" THEN ScanOperations ELSE Operations

(* WorkTable refuses batches.  Every repetition opens a fresh database.    *)
Init ==
  /\ engine \in Engines
  /\ scope \in IF engine = "worktable" THEN {"per-operation"}
                                       ELSE {"per-operation", "batch"}
  /\ pointKeys \in [1 .. Operations -> Key]
  /\ scanStarts \in [1 .. ScanOperations -> 0 .. (Rows - ScanLength)]
  /\ repetition = 1 /\ phase = "insert" /\ position = 0
  /\ committed = NoRows /\ table = NoRows /\ open = FALSE
  /\ hashed = EmptyBag /\ deleted = 0
  /\ reports = << >>

-------------------------------------------------------------------------------
(* Transactions                                                            *)

(* DuckDB's adapter batches inserts only.                                  *)
Batched == scope = "batch" /\ (engine = "duckdb" => phase = "insert")

Begin ==
  /\ Batched /\ ~open /\ position = 0
  /\ phase \notin {"failed", "emitted"}
  /\ open' = TRUE
  /\ UNCHANGED <<config, repetition, phase, position, tables, sums, reports>>

(* Mutated form: the batch of deletions is dropped.                       *)
CommitWrites ==
  /\ open /\ position = Work
  /\ open' = FALSE
  /\ IF phase = "delete_random" THEN table' = committed /\ UNCHANGED committed
     ELSE committed' = table /\ UNCHANGED table
  /\ UNCHANGED <<config, repetition, phase, position, sums, reports>>

(* A batch that only reads has nothing to commit.                          *)
Commit ==
  /\ open /\ position = Work
  /\ open' = FALSE
  /\ committed' = table
  /\ UNCHANGED <<config, repetition, phase, position, table, sums, reports>>

(* An operation of a phase: outside a batch it is a transaction.           *)
Operation(name) ==
  /\ phase = name /\ position < Work
  /\ Batched => open
  /\ position' = position + 1
  /\ UNCHANGED <<config, repetition, open, reports>>

Store(rows) ==
  /\ table' = rows
  /\ committed' = IF open THEN committed ELSE rows

(* expect, or an error that main returns: the adapter ends.                *)
Fail ==
  /\ phase' = "failed"
  /\ UNCHANGED <<tables, sums>>

-------------------------------------------------------------------------------
(* The phases                                                              *)

Put(k, seed) == [j \in DOMAIN table \cup {k} |-> IF j = k THEN seed ELSE table[j]]

(* LMDB and redb overwrite a row that is there, the others refuse it.      *)
Upserts == engine \in {"redb", "lmdb"}

Insert ==
  /\ Operation("insert")
  /\ IF position \in DOMAIN table /\ ~Upserts THEN Fail
     ELSE Store(Put(position, position)) /\ UNCHANGED <<phase, sums>>

PointRead ==
  /\ Operation("point_read")
  /\ LET k == pointKeys[position + 1]
     IN IF k \notin DOMAIN table THEN Fail
        ELSE /\ hashed' = hashed (+) SetToBag({<<k, table[k]>>})
             /\ UNCHANGED <<phase, tables, deleted>>

(* An SQL update of an absent row changes nothing, WorkTable's fails.      *)
Overwrite ==
  /\ Operation("overwrite")
  /\ LET k == pointKeys[position + 1]
     IN IF k \in DOMAIN table \/ Upserts
        THEN Store(Put(k, 17 * k)) /\ UNCHANGED <<phase, sums>>
        ELSE IF engine = "worktable" THEN Fail
        ELSE UNCHANGED <<phase, tables, sums>>

(* WorkTable is asked for a range of keys, the others for a number of rows. *)
Within(start) == {k \in DOMAIN table : start <= k /\ k < start + ScanLength}
First(start) ==
  {k \in DOMAIN table :
     /\ start <= k
     /\ Cardinality({j \in DOMAIN table : start <= j /\ j < k}) < ScanLength}

(* Mutated form: a range that includes its end.                            *)
RangeScanInclusive ==
  /\ Operation("range_scan")
  /\ LET start == scanStarts[position + 1]
         end == {start + ScanLength} \cap DOMAIN table
         keys == IF engine = "worktable" THEN Within(start) \cup end ELSE First(start)
     IN hashed' = hashed (+) SetToBag({<<k, table[k]>> : k \in keys})
  /\ UNCHANGED <<phase, tables, deleted>>

RangeScan ==
  /\ Operation("range_scan")
  /\ LET start == scanStarts[position + 1]
         keys == IF engine = "worktable" THEN Within(start) ELSE First(start)
     IN hashed' = hashed (+) SetToBag({<<k, table[k]>> : k \in keys})
  /\ UNCHANGED <<phase, tables, deleted>>

(* The keys repeat: a key that is gone is not counted again.               *)
Delete ==
  /\ Operation("delete_random")
  /\ LET k == pointKeys[position + 1]
     IN /\ Store([j \in DOMAIN table \ {k} |-> table[j]])
        /\ deleted' = deleted + Cardinality({k} \cap DOMAIN table)
  /\ UNCHANGED <<phase, hashed>>

-------------------------------------------------------------------------------
(* Reports                                                                 *)

(* What main passes to emit for a write phase: WorkTable its row count, the *)
(* others what they were asked to write.                                   *)
Counted ==
  IF phase = "insert"
  THEN IF engine = "worktable" THEN Cardinality(DOMAIN table) ELSE Rows
  ELSE IF phase = "overwrite"
  THEN IF engine = "worktable" THEN Cardinality(DOMAIN table) ELSE Operations
  ELSE IF phase = "delete_random" THEN deleted ELSE 0

Emit ==
  /\ phase # "failed" /\ ~open /\ position = Work
  /\ Len(reports) < Len(Phases)
  /\ reports' = Append(reports, [operation |-> phase, count |-> Counted, rows |-> hashed])
  /\ phase' = IF Len(reports') < Len(Phases) THEN Phases[Len(reports') + 1] ELSE "emitted"
  /\ position' = 0
  /\ hashed' = EmptyBag /\ deleted' = 0
  /\ UNCHANGED <<config, repetition, tables, open>>

Repeat ==
  /\ phase = "emitted" /\ repetition < Repetitions
  /\ repetition' = repetition + 1
  /\ phase' = "insert" /\ reports' = << >>
  /\ committed' = NoRows /\ table' = NoRows
  /\ UNCHANGED <<config, position, open, sums>>

Terminating == phase = "emitted" /\ repetition = Repetitions /\ UNCHANGED vars

Next ==
  \/ Begin \/ Commit
  \/ Insert \/ PointRead \/ Overwrite \/ RangeScan \/ Delete
  \/ Emit \/ Repeat \/ Terminating

Spec == Init /\ [][Next]_vars

-------------------------------------------------------------------------------
(* Properties                                                              *)

(* The rows that a checksum should be of, had every phase been one step on *)
(* a map: the payload is the overwritten one after the overwrites.         *)
Point(k) == Cardinality({i \in DOMAIN pointKeys : pointKeys[i] = k})
Scanned(k) ==
  Cardinality({i \in DOMAIN scanStarts : k - scanStarts[i] \in 0 .. (ScanLength - 1)})
Overwritten(k) == IF Point(k) > 0 THEN 17 * k ELSE k
BagOf(copies(_), seed(_)) ==
  [e \in {<<k, seed(k)>> : k \in {j \in Key : copies(j) > 0}} |-> copies(e[1])]

Same(k) == k
Reference(operation) ==
  [operation |-> operation,
   count |-> IF operation = "insert" THEN Rows
             ELSE IF operation = "overwrite" THEN Operations
             ELSE IF operation = "delete_random" THEN Cardinality({k \in Key : Point(k) > 0})
             ELSE 0,
   rows |-> IF operation = "point_read" THEN BagOf(Point, Same)
            ELSE IF operation = "range_scan" THEN BagOf(Scanned, Overwritten)
            ELSE EmptyBag]

(* Whatever the engine and the scope, an adapter gets through every phase  *)
(* and the checksums it emits are those of the reference, so the adapters  *)
(* agree (main and the phases of the five kv binaries).  The overwrite     *)
(* phase, where they do not, is left to ChecksumsMatch.                    *)
ReportsAgree ==
  /\ phase # "failed"
  /\ \A i \in 1 .. Len(reports) :
       \/ reports[i].operation = "overwrite"
       \/ reports[i] = Reference(Phases[i])

(* What a repetition leaves behind, committed: the rows no point key names, *)
(* with the payload they were inserted with.  The overwrites thus touched  *)
(* no other row, and the deletions are all there, in whichever scope.      *)
LeavesOthers ==
  phase = "emitted" =>
    committed = [k \in {j \in Key : Point(j) = 0} |-> k]

(* What the adapters' documentation says: the shared phases have matching  *)
(* checksums, the overwrite phase like the others.                         *)
ChecksumsMatch ==
  \A i \in 1 .. Len(reports) : reports[i] = Reference(Phases[i])

===============================================================================
