------------------------------ MODULE Generations ------------------------------
(***************************************************************************)
(* The code-graph store: three tables filled in turn by a publication, each*)
(* with a persistence engine of its own that writes behind, and a flush    *)
(* that waits for the three engines.  The process may be torn down at any  *)
(* moment; opening the directory again loads what each engine had written. *)
(* The engines are external: they write rows in the order they were queued *)
(* at their own pace, and nothing that was not flushed is promised.        *)
(* A generation is its number; its rows differ in nothing the store        *)
(* decides on but the file they are of.                                    *)
(***************************************************************************)
EXTENDS Integers, Sequences, FiniteSets

CONSTANTS
  Files,         \* FILES: the sizes a first generation may have
  ChangedFiles,  \* CHANGED_FILES: that of the later ones
  Generations,   \* bound on the generations of an arm
  Symbols,       \* SYMBOLS_PER_FILE
  Edges,         \* EDGES_PER_FILE
  Crashes        \* bound on the teardowns

GenerationAssumption ==
  /\ {ChangedFiles, Generations, Symbols, Edges} \subseteq Nat \ {0}
  /\ Files \subseteq Nat \ {0} /\ Crashes \in Nat

Table == {"postings", "lexemes", "edges"}

VARIABLES
  at,     \* where the arm is
  db,     \* rows in memory and on disk, by table
  work,   \* the arm, the generation and the locals
  out     \* generations whose publication and whose flush have returned

vars == <<at, db, work, out>>

Phases == {"graph-next", "graph-postings", "graph-lexemes", "graph-edges", "graph-open",
           "graph-flush-postings", "graph-flush-lexemes", "graph-flush-edges"}
Empty == [t \in Table |-> << >>]

Init ==
  /\ at = "graph-next"
  /\ db = [memory |-> Empty, disk |-> Empty]
  /\ \E persisted \in BOOLEAN, files \in Files :
       work = [persisted |-> persisted, files |-> files, generation |-> 0,
               crashes |-> 0, rows |-> 0]
  /\ out = [published |-> {}, flushed |-> {}, written |-> 0]

FilesOf(g) == IF g = 0 THEN work.files ELSE ChangedFiles

(* The rows of a generation: <<generation, file>>, as often as it has      *)
(* symbols or edges.                                                       *)
Times(t) == IF t = "edges" THEN Edges ELSE Symbols
RowsOf(g, t) ==
  [i \in 1 .. (FilesOf(g) * Times(t)) |-> <<g, (i - 1) \div Times(t)>>]
RowsPerGeneration(files) == files * (Symbols * 2 + Edges)

Begin ==
  /\ at = "graph-next" /\ work.generation < Generations
  /\ at' = "graph-postings"
  /\ work' = [work EXCEPT !.rows = 0]
  /\ UNCHANGED <<db, out>>

(* One insert_many; a table that was inserted into has its engine behind.  *)
InsertMany(t) ==
  /\ db' = [db EXCEPT !.memory[t] = db.memory[t] \o RowsOf(work.generation, t)]
  /\ work' = [work EXCEPT !.rows = @ + FilesOf(work.generation) * Times(t)]

Postings ==
  /\ at = "graph-postings" /\ InsertMany("postings")
  /\ at' = "graph-lexemes" /\ UNCHANGED out

Lexemes ==
  /\ at = "graph-lexemes" /\ InsertMany("lexemes")
  /\ at' = "graph-edges" /\ UNCHANGED out

(* The last insertion ends the publication; it does not flush.             *)
EdgesAndReturn ==
  /\ at = "graph-edges"
  /\ db' = [db EXCEPT !.memory["edges"] = db.memory["edges"] \o RowsOf(work.generation, "edges")]
  /\ out' = [out EXCEPT !.published = @ \cup {work.generation},
                        !.written = work.rows + FilesOf(work.generation) * Edges]
  /\ IF work.persisted
     THEN at' = "graph-flush-postings" /\ UNCHANGED work
     ELSE at' = "graph-next" /\ work' = [work EXCEPT !.generation = @ + 1]

(* An engine writes its next row.                                          *)
Engine(t) ==
  /\ at \in Phases \ {"graph-open"}
  /\ work.persisted /\ Len(db.disk[t]) < Len(db.memory[t])
  /\ db' = [db EXCEPT !.disk[t] = Append(db.disk[t], db.memory[t][Len(db.disk[t]) + 1])]
  /\ UNCHANGED <<at, work, out>>

Drained(t) == Len(db.disk[t]) = Len(db.memory[t])

FlushPostings ==
  /\ at = "graph-flush-postings" /\ Drained("postings")
  /\ at' = "graph-flush-lexemes" /\ UNCHANGED <<db, work, out>>

FlushLexemes ==
  /\ at = "graph-flush-lexemes" /\ Drained("lexemes")
  /\ at' = "graph-flush-edges" /\ UNCHANGED <<db, work, out>>

(* Mutated form: the flush ends without waiting for the last engine.       *)
FlushTwo ==
  /\ at = "graph-flush-edges"
  /\ at' = "graph-next"
  /\ out' = [out EXCEPT !.flushed = @ \cup {work.generation}]
  /\ work' = [work EXCEPT !.generation = @ + 1]
  /\ UNCHANGED db

FlushEdges ==
  /\ at = "graph-flush-edges" /\ Drained("edges")
  /\ at' = "graph-next"
  /\ out' = [out EXCEPT !.flushed = @ \cup {work.generation}]
  /\ work' = [work EXCEPT !.generation = @ + 1]
  /\ UNCHANGED db

(* What was in memory is lost, and with it what the engines had not        *)
(* written.                                                                *)
Crash ==
  /\ at \in Phases \ {"graph-open"}
  /\ work.persisted /\ work.crashes < Crashes
  /\ at' = "graph-open"
  /\ db' = [db EXCEPT !.memory = Empty]
  /\ work' = [work EXCEPT !.crashes = @ + 1]
  /\ UNCHANGED out

(* One engine per table, then a load.  What is done with a generation that *)
(* was cut off is its caller's affair: here it goes on with the next.      *)
Open ==
  /\ at = "graph-open"
  /\ at' = "graph-next"
  /\ db' = [db EXCEPT !.memory = db.disk]
  /\ work' = [work EXCEPT !.generation = @ + 1]
  /\ UNCHANGED out

GenerationScan(g) ==
  LET rows == db.memory["lexemes"] IN Cardinality({i \in DOMAIN rows : rows[i][1] = g})

(* Both sides of a node's edges: a row's source is its file, its target the*)
(* next file, and neither carries the generation.                          *)
DependencyWalk(node) ==
  LET rows == db.memory["edges"]
  IN Cardinality({i \in DOMAIN rows : rows[i][2] = node})
       + Cardinality({i \in DOMAIN rows : rows[i][2] + 1 = node})

Probe(g) == FilesOf(g) \div 2

Terminating ==
  /\ at = "graph-next" /\ work.generation >= Generations
  /\ UNCHANGED vars

Next ==
  \/ Begin \/ Postings \/ Lexemes \/ EdgesAndReturn
  \/ \E t \in Table : Engine(t)
  \/ FlushPostings \/ FlushLexemes \/ FlushEdges
  \/ Crash \/ Open \/ Terminating

Spec == Init /\ [][Next]_vars
-------------------------------------------------------------------------------
(* Properties                                                              *)

(* The rows of a generation are there, whole and in order, and nowhere     *)
(* else.                                                                   *)
Holds(rows, g, t) ==
  \E from \in 0 .. Len(rows) :
    LET n == FilesOf(g) * Times(t)
    IN /\ from + n <= Len(rows)
       /\ \A i \in 1 .. n : rows[from + i] = RowsOf(g, t)[i]
       /\ \A j \in DOMAIN rows : rows[j][1] = g => j \in (from + 1) .. (from + n)

(* The types of the store's state: an engine never runs ahead.             *)
TypeOK ==
  /\ at \in Phases
  /\ \A t \in Table : at # "graph-open" =>
       SubSeq(db.memory[t], 1, Len(db.disk[t])) = db.disk[t]
  /\ work.generation \in 0 .. (Generations + Crashes)

(* A deploy that tears the process down after the drain has lost nothing:  *)
(* each of the three tables holds the whole of a flushed generation, then  *)
(* and after any number of teardowns and reopenings.                       *)
FlushedSurvives ==
  \A g \in out.flushed : \A t \in Table :
    Holds(db.disk[t], g, t) /\ (at # "graph-open" => Holds(db.memory[t], g, t))

(* What the query arms ask of a store that holds published generations: a  *)
(* scan returns its own generation and no other's, a walk from the middle  *)
(* of a store of one generation finds both sides of the node, and the rows *)
(* written are those the throughput is stated over.                        *)
QueriesAnswerExactly ==
  at # "graph-open" /\ work.crashes = 0 =>
    /\ \A g \in out.published : GenerationScan(g) = FilesOf(g) * Symbols
    /\ at = "graph-next" /\ out.published = {0} /\ work.files > 1 =>
         DependencyWalk(Probe(0)) = 2 * Edges
    /\ at = "graph-next" /\ out.published # {} =>
         out.written = RowsPerGeneration(FilesOf(work.generation - 1))

(* Both together: teardowns lose no flushed generation, and queries answer *)
(* for the published ones.                                                 *)
StoreAnswers == FlushedSurvives /\ QueriesAnswerExactly

================================================================================
