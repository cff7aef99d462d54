------------------------------- MODULE LinkBench -------------------------------
(***************************************************************************)
(* The LinkBench driver: one worker over a link table and a node table.    *)
(* Load and generator agree on nothing but arithmetic: a link's key packs  *)
(* (id1, link_type, id2) into one number, and an existing link is named by *)
(* recomputing the target that the load must have chosen for its slot.     *)
(* The two tables are external: maps, whose calls may fail.  A row is what *)
(* the driver reads back of it: a link its source and its time, a node its *)
(* id.  (id1 << 64) | link_type is kept as the pair.                       *)
(***************************************************************************)
EXTENDS Integers, FiniteSets, Sequences, Functions

CONSTANTS
  Configs,      \* records of the counts of Config
  MaxKey,       \* the largest key, 2^64 - 1 in the code
  Recent,       \* how far a list reaches back (10 000)
  ListLimit,
  SampleEvery,
  Repetitions,
  Failures      \* bound on the calls of a repetition that fail

(* What from_args lets through.                                            *)
ConfigAssumption ==
  /\ Configs \subseteq [nodes : Nat \ {0}, links : Nat \ {0},
                        types : Nat \ {0}, operations : Nat \ {0}]
  /\ {MaxKey, Recent, Failures} \subseteq Nat
  /\ {ListLimit, SampleEvery, Repetitions} \subseteq Nat \ {0}

VARIABLES
  at,     \* where the program is
  db,     \* the two tables: links by key, nodes by id
  work,   \* config, operations, index into them, repetition
  out     \* the ResultRow being filled, and those printed

vars == <<at, db, work, out>>

LinkKinds == {"add_link", "delete_link", "update_link", "get_link"}
SourceKinds == {"count_links", "get_link_list"}
NodeKinds == {"update_node", "delete_node", "get_node"}
Kinds == LinkKinds \cup SourceKinds \cup NodeKinds \cup {"add_node"}

(* Mutated form: the span leaves out the links that operations add.        *)
LinkKeyNarrow(c, id1, type, id2) == (id1 * c.types + type) * c.nodes + id2

(* Two nodes never share a range of keys, nor two types of a node, as id2  *)
(* stays below the span.                                                   *)
LinkKey(c, id1, type, id2) == (id1 * c.types + type) * (c.nodes + c.operations) + id2

ExistingTarget(c, id1, type, slot) == (id1 * 1000003 + type * 65537 + slot) % c.nodes

(* links_per_node.div_ceil(link_types)                                     *)
SlotCount(c) == (c.links + c.types - 1) \div c.types

(* Mutated form: slots from one.                                           *)
GeneratedOffByOne(c, index) ==
  {[kind |-> "update_link", id1 |-> i, type |-> t,
    id2 |-> ExistingTarget(c, i, t, s)] :
      i \in 0 .. (c.nodes - 1), t \in 0 .. (c.types - 1), s \in 1 .. SlotCount(c)}

(* What one turn of generate_operations may yield.                         *)
Generated(c, index) ==
  LET Source == 0 .. (c.nodes - 1)
      Type == 0 .. (c.types - 1)
      Target(k, i, t, s) ==
        IF k = "add_link" THEN c.nodes + index ELSE ExistingTarget(c, i, t, s)
  IN {[kind |-> k, id1 |-> i, type |-> t, id2 |-> Target(k, i, t, s)] :
        k \in LinkKinds, i \in Source, t \in Type, s \in 0 .. (SlotCount(c) - 1)}
     \cup [kind : SourceKinds, id1 : Source, type : Type]
     \cup [kind : NodeKinds, id : Source]
     \cup {[kind |-> "add_node", id |-> c.nodes + index]}

(* What the generator yields, by form.                                     *)
Operation(c) ==
  LET Source == 0 .. (c.nodes - 1)
      Type == 0 .. (c.types - 1)
      Any == 0 .. (c.nodes + c.operations - 1)
  IN [kind : LinkKinds, id1 : Source, type : Type, id2 : Any]
     \cup [kind : SourceKinds, id1 : Source, type : Type]
     \cup [kind : NodeKinds \cup {"add_node"}, id : Any]

Fresh == [counts |-> [k \in Kinds |-> 0], samples |-> [k \in Kinds |-> 0],
          errors |-> 0, checksum |-> 0]

NoTables == [links |-> << >>, nodes |-> {}]

Init ==
  \E c \in Configs :
    \E operations \in [1 .. c.operations -> UNION {Generated(c, i) : i \in 0 .. (c.operations - 1)}] :
      /\ \A i \in 1 .. c.operations : operations[i] \in Generated(c, i - 1)
      /\ at = "linkbench-load"
      /\ db = NoTables
      /\ work = [config |-> c, operations |-> operations, index |-> 0, repetition |-> 1]
      /\ out = [row |-> Fresh, rows |-> << >>]

-------------------------------------------------------------------------------
(* Load                                                                    *)

(* A node's links go round the types.                                      *)
LoadedLink(c, id, slot) ==
  LET type == slot % c.types
      id2 == ExistingTarget(c, id, type, slot \div c.types)
  IN [key |-> LinkKey(c, id, type, id2), source |-> <<id, type>>]

Slots(c) == (0 .. (c.nodes - 1)) \X (0 .. (c.links - 1))
LoadedLinks(c) == {LoadedLink(c, s[1], s[2]) : s \in Slots(c)}

(* insert_link expects a key that is neither taken nor too large.          *)
LoadPanics(c) ==
  \/ Cardinality(LoadedLinks(c)) < Cardinality(Slots(c))
  \/ \E l \in LoadedLinks(c) : l.key > MaxKey

Loaded(c) ==
  LET loaded == LoadedLinks(c)
  IN [links |-> [k \in {l.key : l \in loaded} |->
                   [source |-> (CHOOSE l \in loaded : l.key = k).source, time |-> 0]],
      nodes |-> 0 .. (c.nodes - 1)]

Load ==
  /\ at = "linkbench-load"
  /\ IF LoadPanics(work.config)
     THEN at' = "linkbench-panicked" /\ UNCHANGED <<db, work, out>>
     ELSE at' = "linkbench-run" /\ db' = Loaded(work.config) /\ UNCHANGED <<work, out>>

-------------------------------------------------------------------------------
(* Operations                                                              *)

Running == at = "linkbench-run" /\ work.index < work.config.operations
Now == work.operations[work.index + 1]
KeyOf(op) == LinkKey(work.config, op.id1, op.type, op.id2)
Tally(f, k) == [f EXCEPT ![k] = f[k] + 1]
Put(f, k, v) == [x \in DOMAIN f \cup {k} |-> IF x = k THEN v ELSE f[x]]

(* What the loop of run_repetition does around execute; every so many      *)
(* operations are timed.                                                   *)
Step(row) ==
  /\ out' = [out EXCEPT !.row =
       [row EXCEPT !.counts = Tally(row.counts, Now.kind),
                   !.samples = IF work.index % SampleEvery = 0
                               THEN Tally(row.samples, Now.kind) ELSE row.samples]]
  /\ work' = [work EXCEPT !.index = work.index + 1]
  /\ UNCHANGED at

Answers(kinds, value) ==
  /\ Running /\ Now.kind \in kinds
  /\ Step([out.row EXCEPT !.checksum = out.row.checksum + value])

(* link_key expects the key to fit.                                        *)
KeyFits == KeyOf(Now) <= MaxKey

KeyPanic ==
  /\ Running /\ Now.kind \in LinkKinds /\ ~KeyFits
  /\ at' = "linkbench-panicked"
  /\ UNCHANGED <<db, work, out>>

UpsertLink ==
  /\ Answers({"add_link", "update_link"}, 1) /\ KeyFits
  /\ db' = [db EXCEPT !.links =
               Put(db.links, KeyOf(Now),
                   [source |-> <<Now.id1, Now.type>>, time |-> work.index])]

Present(key) == IF key \in DOMAIN db.links THEN 1 ELSE 0

(* A missing link is an answer, not an error.                              *)
DeleteLink ==
  /\ Answers({"delete_link"}, Present(KeyOf(Now))) /\ KeyFits
  /\ db' = [db EXCEPT !.links = Restrict(db.links, DOMAIN db.links \ {KeyOf(Now)})]

GetLink ==
  /\ Answers({"get_link"}, Present(KeyOf(Now))) /\ KeyFits
  /\ UNCHANGED db

LinksOf(op) == {k \in DOMAIN db.links : db.links[k].source = <<op.id1, op.type>>}

CountLinks ==
  /\ Answers({"count_links"}, Cardinality(LinksOf(Now)))
  /\ UNCHANGED db

(* index.saturating_sub(10_000); the rows are sorted and cut, and their    *)
(* number is what is answered.                                             *)
GetLinkList ==
  /\ LET from == IF work.index < Recent THEN 0 ELSE work.index - Recent
         n == Cardinality({k \in LinksOf(Now) : db.links[k].time >= from})
     IN Answers({"get_link_list"}, IF n < ListLimit THEN n ELSE ListLimit)
  /\ UNCHANGED db

AddNode ==
  /\ Answers({"add_node"}, 1)
  /\ db' = [db EXCEPT !.nodes = db.nodes \cup {Now.id}]

HasNode == IF Now.id \in db.nodes THEN 1 ELSE 0

UpdateOrGetNode ==
  /\ Answers({"update_node", "get_node"}, HasNode)
  /\ UNCHANGED db

DeleteNode ==
  /\ Answers({"delete_node"}, HasNode)
  /\ db' = [db EXCEPT !.nodes = db.nodes \ {Now.id}]

(* Any other error of a table; a get cannot tell one.                      *)
CallFails ==
  /\ Running /\ Now.kind \notin {"get_link", "get_node"}
  /\ Now.kind \in LinkKinds => KeyFits
  /\ out.row.errors < Failures
  /\ Step([out.row EXCEPT !.errors = out.row.errors + 1])
  /\ UNCHANGED db

-------------------------------------------------------------------------------
(* Repetitions                                                             *)

Report ==
  /\ at = "linkbench-run" /\ work.index = work.config.operations
  /\ out' = [row |-> Fresh, rows |-> Append(out.rows, out.row)]
  /\ IF work.repetition < Repetitions
     THEN /\ at' = "linkbench-load"
          /\ db' = NoTables
          /\ work' = [work EXCEPT !.repetition = @ + 1, !.index = 0]
     ELSE at' = "linkbench-done" /\ UNCHANGED <<db, work>>

Stopped == {"linkbench-done", "linkbench-panicked"}
Terminating == at \in Stopped /\ UNCHANGED vars

Next ==
  \/ Load \/ KeyPanic
  \/ UpsertLink \/ DeleteLink \/ GetLink \/ CountLinks \/ GetLinkList
  \/ AddNode \/ UpdateOrGetNode \/ DeleteNode \/ CallFails
  \/ Report \/ Terminating

Spec == Init /\ [][Next]_vars

-------------------------------------------------------------------------------
(* Properties                                                              *)

Phases == Stopped \cup {"linkbench-load", "linkbench-run"}

(* The types of the driver's state: in particular every link in the table  *)
(* is stored under the key of its own source.                              *)
TypeOK ==
  /\ at \in Phases
  /\ work.config \in Configs
  /\ \A i \in DOMAIN work.operations : work.operations[i] \in Operation(work.config)
  /\ work.index \in 0 .. work.config.operations
  /\ work.repetition \in 1 .. Repetitions
  /\ LET c == work.config
     IN \A k \in DOMAIN db.links :
          k \div (c.nodes + c.operations) =
            db.links[k].source[1] * c.types + db.links[k].source[2]
  /\ db.nodes \subseteq 0 .. (work.config.nodes + work.config.operations - 1)
  /\ out.row.errors \in 0 .. Failures

(* A run that is accepted panics only if its keys do not fit or a type has *)
(* more slots than there are nodes to point at: no operation repeats a key *)
(* that must be fresh (insert_link and link_key expect).                   *)
PanicsOnlyOutOfRange ==
  at = "linkbench-panicked" =>
    LET c == work.config
    IN \/ SlotCount(c) > c.nodes
       \/ c.nodes * c.types * (c.nodes + c.operations) > MaxKey

(* Id2 of a stored link is what is left of its key.                        *)
Id2(k) == k % (work.config.nodes + work.config.operations)
Added == {k \in DOMAIN db.links : Id2(k) >= work.config.nodes}

(* Every add_link makes a link of its own and every add_node a node: none  *)
(* replaces another or is taken away by an operation on an existing one,   *)
(* so what was added is what was counted, less the calls that failed.      *)
AddsAreNew ==
  at = "linkbench-run" =>
    LET counts == out.row.counts
        nodes == {n \in db.nodes : n >= work.config.nodes}
        missing == counts["add_link"] + counts["add_node"]
                     - Cardinality(Added) - Cardinality(nodes)
    IN missing \in 0 .. out.row.errors

(* The generator names as existing only links the load inserted, provided  *)
(* each node has the same number of links of every type: then an update    *)
(* brings back a deleted link and makes no other.                          *)
GeneratorAgreesWithLoad ==
  at = "linkbench-run" /\ work.config.links % work.config.types = 0 =>
    \A k \in DOMAIN db.links \ Added : \E l \in LoadedLinks(work.config) : l.key = k

(* Each repetition starts from fresh tables: without errors, it prints what *)
(* the one before printed, and every operation is counted once.            *)
RepetitionsAgree ==
  \A i, j \in 1 .. Len(out.rows) :
    out.rows[i].errors = 0 /\ out.rows[j].errors = 0 => out.rows[i] = out.rows[j]

(* What the counts a run prints rest on: links and nodes are named in the  *)
(* run as they were in the load, from one repetition to the next.          *)
LinksAsGenerated ==
  PanicsOnlyOutOfRange /\ AddsAreNew /\ GeneratorAgreesWithLoad /\ RepetitionsAgree

================================================================================
