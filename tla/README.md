# TLA+ models of wt-benchmarks

wt-benchmarks measures WorkTable against other embedded engines. What its numbers
mean is decided by its own harnesses: which keys a read may ask for, what counts
as a failure, what falls inside the measured window, what a run that "passes" has
shown. These modules model that harness logic. The engines it drives (WorkTable,
SQLite, redb, LMDB, DuckDB), the index crates, tokio and the standard library are
external: they appear as far as the code in `src/` relies on them, and where the
harness exists to catch them misbehaving, with the ways in which they may.

Paths below are relative to the repository root, which `src/` holds, so that
`src/src/ycsb/generator.rs` is the library's `src/ycsb/generator.rs`.

## 1. Inventory

| Component | State it keeps | Operations | How it meets the others | What is hard | What makes it correct |
|---|---|---|---|---|---|
| Acknowledged keyspace (`ycsb/generator.rs`) | the frontier (an atomic word), a mutex around an ordered set of pending keys | `resolve`, `acknowledge` | shared by all threads of a Workload D run | stale tests before the lock, gaps from refused insertions, keys taken out of the set and not yet published | reads never miss; no acknowledgement is lost; the frontier never retreats; it ends at the first gap |
| YCSB generation (`ycsb/generator.rs`, `ycsb/mod.rs`) | next key, the streams | `generate_streams` | hands each thread its stream | consecutive keys go to different threads | no key inserted twice, none sampled before its insertion was generated |
| YCSB drivers (`ycsb/worktable_adapter.rs`, `bin/ycsb-sqlite.rs`, `campaigns/ycsb-index-backends`) | a `WorkerResult` per thread, two barriers, the clock | one call per operation, retry (SQLite), second read (campaign), join and merge | threads over one table and one keyspace | barriers, retries, a report that must add up | only measured work; every operation reported once; report and table agree; the run ends |
| Shadow harness (`campaigns/ycsb-index-backends/src/bin/shadow-concurrency.rs`) | an atomic word per row (generation, WRITING bit), failure counters | write, delete and reinsert, three lookups, bucket scan, vacuum, final comparison | writers and readers over one table, with no lock between them | a lookup judged by the word before and after; half-done writes; failures half way | no false alarm on a sound table; a pass means the table is what the words say |
| TATP (`bin/tatp-worktable.rs`) | four tables, `WorkerResult`s | seven procedures of one to three calls | workers over shared tables, no cross-table transaction | procedures interleave call by call; expected aborts | referential integrity; aborts write nothing; conservation; a clean report |
| Partition ticks (`partition_ticks.rs`) | partition slots, retired partitions, two flags, two counters | readers route and select, a writer removes and recreates | spin on a flag, joins | removal under pinned readers; relaxed counters | outcome exact after the joins; table whole; hot readers never miss |
| KV adapters (`kv.rs`, `kv_table.rs`, `bin/kv-*.rs`) | one table per engine, a checksum | five phases in two transaction scopes | records are compared across engines | repeated keys, dense-key assumptions of scans, batches | equal checksums on every engine |
| LinkBench (`bin/linkbench-worktable.rs`) | link and node tables, packed keys | load, ten link and node operations, repetitions | one worker | an existing link is named by arithmetic the load repeats, and keys are packed into a word | generator and load agree; what is added is new; repetitions agree |
| Contention campaign (`campaigns/contention`) | hot rows, shared counters, the verdict; `DynTable`'s five locked parts; seven stores of the ablation | increments under four and five modes; insert, select, update of a dynamic table; phases of single-threaded comparisons | workers over one row; a table built of locks that are dropped between steps | lost updates and how they are counted; index and rows apart for a step | verdict sound both ways; `DynTable` is an atomic dictionary; the engines answer alike |
| Vacuum (`vacuum_yield.rs`, `vacuum_stress.rs`) | two queues or a cursor beside a table, page counts | seed, fragment, load, drain, report | a background sweep beside the measured work | queues that must mirror a table others move; when a quiet phase may end | queues are the table; page counts of comparable arms; closed for a reason |
| Concurrent mix (`concurrent_mix.rs`) | disjoint key spans, shared counters | scripted reads and writes | threads over one table with a unique index | the payload must make each write an index change | no write refused, no read missed, last write stands |
| Publication and persistence (`moe_pgo.rs`, `codegraph.rs`) | versions of a map, the current one; three tables and their engines | publish, retire, resolve, accumulate; publish, flush, reopen, query | readers beside a publisher; engines writing behind, teardowns | load of the version and lookup in two steps; a crash between inserts and between flushes | the current map is whole; flushed generations survive |
| speedtest1 and micro-layers (`bin/speedtest1-*.rs`, `bin/micro-layers.rs`) | one store per engine | nine phases, four phases | compared by what they print | signed columns, closed and half-open ranges, counts | same checksum from every engine |
| Index-backend campaign (`campaigns/index-backends`) | one table, keys computed from a sequence number | eight phases in order | later phases depend on the rows of earlier ones | wrapping key arithmetic, updates that re-key rows | no phase trips over another; ends with its rows |
| Everything else | mostly none of its own | argument parsing, timing loops, medians, I/O | | | see section 7 |

`PROJECT.json` lists every component with its sources and status, and every hazard
with the line where it bites and the properties that would catch it.

## 2. Modules

```
AcknowledgedPrefix            abstract: an acknowledgement is one step
   ^ implemented by
AcknowledgedKeyspace          the atomic word, the mutex, the ordered set
   AcknowledgedKeyspace_proofs
YcsbRun                       uses AcknowledgedPrefix in place of the detailed one
   YcsbRun_proofs
ShadowConcurrency   ShadowConcurrency_proofs
Tatp             Tatp_proofs
PartitionTicks   PartitionTicks_proofs
KvAdapters       KvAdapters_proofs

Dictionary                    abstract: the calls of a table are atomic
   ^ implemented by
DynTable                      slots, index, row locks, each behind its own lock
Drivers                       DynTable and, side by side, the drivers that run alone:
   LinkBench  Contention  Ablation  Vacuum  ConcurrentMix  Publication
   Generations  Speedtest  IndexBackends  MicroLayers
   Drivers_proofs             DynTable and seven of them: LinkBench, ConcurrentMix,
                              Publication, IndexBackends, Ablation, MicroLayers, Speedtest
      Storage_proofs          extends it: Vacuum, Generations, Contention, and the
                              types of all of them
```

Each `MC*` module gives the module it extends its small instances, with one
`.cfg` per question. What a comment calls a "mutated form" is a definition no
specification uses: the bug that the property of the same run would catch in its
place.

The drivers that `Drivers` instantiates are programs of their own that never run together.
They share the four variables `at`, `db`, `work`, `out` (where the program is,
what its store holds, its arguments and locals, what it reports); every phase
carries its driver's name, so that an action of one driver is never enabled in
another's phase and the state space of `Drivers` is the disjoint union of theirs.
An initial state chooses the driver and its arguments. The arguments of every driver
are CONSTANTS of `Drivers`, so its theorems are about all of them; `MCDrivers` gives
them values. Each property of the run
speaks of one driver, or of the drivers whose records are compared.

### AcknowledgedKeyspace, AcknowledgedPrefix

Source: `AcknowledgedKeyspace` in `src/src/ycsb/generator.rs` and the loop around
it in `worktable_adapter.rs`. `frontier`, `pending` and `lock` are the three
fields; `pc`, `key`, `seen`, `todo` are a thread's program counter, the key it
holds, its local `contiguous` value and what is left of its stream. Every load,
lock, re-read, removal from the set, store and unlock of `acknowledge` is an
action, so threads interleave between any two of them. `resolve` and the `select`
it feeds are two actions. `MayFail` names the insertions the table may refuse.

`AcknowledgedPrefix` is the promise: one acknowledgement, one step, the frontier
always the end of the unbroken run. The refinement mapping substitutes for the
abstract `acked` what the frontier covers and what is parked or being drained,
less the key whose thread has yet to store: an acknowledgement takes effect with
the store, not with the insertion into the set.

### YcsbRun

Source: generation, `run_benchmark`/`main` of the three drivers and their worker
loops. `Generate` is one turn of the generator; `Arrive`, `ReadyOpens`, `Measure`,
`StartOpens` are the barriers and the clock between them; `Begin` takes the next
operation and resolves its key; each call is an action; `Busy` is SQLite's retry;
`Again` is the campaign's second read; `Join`, `Elapsed` the end. A row is its key
(no driver reads back what an update wrote, and nothing is deleted). `Faults` is
what each engine may do wrong: miss a row, refuse an insertion, be busy.

### ShadowConcurrency

Source: `shadow-concurrency.rs`. `shadow` holds the words, `rows`, `unique`,
`buckets` the table and its two indexes, `alarms` the failure counters that are
not zero. A writer's turn is `Begin` (loads the word), `Mark` (sets WRITING), the
table's update (row, then the old entries) or a delete and a reinsert, `Settle`
(the generation after the one loaded, or the loaded one back), `Probe`. A reader's
turn is `Pick`, `Load`, `Look`, `Judge`, now and then `Scan` and `Fetch`.
`Final` is the comparison after the joins. `Defects`
chooses among ten ways for the table to break its contract, and `Causes` says which
of them each counter stands for.

### Tatp

Source: `tatp-worktable.rs`. Each call to a table is an action, as nothing
encloses a procedure. A column is the operation that last wrote it, since no
property depends on the random values; keys are packed as the code packs them.
Each worker has one stream by index, `index % threads`. Ghost variables `initial`
and `ended` remember the load and the outcome of each operation.

### PartitionTicks

Source: `partition_ticks.rs`, `run` and `pinned_ticks`. The partitioned table is
external: a slot is there or not, removing retires a partition with the readers
then pinned, collecting drops the retired ones no reader holds any more.
`MaxChurn` bounds the removals; the code has no bound.

### KvAdapters

Source: the five `bin/kv-*.rs` over `kv.rs` and `kv_table.rs`. `table` is what the
open transaction sees, `committed` what is committed; `Begin` and `Commit` enclose
the phases an adapter batches (DuckDB only insertion), other operations are
transactions of their own. The engines' differences are explicit: which upsert,
which refuse, what an absent row does, what bounds a scan, what is reported. A
payload is the seed it comes from, a checksum the bag of what is hashed, so that
collisions of FNV-1a are left out.

### LinkBench

Source: `bin/linkbench-worktable.rs`. `LinkKey`, `ExistingTarget` and `Generated`
are the packing and the generator as the code computes them; `Load` inserts every
slot of every node; each of the ten operations is an action on `db.links` and
`db.nodes`; a table call may fail (`CallFails`, at most `Failures` per repetition);
`Report` ends a repetition and starts the next from fresh tables. A key that does
not fit (`MaxKey`) panics, as `link_key` does. The mix of operations is left open.

### Contention, DynTable, Dictionary, Ablation

Source: `campaigns/contention`. `Contention` is the cells of `contention-paper.rs`
(and its Criterion port) and of `contention-quick.rs`: `Warmup`, `Reset`, `Start`,
the workers' `Call` and `Commit`, `Finish`, `Judge` or `Stop`. A call reads what it
changes and writes it back later; which calls may overlap is `Excludes`, from the
mode and the table's column locks; `Defects` lets the table do without its locks,
apply an increment twice or refuse.

`DynTable` (`dynamic.rs`) is the hand-written table in full: an insertion draws a
key, pushes a row, publishes its position, with the slots' lock and the index's
taken one after the other; a selection looks a position up and then reads it; an
update finds or makes the row's lock, takes it, looks up, stores, and drops it on
every way out. `Dictionary` has the three calls in one step each. An insertion
takes effect when it publishes, an update when it stores, a selection when it
reads the slot or misses the key.

`Ablation` is the single-threaded binaries: eight engines, each with the list of
phases it runs, over rows found by key, by a secondary field and by range. Loops
that run once per row make no call over an empty store; those with a count of their
own (ranges, scans) draw from nothing there and panic.

### Vacuum

Source: `vacuum_yield.rs` and `vacuum_stress.rs`. An arm seeds, fragments, runs its
load until the timer's flag is seen between turns, drains by polling and reports.
The table is external at the level the suites measure: pages, their rows, the free
list. `Sweep` may empty any page into others between any two steps while the arm's
vacuum runs, `Completion` counts a pass. `saw`, `quiet`, `polls` are the locals that
decide when the drain ends.

### ConcurrentMix

Source: `concurrent_mix.rs`. Every thread runs `Ops` operations over keys of its
own span; a payload is the key plus the thread's count of writes times the number
of rows, as in the code; the unique index refuses a payload that another row
holds. `mine` and `same` are ghosts: the last write of each thread to each key, and
the writes that changed nothing.

### Publication, Generations

Source: `moe_pgo.rs` and `codegraph.rs`. In `Publication` one task fills a new
version, swaps `current`, removes the version before; readers load `current` and
then look the partition up, two steps. The partition is made in one step and its
rows are inserted one by one. The profile's arms (`accumulate`) are the
other initial states. In `Generations` a publication inserts into three tables in
turn, an engine per table writes behind at its own pace, `flush` waits for the
three in turn, a teardown (`Crash`) may come anywhere and `Open` loads what was
written. The two queries are operators.

### Speedtest, IndexBackends, MicroLayers

Source: `bin/speedtest1-worktable.rs`, `bin/speedtest1-sqlite.rs`,
`campaigns/index-backends/src/main.rs`, `bin/micro-layers.rs`. Phases are loops over
a store; what matters is the arithmetic of keys, ranges and words between phases
and what each engine prints. Words wrap at `Word`; SQLite's columns hold them
signed (`Stored`, `Decoded`). In `Speedtest` both programs run on the same draws, one
after the other, and in `MicroLayers` the nine engines do.

## 3. Runs

| Run | Instance | What it shows |
|---|---|---|
| `acknowledged_keyspace` | 3 threads, 2 records, 3 insertions of which one may be refused, 1 read per thread | reads hit, nothing is lost, the frontier is monotone and settles at the first gap, the code implements `AcknowledgedPrefix`; `IInv`, the invariant of the proofs, holds |
| `ycsb_run` | 2 threads, 2 records, 4 operations, 2 retries, workloads A, D, E, F on all three drivers | work only inside the window, no failure of the harness's own making, a report that is complete and agrees with the table, retries exhausted before an operation is given up, termination |
| `shadow_sound` | 2 writers, 2 rows, 1 reader, 4 operations each side, vacuum | a sound table raises no counter; a word without WRITING is exact; a verdict is reached |
| `shadow_faulty` | 1 writer, 2 rows, 1 reader, 6 operations each with every fourth write a delete, five defects | a run that passes left the table the words describe, with every requested write made; a counter is raised only for what the table did: a word put back over a row that is gone raises misses of the row, never a stale entry, a torn row or a misplaced one |
| `shadow_stale_unique` | 1 writer, 1 row, one defect | finding 1 below |
| `tatp` | 2 workers, 1 subscriber, 3 operations, 2 facility types, 1 start time | referential integrity, aborts write nothing, conservation, the write-back keeps other columns, a clean report |
| `partition_ticks` | 2 readers of 3 ticks, batches of 2, 2 partitions, at most 3 removals, every shape | outcome exact, table whole at the end, hot readers never miss |
| `partition_missed` | the same, hot readers, churn | finding 2 below |
| `kv_adapters` | 3 rows, 2 operations, 2 scans of 2 rows, 2 repetitions, every engine and scope, every choice of keys | every phase ends and emits the checksum of an ordered map; what is left is committed and untouched |
| `kv_checksums` | the same, 1 repetition | finding 3 below |
| `drivers` | the eleven drivers of `Drivers`, instances below | see the next table |
| `vacuum_fragmentation` | the same | finding 4 below |

What `drivers` checks of each, and on what:

| Driver | Instance | Property |
|---|---|---|
| LinkBench | five tables of 2 or 3 nodes, 1 or 2 types, 1 to 3 links, 1 or 2 operations, 2 repetitions, keys to 23, one failure | `LinksAsGenerated`: it panics only when a type has more slots than there are nodes or the keys do not fit; everything added is new; operations on existing links meet those of the load; repetitions print the same |
| Contention | 3 workers, 2 fields, 1 call each, 3 warm-up calls, every mode and five sets of defects | `VerdictSound`: a sound table passes with exactly the sum promised; a pass means no net loss, whatever the table did; the quick runner's total is what the row went up by |
| DynTable | 2 clients of 2 calls, 2 keys, one column, 2 values, a name no column has | `TableSound`, `ImplementsDictionary` |
| Ablation | 0, 2 and 4 rows, ranges of 2, 2 calls per phase, eight engines | `RecordsComparable`: lookups and ranges answer alike in every engine; a binary panics only for want of anything to draw from |
| Vacuum | 2, 4, 5 rows, pages of 2, 2 turns, 3 polls, 2 sweeps, both suites, every mode | `ArmsComparable`: the queues are the table at every step; an arm never ends below the packed control; a drain closes with a sweep seen or at its limit |
| ConcurrentMix | 5 rows, 3 operations, threads and writers in five shapes, one with spans that do not divide the rows | `MixIsReal`: every operation counts, the last write of each thread stands, at most one write per thread changes nothing |
| Publication | maps of 2 neurons, 3 further versions, 2 readers of 2 looks; 3 updates | `MapsStayWhole`: the current map is present and whole at every instant; a reader misses only if outrun; two versions at most; the profile's arms count alike |
| Generations | first generations of 1 to 3 files, 1 file later, 2 generations, 2 teardowns, with and without persistence | `StoreAnswers`: a flushed generation is whole in all three tables after any teardowns; queries answer for their generation |
| Speedtest | 3 and 4 rows, 2 operations, words of 32 values, every draw of keys and starts, either WorkTable program first, 2 repetitions | `RecordsComparable`: same checksums from both programs, those of the workload |
| IndexBackends | rows and operations to 4, ranges to 2, mutations to 5, and 4 rows with 11 mutations, whose keys pass the word of 16 | `CampaignCloses`: no phase panics where the last update's key fits a word; the campaign ends with the rows it loaded, each under the lookup of its last update |
| MicroLayers | 3 and 4 rows, 2 or 3 operations, every draw, nine engines, 2 repetitions | `RecordsComparable`: what two engines print for a phase is the same |

Why the bounds are enough. Three keyspace threads are the fewest with which one
key is parked behind a gap a second thread holds open while a third drains across
it; a further thread repeats one of the three roles. Two YCSB threads let an
insertion of either precede, follow and overlap a read of the other; with two
retries an operation is retried, retried again and given up. In the shadow harness
rows have one writer each, so two rows and a reader show every bracket; with
defects, six operations of one writer take each of two rows through three turns,
so that an entry may be two generations behind and a delete may meet what an
earlier defect left. The five defects of that run are those that change what a write
leaves in the table unseen or refuse it; the other ones only raise a counter more,
but for `stale_unique`, which has its own run. The proofs are for any of the ten.
Two TATP workers suffice for two procedures to meet between any two
calls, with a third operation after either; rows of other subscribers do not meet.
A batch of two over three ticks has a whole and a short batch; three removals
outlast either reader. Two point keys repeat or differ, key 0 overwrites itself (0
* 17 = 0) and a scan may end at the last row.

In LinkBench the five tables include one whose links do not go round the types
evenly, one with more slots of a type than nodes and one whose keys exceed
`MaxKey`. Three increments of three workers show one lost under another two. Two
DynTable clients bring any two steps of two calls together; its proof removes the
bound. Five vacuum rows give an odd half and a page that is not full; with three
polls a drain ends by silence, by a late sweep and at its limit. Three versions
after the first let a reader that loaded the oldest be outrun twice. Two teardowns
let one fall into what was reopened after the other. A word of 32 (16) values is
passed by 17 times a key (by the keys of updates), so sums, updated counters and
keys do wrap. The theorems of section 5 remove the bounds where they apply.

`CHECK_DEADLOCK` is on everywhere: a finished run stutters explicitly
(`Terminating`), so a state in which everybody waits is reported. In `drivers` this
covers the locks of DynTable, the columns of Contention and the joins.

## 4. Fairness

Three runs check liveness, all under weak fairness and nothing stronger:

- `acknowledged_keyspace`: each thread. A runnable thread of the runtime is run
  eventually, and the mutex is only held by threads that can go on, none waiting
  for another while it holds it. Weak fairness of `Lock` alone would not stop a
  thread from being overtaken for ever, but the streams are finite.
- `ycsb_run`: each thread and the main thread. An engine may stay busy for ever;
  the retry bound is what ends the operation, not fairness of the engine.
- `shadow_sound`: writers, readers, vacuum and the main task.

Tatp, PartitionTicks, KvAdapters and the drivers are checked for safety and for
deadlock, without fairness. The loops of the drivers that stop by a clock
(`contention-quick`, the vacuum loads, `republish`) end because a flag is raised by
a timer, which is an action that may come at any time; nothing in the code bounds
it, so termination would be assumed rather than shown.

## 5. Proofs

Eight modules hold proofs. All are of invariants, action properties and refinements
of the specifications without fairness, for every value of the constants that the
named assumptions of the specified module allow (`SizesAssumption` and its
neighbours: sizes are natural, divisors positive, markers such as `Absent`
or `NoWorker` none of the values they stand beside).

**AcknowledgedKeyspace_proofs.** `ReadsHit` and `NoAckLost` are not inductive: a
state may satisfy them with a thread about to store a frontier beyond a gap.
`IInv` adds what the mutex protects (`LockInv`: exactly one thread past the
acquisition; `DrainInv`: what the loop has passed is in the table and what it
leaves is above), what holds when nobody drains (`RestInv`: the frontier is as far
as the pending set allows), that rows precede acknowledgements (`RowsInv`) and that
a key is in one place only (`OwnInv`). Proved: the invariant, type correctness,
`ReadsHit`, `NoAckLost`, that the frontier is monotone, and that every step of the
detailed keyspace is an abstract step or a stutter (`ImplementsPrefix`). The last
one needs that a store moves the abstract frontier to exactly the end of the
prefix, which is where `DrainInv` and `RestInv` meet.

**ShadowConcurrency_proofs.** All of it holds on any table, whatever its defects.
The invariant `Sound` says, for each row, what the table holds at each stage of the
write in hand (the bracket is set before the first call, both indexes agree with the
payload after the last) and, for each reader, what its first look at the word still
tells it (if the word is quiet and unchanged, what was read is what the word
describes); each part holds for as long as the table does not do what would break
it. Hence a counter is raised only by what the table did (`AlarmsHaveCauses`); on a
table without defects that is never (`NoFalseAlarm`), and there a word without
WRITING is exact (`StableMeansQuiet`). `Verdicts` says that a run that passed raised
nothing and that its final sweep found nothing (`PassedMeansExact`); `InTurn` and
`Counted` say that a writer's turns go round the rows it owns, so that with enough
operations each word has gone through its share of generations
(`PassedMeansComplete`, a counting argument by the quotient of the turn by the rows
owned). `Gate` keeps all work between the barrier and the join.

**YcsbRun_proofs.** `Barriers` says where the threads may stand at each point of
the main thread, which gives that no operation lies outside the window
(`OnlyMeasured`). `Keys` says whose every key is: what the generator may have put
into a stream under its mix (`Dealt`), that an insertion's key belongs to one
operation of one stream (`OneInsertion`) and is not in the table before it
(`NotYetThere`), that loaded and acknowledged keys are (`There`), and what a
thread has in hand (`InHand`). Hence no operation fails for a reason of the
harness's own making (`WellFounded`), under every driver and every way an engine
may refuse. `Patient` counts the retries: the errors of an engine that is only
ever busy bring `MaxRetries` of them each, in every thread's result and therefore
in their sum (`GivesUpLate`).

The report is a sum over the threads, of which nothing says in what order it is
taken. `Adds` says that there are running totals which end at n and of which
the first j come to m; its lemmas say how it moves when one unjoined thread's value
moves and when the next is joined (they stand in Tatp_proofs as well, whose report
is such a sum). `Books` then holds three of them: of what a thread has answered and has left, of
the insertions among these (neither changed by a step of a thread), and of the
rows it has put into the table (changed with the table). Once all are joined m is
n, which gives `ReportComplete` and `ReportMatchesTable`.

**Tatp_proofs.** Referential integrity needs that a facility looked up earlier is
still there when the row is inserted (`CallInv`): no procedure deletes a facility,
so the lookup cannot go stale. That an abort has written nothing needs `WriterInv`:
what an operation wrote is there because it completed, or because it is an
`UpdateSubscriberData` between its two updates, which then cannot abort, its
facility being there. Two workers never run the same operation because indexes
are dealt by residue, and the ended ones are those below each worker's position
(`EndedInv`). Proved: the invariant, type correctness, `Referential`,
`AbortsWriteNothing`, `FacilitiesKept`. A second invariant, `Books`, follows how a
call ends (`CallGoesOrEnds`: it goes on to another call, or ends without an
unexpected error and moves the call forwardings exactly if it completes an
insertion or a deletion) and adds up what the workers have done, which is the
number of operations ended: `Conservation` and `CleanReport`. That the ended
operations are all of them needs that indexes below each worker's position cover
every residue.

**DynTable, in Drivers_proofs.** `TableSound` is itself the strengthening of the types that is
inductive. The step that carries it is the one between unlocking the slots and
publishing the position: until then the slot belongs to the client and to no index
entry (`SlotsOwned`), so the pushes of others cannot take it. Since no entry ever
moves, a position stays right after the index is unlocked (`PositionsHold`), and a
row lock is held by exactly the client inside `update_field` (`LocksSound`). With it,
`ImplementsDictionary` follows step by step: an insertion takes effect in `Publish`,
an update in `Write`, a selection in `Read` or in the `Locate` that misses; every
other step is a stutter of `Dictionary`.

**PartitionTicks_proofs.** The table has at most one hole, the churned symbol while
the writer is about to recreate it (`OneHole`), and the outcome is only written
once the writer has ended (`Joined`): `PartitionsWhole`. Hot readers
never ask for the churned symbol: `HotNeverMisses`. `Counts` adds that no reader
handles a tick beyond its last, batch or not, that the shared counter is the sum of
what the readers that ended have missed, and that a removal is either counted or in
the writer's hands: `ReportExact`.

**KvAdapters_proofs.** How far a phase has come decides what is in the table
(`KvTable`: the keys inserted so far, those overwritten or deleted so far among the
point keys) and in the checksum (`KvSums`: each row as often as the point keys, or
the scans, have met it). A checksum is a bag, so nothing is summed and no induction
is needed: `SeveralHashed` says that adding a set of rows to a bag of counts gives
the bag of the counts that went up, and `MetCounts` how a count goes up with the
position. That the engines which are asked for a number of rows scan the same as
the one that is asked for a range of keys is `SameScan`: the table is dense where
it is scanned, so the keys below one are as many as the distance. What a batch
holds back plays no part, for an open batch is committed before the phase is
reported. Proved: `ReportsAgree` and `LeavesOthers`.

**Drivers_proofs and Storage_proofs.** Each driver's phases are its own strings, so a state is in the
phases of one driver at most (`PhasesApart`), a step leaves no driver's phases for
another's (`Stays`) and a step from a driver's phases is one of its own (`Alone`).
The ten drivers are proved on top of that, each with an inductive invariant that TLC
checks on the instance of `drivers` first.

- *ConcurrentMix* (`MixCountsOnlyWork`). A payload `key + wrote * Rows` determines
  its key and its count, and a key its thread: spans do not overlap. A row's
  payload carries a count its own thread has passed (`MixTable`), so no other row
  holds the payload of a write and the unique index refuses none; what a thread did
  and has left is its script (`MixCounts`), and the counters are those of the
  threads that ended.
  `MixAssumption` has no more threads than rows: the table has 20 000 rows and the
  suite's largest scale 32 threads; with more threads than rows spans would be empty
  and threads would share keys, which the comment of the code rules out.
- *Publication* (`MapsWholeWhileSwapped`). The filling version is the one after the
  current, the only versions present are the current, the one being filled or about
  to be removed, and a version a reader holds is at most the current one and whole
  when the reader found it. For the profile's arms: what has been drawn is what was
  counted, but for the draw in hand.
- *Vacuum* (`ArmsCompared`). A table is sound when its rows are on pages in use, none
  over its capacity (`OnPages`); a placed row, a deletion and any sweep keep it so
  (`PlacedOnPages`, `WithoutOnPages`, `MovedOnPages`), and rows that are on n pages are
  at most n times a page's capacity (`PagesHold`, the pigeonhole principle). The live
  queue names each row once and the other each key without one (`Lists`), so the
  lengths of the queues are the counts of rows, half the seeded ones between turns:
  from there no page count can fall below the packed control's. `YieldCounts` keeps
  the reasons for which a drain may end.
- *Generations* (`FlushedGenerationsSurvive`). The rows of a generation are a block: they
  lie one after the other, in order, and no other row is of it (`Block`). A block stays
  where it is when other rows follow (`BlockStays`), and an engine that is behind and
  has written past it has the same block (`BlockFollows`); one that has caught up has
  all of them (`BlockDrained`), which is what `flush` waits for, engine by engine
  (`StoreEngines`). No row is of a generation to come (`StoreRows`), so the next
  publication adds its blocks at the end. That scans and walks find as many rows as
  the code's callers expect is the length of a block (`BlockCount`, `OnlyBlock`).
- *Contention* (`VerdictsAreSound`). A sum over workers or over fields is the number of
  the units its terms hold (`Units`), which is how `ObservedSum` is stated: a term that
  grows adds its new units and disturbs no others (`UnitsGrow`), and terms that are all
  alike make a product (`UnitsAlike`). The shared counter of successes is the sum of
  what the joined workers did, and with the errors it is the sum of what was answered
  (`Reported`, `Answered`), so once all have joined nothing asked for is missing. Under
  the locks two calls under way are on different fields (`CellLocks`), hence what a call
  read is still there when it writes and a commit adds exactly its share to the fields
  (`CommitWrites`, `CellSum`); this holds from the reset on, which is why a reset that
  forgets a row shows. With an unsound table nothing of the kind holds, and a pass means
  only what `PassedMeansNoNetLoss` says.
- *IndexBackends* (`CampaignEndsWhereItBegan`). After n updates a row's lookup is
  that of the last update that met it, its own key if none has (`Updated`); the
  steady phases extend the rows and take the same away (`CampaignTable`); where the
  keys fit, every miss asked for is one (`CampaignMisses`); and there is a row
  printed for each phase and each width that fits (`CampaignPrints`). A state in
  which a phase has panicked satisfies none of this, but only keys that do not fit
  lead there.
- *LinkBench* (`LinksNamedAsLoaded`). A packed key is taken apart by division again
  (`KeysApart`), and targets of one node and type are apart while a type has no
  more slots than there are nodes (`Targets`), which is why the load panics only out
  of range (`LoadFits`). In the run a key at or above the nodes is one an operation
  of its own added, so what is counted less what is there is between zero and the
  errors (`Missing`). That repetitions agree is a property of two runs: `LinkTraced`
  says that a repetition without errors follows the one sequence of tables and rows
  that its operations determine, and that every printed row without errors is the
  last of that sequence.

- *Ablation* (`EnginesDoTheSameWork`). Whatever the engine, the table has the rows
  of the keys 0 to k-1, each with its key in the field that is looked up, and the
  index kept by hand has exactly those (`AblationRows`): updates change another
  field, or write the indexed one back as it was. Hence an indexed lookup, a scan for
  the first hit and a filtered scan return the same rows in the same order
  (`AblationHolding`, `AblationRange`). Every phase list has its lookups before its
  updates, so no run looks a row up after an update; the proof does not use the
  order. A draw divides by zero only for a range no narrower than the table, or over
  no rows (`AblationPanics`).
- *MicroLayers* (the same theorem). `LayerChecksum` says of the options alone what a
  phase prints, and `LayersInv` that every row printed is that: the table after the
  load and after the loop of updates is determined by the options, not by what was
  measured before, and the three ways to scan meet the same keys in the same order
  (`LayerScanned`, `LayerInOrder`).
- *Speedtest* (the same theorem). `SpeedChecksum` is the same idea, and `SpeedPrinted`
  the row of a phase. `SpeedOut` says that what is printed are exactly the rows of the
  phases behind the run, of the first program before the second, so the two programs
  agree although one of them deletes last and stores its words as signed integers
  (`SpeedStored`: they are read back as they were). `SpeedUpdates` follows the loop of
  updates: each row ends with the last value written to it, however often a key is
  drawn. At the end every phase has been printed once in each repetition
  (`SpeedCount`).

These three have loops in their steps: a checksum is a sum over a sequence, and the
updates are applied one after the other. The models write them as recursive functions
(`Total`, `HeadSum`, `Updated`), and the section "Numbers in order" of the proofs
gives what is needed to reason about those: every non-empty set of naturals has a
least member (`LeastOf`), hence a set that holds 0 and, with each number, the next
holds them all (`UpTo`), hence a recursive definition has the values it defines
(`Recursion`); and the only sequence of n numbers that climbs within n places is that
of the places (`Climbing`), which is what `ORDER BY` and a sorted map return.

One property was wrong and is restated. `EndsWithItsRows` gave the lookup of a row
that was updated as the key of the update with the row's own number, and the
instance could not tell, for its rows are met in order until keys wrap. With one row,
two mutations and a word of 4 the second update meets the same row under a key that
wraps to one below the mutations; the proof did not close, TLC gave the state, and
the property now names the last update that met the row. The code was right.

*The types of every driver* (`DriversTyped`, in Storage_proofs). The invariants above
keep the types that their own proofs need; `DriverTypeOK` says more, for its types
have bounds. Where a bound is not inductive it gets its reason:

- a stored link is filed under its own source (`Filed`), so taking its key apart by
  division gives a node in range, whichever operation put it (`LinkTyped`);
- in the contention cells a worker of the quick runner has tried no more than its
  share, and what was answered is at most what was tried (`CellBounded`);
- a reader of the publications that has passed the check has a look left
  (`LookLeft`), so the check before the load bounds what is counted after it;
- no two rows of the campaign share a lookup, and its misses are not ahead of the
  sequence they are drawn from (`CampaignTyped`);
- a teardown may skip one generation number, and one that is being published is of
  the arm (`GenerationTyped`);
- in both suites of the vacuum arms, not only the one that is compared, rows lie on
  pages in use within their capacity and no key of a row is one that may still come
  (`ArmTyped`, `ArmOnPages`).

Each is carried through every step on top of the driver's own invariant (`LinksTyped`
to `TablesTyped`), and `SomeDriver` says that every state is in some driver's phases.

So every invariant, action property and refinement that a passing run checks is
stated by a theorem, but for what follows. Only model-checked:

- all liveness (`FrontierSettles`, `RunEnds`, `VerdictGiven`), which the prover does not reach.

## 6. Findings and observations

1. `shadow_stale_unique`: the final comparison looks up only the previous
   generation's unique key, so an older entry left behind is never found, although
   the documentation claims an exact check of stale membership.
2. `partition_missed`: with readers on the hot symbol, the default, no tick can
   miss, so "zero misses" does not mean the writer was never scheduled.
3. `kv_checksums`: the overwrite phase's checksum is the row count for WorkTable
   and the operation count for the other engines.
4. `vacuum_fragmentation`: a percentage above 50 makes the step 1, and every
   seeded row is deleted; the suite runs with 25 and 60.

Their lines and the quoted documentation are in `PROJECT.json`.

Read in the code while modelling, without a run of their own:

- `index-backends/src/main.rs:590` asserts that every key asked for was absent. The
  keys (585) wrap, and the arguments (227-230) only bound rows plus mutations, so a
  configuration that is accepted may ask for a key that is there. `NeverTripsOver`
  states the condition under which it does not.
- `shadow-concurrency.rs:418` takes a remainder by the number of rows of a writer,
  which is zero with fewer rows than writers; the arguments allow it. The model
  ends such a run as panicked.
- `codegraph.rs:219-221` says a publication is batched per table, "then flushed";
  `publish` (222-265) does not flush, its callers do.
- `concurrent_mix.rs:167-174` says each write changes the index. The first write of
  a thread may store the payload its key was populated with; `RepeatsOnce` bounds it
  to that.
- `contention-paper.rs:13-16` says the sums "must equal"; the verdict is a
  saturating difference, which accepts a surplus. `PassedMeansNoNetLoss` states what
  is left.
- `ablation.rs:100` times an indexed update to measure "index maintenance", but sets
  the indexed field to the value it has.
- `moe_pgo.rs:318-326` asserts in a test that readers resolved something, which
  depends on the schedule.
- `vacuum_stress.rs:340-357` polls the allocated pages, which do not fall: the
  comment in `vacuum_yield.rs:486-489` says why. Its drain closes on silence.
- `micro-layers.rs` prints row zero's value after the updates for all engines but
  the vector, so that checksum compares one row.

## 7. What is not modelled, and the plan

Left out of the models above: latency sampling, elapsed times, JSON records and
argument parsing beyond what it accepts; exact Zipf weights and mixes (any draw the
generator can make may be drawn); payload bytes; the engines' insides; memory
orderings weaker than sequential consistency (the words and counters of the
harnesses are read after acquire or join wherever a result depends on them).

Not modelled, with the reason:

- `deletes.rs`, `delete_cost.rs`, `moe_pgo2.rs`, `agentcode.rs`, the resident MoE
  comparison, `wti-point-get-case` and the remaining index microbenchmarks:
  single-threaded timing loops over external code, without state that an order of
  events could spoil.
- `kv_json.rs` and the Criterion benches: the phases of the adapters again, with
  another payload or under another clock.
- `campaigns/persistence-compat`: a writer and a reader process built from two
  versions of the engine; what they check is the file format of external code.
- the summaries (`analyze-paired-ycsb-retry.rs`, `summarize-*.rs`, the report of
  `vacuum_yield.rs`), `result.rs`, `config.rs`: arithmetic over recorded values, with
  no control that depends on it; unit-tested.
- the footprint campaign, the scripts, the Python baseline: I/O and process
  orchestration.

What would come next: the summaries' percentile ranks and pairing as operators
against reference definitions; termination of the drivers under the fairness of the threads alone, with the timers assumed.
