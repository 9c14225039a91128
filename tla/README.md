# StatGuardian in TLA+

A verification project for StatGuardian, the data-contract validator of this
repository (Rust crates under `crates/`, the Python package under `python/`).
Paths below are relative to the repository's root.

## 1. The system

A contract written in the `.sg` language is parsed (`statguardian-core`),
compiled to a list of checks and optimized; the engine runs the checks over a
data frame in parallel and makes a report; the stream crate feeds the same
engine micro-batches of an NDJSON stream; the Python package binds all this and
adds a file pool, lineage versions in SQLite, a server and adapters.

| Component | State | Operations | Hard behaviour |
|---|---|---|---|
| `stream/ndjson.rs` line reader | byte and record counters, line buffer | `next_line` over `fill_buf` slices | slices of any size, caps, half a character at a cut, a last line without newline |
| `stream/validator.rs` | `RunState`, micro-batch | `validate_reader`, `reject`, `flush_batch`, `finish` | two limits, two policies over one list, row numbers mapped back through batches, errors |
| `core/compiler` | none | `compile`, `optimize` | what fusing and sorting may lose |
| `validators` | none | schema, quality and cross-column rules | names shared by different checks |
| `engine/batch.rs` | violations per column | `execute` | columns in parallel and in random order, early stop, dedup |
| `metrics/report.rs` | none | `ValidationReport::new` | which violations decide `passed` |
| `stats/drift.rs` | none | `DriftEngine::evaluate` | columns it silently passes over |
| `lineage/storage.rs`, `_lineage.py` | two SQLite tables | save, get, list | processes sharing the file, failure between statements |
| `core/streaming.rs` windows | open windows | window(s) of an event, close, evict | late events, windows closed and re-opened, sizes that are no whole seconds |
| `io/delta.rs`, `io/iceberg.rs` | none between calls | read the latest, a version, a time, a ref | other programs commit, expire and delete between the file accesses of one read |
| `io/lib.rs`, `io/cloud.rs` | cached frame and offset; row buffer | `read_file`, `next_batch`, `push`, `flush` | one read for many batches, short last batch, rows of different columns |
| `stream/sanitize.rs` | none | `sanitize` | nested values, two recursion flags, rules that overlap |
| `stream/agent.rs` | none | `parse_ndjson`, `evaluate` | provenance, aliases, totals of 64 bits, a moving window |
| `lineage/model.rs` | nodes and edges | `add_node`, `add_edge`, `get_impact_chain` | cycles, parallel edges, ids without a node |
| `_parallel.py` | pool, futures | `execute_files`, `execute_files_stream` | completion order, callbacks that raise, consumers that leave early |
| parser, profiler, renderers, SQL reader, adapters | none | | pure I/O or conversion |

How they interact: the stream validator calls the line reader, the sanitizer
and the engine synchronously, and the agent evaluator the same line reader; the
engine calls the validators and the drift engine and fans the plan out to rayon
tasks; the streaming batcher reads through the data reader and feeds the engine;
the file pool runs one engine call per thread. Processes meet in the lineage
database file, and in the Delta and Iceberg tables other programs write to.

What makes each correct is listed with its module in section 3, and the places
where it could go wrong are the `hazards` of `PROJECT.json`, each at its line.

## 2. Modules

| Module | Models | Checked by |
|---|---|---|
| `LineSource` | what `next_line` promises, one source line at a time | abstract specification |
| `NdjsonSource` | `ndjson.rs`, byte by byte | `MCNdjsonSource` |
| `NdjsonSourceProofs` | theorems about `NdjsonSource` | TLAPS |
| `Enumeration` | counting up to a number, the n-th of a set of numbers, parts of sequences, sequences put end to end, stable sorting | through its users |
| `EnumerationProofs` | lemmas about `Enumeration`, least elements, recursion up to a number | TLAPS |
| `StreamValidator` | `validator.rs`, reading through `LineSource` | `MCStreamValidator` |
| `StreamValidatorProofs` | theorems about `StreamValidator` | TLAPS |
| `Contract` | compiler, optimizer, and what each check reports | through `BatchExecutor` |
| `BatchExecutor` | `batch.rs` with the verdict of `report.rs` | `MCBatchExecutor` |
| `BatchExecutorProofs` | theorems about `BatchExecutor` | TLAPS |
| `LineageStore` | `save_lineage_version` down to SQLite | `MCLineageStore` |
| `StreamingWindows` | `streaming.rs`, both executors and their owner | `MCStreamingWindows` |
| `Sanitizer` | `sanitize.rs` as operators | through `SanitizedStream` |
| `SanitizedStream` | `StreamValidator` with `Sanitizer` | `MCStreamValidator` |
| `AgentGuard` | `agent.rs`, reading through `LineSource` | `MCAgentGuard` |
| `EventStreamProofs` | theorems about `StreamingWindows` and `AgentGuard` | TLAPS |
| `TableRead` | what a read of a table directory has in common | through `DataReader` |
| `DeltaReader` | `delta.rs`, and the programs that write the table | through `DataReader` |
| `IcebergReader` | `iceberg.rs`, and the programs that write the table | through `DataReader` |
| `RowBuffer` | `RowBuffer` of `io/lib.rs` | through `DataReader` |
| `DataReader` | `read_file`, `StreamingBatcher`, `execute_streaming` over all of these | `MCDataReader` |
| `DataReaderProofs` | theorems about `DataReader` and its parts | TLAPS |
| `LineageGraph` | `lineage/model.rs` | `MCLineageGraph` |
| `LineageProofs` | theorems about `LineageStore` and `LineageGraph` | TLAPS |
| `FilePool` | `_parallel.py` | `MCFilePool` |
| `FilePoolProofs` | theorems about `FilePool` | TLAPS |

`NdjsonSource` implements `LineSource` (checked as a refinement);
`StreamValidator` and `AgentGuard` are built on `LineSource`, so what is shown
of them line by line holds over the byte reader. `StreamValidator` takes the
sanitizer as any function of a text, which is what its theorems are proved for;
`SanitizedStream` makes it the walk of `Sanitizer`. `BatchExecutor` is what
`StreamValidator` abstracts to the checks of `CheckList`, each with its column,
name and severity, and the relation `Fails`; dedup and early stop are kept
(`Reported`, `Found`), the plan and its tasks are not.
`DataReader` puts the two table readers and the row buffer side by side: a
behaviour of it has one task, and only the reader of its path takes steps.

Operators named `...` in a comment that begins "Seeded fault" are never used by
a specification. Each is a plausible bug of the definition that follows it, and
replaces it to show that a property can fail.

## 3. What is modelled and what the runs show

### NdjsonSource (`ndjson`)

State: the fields of `NdjsonSource`, the locals of `read_line_capped`, and the
position in the reader. `Fill(n)` is one turn of its loop for a slice of `n`
bytes; `EndOfInput` the empty slice; `Decode` the rest of `next_line`, up to
its `return` or its `continue`. Bytes are reduced to the six classes the code
tells apart.

- `BufferIsCappedPrefix`: the buffer is exactly the beginning of the current
  line and within the cap, at every slice.
- `BytesAccounted`: `bytes_consumed` is exact between calls.
- `ImplementsLineSource`: every chunking yields the lines of the input, numbered
  and classified as the documentation says (`DocumentedTag`), with the two
  exceptions the module names (`NewlinePastCap`, `BlankPastCap`).
- `ReachesEnd`: a run without read errors ends with the whole input consumed.

Bounds: all inputs of up to five bytes, caps 0 (which acts as 1) and 2, slices
of up to two bytes. Five bytes hold two lines of which one is oversized and cut
in several slices, and a two-byte character split by a slice or by the cap.

### StreamValidator and SanitizedStream (`stream`)

State: `RunState`, the batch, the line source, and where the loop stands. Each
action is a stretch of `validate_reader` between two calls: the limits, one
`next_line`, rejecting or accepting the record, `flush_batch`, `finish`. Errors
(`ReadError`, `MaterializeError`, fail-fast) end the run without a report.

The engine is part of a flush. `CheckList` are the contract's checks in the
order of their columns and `Rows` the rows of a batch that fail one, given all
the values of the batch: whether a record is an outlier depends on the others.
`Found` leaves out what stands behind a failing check that ends its column
(`batch.rs:37-43`) and `Reported` keeps of several violations with one column
and name the first (`batch.rs:57-58`). So whether a record has a finding depends
on what else fails in its micro-batch.

- `EveryRecordAccounted`: each record is validated, in the batch, rejected, in
  hand or dropped at a limit.
- `MicroBatchesFull`: all batches but the last hold `batch_size` records.
- `FindingsNameTheirRecords`: in each batch a row check has findings about
  exactly the records that fail it, by their number in the source, or about none;
  about none only if findings of the same batch show what displaced it: an earlier
  check of its column and name, or a blocking one of its column.
- `PolicyHolds`: which malformed records are collected under two policies that
  share a list.
- `LimitsHold`, `TruncationIsHonest`: no record beyond a limit is dealt with,
  and the report is marked truncated exactly when records were left out.
- `EngineSeesSanitized`: what waits for the engine under a record's number is
  that record sanitized by the policy of the run, and no record was altered
  without an event. What sanitized means is stated path by path and apart from
  the walk: nothing is left below a redacted field, the field is gone or
  replaced as its first rule says, listed strings are spelled as asked, and
  everything else is as it was.
- `Terminates`.

Bounds: sources of up to four lines over seven kinds; limits, batch sizes 0 to
2 and policies so that each limit, both limits at once, a full and a partial
last batch and a full list occur. Three JSON documents with nested objects,
arrays, nulls and padded strings of either case, under four sanitizers: none,
top-level, and each of the recursive flags.

A string is a word, the case of its letters and whether space surrounds it; a
digest is the word of what it is a digest of, so equal values have equal ones.
The contract has seven checks: two range checks under one name (which is how
`min` and `max` of a field compile), two under different ones, a blocking outlier
check ahead of range checks of its column, and a check of the batch as a whole.
One option set has batches of four, the least in which one record can be an
outlier.

### Contract and BatchExecutor (`executor`, `executor_gate`)

A dataset is, for each column, the set of facts true of it; a check names the
fact that makes it fail. That keeps which checks run, in which order, under
which names and severities, and leaves out how a value is compared. State: the
plan, what the sequential validators found, the order in which the `HashMap`
hands out columns, and each column task's position, findings and `abort` flag.

- `BlockingChecksRunFirst`: a column skips a blocking check only behind a
  blocking failure, never in favour of a milder check.
- `ReportIsDeterministic`: neither interleaving nor map order shows.
- `FailuresAreMentioned`: a failing check is reported by column and name,
  whatever was fused, or its column stopped at a blocking failure.
- `OnlyNamesakesMask`: a blocking failure is missing from a report, passed or
  not, only when a milder violation of the sequential checks with its column and
  name was kept in its place (`Masked`), or when its column stopped before it at
  a blocking failure that is itself in the report or masked so.
- `Returns`.

`ContractType` is the shape of a parsed contract, with any number of fields,
rules and checks; the module assumes no more of the contracts.

Bounds: two columns and ten contracts: the `id` column of
`examples/basic_validation.sg`, and a two-column contract with every pair of
severities among blocking, error and warning; all datasets over the facts these
name, with missing and scalar-backed columns. Datasets have rows.

`executor_gate` (violation): that `id` column with a duplicate gives
`passed = true`.

### LineageStore (`lineage`, `lineage_race`)

State: the two tables by their unique keys, and where each process stands in
`save_lineage_version`. Each SQL statement is one step (each commits by
itself); `Fail` is a crash of the process or an error of a statement, after
which the caller may save again. `attempts` is a history of the saves.

- `NumbersAreDense`: the versions of a warehouse are 1, 2, ..., n.
- `ChangesHaveVersions`: the foreign key holds at every commit.
- `UncontendedSaveIsWhole`: a save that returned, with its number to itself,
  stays stored with, of its changes, the last of each source table and type and no
  others. The unique key of the table allows no more (`LastOfEach`): that a list
  with two such changes loses the first is shown here, not promised by the code.
- `WriterNumbersIncrease`: a process sees its own saves.

Bounds: two processes, two warehouses, two saves each, three lists of changes.
Two processes suffice for a race on a number, the second save of one for a
retry and for a number past the contended one. Processes and warehouses are
symmetric, and only invariants are checked under that symmetry.

`lineage_race` (violation): a snapshot whose save returned is replaced.

### StreamingWindows (`windows`)

State: the executor's type and open windows, what its owner was given as closed,
and a history of arrivals with the watermark each met. `TumblingEvent` is
`get_window_for_event` with the owner's `add_event`; `SlidingEvent` is
`get_windows_for_event` with the eviction at its end; `CloseBefore` the owner's
`close_windows_before` or `evict_expired`. A size below a second panics
(division by zero), a slide below a second loops for ever: both are states.

- `EveryEventInOneWindow`: each event stays in exactly one tumbling window,
  open or closed, that contains its time, although windows are numbered by
  whole seconds and those of a size with a fraction overlap.
- `OnlyLateEventsReopen`: the owner gets a window twice only through events the
  watermark had passed.
- `OpenWindowsBounded`: on a stream in order a sliding executor always has a
  window for the last event, and at most one more open than slides fit a window.

Bounds: two ticks a second, times up to two seconds, three events, ten window
types: below a second, whole and half seconds, adjacent, overlapping and gapped
slides. Three events are enough for a window opened, closed and opened again.

### DataReader, DeltaReader, IcebergReader, RowBuffer (`reader`, `reader_latest`)

Every access to the file system is a step: listing a directory, one commit, one
manifest, one data file. Between them other programs commit, clean up the
commits behind a checkpoint, vacuum, write files ahead of a commit, expire
snapshots and delete their files. A commit adds at most one file of one row,
whose number is the commit's, so a frame is a sequence of such numbers.

- `DeltaReadIsSnapshot`: a Delta read of a whole log is exactly one snapshot,
  each row once, or an error: the snapshot the documentation promises
  (`DeltaPromised`), or in the two cases that has no answer for, a version yet to
  come and a time before the first commit, the last or the first one
  (`DeltaTarget`). From a log in part it has no row that version had removed, and
  none of a commit, but for the first, later than the time asked.
- `IcebergReadIsSnapshot`: a read through JSON manifests is exactly the files of
  the snapshot asked for, unless files are removed during the read, but for those
  it leaves out (`PassedOver`: entries without counts, manifests listed without
  their path, files that are not Parquet) and those it adds (`Deleted`: entries
  a manifest keeps for files it deleted).
- `BatchesPartitionTheSource`: the batches of a run are the rows of one read, in
  order and complete, though the file changes between them; the frames of a row
  buffer are the rows pushed but for those still in it, of one set of columns.

Bounds: three commits or snapshots (one to read, one to supersede it, one that
arrives meanwhile), commits at two times or without one, in any order, four forms
of Iceberg manifests, one data file whose entries lack counts or the manifest's
path or which is not Parquet, seven paths (one for each
branch of `read_file` and each refusal), files of up to three rows in batches
of one and two, four pushed rows of three column sets.

`reader_latest` (violation): after a log cleanup a read of the latest version
returns the rows added since and no others, without an error.

### FilePool (`filepool`)

State: the queue and threads of the pool, what became of each file, what
`as_completed` has handed out, and where the call stands. `Leave` is a callback
that raises, or a consumer that breaks out of the generator. The pool and
`as_completed` are the standard library's and modelled by what they promise.

- `ResultsAreThoseOfTheFiles`: no file twice, each with its own outcome, in
  completion order after those done at the start, all of them if the call was not
  left; no thread works on after the call.
- `CallsEnd`: a call that was begun is left or validates every file, one that is
  left ends, and `execute_files` always ends. Whether a call that is left goes on
  with the files still waiting is not asserted: the code does, its docstring says
  it does not.

Bounds: three files over one, two and four threads.

### AgentGuard (`agent`)

State: the line source, the events parsed, the report. `ParseEvent` and
`ParseError` are the two ends of an iteration of `parse_ndjson`; `Evaluate` is
`evaluate` whole. Integer totals are taken modulo `U64`, a number that is none of
the code's 64 bits is not read, and costs are added exactly: the rounding of
floating-point sums is left out. The specification is called `GuardSpec`.

- `StopRestsOnMeasuredData`: `Stop` is recommended exactly when the caller
  enforces and a measured total of the whole stream is over its budget, as long
  as no total overflows; estimates and loops never lead to it. The totals are
  those of what the lines say was measured (`Stated`), read from their fields and
  not from the parsed event. The exception is named: an event that as a whole calls
  itself unknown counts as measured (`UnknownEvent`), where a metric that does so
  does not.
- `LoopsAreThoseOfSomeWindow`: the signatures reported are those some window of
  consecutive calls holds often enough, with the count and the last call of the
  last such window.

Bounds: streams of up to five events of five shapes (aliases, metrics with their
own provenance, an estimated and an unknown event, a null alias, a negative
number), lines that are no events, `U64` = 16 so that two
events overflow, loop windows 0, 2, 3 and 8.

### LineageGraph (`impact`)

State: nodes, edges and the locals of a call of `get_impact_chain`, one turn of
its loop a step. The Rust method takes from the end of its list and the Python
one from the front; both are modelled.

- `ImpactIsReachability` (action property): the answer is what is reachable
  (what every set closed under the edges has that has the broken table), the
  broken table first, every other after one that feeds it, each once.
- `EachEdgeFollowedOnce`: the work is bounded by the edges, however many paths
  there are.

Bounds: four edges over three ids, which gives cycles, self-loops, parallel edges
and two paths to one table; two tables share an id, one id has no table.

### Differences between text and code

Three have a run of their own: `executor_gate`, `lineage_race` and
`reader_latest`. The models show these as well, without a run:

- a line's cap counts its newline (`limits.rs:11` says "before the newline");
- a line of white space longer than the cap is an oversized record with a number
  of its own (`ndjson.rs:5` and `:19` say such lines are skipped);
- findings about rows are lost when another check of the same column and name, or
  a blocking one of the column, fails in the same micro-batch (`batch.rs:37`,
  `:58`), so the findings of a stream depend on `batch_size`;
- either recursive flag of the sanitizer takes the other policy into nested values
  too (`sanitize.rs:217`, `:225`; `:32` and `:43` give each its own);
- an event whose provenance is "unknown" counts as measured (`agent.rs:139`;
  `:10-13` and `docs/STREAMGUARD.md:113` keep the two apart);
- at `max_records` one more record is read and counted (`limits.rs:5`);
- a drift rule marked blocking does not gate: `DriftResult.severity` is never
  read (`metrics/src/report.rs:108`);
- two changes of a version with one source table and type are stored as one
  (`storage.rs:95`);
- a sliding executor hands out copies, so the windows it keeps stay empty, and
  stops at the first window that ends after the event (`streaming.rs:171-177`);
- hashing turns a null into a string, which completeness checks then accept, and
  a number and the string of its digits get one digest (`sanitize.rs:13`);
- with an Avro manifest list, or a manifest that is gone, the Iceberg reader
  takes all files of `data/`, those of other snapshots too (`iceberg.rs:310`,
  `:373`);
- the Iceberg reader takes the files a manifest names as deleted, and passes
  silently over entries without counts, manifests without a path and files in
  another format than Parquet (`iceberg.rs:388`, `:398`, `:326`, `:455`; `:85-91`
  promise the snapshot);
- a Delta time before the first commit is answered with version 0, and a version
  past the last with the last (`delta.rs:131`, `:187`; `:52` and `:76` promise the
  version asked for);
- a Delta commit without a timestamp counts for any time, and the scan stops at
  the first commit later than the time although the times may go back after it
  (`delta.rs:198-199`, against `:87`);
- `execute_files_stream` validates all files also when it is left
  (`_parallel.py:110` says "without waiting for all files to finish", `:118`
  "stop early"); results that are there before `as_completed` is called come in any
  order (`:59` says "in completion order");
- the id of a lineage node joins its parts by `__`, so two tables can share one
  (`model.rs:9` says "Unique").

## 4. Fairness

`NdjsonSource` and `StreamValidator` are single loops: weak fairness on the
program's own steps, none on errors. `BatchExecutor` has weak fairness per column
task, since rayon runs every task to its end, and on the caller's own steps. For a
task and for the last step it is stated by what they do (`Advances`, `Finishes`)
and not by all that they compute: no other action does it. `FilePool` has it on
the threads, on each validation and on the steps of the call itself, which the
standard library and the interpreter take by themselves; not on a consumer's next
request, since a generator may be left alone for ever. The others state no
liveness: a process may stop anywhere, an owner need not call, and the loops of
the readers are bounded by what they listed.

Deadlock is checked everywhere but in `reader` and `windows`, where a behaviour
ends when its bounds are used up or the executor has panicked.

## 5. Proofs

`StreamValidatorProofs` shows for every source, option, list of checks and
sanitizer allowed by the module's assumptions, with any rows failing any check:

- `TypeCorrect`: `Spec => []TypeOK`;
- `NoRecordLost`: `Spec => []EveryRecordAccounted`;
- `BatchesBounded`: `Spec => []MicroBatchesFull`;
- `FindingsAttributed`: `Spec => []FindingsNameTheirRecords`;
- `PolicyFollowed`: `Spec => []PolicyHolds`;
- `LimitsFollowed`: `Spec => []LimitsHold`;
- `TruncationMarked`: `Spec => []TruncationIsHonest`.

The first three follow from `Invariance`, the inductive invariant `IInv`: the type
invariant, what is known of the line in hand (`InHand`: while a record is
dispatched it is the last one numbered and was classified by its own line), the
accounting of records and the fill of the batch. None of the three properties is
inductive alone: the account of a record in hand needs to know that it has been
numbered, and the batch's fill depends on where the loop stands. The step lemmas
treat one conjunct each, one case per action.

The other four follow from `RecordsFollowed`, a second invariant, `RInv`,
inductive relative to the first. It says by number which records of the source
are behind the run: the index counts the records up to the position (`Reading`); the
batch holds the accepted records since the last flush, in order (`Batching`);
the list of malformed records and its cap stand as the two policies leave them
(`Collecting`); the limits allowed every record that was read (`Limiting`); a
loop that ended is at the end of the source or at a limit (`Ending`). Numbers
of records count over prefixes of the source. They are stated with `UpTo` and
`Nth` of `Enumeration`, whose lemmas give what one more line adds, so that no
induction over the source is needed. What a flush adds to the findings belongs to
the batch just validated and leaves the earlier ones as they were. Dedup and early
stop leave for each failing check a reported one that displaced it, since among
finitely many checks there is a first.

`LineageProofs` shows for any processes, warehouses and lists of changes
(their severities among the four the code knows):

- `TypeCorrect`: `Spec => []TypeOK`;
- `VersionsAreDense`: `Spec => []NumbersAreDense`;
- `NoChangeIsOrphaned`: `Spec => []ChangesHaveVersions`;
- `NumbersOfAWriterIncrease`: `Spec => []WriterNumbersIncrease`;
- `UncontendedSavesAreWhole`: `Spec => []UncontendedSaveIsWhole`.

Again one inductive invariant, `IInv`, carries the first four. Numbering stays
dense because a process about to insert number n knows that n - 1 is in the store
(`PredecessorStored`), however long ago it read it, as no step removes a version;
a change finds its version because only a save past its first insert writes
changes (`StoredVersionsStay`); the numbers of one writer increase because its
earlier saves are in the store when it reads the latest (`StoredVersionsStay`,
`JobIsLatest`). `Bounded` says that the store has a latest version at all, which
`GreatestExists` turns into the number read. The last theorem needs a second part,
`Whole`, relative to `IInv`: a process and its count identify a save
(`Identified`); every stored change has a save that wrote it (`Owned`); and unless
another save has its number, a save in progress has stored its row and, of the
changes up to where it stands, the last of each source table and type
(`JobsWhole`), a returned one those of its list (`ReturnedWhole`). Only a save
under the same number could overwrite them, and sharing a number lasts
(`SharedStays`).

`EventStreamProofs` shows for any window types, resolution of time, and
number of events and cutoffs:

- `WindowsTyped`: `Spec => []TypeOK`, in which an id is open once;
- `EventsPlaced`: `Spec => []EveryEventInOneWindow`;
- `LateEventsReopen`: `Spec => []OnlyLateEventsReopen`;
- `OpenSlidesBounded`: `Spec => []OpenWindowsBounded`.

The invariant `IInv` adds three parts to the types. `Numbered`: a window's times
follow from its id, so finding one by id finds one that contains the event;
`NumberedWindowContains` is the arithmetic behind it, for sizes and times with
fractions that the numbering drops. `Held`: every event is in a window, no two
windows share one, and no window with events is both open and closed; without
the last part an event added to an open window could leave a twin of it behind.
`Timely`: times are within their windows, and what is closed has ended. For late
events a second part says that whatever is closed ended before the watermark
(`Passed`), and that a window opened again under a closed id holds only events
that came after those of the closed one (`Reopened`).

The bound on sliding windows needs `SlidesInv`: a window's times follow from its
number, every open one reaches to the last event and, on a stream in order,
began before it, and one of them holds the last event unless a cutoff went past
it. The windows that overlap a time are an interval of numbers
(`SlidesFound`), and `SlidesBetween` bounds it by the ratio of size to slide,
with the division's rest.

`FilePoolProofs` shows for any number of files and workers and any callback
failures:

- `PoolTyped`: `Spec => []TypeOK`, in which no more files are validated at once
  than there are workers;
- `ResultsDelivered`: `Spec => []ResultsAreThoseOfTheFiles`.

A file is at one place at a time, in the queue, with a thread or done
(`Submissions`), its outcome is there exactly when it is done (`Outcomes`), and
what was handed out is among the first files done (`HandedOut`): those done when
`as_completed` was called in any order, then the others as they were done
(`InOrder`). `Stages` is what the stages of a call have behind
them, so that a call that ended left nothing in the queue, and one that was not
left has handed out as many files as it had.

`NdjsonSourceProofs` shows for inputs of any length, any cap and slices of any
size:

- `ReaderTyped`: `Spec => []TypeOK`;
- `BufferCapped`: `Spec => []BufferIsCappedPrefix`;
- `BytesCounted`: `Spec => []BytesAccounted`;
- `LinesAsPromised`: `Spec => ImplementsLineSource`, the refinement of
  `LineSource`.

The three invariants are inductive together: the buffer begins where the bytes
of the finished lines end, which is what the account of the bytes says.
`UsedType` and `TrimmedType` bound what is chosen from a slice and from a line.
For the refinement `WholeLines` adds that calls begin where a line begins and
that the bytes read of the current line hold its newline at most as their last.
So the end of the line in hand is the least newline past its beginning, which is
the line the abstract source has next; an iteration that hands out a line or
skips a blank one maps to the abstract step, every turn of the inner loop to a
stutter.

`DataReaderProofs` shows for any number of commits and snapshots, any paths,
file contents, batch and window sizes and rows pushed:

- `TypeCorrect`: `Spec => []TypeOK`;
- `DeltaReadsOneSnapshot`: `Spec => []DeltaReadIsSnapshot`;
- `IcebergReadsOneSnapshot`: `Spec => []IcebergReadIsSnapshot`;
- `BatchesArePartition`: `Spec => []BatchesPartitionTheSource`.

`ReaderInvariance` is one invariant of nine parts. `RowInv`: every row pushed is
in a frame or in the buffer, in its place, and all frames have the columns of the
first row. `ControlInv`: a reader runs on its own paths, and a frame stays empty
until its last step. `BatchInv`: of the cached frame the beginning has been
handed out. `DeltaTableInv` and `IcebergTableInv` say what the writers keep: a
log that lost commits to a cleanup has later ones, a metadata version names the
snapshots from some number to its current one, and all their files are there
while the version is. `DeltaReadInv`: a replay has built the snapshot before the
next commit on its list, or a part of it when the log was not whole; commits
never change, so the writers of the meantime cannot disturb it. `DeltaTimeInv`:
what a scan for a time let pass is within the time but for the first commit, also
where commits vanished behind the listing. `IcebergNamedInv`: a manifest names its
own file and files live before it, so no two manifests of a snapshot name one file
and nothing is read twice. `IcebergReadInv`:
what is read and what is left of a snapshot are together its files in order, as
long as nothing was removed; the metadata in hand is a version that was there
when no cleaning happened. The properties speak of a read that has ended; only
these parts say what the reads in progress have, step by step.

`LineageProofs` also shows of the graph, for any tables, ids and number of edges,
and for both ends of the work list (what the two modules have under one name is
called after the graph in `LineageGraph`):

- `EdgesFollowedOnce`: `Spec => []EachEdgeFollowedOnce`;
- `ImpactsAreReachability`: `Spec => ImpactIsReachability`, an action property.

The invariant is that of a graph search. `Frontier`: whatever waits is fed by a
table that is listed, and what a listed table feeds is listed or waits; with an
empty work list that makes the listed tables closed, so nothing reachable is
missed. `OnlyReachable`: what is listed or waits is in every closed set with the
target, so nothing else is listed. `Listed`: each once and after a feeder. The
bound on the work is inductive with these: a visit adds at most the edges out of
its table, which was not counted before.

`BatchExecutorProofs` shows for any number of columns, any contracts of the shape
the code's types have and any datasets:

- `Types`: `Spec => []TypeOK`;
- `BlockingFirstAlways`: `Spec => []BlockingChecksRunFirst`;
- `MentionedAlways`: `Spec => []FailuresAreMentioned`;
- `NamesakesMaskAlways`: `Spec => []OnlyNamesakesMask`;
- `DeterministicAlways`: `Spec => []ReportIsDeterministic`.

What the tasks do is in `IInv` (theorem `Inductive`): a column's task has found
exactly what its nodes before the next one find, it stopped when the last of them
found a blocking violation and none before did, and a run that is joined has no
column left that could go on. So the findings of a joined column are those of its
nodes up to the first that blocks, which is how `ColumnFindings` states them
without tasks. The rest is about sequences. The map's order shuffles whole
columns, and within a column nothing moves: `SortAgrees` is the lemma that two
arrangements with the same elements in each place of a key have one stable sort,
and `SortKey` keeps columns apart, so `Assemble` forgets the order. Sorting puts a
column's nodes of equal severity together, blocking ones first. A node that was
deduplicated has an equal one left, and what a fused one finds the quality rules
have found already; in a sorted report all namesakes are neighbours, of which the
first is kept.

`EventStreamProofs` also shows, for any stream of lines, any policy and any width
of the totals:

- `StopsRight`: `GuardSpec => []StopRestsOnMeasuredData`;
- `LoopsRight`: `GuardSpec => []LoopsAreThoseOfSomeWindow`.

`GuardInv` is about the parser: one event for every non-blank line it has passed,
in their order (`Parsed`), so that the report speaks of every line or there is no
report. `MeasuredIsRead` ties it to the lines: a value was read as measured
exactly when its line says so, or calls the whole event unknown. The rest is about
the two folds over the events. A total that wraps at
its width is never above the true one and equals it while that fits (`Below`,
`TotalsBelow`), which needs that a metric that was read is a natural number
(`EventIsRead`): so a budget the guard finds broken is broken. It is broken only
by what was measured, since no other violation has the severity that stops
(`BlockingBudget`). In the loop heuristic the list of recent calls is the last
`loop_window` of them (`IsWindow`, `WindowSlides`), what it holds of a signature
are the repeats the property counts (`HeldAreRepeats`, a bijection), and the
findings are those of the last window that held a signature often enough
(`FoundUpTo`): a finding is replaced whenever a later window does.

`EnumerationProofs` has the lemmas that several of these need. The library's
induction theorems take an operator as parameter, so induction over numbers is
done there by the least number that fails (`LeastExists`, `InductionUpTo`), and
recursive functions up to a number are shown to exist in `RecursionUpTo`; the
concatenation of a sequence of sequences (`Concat`) is obtained that way, and from
it what parts (`At`) and stable sorts of a sequence hold, and where. `UpToNext`,
`UpToAll`, `NthExists` and `AscendingOrder` are what counting over prefixes
comes to.

All theories assume only the named assumptions of their modules: that
bounds are natural numbers, durations natural, a second at least one tick, and
the constants sets of the shape the code's types have. `DecodedAssumption` says
that a line handed out as text was decoded, and `TextAssumption` that what is
read of a field as a number is one.

Only model-checked:

- `EngineSeesSanitized` of the stream: the walk over a document is a recursive
  operator, which the provers do not take;
- all liveness, which is outside what TLAPS supports.

## 6. Not modelled

- The contract parser and its AST: a grammar without state.
- Profiler, HyperLogLog, the health score, PSI and KS statistics:
  floating-point arithmetic; no property is about a number they compute. The
  columns the drift engine passes over are modelled, its distances are not.
- The readers of SQL databases, the decoding of CSV, Parquet and the other file
  formats, and object stores: I/O of libraries. Which reader a path is given to
  is modelled.
- Session windows: the window type has the variant, no executor reads it.
- The reading side of the lineage store: queries that change nothing.
  `get_version` makes two (`storage.rs:197`), between which a save may go on, so
  it may return a version with a part of its changes.
- The HTML renderer, command line, server, connectors, dbt, OKF
  and MCP adapters, PII detection, messages: conversions without state of
  their own.
- What a string looks like: lines, names and values are members of small sets,
  and a digest or a decoded character is modelled by what it keeps apart.

`PROJECT.json` lists every component with its status.

## 7. Plan

1. `detect_schema_changes` of `python/statguardian/_evolution.py` against a
   definition of which changes break a reader.
2. Proofs: every safety property of the runs is a theorem but one; the open one
   is that of the sanitizer, which first has to be written without recursion.
