----------------------------- MODULE DataReader -----------------------------
(***************************************************************************)
(* How data frames enter StatGuardian (crates/statguardian-io, src/lib.rs  *)
(* and src/cloud.rs; crates/statguardian-engine, src/lib.rs):              *)
(* DataReader::read_file picks a reader by the path, StreamingBatcher      *)
(* reads once and hands out slices, Engine::execute_streaming validates    *)
(* them, the Delta and Iceberg readers are also called for an old version, *)
(* and RowBuffer makes frames of rows pushed by an event loop. Meanwhile   *)
(* other programs write to what is read.                                   *)
(***************************************************************************)
EXTENDS DeltaReader, IcebergReader, RowBuffer

CONSTANTS
  Paths,            \* the paths considered
  FileContents,     \* the contents a plain file goes through
  BatchSizes        \* the values of batch_size considered

(* What read_file looks at: the scheme, the directories, the extension.    *)
Formats == {"parquet", "csv", "tsv", "json", "ndjson", "ipc", "arrow", "avro"}
CloudFormats == Formats \ {"avro"}
Extension == Formats \cup {"orc", "other", "none"}
Path == [cloud : BOOLEAN, log : BOOLEAN, metadata : BOOLEAN, glob : BOOLEAN, ext : Extension]

ASSUME PathsAssumption == Paths \subseteq Path
ASSUME ContentsAssumption == << >> \in FileContents /\ FileContents \subseteq Seq(Nat)
ASSUME BatchAssumption == BatchSizes \subseteq Nat

VARIABLES
  task,             \* what is done: stream a path, read a table once, push rows
  path,             \* the path it is done with
  contents,         \* the rows now in a plain or cloud file
  batchSize,        \* StreamingBatcher.batch_size
  cached,           \* StreamingBatcher.cached
  offset,           \* StreamingBatcher.offset
  reports           \* the batches execute_streaming has a report of

batcher == <<batchSize, cached, offset, reports>>
vars == <<request, frame, pc, deltaTable, deltaRead, icebergTable, icebergRead, cleaned,
          rowVars, task, path, contents, batcher>>

-----------------------------------------------------------------------------
(* The choice of a reader. *)

CloudReads(p) == p.ext \in CloudFormats \/ p.glob

(* A directory is looked at only when it is not a cloud path, a log before *)
(* metadata, and both before the extension.                                *)
Reader(p) ==
  CASE p.cloud -> IF CloudReads(p) THEN "file" ELSE "none"
    [] ~p.cloud /\ p.log -> "delta"
    [] ~p.cloud /\ ~p.log /\ p.metadata -> "iceberg"
    [] OTHER -> IF p.ext \in Formats THEN "file" ELSE "none"

(* Only the chosen reader runs. *)
OtherThanDelta == <<icebergTable, icebergRead, cleaned>>
OtherThanIceberg == <<deltaTable, deltaRead>>
Tables == <<deltaTable, deltaRead, icebergTable, icebergRead, cleaned>>
Mine == <<rowVars, task, path, contents>>

Init ==
  /\ ReadInit /\ DeltaInit /\ IcebergInit /\ RowBufferInit
  /\ task \in {"stream", "read", "push"}
  /\ path \in Paths
  /\ task = "read" => Reader(path) \in {"delta", "iceberg"}
  /\ contents \in FileContents
  /\ \E n \in BatchSizes : batchSize = IF n = 0 THEN 1 ELSE n
  /\ cached = Nothing
  /\ offset = 0
  /\ reports = << >>

-----------------------------------------------------------------------------
(* The other programs. *)

DeltaTableChanges ==
  /\ task # "push" /\ Reader(path) = "delta"
  /\ DeltaTableStep
  /\ UNCHANGED <<request, frame, pc, deltaRead, OtherThanDelta, Mine, batcher>>

IcebergTableChanges ==
  /\ task # "push" /\ Reader(path) = "iceberg"
  /\ IcebergTableStep
  /\ UNCHANGED <<request, frame, pc, icebergRead, OtherThanIceberg, Mine, batcher>>

FileChanges ==
  /\ task = "stream" /\ Reader(path) = "file"
  /\ contents' \in FileContents \ {contents}
  /\ UNCHANGED <<request, frame, pc, Tables, rowVars, task, path, batcher>>

-----------------------------------------------------------------------------
(* Reading. *)

(* A table read by a version, a time or a branch. *)
BeginRead ==
  /\ task = "read" /\ pc = "idle"
  /\ \E r \in Requests :
       \/ Reader(path) = "delta" /\ DeltaBegin(r) /\ UNCHANGED <<deltaTable, OtherThanDelta>>
       \/ Reader(path) = "iceberg" /\ IcebergBegin(r) /\ UNCHANGED <<icebergTable, OtherThanIceberg>>
  /\ UNCHANGED <<Mine, batcher>>

ReadDelta ==
  /\ DeltaReadStep
  /\ UNCHANGED <<deltaTable, OtherThanDelta, Mine, batcher>>

ReadIceberg ==
  /\ IcebergReadStep
  /\ UNCHANGED <<icebergTable, OtherThanIceberg, Mine, batcher>>

(* Seeded fault: what is cached is dropped with every batch.               *)
MustReadEachTime == pc = "idle" \/ pc = "slice"

(* The first next_batch reads; no later one does.                          *)
MustRead == pc = "idle" /\ cached = Nothing

(* read_file, for the latest of the path. *)
FirstBatch ==
  /\ task = "stream" /\ MustRead
  /\ \/ Reader(path) = "delta" /\ DeltaBegin(Latest) /\ UNCHANGED <<deltaTable, OtherThanDelta>>
     \/ Reader(path) = "iceberg" /\ IcebergBegin(Latest) /\ UNCHANGED <<icebergTable, OtherThanIceberg>>
     \/ /\ Reader(path) = "file"
        /\ request' = Latest /\ frame' = contents /\ pc' = "read"
        /\ UNCHANGED Tables
     \/ Reader(path) # "delta" /\ Reader(path) # "iceberg" /\ Fail /\ UNCHANGED Tables
  /\ UNCHANGED <<Mine, batcher>>

Cache ==
  /\ task = "stream" /\ pc = "read"
  /\ cached' = frame
  /\ pc' = "slice"
  /\ UNCHANGED <<request, frame, Tables, Mine, batchSize, offset, reports>>

(* Seeded fault: the last rows are left out when they do not fill a batch. *)
SliceEndFullOnly == IF offset + batchSize <= Len(cached) THEN offset + batchSize ELSE offset

SliceEnd == IF offset + batchSize <= Len(cached) THEN offset + batchSize ELSE Len(cached)

(* next_batch on the cached frame, and the engine's report of the batch.   *)
NextBatch ==
  /\ pc = "slice"
  /\ offset < Len(cached)
  /\ reports' = Append(reports, SubSeq(cached, offset + 1, SliceEnd))
  /\ offset' = SliceEnd
  /\ UNCHANGED <<request, frame, pc, Tables, Mine, batchSize, cached>>

Exhausted ==
  /\ pc = "slice"
  /\ offset >= Len(cached)
  /\ pc' = "ended"
  /\ UNCHANGED <<request, frame, Tables, Mine, batcher>>

PushRows ==
  /\ task = "push"
  /\ RowStep
  /\ UNCHANGED <<request, frame, pc, Tables, task, path, contents, batcher>>

Next ==
  \/ DeltaTableChanges \/ IcebergTableChanges \/ FileChanges
  \/ BeginRead \/ ReadDelta \/ ReadIceberg
  \/ FirstBatch \/ Cache \/ NextBatch \/ Exhausted
  \/ PushRows

Spec == Init /\ [][Next]_vars

-----------------------------------------------------------------------------
(* Properties. *)

Steps == {"idle", "scanList", "scan", "list", "replay", "load",
          "hint", "metadata", "resolve", "manifests", "files", "data",
          "read", "failed", "slice", "ended"}

(* The types of the state; a batch is never empty and the offset never     *)
(* past the cached frame (io/lib.rs:214-220).                              *)
TypeOK ==
  /\ request \in Requests /\ frame \in Seq(Nat) /\ pc \in Steps
  /\ commits \in Seq(Commit) /\ firstJson \in Nat /\ vacuumed \subseteq Nat
  /\ listed \subseteq Nat /\ active \subseteq Nat /\ upTo \in Nat \cup {Nothing}
  /\ deltaSeen \in [last : Int, whole : BOOLEAN]
  /\ snapshots \in Seq(SUBSET Nat) /\ hint \in Nat \cup {Nothing}
  /\ manifests \in Seq(Nat) /\ files \in Seq(Nat) /\ snapshot \in Nat \cup {Nothing}
  /\ buffer \in Seq(Row) /\ schema \subseteq UNION RowKinds
  /\ cached # Nothing => offset <= Len(cached)
  /\ \A i \in DOMAIN reports : reports[i] # << >> /\ Len(reports[i]) <= batchSize

IsRead == pc \in {"read", "slice", "ended"}
Least(m, n) == IF m <= n THEN m ELSE n

(* The version a Delta request names, in the log at its first listing: the *)
(* latest (delta.rs:47), the one given (:52), or the one previous to the   *)
(* first whose timestamp exceeds the time given (:76-77).                  *)
Exceeds(v) == CommitTime(v) # Nothing /\ CommitTime(v) > request.at
DeltaPromised ==
  CASE request.kind = "latest" -> deltaSeen.last
    [] request.kind = "version" -> request.at
    [] OTHER -> LET later == {v \in 0..deltaSeen.last : Exceeds(v)}
                IN  IF later = {} THEN deltaSeen.last ELSE Lowest(later) - 1

(* But where there is none, as the version given is yet to come or the     *)
(* first commit exceeds the time already, the reader answers all the same: *)
(* with the last version or with the first one (:131-132, :187).           *)
DeltaTarget ==
  CASE DeltaPromised \in 0..deltaSeen.last -> DeltaPromised
    [] DeltaPromised \notin 0..deltaSeen.last /\ request.kind = "asOf" -> 0
    [] OTHER -> deltaSeen.last

(* From a log that still has all its commits the Delta reader returns one  *)
(* snapshot, the one asked for, each row once, whatever is committed or    *)
(* vacuumed while it lists, replays and loads; from any log, nothing the   *)
(* version asked for had removed, and no row of a commit that exceeds the  *)
(* time asked for, the first commit excepted (delta.rs:106-204).           *)
DeltaReadIsSnapshot ==
  IsRead /\ Reader(path) = "delta" =>
    /\ deltaSeen.whole => HoldsOnce(frame, DeltaSnapshot(DeltaTarget))
    /\ IF request.kind = "asOf" THEN \A v \in Rows(frame) : v = 0 \/ ~Exceeds(v)
                                ELSE Rows(frame) \subseteq DeltaSnapshot(DeltaTarget)

(* What an Iceberg read leaves out of a snapshot: the files whose entries  *)
(* lack a count (iceberg.rs:398-399), in another format than Parquet       *)
(* (:455), or of a manifest listed without its path (:326).                *)
PassedOver(f) == kindOf[f] \in {"uncounted", "orc"} \/ (form = "list" /\ kindOf[f] = "pathless")

(* What it adds: the files a manifest of the snapshot names as deleted     *)
(* (:388-407), unless they are passed over, or that manifest is.           *)
Deleted(s) ==
  UNION {{f \in named[m] \ {m} : kindOf[f] \notin {"uncounted", "orc"}} :
           m \in {n \in snapshots[s] : form = "list" => kindOf[n] # "pathless"}}

(* From JSON manifests the Iceberg reader returns the files of the         *)
(* snapshot asked for (iceberg.rs:85, :91, :99), each once but with those  *)
(* left out and those added as above and no others, whatever is written,   *)
(* committed or expired while it reads, as long as no files are removed; a *)
(* time gives the newest snapshot of the metadata up to it (:227-332).     *)
IcebergReadIsSnapshot ==
  IsRead /\ Reader(path) = "iceberg" /\ form \in {"list", "inline"} /\ ~cleaned =>
    /\ HoldsOnce(frame, {f \in snapshots[snapshot] : ~PassedOver(f)} \cup Deleted(snapshot))
    /\ request.kind = "version" => snapshot = request.at
    /\ request.kind = "asOf" => snapshot = Least(request.at, meta.current)
    /\ request.kind = "latest" => snapshot = meta.current

(* Batches and frames lose no row, repeat none and keep their order: those *)
(* of a stream are the rows of one read, however the file or table changes *)
(* between them, and all when it ends; those of a row buffer are the rows  *)
(* pushed but for the ones still in it, in frames of the window size or    *)
(* less and of one schema (io/lib.rs:211-282).                             *)
BatchesPartitionTheSource ==
  /\ cached # Nothing => offset <= Len(cached) /\ Concat(reports) = SubSeq(cached, 1, offset)
  /\ pc = "ended" => Concat(reports) = frame
  /\ [i \in DOMAIN (Concat(frames) \o buffer) |-> (Concat(frames) \o buffer)[i].number]
       = [i \in DOMAIN pushed |-> i]
  /\ \A i \in DOMAIN frames :
       /\ Len(frames[i]) <= (IF windowSize = 0 THEN 1 ELSE windowSize)
       /\ \A j \in DOMAIN frames[i] : frames[i][j].columns = pushed[1].columns

(* delta.rs:47 documents read as "Read the latest snapshot of a Delta      *)
(* table".                                                                 *)
LatestDeltaReadIsASnapshot ==
  IsRead /\ Reader(path) = "delta" /\ request.kind = "latest" =>
    \E v \in 0..LastVersion : Rows(frame) = DeltaSnapshot(v)
=============================================================================
