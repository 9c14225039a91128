---------------------------- MODULE IcebergReader ----------------------------
(***************************************************************************)
(* IcebergReader of crates/statguardian-io (src/iceberg.rs): the metadata  *)
(* file in force is found and read, the snapshot asked for is resolved in  *)
(* it, its manifests are read and then the data files they name. Each step *)
(* is one access to the file system.                                       *)
(*                                                                         *)
(* The table belongs to other programs: they write data and manifests,     *)
(* publish metadata versions and expire snapshots. Snapshot s adds data    *)
(* file s through manifest s, which also has an entry, marked as deleted,  *)
(* for each file that s removes. A snapshot is the set of its live files   *)
(* and its manifest list names one manifest for each.                      *)
(***************************************************************************)
EXTENDS TableRead, Enumeration

CONSTANTS
  Forms,            \* how the tables considered keep their manifests
  EntryKinds        \* what the entries for their data files are like

(* list: a JSON manifest list; inline: the manifests are in the metadata;  *)
(* both with JSON manifests. avro: an Avro list, the manifests with JSON   *)
(* sidecars (sidecar) or without.                                          *)
Form == {"list", "inline", "sidecar", "avro"}

ASSUME FormsAssumption == Forms \subseteq Form

(* The entry of a data file may leave out record_count or file_size_in_bytes *)
(* (uncounted) or name another format than Parquet (orc), and the entry of *)
(* its manifest in a manifest list may be without manifest_path (pathless). *)
EntryKind == {"complete", "uncounted", "orc", "pathless"}

ASSUME EntryKindsAssumption == EntryKinds \subseteq EntryKind

VARIABLES
  form,             \* the form of the table's manifests
  kindOf,           \* the kind of each data file's entries
  named,            \* the data files each manifest has entries for
  snapshots,        \* the live files of each snapshot ever made
  metas,            \* the metadata versions: their snapshots and the current one
  firstMeta,        \* the oldest metadata version still there
  hint,             \* version-hint.text, or Nothing
  onDisk,           \* the data files, and the manifests, still there
  meta,             \* the metadata the reader has loaded
  snapshot,         \* the snapshot it has resolved; before, the metadata version
  manifests,        \* the manifests it has yet to read
  files,            \* the data files it has yet to read
  cleaned           \* history: table files were removed since the call

icebergTable == <<form, kindOf, named, snapshots, metas, firstMeta, hint, onDisk>>
icebergRead == <<meta, snapshot, manifests, files>>

NoMeta == [snapshots |-> {}, current |-> Nothing]
IcebergInit ==
  /\ form \in Forms
  /\ kindOf \in [1..MaxCommits -> EntryKinds]
  /\ named = << >>
  /\ snapshots = << >>
  /\ metas = << >>
  /\ firstMeta = 1
  /\ hint = Nothing
  /\ onDisk = [data |-> {}, manifests |-> {}, lists |-> {}]
  /\ meta = NoMeta
  /\ snapshot = Nothing
  /\ manifests = << >>
  /\ files = << >>
  /\ cleaned = FALSE

-----------------------------------------------------------------------------
(* The table. *)

LastMeta == metas[Len(metas)]
Live == IF metas = << >> THEN {} ELSE snapshots[LastMeta.current]
SnapshotTime(s) == s
Made == Len(snapshots)

(* A writer's data file and manifest reach the disk ahead of its commit.   *)
IcebergWriteFiles ==
  /\ Made < MaxCommits
  /\ Made + 1 \notin onDisk.data
  /\ \E removed \in SUBSET Live : named' = Append(named, removed \cup {Made + 1})
  /\ onDisk' = [onDisk EXCEPT !.data = @ \cup {Made + 1}, !.manifests = @ \cup {Made + 1}]
  /\ UNCHANGED <<form, kindOf, snapshots, metas, firstMeta, hint>>

IcebergCommit ==
  /\ Made + 1 \in onDisk.data
  /\ snapshots' = Append(snapshots, (Live \ named[Made + 1]) \cup {Made + 1})
  /\ metas' = Append(metas, [snapshots |-> IF metas = << >> THEN {1} ELSE LastMeta.snapshots \cup {Made + 1},
                             current |-> Made + 1])
  /\ onDisk' = [onDisk EXCEPT !.lists = @ \cup {Made + 1}]
  /\ UNCHANGED <<form, kindOf, named, firstMeta, hint>>

(* Expired snapshots leave the metadata first ... *)
IcebergExpire ==
  /\ metas # << >>
  /\ LastMeta.snapshots # {LastMeta.current}
  /\ metas' = Append(metas, [snapshots |-> {LastMeta.current}, current |-> LastMeta.current])
  /\ UNCHANGED <<form, kindOf, named, snapshots, firstMeta, hint, onDisk>>

IcebergHint ==
  /\ metas # << >>
  /\ hint # Len(metas)
  /\ hint' = Len(metas)
  /\ UNCHANGED <<form, kindOf, named, snapshots, metas, firstMeta, onDisk>>

(* ... and the files only they used, and old metadata, go afterwards.      *)
IcebergClean ==
  /\ metas # << >>
  /\ hint = Nothing \/ hint = Len(metas)
  /\ LET kept == (UNION {snapshots[s] : s \in LastMeta.snapshots}) \cup {Made + 1}
     IN  onDisk' = [data |-> onDisk.data \cap kept, manifests |-> onDisk.manifests \cap kept,
                    lists |-> onDisk.lists \cap LastMeta.snapshots]
  /\ firstMeta' = Len(metas)
  /\ <<onDisk', firstMeta'>> # <<onDisk, firstMeta>>
  /\ UNCHANGED <<form, kindOf, named, snapshots, metas, hint>>

IcebergTableStep ==
  \/ /\ IcebergWriteFiles \/ IcebergCommit \/ IcebergExpire \/ IcebergHint
     /\ UNCHANGED cleaned
  \/ IcebergClean /\ cleaned' = TRUE

-----------------------------------------------------------------------------
(* The reader. *)

(* read, read_snapshot, read_as_of_timestamp, read_ref. *)
IcebergBegin(r) ==
  /\ Request(r, "hint")
  /\ cleaned' = FALSE
  /\ UNCHANGED icebergRead

(* load_metadata: the version hint, or else the highest version listed;    *)
(* then that file, which may have been removed or never been there.        *)
MetaVersion == IF hint # Nothing THEN hint ELSE Len(metas)
IcebergHinted ==
  /\ pc = "hint"
  /\ snapshot' = MetaVersion
  /\ Goto("metadata")
  /\ UNCHANGED <<meta, manifests, files, cleaned>>

IcebergMetadata ==
  /\ pc = "metadata"
  /\ IF snapshot < firstMeta THEN Fail /\ UNCHANGED meta
                             ELSE meta' = metas[snapshot] /\ Goto("resolve")
  /\ UNCHANGED <<snapshot, manifests, files, cleaned>>

(* resolve_snapshot, find_snapshot_at_timestamp: at most one candidate.    *)
Newest(S) == IF S = {} THEN {} ELSE {Highest(S)}
Wanted ==
  CASE request.kind = "latest" -> {meta.current} \cap meta.snapshots
    [] request.kind = "version" -> {request.at} \cap meta.snapshots
    [] request.kind = "asOf" -> Newest({s \in meta.snapshots : SnapshotTime(s) <= request.at})
    [] OTHER -> {}

IcebergResolve ==
  /\ pc = "resolve"
  /\ request.kind # "ref"
  /\ IF Wanted = {} THEN Fail /\ UNCHANGED snapshot
                    ELSE snapshot' \in Wanted /\ Goto("manifests")
  /\ UNCHANGED <<meta, manifests, files, cleaned>>

(* read_ref: a branch or tag, when there is one of the name, gives the id  *)
(* of some snapshot, which is then read from metadata loaded once more.    *)
IcebergResolveRef ==
  /\ pc = "resolve"
  /\ request.kind = "ref"
  /\ \/ /\ \E s \in meta.snapshots : request' = [kind |-> "version", at |-> s]
        /\ pc' = "hint"
        /\ UNCHANGED frame
     \/ Fail
  /\ UNCHANGED <<icebergRead, cleaned>>

(* A manifest list and a directory name their files in the order made.     *)
InOrder(S) == Ascending(S)

(* Seeded fault: the manifests of the current snapshot whatever was asked. *)
ListedManifestsOfCurrent == InOrder(snapshots[meta.current])

(* The manifests a list or the metadata names for the snapshot, but for    *)
(* those a list names without their path.                                  *)
ListedManifests ==
  InOrder({m \in snapshots[snapshot] : form = "list" => kindOf[m] # "pathless"})

(* collect_data_files: a JSON list that is gone is an error; an Avro list  *)
(* is not read, every manifest in metadata/ is taken instead.              *)
IcebergList ==
  /\ pc = "manifests"
  /\ files' = << >>
  /\ IF form = "list" /\ snapshot \notin onDisk.lists
     THEN Fail /\ UNCHANGED manifests
     ELSE /\ manifests' = IF form \in {"list", "inline"} THEN ListedManifests ELSE InOrder(onDisk.manifests)
          /\ Goto("files")
  /\ UNCHANGED <<meta, snapshot, cleaned>>

(* read_manifest: the JSON manifest or sidecar when there is one, else     *)
(* every Parquet file in data/. Whether an entry is marked as deleted is   *)
(* not looked at, and one without its counts is passed over.               *)
FilesOf(m) ==
  IF m \in onDisk.manifests /\ form # "avro" THEN InOrder({f \in named[m] : kindOf[f] # "uncounted"})
                                             ELSE InOrder({f \in onDisk.data : kindOf[f] # "orc"})

IcebergManifest ==
  /\ pc = "files"
  /\ manifests # << >>
  /\ files' = files \o FilesOf(Head(manifests))
  /\ manifests' = Tail(manifests)
  /\ UNCHANGED <<request, frame, pc, meta, snapshot, cleaned>>

(* load_data_files: of the files only those in Parquet are looked at ...   *)
IcebergCollected ==
  /\ pc = "files"
  /\ manifests = << >>
  /\ files' = At(files, {i \in DOMAIN files : kindOf[files[i]] # "orc"})
  /\ IF files' = << >> THEN Fail ELSE Goto("data")
  /\ UNCHANGED <<meta, snapshot, manifests, cleaned>>

(* ... and read one after the other.                                       *)
IcebergLoad ==
  /\ pc = "data"
  /\ IF Head(files) \in onDisk.data
     THEN Load(Head(files), Len(files) = 1) /\ files' = Tail(files)
     ELSE Fail /\ UNCHANGED files
  /\ UNCHANGED <<meta, snapshot, manifests, cleaned>>

IcebergReadStep ==
  \/ IcebergHinted \/ IcebergMetadata \/ IcebergResolve \/ IcebergResolveRef
  \/ IcebergList \/ IcebergManifest \/ IcebergCollected \/ IcebergLoad
=============================================================================
