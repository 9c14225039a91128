----------------------------- MODULE DeltaReader -----------------------------
(***************************************************************************)
(* DeltaReader of crates/statguardian-io (src/delta.rs): the log directory *)
(* is listed, the JSON commits up to a version are replayed in order, and  *)
(* the files left active are read. A table as of a time is first scanned   *)
(* for its version. Each step is one access to the file system.            *)
(*                                                                         *)
(* The table belongs to other programs: they commit, remove the JSON       *)
(* commits behind a checkpoint and vacuum the files removed from the table. *)
(***************************************************************************)
EXTENDS TableRead

CONSTANT CommitTimes   \* the timestamps of commits considered, Nothing for none

ASSUME TimesAssumption == CommitTimes \subseteq Nat \cup {Nothing}

VARIABLES
  commits,          \* what each commit does; commit v is commits[v + 1]
  firstJson,        \* the oldest commit whose JSON file is still there
  vacuumed,         \* data files deleted from disk
  listed,           \* commits of the listing not read yet
  upTo,             \* up_to_version; in a scan, best_version
  active,           \* the active files; while loading, those not read yet
  deltaSeen         \* history: the last version at the first listing, and
                    \* whether the replayed log was whole

deltaTable == <<commits, firstJson, vacuumed>>
deltaRead == <<listed, upTo, active, deltaSeen>>

Commit == [add : BOOLEAN, remove : SUBSET Nat, time : Nat \cup {Nothing}]

DeltaInit ==
  /\ commits = << >>
  /\ firstJson = 0
  /\ vacuumed = {}
  /\ listed = {}
  /\ upTo = Nothing
  /\ active = {}
  /\ deltaSeen = [last |-> -1, whole |-> FALSE]

-----------------------------------------------------------------------------
(* The table. *)

LastVersion == Len(commits) - 1
Adds(v) == IF commits[v + 1].add THEN {v} ELSE {}
Removes(v) == commits[v + 1].remove
CommitTime(v) == commits[v + 1].time

(* The snapshot of version v: what is added up to v and not removed.       *)
DeltaSnapshot(v) ==
  {f \in UNION {Adds(u) : u \in 0..v} : \A u \in f..v : f \notin Removes(u)}

(* The clocks of writers differ, and not every writer leaves a timestamp.  *)
DeltaCommit ==
  /\ Len(commits) < MaxCommits
  /\ \E add \in BOOLEAN, remove \in SUBSET DeltaSnapshot(LastVersion), time \in CommitTimes :
       /\ commits = << >> => add
       /\ commits' = Append(commits, [add |-> add, remove |-> remove, time |-> time])
  /\ UNCHANGED <<firstJson, vacuumed>>

(* The commits behind a checkpoint of version v are cleaned up.            *)
DeltaCleanLog ==
  /\ \E v \in (firstJson + 1)..LastVersion : firstJson' = v
  /\ UNCHANGED <<commits, vacuumed>>

DeltaVacuum ==
  /\ commits # << >>
  /\ vacuumed' = (0..LastVersion) \ DeltaSnapshot(LastVersion)
  /\ vacuumed' # vacuumed
  /\ UNCHANGED <<commits, firstJson>>

DeltaTableStep == DeltaCommit \/ DeltaCleanLog \/ DeltaVacuum

-----------------------------------------------------------------------------
(* The reader. *)

JsonCommits == firstJson..LastVersion

(* read, read_version, read_as_of_timestamp. *)
DeltaBegin(r) ==
  /\ r.kind \in {"latest", "version", "asOf"}
  /\ Request(r, IF r.kind = "asOf" THEN "scanList" ELSE "list")
  /\ upTo' = r.at
  /\ UNCHANGED <<listed, active, deltaSeen>>

(* find_version_for_timestamp lists the log ...                            *)
DeltaScanList ==
  /\ pc = "scanList"
  /\ listed' = JsonCommits
  /\ upTo' = 0
  /\ deltaSeen' = [deltaSeen EXCEPT !.last = LastVersion]
  /\ Goto("scan")
  /\ UNCHANGED active

(* Seeded fault: a commit without a timestamp ends the scan.               *)
CountsTimed(v) == v >= firstJson /\ CommitTime(v) # Nothing /\ CommitTime(v) <= request.at

(* A commit without a timestamp counts, and so does one that cannot be     *)
(* read any more.                                                          *)
Counts(v) == v >= firstJson /\ CommitTime(v) # Nothing => CommitTime(v) <= request.at

(* ... and goes through it up to the first commit after the requested time. *)
DeltaScanCommit ==
  /\ pc = "scan"
  /\ listed # {}
  /\ LET v == Lowest(listed)
     IN  IF Counts(v) THEN upTo' = v /\ listed' = listed \ {v}
                      ELSE UNCHANGED upTo /\ listed' = {}
  /\ UNCHANGED <<request, frame, pc, active, deltaSeen>>

DeltaScanned ==
  /\ pc = "scan"
  /\ listed = {}
  /\ Goto("list")
  /\ UNCHANGED deltaRead

(* resolve_active_files: the listing, cut at the version asked for ...     *)
DeltaList ==
  /\ pc = "list"
  /\ listed' = {v \in JsonCommits : upTo = Nothing \/ v <= upTo}
  /\ active' = {}
  /\ deltaSeen' = [last |-> IF request.kind = "asOf" THEN deltaSeen.last ELSE LastVersion,
                   whole |-> firstJson = 0]
  /\ Goto("replay")
  /\ UNCHANGED upTo

(* Seeded fault: the listing is not sorted.                                *)
NextListedUnsorted(v) == v \in listed

NextListed(v) == v \in listed /\ v = Lowest(listed)

(* ... the replay of its commits, where one that vanished is an error ...  *)
DeltaReplay ==
  /\ pc = "replay"
  /\ \E v \in listed : NextListed(v) /\
       \/ /\ v >= firstJson
          /\ active' = (active \cup Adds(v)) \ Removes(v)
          /\ listed' = listed \ {v}
          /\ UNCHANGED <<request, frame, pc>>
       \/ v < firstJson /\ Fail /\ UNCHANGED <<active, listed>>
  /\ UNCHANGED <<upTo, deltaSeen>>

(* ... and the check that something is left to read.                       *)
DeltaResolved ==
  /\ pc = "replay"
  /\ listed = {}
  /\ IF active = {} THEN Fail ELSE Goto("load")
  /\ UNCHANGED deltaRead

(* read_and_concat, in the order of the hash map. *)
DeltaLoad ==
  /\ pc = "load"
  /\ \E f \in active :
       \/ f \notin vacuumed /\ Load(f, active = {f}) /\ active' = active \ {f}
       \/ f \in vacuumed /\ Fail /\ UNCHANGED active
  /\ UNCHANGED <<listed, upTo, deltaSeen>>

DeltaReadStep ==
  \/ DeltaScanList \/ DeltaScanCommit \/ DeltaScanned
  \/ DeltaList \/ DeltaReplay \/ DeltaResolved \/ DeltaLoad
=============================================================================
