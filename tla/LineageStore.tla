---------------------------- MODULE LineageStore ----------------------------
(***************************************************************************)
(* Saving lineage versions: save_lineage_version (python/statguardian/     *)
(* _lineage.py) over lineage_save_version (crates/statguardian-py) over    *)
(* SQLiteLineageStore (crates/statguardian-lineage, src/storage.rs).       *)
(*                                                                         *)
(* Processes that share the database file read the latest version number,  *)
(* insert the version under the next one, and insert its changes one by    *)
(* one: each statement commits by itself, and a process may stop or get an *)
(* error between any two. Both inserts are INSERT OR REPLACE, so a row     *)
(* that collides with a unique key takes the place of the one there.       *)
(***************************************************************************)
EXTENDS Integers, Sequences, FiniteSets

CONSTANTS
  Writers,         \* processes that save versions
  Warehouses,
  Changes,         \* changes: their source table, type, target and severity
  ChangeLists,     \* the lists of changes a save may carry
  MaxSaves         \* saves each process begins, at most

Severities == {"none", "low", "medium", "high"}

ASSUME SavesAssumption == MaxSaves \in Nat
ASSUME ChangesAssumption == \A c \in Changes : c.severity \in Severities
ASSUME ListsAssumption == ChangeLists \subseteq Seq(Changes)

VARIABLES
  versions,        \* lineage_versions: rows by UNIQUE(warehouse_id, version_number)
  changes,         \* lineage_changes: rows by UNIQUE(version_id, source_table, change_type)
  pc,              \* idle | version | changes: where each process stands
  job,             \* the version it is saving, or NoJob
  saved,           \* how many changes of the version it has inserted
  begun,           \* how many saves it has begun
  attempts         \* every save begun, whether it stored its version and returned (history)

vars == <<versions, changes, pc, job, saved, begun, attempts>>

NoJob == [writer |-> "none"]

(* An attempt is named by its process and its count; the lineage graph it  *)
(* saves is its own.                                                       *)
Attempt(p, n, w, number, list) ==
  [writer |-> p, n |-> n, warehouse |-> w, number |-> number, list |-> list,
   stored |-> FALSE, returned |-> FALSE]

Attempts ==
  [writer : Writers, n : Nat \ {0}, warehouse : Warehouses, number : Nat \ {0}, list : ChangeLists,
   stored : BOOLEAN, returned : BOOLEAN]

Init ==
  /\ versions = << >>
  /\ changes = << >>
  /\ pc = [p \in Writers |-> "idle"]
  /\ job = [p \in Writers |-> NoJob]
  /\ saved = [p \in Writers |-> 0]
  /\ begun = [p \in Writers |-> 0]
  /\ attempts = {}

-----------------------------------------------------------------------------
NumbersOf(w) == {v[2] : v \in {u \in DOMAIN versions : u[1] = w}}

(* Seeded fault: the next number is the latest itself.                     *)
NextNumberNotPast(w) == CHOOSE n \in NumbersOf(w) \cup {0} : \A m \in NumbersOf(w) : m <= n

(* Seeded fault: the latest number of any warehouse.                       *)
NextNumberOfAll(w) == 1 + Cardinality(DOMAIN versions)

(* Seeded fault: versions are read in ascending order.                     *)
NextNumberOfOldest(w) ==
  1 + CHOOSE n \in NumbersOf(w) \cup {0} :
        (NumbersOf(w) # {} => n # 0) /\ \A m \in NumbersOf(w) : n <= m

(* One past get_latest_version, or 1.                                      *)
NextNumber(w) == 1 + CHOOSE n \in NumbersOf(w) \cup {0} : \A m \in NumbersOf(w) : m <= n

(* save_lineage_version reads the latest number and names its version.     *)
BeginSave(p) ==
  /\ pc[p] = "idle"
  /\ begun[p] < MaxSaves
  /\ \E w \in Warehouses, list \in ChangeLists :
       LET a == Attempt(p, begun[p] + 1, w, NextNumber(w), list)
       IN  /\ job' = [job EXCEPT ![p] = a]
           /\ attempts' = attempts \cup {a}
  /\ pc' = [pc EXCEPT ![p] = "version"]
  /\ saved' = [saved EXCEPT ![p] = 0]
  /\ begun' = [begun EXCEPT ![p] = @ + 1]
  /\ UNCHANGED <<versions, changes>>

Set(f, k, v) == [x \in DOMAIN f \cup {k} |-> IF x = k THEN v ELSE f[x]]

SeverityRank == [none |-> 0, low |-> 1, medium |-> 2, high |-> 3]
MaxSeverity(list) ==
  CHOOSE s \in {list[i].severity : i \in DOMAIN list} \cup {"none"} :
    \A i \in DOMAIN list : SeverityRank[list[i].severity] <= SeverityRank[s]

Key(a) == <<a.warehouse, a.number>>       \* version_id names both
Row(a) == [graph |-> <<a.writer, a.n>>, severity |-> MaxSeverity(a.list)]

(* save_version. The changes of a row replaced stay: its version_id is the *)
(* same.                                                                   *)
SaveVersion(p) ==
  /\ pc[p] = "version"
  /\ versions' = Set(versions, Key(job[p]), Row(job[p]))
  /\ pc' = [pc EXCEPT ![p] = "changes"]
  /\ LET a == [job[p] EXCEPT !.stored = TRUE]
     IN  /\ job' = [job EXCEPT ![p] = a]
         /\ attempts' = (attempts \ {job[p]}) \cup {a}
  /\ UNCHANGED <<changes, saved, begun>>

(* Seeded fault: changes are unique by table and type alone.               *)
ChangeKeyOfTable(a, c) == <<"any", c.source, c.type>>

ChangeKey(a, c) == <<Key(a), c.source, c.type>>

(* Seeded fault: a change may be inserted before its version.              *)
SaveChangeUnordered(p) ==
  /\ pc[p] \in {"version", "changes"}
  /\ saved[p] < Len(job[p].list)
  /\ LET c == job[p].list[saved[p] + 1]
     IN  changes' = Set(changes, ChangeKey(job[p], c), [version |-> Key(job[p]), change |-> c])
  /\ saved' = [saved EXCEPT ![p] = @ + 1]
  /\ UNCHANGED <<versions, pc, job, begun, attempts>>

(* save_change, once for each change.                                      *)
SaveChange(p) ==
  /\ pc[p] = "changes"
  /\ saved[p] < Len(job[p].list)
  /\ LET c == job[p].list[saved[p] + 1]
     IN  changes' = Set(changes, ChangeKey(job[p], c), [version |-> Key(job[p]), change |-> c])
  /\ saved' = [saved EXCEPT ![p] = @ + 1]
  /\ UNCHANGED <<versions, pc, job, begun, attempts>>

Forget(p) ==
  /\ pc' = [pc EXCEPT ![p] = "idle"]
  /\ job' = [job EXCEPT ![p] = NoJob]
  /\ saved' = [saved EXCEPT ![p] = 0]
  /\ UNCHANGED <<versions, changes, begun>>

(* The save returns its version to the caller.                             *)
Return(p) ==
  /\ pc[p] = "changes"
  /\ saved[p] = Len(job[p].list)
  /\ attempts' = (attempts \ {job[p]}) \cup {[job[p] EXCEPT !.returned = TRUE]}
  /\ Forget(p)

(* The process stops, or a statement fails (a locked or full database) and *)
(* the exception reaches the caller, which may save again.                 *)
Fail(p) ==
  /\ pc[p] # "idle"
  /\ Forget(p)
  /\ UNCHANGED attempts

(* MaxSaves reached: nothing is left to do.                                *)
Finished ==
  /\ \A p \in Writers : pc[p] = "idle" /\ begun[p] = MaxSaves
  /\ UNCHANGED vars

Next ==
  \/ \E p \in Writers : BeginSave(p) \/ SaveVersion(p) \/ SaveChange(p) \/ Return(p) \/ Fail(p)
  \/ Finished

Spec == Init /\ [][Next]_vars

-----------------------------------------------------------------------------
(* The types of the state: version numbers start at 1 (_lineage.py:293-296)*)
(* and a process has a version in hand exactly while it saves one.         *)
TypeOK ==
  /\ DOMAIN versions \subseteq Warehouses \X (Nat \ {0})
  /\ \A v \in DOMAIN versions : versions[v].severity \in Severities
  /\ attempts \subseteq Attempts
  /\ job \in [Writers -> Attempts \cup {NoJob}]
  /\ pc \in [Writers -> {"idle", "version", "changes"}]
  /\ begun \in [Writers -> 0..MaxSaves]
  /\ saved \in [Writers -> Nat]
  /\ \A p \in Writers :
       /\ pc[p] = "idle" <=> job[p] = NoJob
       /\ pc[p] # "idle" => job[p] \in attempts /\ saved[p] <= Len(job[p].list)

(* The versions of a warehouse are numbered without a gap, so that history *)
(* can be walked by number, whatever process failed or raced.              *)
NumbersAreDense == \A v \in DOMAIN versions : \A k \in 1..v[2] : <<v[1], k>> \in DOMAIN versions

(* No change is left without its version: FOREIGN KEY (version_id) holds   *)
(* at every commit, also after a failure between two (storage.rs:94).      *)
ChangesHaveVersions == \A k \in DOMAIN changes : changes[k].version \in DOMAIN versions

(* The change rows of a version.                                           *)
ChangesOf(version) == {changes[k].change : k \in {l \in DOMAIN changes : changes[l].version = version}}

(* The changes of a list but for those displaced by a later one of the     *)
(* same source table and type: UNIQUE(version_id, source_table,            *)
(* change_type) keeps one row of them (storage.rs:95, 247-261).            *)
LastOfEach(list) ==
  {list[i] : i \in {j \in DOMAIN list :
     \A k \in (j + 1)..Len(list) : list[k].source # list[j].source \/ list[k].type # list[j].type}}

Contended(a) == \E b \in attempts : b.stored /\ Key(b) = Key(a) /\ <<b.writer, b.n>> # <<a.writer, a.n>>

(* A save that returned, and under whose number no other save stored its   *)
(* version, is stored with its graph, its severity and, of its changes,    *)
(* the last of each source table and type, and with no others, whatever    *)
(* was saved, failed or retried since. An earlier change of the same table *)
(* and type is lost by design of the schema, and no fault of this claim.   *)
UncontendedSaveIsWhole ==
  \A a \in attempts : a.returned /\ ~Contended(a) =>
    /\ Key(a) \in DOMAIN versions
    /\ versions[Key(a)] = Row(a)
    /\ ChangesOf(Key(a)) = LastOfEach(a.list)

(* A process that saves one version after another of a warehouse gets      *)
(* numbers that increase past every version it saved.                      *)
WriterNumbersIncrease ==
  \A a, b \in attempts :
    a.returned /\ a.writer = b.writer /\ a.warehouse = b.warehouse /\ a.n < b.n => a.number < b.number

(* _lineage.py:276: "Persist a new lineage version snapshot for a          *)
(* warehouse." The snapshot of a save that returned is in the store.       *)
SnapshotsPersist ==
  \A a \in attempts : a.returned => Key(a) \in DOMAIN versions /\ versions[Key(a)].graph = <<a.writer, a.n>>
=============================================================================
