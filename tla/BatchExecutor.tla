---------------------------- MODULE BatchExecutor ----------------------------
(***************************************************************************)
(* BatchExecutor::execute (crates/statguardian-engine, src/batch.rs): the  *)
(* schema, quality and cross-column checks run first; the nodes of the     *)
(* compiled contract then run column by column, the columns in parallel on *)
(* rayon's threads and in the order a HashMap happens to hand them out; a  *)
(* column stops at its first blocking violation. The findings are sorted,  *)
(* one is kept of those that share column and check, and the report is     *)
(* made of them.                                                           *)
(***************************************************************************)
EXTENDS Contract

CONSTANTS
  Contracts,        \* the contracts considered
  Datasets          \* the datasets considered: facts by column

ASSUME ContractsAssumption == Contracts \subseteq ContractType

VARIABLES
  contract,         \* the contract of the run
  data,             \* the dataset
  hasReference,     \* whether a reference dataset was given, for drift
  dag,              \* Compile(contract)
  checked,          \* violations of the schema, quality and cross-column checks
  order,            \* the order the HashMap yields the columns in
  next,             \* the node each column's task runs next
  abort,            \* whether it has met a blocking violation
  found,            \* col_violations of each column
  report,           \* the ValidationReport, or NoReport
  pc                \* validate | group | columns | report | done

vars == <<contract, data, hasReference, dag, checked, order, next, abort, found, report, pc>>
inputs == <<contract, data, hasReference, dag>>

NoReport == [violations |-> << >>, drift |-> << >>, passed |-> FALSE]

Init ==
  /\ contract \in Contracts
  /\ data \in Datasets
  /\ hasReference \in BOOLEAN
  /\ dag = Compile(contract)
  /\ checked = << >>
  /\ order = << >>
  /\ next = [c \in Columns |-> 1]
  /\ abort = [c \in Columns |-> FALSE]
  /\ found = [c \in Columns |-> << >>]
  /\ report = NoReport
  /\ pc = "validate"

(* The three sequential validators.                                        *)
Validate ==
  /\ pc = "validate"
  /\ checked' = SchemaViolations(data, contract) \o QualityViolations(data, contract)
                \o CrossViolations(data, contract)
  /\ pc' = "group"
  /\ UNCHANGED <<inputs, order, next, abort, found, report>>

DagColumns == {dag[i].column : i \in DOMAIN dag}

(* group_by_column: only columns with nodes, in any order.                 *)
GroupByColumn ==
  /\ pc = "group"
  /\ order' \in {o \in [1..Cardinality(DagColumns) -> DagColumns] : {o[i] : i \in DOMAIN o} = DagColumns}
  /\ pc' = "columns"
  /\ UNCHANGED <<inputs, checked, next, abort, found, report>>

(* Seeded fault: a violation that is not blocking stops the column too.    *)
StopsAtAny(violations) == violations # << >>

Stops(violations) == \E i \in DOMAIN violations : violations[i].severity = "Blocking"

HasNext(c) == ~abort[c] /\ next[c] <= Len(ColumnNodes(dag, c))

(* The task of column c runs its next node.                                *)
RunNode(c) ==
  /\ pc = "columns"
  /\ c \in DagColumns
  /\ HasNext(c)
  /\ LET violations == NodeViolations(data, ColumnNodes(dag, c)[next[c]])
     IN  /\ found' = [found EXCEPT ![c] = @ \o violations]
         /\ abort' = [abort EXCEPT ![c] = Stops(violations)]
  /\ next' = [next EXCEPT ![c] = @ + 1]
  /\ UNCHANGED <<inputs, checked, order, report, pc>>

(* Seeded fault: a column that stopped is waited for as if it went on.     *)
JoinAfterEveryNode ==
  /\ pc = "columns"
  /\ \A c \in DagColumns : next[c] > Len(ColumnNodes(dag, c))
  /\ pc' = "report"
  /\ UNCHANGED <<inputs, checked, order, next, abort, found, report>>

(* collect() waits for every column.                                       *)
Join ==
  /\ pc = "columns"
  /\ \A c \in DagColumns : ~HasNext(c)
  /\ pc' = "report"
  /\ UNCHANGED <<inputs, checked, order, next, abort, found, report>>

-----------------------------------------------------------------------------
(* The report. *)

CheckNames ==                         \* in their order as strings
  <<"between", "cardinality_check", "column_exists", "completeness", "consistency", "cross_column_rule",
    "duplicate_detection", "enum", "enum_check", "freshness", "len", "len_check", "max", "min", "negative",
    "negative_check", "non_null_rate", "not_null", "null_anomaly", "null_check", "outlier_detection",
    "positive", "positive_check", "quality_check", "range_check", "regex", "type_check", "uniqueness", "validity">>

CheckRank == [check \in ToSet(CheckNames) |-> CHOOSE i \in DOMAIN CheckNames : CheckNames[i] = check]

(* Seeded fault: violations are sorted by check alone.                     *)
SortKeyCheckOnly(v) == CheckRank[v.check]

SortKey(v) == 100 * v.column + CheckRank[v.check]

SameCheck(v, w) == v.column = w.column /\ v.check = w.check

(* Seeded fault: neighbours are the same when their check is.              *)
DedupByName(s) == At(s, {i \in DOMAIN s : i = 1 \/ s[i - 1].check # s[i].check})

(* dedup_by keeps the first of neighbours that name the same check.        *)
DedupByCheck(s) == At(s, {i \in DOMAIN s : i = 1 \/ ~SameCheck(s[i - 1], s[i])})

Assemble(violations) ==
  DedupByCheck(StableSort(violations, [i \in DOMAIN violations |-> SortKey(violations[i])]))

Blocks(v) == v.severity = "Blocking"

(* ValidationReport::new; the health score is left out.                    *)
Report(violations, drift) ==
  [violations |-> violations,
   drift      |-> drift,
   passed     |-> \A i \in DOMAIN violations : ~Blocks(violations[i])]

MakeReport ==
  /\ pc = "report"
  /\ report' = Report(Assemble(checked \o Concat([i \in DOMAIN order |-> found[order[i]]])),
                      IF hasReference THEN DriftResults(data, contract) ELSE << >>)
  /\ pc' = "done"
  /\ UNCHANGED <<inputs, checked, order, next, abort, found>>

Returned == pc = "done" /\ UNCHANGED vars

Next == Validate \/ GroupByColumn \/ (\E c \in Columns : RunNode(c)) \/ Join \/ MakeReport \/ Returned

(* Rayon runs every task to its end, and the caller runs on: a column with *)
(* a node left goes on to the next, and a joined run finishes. Only        *)
(* RunNode(c) and MakeReport do that, and they are enabled exactly then.   *)
Advances(c) == pc = "columns" /\ c \in DagColumns /\ HasNext(c) /\ next' = [next EXCEPT ![c] = @ + 1]
Finishes    == pc = "report" /\ pc' = "done"

Spec ==
  /\ Init /\ [][Next]_vars
  /\ WF_vars(Validate \/ GroupByColumn \/ Join)
  /\ \A c \in Columns : WF_next(Advances(c))
  /\ WF_pc(Finishes)

-----------------------------------------------------------------------------
(* Properties. *)

(* The types of the state; a column's task finds violations of its own     *)
(* column (batch.rs:29-49), and a report is made of reported violations.   *)
TypeOK ==
  /\ \A c \in Columns :
       /\ next[c] \in 1..(Len(ColumnNodes(dag, c)) + 1)
       /\ abort[c] \in BOOLEAN
       /\ \A i \in DOMAIN found[c] : found[c][i].column = c
  /\ \A i \in DOMAIN report.violations :
       report.violations[i] \in [column : Columns, check : ToSet(CheckNames), severity : Severities]
  /\ report.passed \in BOOLEAN
  /\ pc \in {"validate", "group", "columns", "report", "done"}

Direct ==
  SchemaViolations(data, contract) \o QualityViolations(data, contract) \o CrossViolations(data, contract)

(* What a column's task finds, computed without tasks: its nodes up to the *)
(* first that finds a blocking violation.                                  *)
ColumnFindings(c) ==
  LET nodes == ColumnNodes(dag, c)
      stops == {i \in DOMAIN nodes : \E v \in ToSet(NodeViolations(data, nodes[i])) : Blocks(v)}
  IN  Concat([k \in {i \in DOMAIN nodes : \A j \in stops : i <= j} |-> NodeViolations(data, nodes[k])])

(* The same contract and data give the same violations in the same order,  *)
(* whatever the interleaving of the columns' tasks and the order of the    *)
(* HashMap (batch.rs:29-58).                                               *)
ReportIsDeterministic ==
  pc = "done" =>
    report.violations = Assemble(Direct \o Concat([c \in Columns |-> ColumnFindings(c)]))

(* A blocking check is skipped only behind a blocking failure of its own   *)
(* column, and never in favour of a check that is not blocking             *)
(* (optimizer.rs:76-77, batch.rs:36-43).                                   *)
BlockingChecksRunFirst ==
  \A c \in Columns :
    LET nodes == ColumnNodes(dag, c)
        left  == {i \in next[c]..Len(nodes) : Blocks(nodes[i])}
    IN  left # {} => /\ \A i \in DOMAIN found[c] : Blocks(found[c][i])
                     /\ pc \in {"report", "done"} /\ c \in DagColumns => found[c] # << >>

(* No failing check goes unmentioned, whatever the optimizer fused and the *)
(* report took for a duplicate: its column and check name are reported,    *)
(* unless its column stopped before it at a blocking failure.              *)
FailuresAreMentioned ==
  LET Mentioned(v) == \E w \in ToSet(report.violations) : SameCheck(v, w)
      Stopped(c)   == \E v \in ToSet(found[c]) : Blocks(v)
  IN  pc = "done" =>
        /\ \A v \in ToSet(Direct) : Mentioned(v)
        /\ \A n \in ToSet(ContractNodes(contract)) :
             \A v \in ToSet(NodeViolations(data, n)) : Mentioned(v) \/ Stopped(v.column)

(* Everything that fails on the data.                                      *)
Failures == ToSet(Direct) \cup UNION {ToSet(NodeViolations(data, n)) : n \in ToSet(ContractNodes(contract))}

(* A blocking failure is in the report, or the report keeps a milder one   *)
(* of its column and name instead (batch.rs:57-58), which then comes from  *)
(* the schema, quality or cross-column checks and never from a node.       *)
Masked(v) == \E w \in ToSet(report.violations) \cap ToSet(Direct) : SameCheck(v, w) /\ ~Blocks(w)
Shown(v) == v \in ToSet(report.violations) \/ Masked(v)

(* No other blocking failure is left out, but for those of nodes that did  *)
(* not run: their column stopped before them at a blocking failure, and    *)
(* that one is in the report or masked as any other (batch.rs:37-43).      *)
OnlyNamesakesMask ==
  pc = "done" =>
    \A v \in Failures : Blocks(v) =>
      \/ Shown(v)
      \/ /\ v \notin ToSet(Direct) \cup ToSet(found[v.column])
         /\ \E b \in ToSet(found[v.column]) : Blocks(b) /\ Shown(b)

(* Every execution returns its report: no column's task waits for another  *)
(* or stops short of its join (batch.rs:32-48).                            *)
Returns == <>(pc = "done")

(* docs/contract-dsl.md:65: "`@blocking:` marks a check as blocking        *)
(* (failure gates the pipeline)." A blocking check that fails on the data  *)
(* leaves no report that passed.                                           *)
BlockingFailureGates ==
  pc = "done" /\ (\E v \in Failures : Blocks(v)) => ~report.passed
=============================================================================
