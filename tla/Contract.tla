------------------------------ MODULE Contract ------------------------------
(***************************************************************************)
(* A data contract, what the compiler and the optimizer make of it         *)
(* (crates/statguardian-core, src/compiler) and what its checks find in a  *)
(* dataset (statguardian-validators, statguardian-engine, statguardian-    *)
(* stats).                                                                 *)
(*                                                                         *)
(* A dataset is, for each column, the set of facts true of it: each check  *)
(* names the fact that makes it fail, which stands for its parameters (the *)
(* pattern, the range, the threshold). Two more facts concern the column   *)
(* itself: it may be missing, or scalar-backed.                            *)
(***************************************************************************)
EXTENDS Enumeration, SequencesExt

CONSTANTS
  ColumnCount,                        \* how many columns contracts speak of
  Facts                               \* what a contract's checks may be about

ASSUME ColumnCountAssumption == ColumnCount \in Nat

Columns == 1..ColumnCount             \* column names, in their order
Severities == {"Blocking", "Error", "Warning", "Info"}

-----------------------------------------------------------------------------
(* DAG nodes: their cost, and the check name of the violation they report. *)

NodeKinds ==
  [TypeCheck            |-> [cost |-> 1, check |-> "type_check"],
   NullCheck            |-> [cost |-> 1, check |-> "null_check"],
   PositiveCheck        |-> [cost |-> 2, check |-> "positive_check"],
   NegativeCheck        |-> [cost |-> 2, check |-> "negative_check"],
   RangeCheck           |-> [cost |-> 2, check |-> "range_check"],
   LenCheck             |-> [cost |-> 2, check |-> "len_check"],
   EnumCheck            |-> [cost |-> 3, check |-> "enum_check"],
   NullAnomalyDetection |-> [cost |-> 3, check |-> "null_anomaly"],
   RegexCheck           |-> [cost |-> 4, check |-> "regex"],
   UniquenessCheck      |-> [cost |-> 5, check |-> "uniqueness"],
   QualityMetricCheck   |-> [cost |-> 5, check |-> "quality_check"],
   Profile              |-> [cost |-> 6, check |-> "profile"],
   CardinalityCheck     |-> [cost |-> 6, check |-> "cardinality_check"],
   DriftCheck           |-> [cost |-> 7, check |-> "drift"],
   OutlierDetection     |-> [cost |-> 8, check |-> "outlier_detection"],
   DuplicateDetection   |-> [cost |-> 8, check |-> "duplicate_detection"]]

(* The node each schema constraint compiles to; coerce and foreign_key     *)
(* compile to none.                                                        *)
ConstraintNodes ==
  [not_null |-> "NullCheck", primary_key |-> "NullCheck", unique |-> "UniquenessCheck",
   positive |-> "PositiveCheck", negative |-> "NegativeCheck", regex |-> "RegexCheck",
   between |-> "RangeCheck", min |-> "RangeCheck", max |-> "RangeCheck",
   len |-> "LenCheck", enum |-> "EnumCheck"]

AnomalyNodes ==
  [detect_outliers |-> "OutlierDetection", detect_duplicates |-> "DuplicateDetection",
   detect_nulls |-> "NullAnomalyDetection", detect_cardinality_explosion |-> "CardinalityCheck",
   detect_pattern_breaks |-> "RegexCheck"]

Node(kind, column, metric, fact, severity) ==
  [kind |-> kind, column |-> column, metric |-> metric, fact |-> fact, severity |-> severity]

-----------------------------------------------------------------------------
(* DataContract, and Compiler::compile.                                    *)

ConstraintKinds == DOMAIN ConstraintNodes \cup {"coerce", "foreign_key"}
Metrics == {"completeness", "uniqueness", "validity", "consistency", "freshness", "non_null_rate"}

Constraints == [kind : ConstraintKinds, fact : Facts]
Fields == [column : Columns, constraints : Seq(Constraints)]
QualityRules == [metric : Metrics, column : Columns, fact : Facts, severity : Severities]
CrossRules == [assertColumn : Columns, whenColumn : Columns, fact : Facts, severity : Severities]
StatRules == [column : Columns, fact : Facts, severity : Severities]
AnomalyRules == [function : DOMAIN AnomalyNodes, column : Columns, fact : Facts, severity : Severities]

ContractType ==
  [schema : Seq(Fields), quality : Seq(QualityRules), cross : Seq(CrossRules), stats : Seq(StatRules),
   anomalies : Seq(AnomalyRules)]

ConstraintNode(column, c) ==
  IF c.kind \in DOMAIN ConstraintNodes
  THEN <<Node(ConstraintNodes[c.kind], column, "", c.fact, "Error")>>
  ELSE << >>

FieldNodes(f) ==
  <<Node("Profile", f.column, "", "", "Info"), Node("TypeCheck", f.column, "", "type", "Blocking")>>
  \o Concat([i \in DOMAIN f.constraints |-> ConstraintNode(f.column, f.constraints[i])])

ContractNodes(c) ==
  Concat([i \in DOMAIN c.schema |-> FieldNodes(c.schema[i])])
  \o [i \in DOMAIN c.quality |-> Node("QualityMetricCheck", c.quality[i].column, c.quality[i].metric,
                                      c.quality[i].fact, c.quality[i].severity)]
  \o [i \in DOMAIN c.stats |-> Node("DriftCheck", c.stats[i].column, "", c.stats[i].fact, c.stats[i].severity)]
  \o [i \in DOMAIN c.anomalies |-> Node(AnomalyNodes[c.anomalies[i].function], c.anomalies[i].column, "",
                                        c.anomalies[i].fact, c.anomalies[i].severity)]

-----------------------------------------------------------------------------
(* Optimizer::optimize. *)

(* Only the first of identical nodes stays.                                *)
Deduplicate(nodes) == At(nodes, {i \in DOMAIN nodes : \A j \in 1..(i - 1) : nodes[j] # nodes[i]})

(* A completeness metric gives way to a null check of the same column.     *)
FuseNullChecks(nodes) ==
  LET nullChecked == {nodes[i].column : i \in {j \in DOMAIN nodes : nodes[j].kind = "NullCheck"}}
  IN  At(nodes, {i \in DOMAIN nodes :
        ~(nodes[i].kind = "QualityMetricCheck" /\ nodes[i].metric = "completeness"
          /\ nodes[i].column \in nullChecked)})

SeverityRank == [Blocking |-> 0, Error |-> 1, Warning |-> 2, Info |-> 3]

(* Seeded fault: the cost of a node counts before its severity.            *)
NodeKeyCostFirst(n) == 100 * n.column + 10 * NodeKinds[n.kind].cost + SeverityRank[n.severity]

(* Nodes go by column, then by severity, then by cost (which is below 10). *)
NodeKey(n) == 100 * n.column + 10 * SeverityRank[n.severity] + NodeKinds[n.kind].cost

Optimize(nodes) ==
  LET kept == FuseNullChecks(Deduplicate(nodes))
  IN  StableSort(kept, [i \in DOMAIN kept |-> NodeKey(kept[i])])

Compile(c) == Optimize(ContractNodes(c))

(* Seeded fault: the slice of a column starts with the first column.       *)
ColumnNodesFromStart(dag, column) == At(dag, {i \in DOMAIN dag : dag[i].column <= column})

(* Optimizer::group_by_column keeps the order of a column's nodes.         *)
ColumnNodes(dag, column) == At(dag, {i \in DOMAIN dag : dag[i].column = column})

-----------------------------------------------------------------------------
(* What the checks find. *)

Violation(column, check, severity) == [column |-> column, check |-> check, severity |-> severity]
When(condition, violation) == IF condition THEN <<violation>> ELSE << >>
Missing(data, column) == "missing" \in data[column]

(* SchemaValidator::validate *)
FieldViolations(data, f) ==
  LET kinds == {f.constraints[i].kind : i \in DOMAIN f.constraints}
  IN  IF Missing(data, f.column)
      THEN <<Violation(f.column, "column_exists", "Blocking")>>
      ELSE When("type" \in data[f.column],
                Violation(f.column, "type_check", IF "coerce" \in kinds THEN "Warning" ELSE "Blocking"))
           \o Concat([i \in DOMAIN f.constraints |->
                When(f.constraints[i].kind \in DOMAIN ConstraintNodes /\ f.constraints[i].fact \in data[f.column],
                     Violation(f.column,
                               CASE f.constraints[i].kind = "primary_key" -> "not_null"
                                 [] f.constraints[i].kind = "unique" -> "uniqueness"
                                 [] OTHER -> f.constraints[i].kind,
                               "Error"))])

SchemaViolations(data, c) == Concat([i \in DOMAIN c.schema |-> FieldViolations(data, c.schema[i])])

(* RuleEngine::evaluate *)
RuleViolations(data, r) ==
  IF Missing(data, r.column)
  THEN <<Violation(r.column, "quality_check", "Blocking")>>
  ELSE When(r.fact \in data[r.column], Violation(r.column, r.metric, r.severity))

QualityViolations(data, c) == Concat([i \in DOMAIN c.quality |-> RuleViolations(data, c.quality[i])])

(* RuleEngine::evaluate_cross_column: a condition on a missing column      *)
(* counts as violated.                                                     *)
CrossViolations(data, c) ==
  Concat([i \in DOMAIN c.cross |->
    LET r == c.cross[i] IN
      When(Missing(data, r.whenColumn) \/ Missing(data, r.assertColumn) \/ r.fact \in data[r.assertColumn],
           Violation(r.assertColumn, "cross_column_rule", r.severity))])

(* execute_node: type checks and drift are handled elsewhere, and a check  *)
(* of a missing column finds nothing.                                      *)
NodeViolations(data, n) ==
  CASE n.kind \in {"Profile", "TypeCheck", "DriftCheck"} -> << >>
    [] n.kind = "QualityMetricCheck" -> RuleViolations(data, n)
    [] OTHER -> When(~Missing(data, n.column) /\ n.fact \in data[n.column],
                     Violation(n.column, NodeKinds[n.kind].check, n.severity))

(* DriftEngine::evaluate: no result for a column as_series() cannot give.  *)
DriftResults(data, c) ==
  Concat([i \in DOMAIN c.stats |->
    LET r == c.stats[i] IN
      When(~Missing(data, r.column) /\ "scalar" \notin data[r.column],
           [column |-> r.column, severity |-> r.severity, passed |-> r.fact \notin data[r.column]])])
=============================================================================
