------------------------ MODULE BatchExecutorProofs ------------------------
(***************************************************************************)
(* For any number of columns, any contracts and datasets: the state is     *)
(* well typed, the report depends on the contract and the data only, a     *)
(* column's blocking checks come before its others, every failure is       *)
(* mentioned, and a passed report passes over a blocking failure only in   *)
(* favour of one of the same column and name.                              *)
(***************************************************************************)
EXTENDS BatchExecutor, EnumerationProofs

Nodes(c) == ColumnNodes(dag, c)
FindingsAt(c, k) == NodeViolations(data, Nodes(c)[k])

(* What the first n nodes of a column find.                                *)
Findings(c, n) == Concat([k \in 1..n |-> FindingsAt(c, k)])

(* A column's task has run its nodes up to the next, and none but the last *)
(* of them found what stops it.                                            *)
TaskInv(c) ==
  /\ next[c] \in 1..(Len(Nodes(c)) + 1)
  /\ found[c] = Findings(c, next[c] - 1)
  /\ \A k \in 1..(next[c] - 2) : ~Stops(FindingsAt(c, k))
  /\ abort[c] <=> next[c] > 1 /\ Stops(FindingsAt(c, next[c] - 1))

Phases == {"validate", "group", "columns", "report", "done"}

(* The columns with nodes, each once. *)
Orders == {o \in [1..Cardinality(DagColumns) -> DagColumns] : {o[i] : i \in DOMAIN o} = DagColumns}

InOrder == [i \in DOMAIN order |-> found[order[i]]]

IInv ==
  /\ contract \in ContractType /\ dag = Compile(contract) /\ pc \in Phases
  /\ next \in [Columns -> Nat] /\ abort \in [Columns -> BOOLEAN] /\ DOMAIN found = Columns
  /\ \A c \in Columns : TaskInv(c)
  /\ pc # "validate" => checked = Direct
  /\ pc \in {"columns", "report", "done"} => order \in Orders
  /\ pc \in {"report", "done"} => \A c \in Columns : ~HasNext(c)
  /\ report = IF pc = "done"
              THEN Report(Assemble(checked \o Concat(InOrder)),
                          IF hasReference THEN DriftResults(data, contract) ELSE << >>)
              ELSE NoReport

-----------------------------------------------------------------------------
(* Kinds, names and severities. *)

Reporting == DOMAIN NodeKinds \ {"Profile", "TypeCheck", "DriftCheck", "QualityMetricCheck"}

LEMMA KindsAre ==
  /\ DOMAIN NodeKinds =
       {"TypeCheck", "NullCheck", "PositiveCheck", "NegativeCheck", "RangeCheck", "LenCheck", "EnumCheck",
        "NullAnomalyDetection", "RegexCheck", "UniquenessCheck", "QualityMetricCheck", "Profile",
        "CardinalityCheck", "DriftCheck", "OutlierDetection", "DuplicateDetection"}
  /\ \A kind \in DOMAIN NodeKinds : NodeKinds[kind].cost \in 1..8
BY DEF NodeKinds

LEMMA NamesAre ==
  /\ DOMAIN CheckNames = 1..29
  /\ ToSet(CheckNames) =
       {"between", "cardinality_check", "column_exists", "completeness", "consistency", "cross_column_rule",
        "duplicate_detection", "enum", "enum_check", "freshness", "len", "len_check", "max", "min", "negative",
        "negative_check", "non_null_rate", "not_null", "null_anomaly", "null_check", "outlier_detection",
        "positive", "positive_check", "quality_check", "range_check", "regex", "type_check", "uniqueness", "validity"}
BY DEF CheckNames, ToSet

LEMMA KindNames == \A kind \in Reporting : NodeKinds[kind].check \in ToSet(CheckNames)
BY NamesAre, KindsAre DEF NodeKinds, Reporting

LEMMA RankType == \A check \in ToSet(CheckNames) : CheckRank[check] \in 1..29
<1>1. ASSUME NEW check \in ToSet(CheckNames)
      PROVE  (CHOOSE i \in DOMAIN CheckNames : CheckNames[i] = check) \in 1..29
  <2>1. \E i \in DOMAIN CheckNames : CheckNames[i] = check
    BY DEF ToSet
  <2>2. QED
    BY <2>1, NamesAre
<1>2. QED
  BY <1>1 DEF CheckRank

LEMMA SeverityRanks ==
  \A severity \in Severities :
    SeverityRank[severity] \in 0..3 /\ (SeverityRank[severity] = 0 <=> severity = "Blocking")
BY DEF Severities, SeverityRank

LEMMA ConstraintKindsAre ==
  /\ DOMAIN ConstraintNodes = {"not_null", "primary_key", "unique", "positive", "negative", "regex", "between",
                               "min", "max", "len", "enum"}
  /\ \A kind \in DOMAIN ConstraintNodes : ConstraintNodes[kind] \in Reporting
BY KindsAre DEF ConstraintNodes, Reporting

LEMMA AnomalyKindsAre == \A function \in DOMAIN AnomalyNodes : AnomalyNodes[function] \in Reporting
BY KindsAre DEF AnomalyNodes, Reporting

-----------------------------------------------------------------------------
(* What sequences contain. *)

LEMMA Elements ==
  ASSUME NEW T, NEW s \in Seq(T)
  PROVE  /\ DOMAIN s = 1..Len(s) /\ Len(s) \in Nat
         /\ \A x : x \in ToSet(s) <=> \E i \in 1..Len(s) : s[i] = x
         /\ ToSet(s) \in SUBSET T
BY DEF ToSet

LEMMA ConcatContains ==
  ASSUME NEW T, NEW n \in Nat, NEW parts \in [1..n -> Seq(T)]
  PROVE  /\ Concat(parts) \in Seq(T)
         /\ \A x : x \in ToSet(Concat(parts)) <=> \E i \in 1..n : x \in ToSet(parts[i])
<1>1. parts \in Seq(Seq(T)) /\ Len(parts) = n
  OBVIOUS
<1>2. Concat(parts) \in Seq(T)
  BY <1>1, ConcatPlaces
<1> DEFINE whole == Concat(parts)
<1>3. /\ whole \in Seq(T)
      /\ \A p \in 1..Len(whole) : \E i \in 1..n : \E k \in 1..Len(parts[i]) : parts[i][k] = whole[p]
      /\ \A i \in 1..n : \A k \in 1..Len(parts[i]) : \E p \in 1..Len(whole) : whole[p] = parts[i][k]
  BY <1>1, <1>2, ConcatElements
<1>4. \A x : x \in ToSet(whole) <=> \E p \in 1..Len(whole) : whole[p] = x
  BY <1>2, Elements
<1>5. \A i \in 1..n : \A x : x \in ToSet(parts[i]) <=> \E k \in 1..Len(parts[i]) : parts[i][k] = x
  BY Elements
<1> HIDE DEF whole
<1>6. ASSUME NEW x PROVE x \in ToSet(whole) <=> \E i \in 1..n : x \in ToSet(parts[i])
  <2>1. ASSUME x \in ToSet(whole) PROVE \E i \in 1..n : x \in ToSet(parts[i])
    <3>1. PICK p \in 1..Len(whole) : whole[p] = x
      BY <1>4, <2>1
    <3>2. PICK i \in 1..n : \E k \in 1..Len(parts[i]) : parts[i][k] = whole[p]
      BY <1>3
    <3>3. QED
      BY <1>5, <3>1, <3>2, Zenon
  <2>2. ASSUME NEW i \in 1..n, x \in ToSet(parts[i]) PROVE x \in ToSet(whole)
    <3>1. PICK k \in 1..Len(parts[i]) : parts[i][k] = x
      BY <1>5, <2>2
    <3>2. PICK p \in 1..Len(whole) : whole[p] = parts[i][k]
      BY <1>3
    <3>3. QED
      BY <1>4, <3>1, <3>2
  <2>3. QED
    BY <2>1, <2>2
<1>7. QED
  BY <1>3, <1>6 DEF whole

LEMMA JoinContains ==
  ASSUME NEW T, NEW a \in Seq(T), NEW b \in Seq(T)
  PROVE  /\ a \o b \in Seq(T)
         /\ \A x : x \in ToSet(a \o b) <=> x \in ToSet(a) \/ x \in ToSet(b)
<1> DEFINE s == a \o b
<1>1. /\ s \in Seq(T) /\ Len(s) = Len(a) + Len(b) /\ Len(a) \in Nat /\ Len(b) \in Nat
      /\ \A p \in 1..Len(a) : s[p] = a[p]
      /\ \A k \in 1..Len(b) : s[Len(a) + k] = b[k]
  BY Joined
<1> HIDE DEF s
<1>2. ASSUME NEW x, x \in ToSet(s) PROVE x \in ToSet(a) \/ x \in ToSet(b)
  <2>1. PICK p \in 1..Len(s) : s[p] = x
    BY <1>1, <1>2, Elements
  <2>2. CASE p \in 1..Len(a)
    BY <1>1, <2>1, <2>2, Elements
  <2>3. CASE p \notin 1..Len(a)
    <3>1. p - Len(a) \in 1..Len(b) /\ Len(a) + (p - Len(a)) = p
      BY <1>1, <2>3
    <3>2. b[p - Len(a)] = x
      BY <1>1, <2>1, <3>1
    <3>3. QED
      BY <3>1, <3>2, Elements
  <2>4. QED
    BY <2>2, <2>3
<1>3. ASSUME NEW x, x \in ToSet(a) PROVE x \in ToSet(s)
  <2>1. PICK p \in 1..Len(a) : a[p] = x
    BY <1>3, Elements
  <2>2. p \in 1..Len(s) /\ s[p] = x
    BY <1>1, <2>1
  <2>3. QED
    BY <1>1, <2>2, Elements
<1>4. ASSUME NEW x, x \in ToSet(b) PROVE x \in ToSet(s)
  <2>1. PICK p \in 1..Len(b) : b[p] = x
    BY <1>4, Elements
  <2>2. Len(a) + p \in 1..Len(s) /\ s[Len(a) + p] = x
    BY <1>1, <2>1
  <2>3. QED
    BY <1>1, <2>2, Elements
<1>5. QED
  BY <1>1, <1>2, <1>3, <1>4 DEF s

LEMMA AtContains ==
  ASSUME NEW T, NEW s \in Seq(T), NEW I \in SUBSET (1..Len(s))
  PROVE  /\ At(s, I) \in Seq(T)
         /\ \A x : x \in ToSet(At(s, I)) <=> \E i \in I : s[i] = x
<1>1. At(s, I) \in Seq(T)
  BY AtPicks
<1>2. /\ \A k \in 1..Len(At(s, I)) : \E i \in I : At(s, I)[k] = s[i]
      /\ \A i \in I : \E k \in 1..Len(At(s, I)) : At(s, I)[k] = s[i]
  BY AtElements
<1> DEFINE t == At(s, I)
<1> HIDE DEF t
<1>3. \A x : x \in ToSet(t) <=> \E k \in 1..Len(t) : t[k] = x
  <2>1. t \in Seq(T)
    BY <1>1 DEF t
  <2>2. QED
    BY <2>1, Elements
<1>4. ASSUME NEW x PROVE x \in ToSet(t) <=> \E i \in I : s[i] = x
  BY <1>2, <1>3 DEF t
<1>5. QED
  BY <1>1, <1>4 DEF t

LEMMA SortContains ==
  ASSUME NEW T, NEW s \in Seq(T), NEW keys \in [1..Len(s) -> Int]
  PROVE  /\ StableSort(s, keys) \in Seq(T)
         /\ \A x : x \in ToSet(StableSort(s, keys)) <=> x \in ToSet(s)
<1> DEFINE t == StableSort(s, keys)
<1>1. t \in Seq(T) /\ Len(t) = Len(s)
  BY SortPlaces
<1>2. /\ \A k \in 1..Len(s) : \E i \in 1..Len(s) : t[k] = s[i]
      /\ \A i \in 1..Len(s) : \E k \in 1..Len(s) : t[k] = s[i]
  BY SortElements
<1> HIDE DEF t
<1>3. ASSUME NEW x PROVE x \in ToSet(t) <=> x \in ToSet(s)
  <2>1. x \in ToSet(t) <=> \E k \in 1..Len(s) : t[k] = x
    BY <1>1, Elements
  <2>2. x \in ToSet(s) <=> \E i \in 1..Len(s) : s[i] = x
    BY Elements
  <2>3. QED
    BY <1>2, <2>1, <2>2
<1>4. QED
  BY <1>1, <1>3 DEF t

-----------------------------------------------------------------------------
(* The types of nodes and violations. *)

NodeFacts == Facts \cup {"", "type"}

NodeSet ==
  {n \in [kind : DOMAIN NodeKinds, column : Columns, metric : {""} \cup Metrics, fact : NodeFacts, severity : Severities] :
     n.kind = "QualityMetricCheck" => n.metric \in Metrics}

PlainNodes == {n \in NodeSet : n.kind # "QualityMetricCheck"}

ViolationType == [column : Columns, check : ToSet(CheckNames), severity : Severities]

LEMMA PlainNode ==
  ASSUME NEW kind \in DOMAIN NodeKinds, kind # "QualityMetricCheck", NEW column \in Columns,
         NEW fact \in NodeFacts, NEW severity \in Severities
  PROVE  Node(kind, column, "", fact, severity) \in PlainNodes
BY DEF Node, PlainNodes, NodeSet

LEMMA QualityNode ==
  ASSUME NEW metric \in Metrics, NEW column \in Columns, NEW fact \in NodeFacts, NEW severity \in Severities
  PROVE  Node("QualityMetricCheck", column, metric, fact, severity) \in NodeSet
<1>1. "QualityMetricCheck" \in DOMAIN NodeKinds
  BY KindsAre
<1>2. QED
  BY <1>1 DEF Node, NodeSet

(* The nodes of a contract's rules.                                        *)
LEMMA RuleNodes ==
  /\ \A r \in QualityRules :
       Node("QualityMetricCheck", r.column, r.metric, r.fact, r.severity) \in NodeSet
  /\ \A r \in StatRules : Node("DriftCheck", r.column, "", r.fact, r.severity) \in PlainNodes
  /\ \A r \in AnomalyRules :
       Node(AnomalyNodes[r.function], r.column, "", r.fact, r.severity) \in PlainNodes
<1>1. ASSUME NEW r \in QualityRules
      PROVE  Node("QualityMetricCheck", r.column, r.metric, r.fact, r.severity) \in NodeSet
  <2>1. r.metric \in Metrics /\ r.column \in Columns /\ r.fact \in NodeFacts /\ r.severity \in Severities
    BY DEF QualityRules, NodeFacts
  <2>2. QED
    BY <2>1, QualityNode
<1>2. ASSUME NEW r \in StatRules PROVE Node("DriftCheck", r.column, "", r.fact, r.severity) \in PlainNodes
  <2>1. r.column \in Columns /\ r.fact \in NodeFacts /\ r.severity \in Severities
    BY DEF StatRules, NodeFacts
  <2>2. "DriftCheck" \in DOMAIN NodeKinds /\ "DriftCheck" # "QualityMetricCheck"
    BY KindsAre
  <2>3. QED
    BY <2>1, <2>2, PlainNode
<1>3. ASSUME NEW r \in AnomalyRules
      PROVE  Node(AnomalyNodes[r.function], r.column, "", r.fact, r.severity) \in PlainNodes
  <2>1. /\ r.function \in DOMAIN AnomalyNodes /\ r.column \in Columns
        /\ r.fact \in NodeFacts /\ r.severity \in Severities
    BY DEF AnomalyRules, NodeFacts
  <2>2. AnomalyNodes[r.function] \in DOMAIN NodeKinds /\ AnomalyNodes[r.function] # "QualityMetricCheck"
    BY <2>1, AnomalyKindsAre DEF Reporting
  <2>3. QED
    BY <2>1, <2>2, PlainNode
<1>4. QED
  BY <1>1, <1>2, <1>3

LEMMA ViolationTypes ==
  ASSUME NEW column \in Columns, NEW check \in ToSet(CheckNames), NEW severity \in Severities, NEW condition
  PROVE  /\ Violation(column, check, severity) \in ViolationType
         /\ When(condition, Violation(column, check, severity)) \in Seq(ViolationType)
<1>1. Violation(column, check, severity) \in ViolationType
  BY DEF Violation, ViolationType
<1>2. \A v \in ViolationType : When(condition, v) \in Seq(ViolationType)
  BY DEF When
<1>3. QED
  BY <1>1, <1>2

LEMMA FieldNodesType ==
  ASSUME NEW f \in Fields PROVE FieldNodes(f) \in Seq(PlainNodes)
<1> DEFINE rest == [i \in DOMAIN f.constraints |-> ConstraintNode(f.column, f.constraints[i])]
           n == Len(f.constraints)
<1>1. /\ f.column \in Columns /\ n \in Nat /\ DOMAIN f.constraints = 1..n
      /\ \A i \in 1..n : f.constraints[i] \in Constraints
  BY DEF Fields
<1>2. ASSUME NEW i \in 1..n PROVE ConstraintNode(f.column, f.constraints[i]) \in Seq(PlainNodes)
  <2> DEFINE c == f.constraints[i]
  <2>1. c.kind \in ConstraintKinds /\ c.fact \in NodeFacts
    BY <1>1 DEF Constraints, NodeFacts
  <2> HIDE DEF c
  <2>2. CASE c.kind \in DOMAIN ConstraintNodes
    <3>1. ConstraintNodes[c.kind] \in DOMAIN NodeKinds /\ ConstraintNodes[c.kind] # "QualityMetricCheck"
      BY <2>2, ConstraintKindsAre DEF Reporting
    <3>2. "Error" \in Severities
      BY DEF Severities
    <3>3. Node(ConstraintNodes[c.kind], f.column, "", c.fact, "Error") \in PlainNodes
      BY <1>1, <2>1, <3>1, <3>2, PlainNode
    <3>4. ConstraintNode(f.column, c) = <<Node(ConstraintNodes[c.kind], f.column, "", c.fact, "Error")>>
      BY <2>2 DEF ConstraintNode
    <3> DEFINE node == Node(ConstraintNodes[c.kind], f.column, "", c.fact, "Error")
    <3> HIDE DEF node
    <3>5. ConstraintNode(f.column, c) = <<node>> /\ node \in PlainNodes
      BY <3>3, <3>4 DEF node
    <3>6. QED
      BY <3>5 DEF c
  <2>3. CASE c.kind \notin DOMAIN ConstraintNodes
    BY <2>3 DEF ConstraintNode, c
  <2>4. QED
    BY <2>2, <2>3
<1>3. rest \in [1..n -> Seq(PlainNodes)]
  BY <1>1, <1>2
<1> HIDE DEF rest
<1>4. Concat(rest) \in Seq(PlainNodes)
  BY <1>1, <1>3, ConcatContains
<1>5. /\ Node("Profile", f.column, "", "", "Info") \in PlainNodes
      /\ Node("TypeCheck", f.column, "", "type", "Blocking") \in PlainNodes
  <2>1. "Profile" \in DOMAIN NodeKinds /\ "TypeCheck" \in DOMAIN NodeKinds
    BY KindsAre
  <2>2. "Info" \in Severities /\ "Blocking" \in Severities
    BY DEF Severities
  <2>3. "" \in NodeFacts /\ "type" \in NodeFacts
    BY DEF NodeFacts
  <2>4. QED
    BY <1>1, <2>1, <2>2, <2>3, PlainNode
<1> DEFINE profile == Node("Profile", f.column, "", "", "Info")
           typeCheck == Node("TypeCheck", f.column, "", "type", "Blocking")
<1>6. FieldNodes(f) = <<profile, typeCheck>> \o Concat(rest)
  BY DEF FieldNodes, rest
<1>7. profile \in PlainNodes /\ typeCheck \in PlainNodes
  BY <1>5
<1> HIDE DEF profile, typeCheck
<1>8. <<profile, typeCheck>> \in Seq(PlainNodes)
  BY <1>7
<1>9. QED
  BY <1>4, <1>6, <1>8, JoinContains

(* A contract's nodes are well typed, and those of quality metrics are its *)
(* quality rules.                                                          *)
LEMMA ContractNodesType ==
  ASSUME NEW c \in ContractType
  PROVE  /\ ContractNodes(c) \in Seq(NodeSet)
         /\ \A n \in ToSet(ContractNodes(c)) :
              n.kind = "QualityMetricCheck" =>
                \E i \in 1..Len(c.quality) :
                  n = Node("QualityMetricCheck", c.quality[i].column, c.quality[i].metric,
                           c.quality[i].fact, c.quality[i].severity)
<1> DEFINE Quality(i) == Node("QualityMetricCheck", c.quality[i].column, c.quality[i].metric,
                              c.quality[i].fact, c.quality[i].severity)
           schema == [i \in DOMAIN c.schema |-> FieldNodes(c.schema[i])]
           quality == [i \in DOMAIN c.quality |-> Quality(i)]
           Stat(i) == Node("DriftCheck", c.stats[i].column, "", c.stats[i].fact, c.stats[i].severity)
           Anomaly(i) == Node(AnomalyNodes[c.anomalies[i].function], c.anomalies[i].column, "",
                              c.anomalies[i].fact, c.anomalies[i].severity)
           stats == [i \in DOMAIN c.stats |-> Stat(i)]
           anomalies == [i \in DOMAIN c.anomalies |-> Anomaly(i)]
<1>1. Concat(schema) \in Seq(PlainNodes)
  <2>1. c.schema \in Seq(Fields)
    BY DEF ContractType
  <2>2. schema \in [1..Len(c.schema) -> Seq(PlainNodes)] /\ Len(c.schema) \in Nat
    BY <2>1, FieldNodesType
  <2> HIDE DEF schema
  <2>3. QED
    BY <2>2, ConcatContains
<1>2. quality \in Seq(NodeSet) /\ \A n \in ToSet(quality) : \E i \in 1..Len(c.quality) : n = Quality(i)
  <2>1. c.quality \in Seq(QualityRules)
    BY DEF ContractType
  <2>2. DOMAIN c.quality = 1..Len(c.quality) /\ Len(c.quality) \in Nat
    BY <2>1
  <2>3. \A i \in 1..Len(c.quality) : Quality(i) \in NodeSet
    <3>1. ASSUME NEW i \in 1..Len(c.quality) PROVE Quality(i) \in NodeSet
      <4> DEFINE r == c.quality[i]
      <4>1. r \in QualityRules
        BY <2>1
      <4> HIDE DEF r
      <4>2. Node("QualityMetricCheck", r.column, r.metric, r.fact, r.severity) \in NodeSet
        BY <4>1, RuleNodes
      <4>3. QED
        BY <4>2 DEF r
    <3>2. QED
      BY <3>1
  <2> HIDE DEF Quality
  <2>4. quality \in Seq(NodeSet) /\ Len(quality) = Len(c.quality)
    BY <2>2, <2>3
  <2>5. \A i \in 1..Len(c.quality) : quality[i] = Quality(i)
    BY <2>2
  <2> HIDE DEF quality
  <2>6. QED
    BY <2>4, <2>5, Elements
<1>3. stats \in Seq(PlainNodes)
  <2>1. c.stats \in Seq(StatRules)
    BY DEF ContractType
  <2>2. DOMAIN c.stats = 1..Len(c.stats) /\ Len(c.stats) \in Nat
    BY <2>1
  <2>3. ASSUME NEW i \in 1..Len(c.stats) PROVE Stat(i) \in PlainNodes
    <3> DEFINE r == c.stats[i]
    <3>1. r \in StatRules
      BY <2>1
    <3> HIDE DEF r
    <3>2. Node("DriftCheck", r.column, "", r.fact, r.severity) \in PlainNodes
      BY <3>1, RuleNodes
    <3>3. QED
      BY <3>2 DEF r
  <2> HIDE DEF Stat
  <2>4. QED
    BY <2>2, <2>3
<1>4. anomalies \in Seq(PlainNodes)
  <2>1. c.anomalies \in Seq(AnomalyRules)
    BY DEF ContractType
  <2>2. DOMAIN c.anomalies = 1..Len(c.anomalies) /\ Len(c.anomalies) \in Nat
    BY <2>1
  <2>3. ASSUME NEW i \in 1..Len(c.anomalies) PROVE Anomaly(i) \in PlainNodes
    <3> DEFINE r == c.anomalies[i]
    <3>1. r \in AnomalyRules
      BY <2>1
    <3> HIDE DEF r
    <3>2. Node(AnomalyNodes[r.function], r.column, "", r.fact, r.severity) \in PlainNodes
      BY <3>1, RuleNodes
    <3>3. QED
      BY <3>2 DEF r
  <2> HIDE DEF Anomaly
  <2>4. QED
    BY <2>2, <2>3
<1>5. ContractNodes(c) = Concat(schema) \o quality \o stats \o anomalies
  BY DEF ContractNodes
<1>6. \A n \in ToSet(Concat(schema)) \cup ToSet(stats) \cup ToSet(anomalies) :
        n \in NodeSet /\ n.kind # "QualityMetricCheck"
  <2> HIDE DEF schema, stats, anomalies
  <2>1. /\ ToSet(Concat(schema)) \in SUBSET PlainNodes /\ ToSet(stats) \in SUBSET PlainNodes
        /\ ToSet(anomalies) \in SUBSET PlainNodes
    BY <1>1, <1>3, <1>4, Elements
  <2>2. QED
    BY <2>1 DEF PlainNodes
<1> DEFINE schemas == Concat(schema)
<1> HIDE DEF schema, quality, stats, anomalies, schemas
<1>7. schemas \in Seq(NodeSet) /\ stats \in Seq(NodeSet) /\ anomalies \in Seq(NodeSet) /\ quality \in Seq(NodeSet)
  BY <1>1, <1>2, <1>3, <1>4 DEF PlainNodes, schemas
<1> DEFINE two == schemas \o quality
           three == two \o stats
           four == three \o anomalies
<1>8. two \in Seq(NodeSet) /\ \A n : n \in ToSet(two) <=> n \in ToSet(schemas) \/ n \in ToSet(quality)
  BY <1>7, JoinContains
<1> HIDE DEF two
<1>9. three \in Seq(NodeSet) /\ \A n : n \in ToSet(three) <=> n \in ToSet(two) \/ n \in ToSet(stats)
  BY <1>7, <1>8, JoinContains
<1> HIDE DEF three
<1>10. four \in Seq(NodeSet) /\ \A n : n \in ToSet(four) <=> n \in ToSet(three) \/ n \in ToSet(anomalies)
  BY <1>7, <1>9, JoinContains
<1>11. ASSUME NEW n \in ToSet(ContractNodes(c)), n.kind = "QualityMetricCheck"
       PROVE  \E i \in 1..Len(c.quality) : n = Quality(i)
  <2>1. n \in ToSet(quality)
    BY <1>5, <1>6, <1>8, <1>9, <1>10, <1>11 DEF schemas, two, three
  <2>2. QED
    BY <1>2, <2>1
<1>12. ContractNodes(c) \in Seq(NodeSet)
  BY <1>5, <1>10 DEF schemas, two, three
<1>13. QED
  BY <1>11, <1>12

-----------------------------------------------------------------------------
(* What the optimizer keeps. *)

(* Of identical nodes one stays.                                           *)
LEMMA DeduplicateKeeps ==
  ASSUME NEW T, NEW s \in Seq(T)
  PROVE  /\ Deduplicate(s) \in Seq(T)
         /\ \A x : x \in ToSet(Deduplicate(s)) <=> x \in ToSet(s)
<1> DEFINE I == {i \in 1..Len(s) : \A j \in 1..(i - 1) : s[j] # s[i]}
           t == At(s, I)
<1>1. DOMAIN s = 1..Len(s) /\ Len(s) \in Nat /\ \A x : x \in ToSet(s) <=> \E i \in 1..Len(s) : s[i] = x
  BY Elements
<1>2. Deduplicate(s) = t
  BY <1>1 DEF Deduplicate
<1>3. I \in SUBSET (1..Len(s))
  OBVIOUS
<1>4. ASSUME NEW i \in 1..Len(s) PROVE \E j \in I : s[j] = s[i]
  <2> DEFINE S == {j \in 1..Len(s) : s[j] = s[i]}
  <2>1. S \in SUBSET Nat /\ i \in S
    BY <1>1
  <2>2. PICK j \in S : \A k \in S : j <= k
    <3> HIDE DEF S
    <3>1. QED
      BY <2>1, LeastExists
  <2>3. j \in I /\ s[j] = s[i]
    BY <1>1, <2>2
  <2>4. QED
    BY <2>3
<1> HIDE DEF I
<1>5. t \in Seq(T) /\ \A x : x \in ToSet(t) <=> \E i \in I : s[i] = x
  BY <1>3, AtContains
<1> HIDE DEF t
<1>6. ASSUME NEW x PROVE x \in ToSet(t) <=> x \in ToSet(s)
  BY <1>1, <1>3, <1>4, <1>5
<1>7. QED
  BY <1>2, <1>5, <1>6

(* Only quality metrics give way.                                          *)
LEMMA FuseKeeps ==
  ASSUME NEW s \in Seq(NodeSet)
  PROVE  /\ FuseNullChecks(s) \in Seq(NodeSet)
         /\ \A x : x \in ToSet(FuseNullChecks(s)) => x \in ToSet(s)
         /\ \A x : x \in ToSet(s) /\ x.kind # "QualityMetricCheck" => x \in ToSet(FuseNullChecks(s))
<1> DEFINE nullChecked == {s[i].column : i \in {j \in DOMAIN s : s[j].kind = "NullCheck"}}
           I == {i \in DOMAIN s : ~(s[i].kind = "QualityMetricCheck" /\ s[i].metric = "completeness"
                                    /\ s[i].column \in nullChecked)}
           t == At(s, I)
<1>1. DOMAIN s = 1..Len(s) /\ Len(s) \in Nat /\ \A x : x \in ToSet(s) <=> \E i \in 1..Len(s) : s[i] = x
  BY Elements
<1>2. FuseNullChecks(s) = t
  BY DEF FuseNullChecks
<1> HIDE DEF nullChecked
<1>3. I \in SUBSET (1..Len(s)) /\ \A i \in 1..Len(s) : s[i].kind # "QualityMetricCheck" => i \in I
  BY <1>1
<1> HIDE DEF I
<1>4. t \in Seq(NodeSet) /\ \A x : x \in ToSet(t) <=> \E i \in I : s[i] = x
  BY <1>3, AtContains
<1> HIDE DEF t
<1>5. ASSUME NEW x, x \in ToSet(t) PROVE x \in ToSet(s)
  BY <1>1, <1>3, <1>4, <1>5
<1>6. ASSUME NEW x, x \in ToSet(s), x.kind # "QualityMetricCheck" PROVE x \in ToSet(t)
  <2>1. PICK i \in 1..Len(s) : s[i] = x
    BY <1>1, <1>6
  <2>2. i \in I
    BY <1>3, <1>6, <2>1
  <2>3. QED
    BY <1>4, <2>1, <2>2
<1>7. QED
  BY <1>2, <1>4, <1>5, <1>6

(* In a column, nodes go by their severity.                                *)
LEMMA NodeKeys ==
  /\ \A n \in NodeSet : NodeKey(n) \in Int
  /\ \A m, n \in NodeSet : m.column = n.column /\ NodeKey(m) <= NodeKey(n) /\ Blocks(n) => Blocks(m)
<1>1. ASSUME NEW n \in NodeSet
      PROVE  /\ n.column \in Nat /\ NodeKinds[n.kind].cost \in 1..8 /\ SeverityRank[n.severity] \in 0..3
             /\ SeverityRank[n.severity] = 0 <=> Blocks(n)
             /\ NodeKey(n) = 100 * n.column + 10 * SeverityRank[n.severity] + NodeKinds[n.kind].cost
  <2>1. n.kind \in DOMAIN NodeKinds /\ n.column \in Columns /\ n.severity \in Severities
    BY DEF NodeSet
  <2>2. n.column \in Nat
    BY <2>1, ColumnCountAssumption DEF Columns
  <2>3. QED
    BY <2>1, <2>2, KindsAre, SeverityRanks DEF Blocks, NodeKey
<1>2. \A column, rank, cost : column \in Nat /\ rank \in 0..3 /\ cost \in 1..8 => 100 * column + 10 * rank + cost \in Int
  OBVIOUS
<1>3. ASSUME NEW column \in Nat, NEW r \in 0..3, NEW s \in 0..3, NEW a \in 1..8, NEW b \in 1..8,
             100 * column + 10 * r + a <= 100 * column + 10 * s + b, s = 0
      PROVE  r = 0
  BY <1>3
<1>4. ASSUME NEW n \in NodeSet PROVE NodeKey(n) \in Int
  BY <1>1, <1>2
<1>5. ASSUME NEW m \in NodeSet, NEW n \in NodeSet, m.column = n.column, NodeKey(m) <= NodeKey(n), Blocks(n)
      PROVE  Blocks(m)
  <2> DEFINE column == m.column
             r == SeverityRank[m.severity]
             s == SeverityRank[n.severity]
             a == NodeKinds[m.kind].cost
             b == NodeKinds[n.kind].cost
  <2>1. /\ column \in Nat /\ r \in 0..3 /\ s \in 0..3 /\ a \in 1..8 /\ b \in 1..8 /\ s = 0
        /\ 100 * column + 10 * r + a <= 100 * column + 10 * s + b
    BY <1>1, <1>5
  <2>2. r = 0
    <3> HIDE DEF column, r, s, a, b
    <3>1. QED
      BY <1>3, <2>1
  <2>3. QED
    BY <1>1, <2>2
<1>6. QED
  BY <1>4, <1>5

InKeyOrder(nodes) == \A k, l \in 1..Len(nodes) : k < l => NodeKey(nodes[k]) <= NodeKey(nodes[l])

(* The compiled contract has nodes of the contract, in the order of their  *)
(* keys, and all of them but quality metrics.                              *)
LEMMA CompileKeeps ==
  ASSUME NEW c \in ContractType
  PROVE  /\ Compile(c) \in Seq(NodeSet) /\ InKeyOrder(Compile(c))
         /\ \A x : x \in ToSet(Compile(c)) => x \in ToSet(ContractNodes(c))
         /\ \A x : x \in ToSet(ContractNodes(c)) /\ x.kind # "QualityMetricCheck" => x \in ToSet(Compile(c))
<1> DEFINE nodes == ContractNodes(c)
           once == Deduplicate(nodes)
           kept == FuseNullChecks(once)
           keys == [i \in DOMAIN kept |-> NodeKey(kept[i])]
           t == StableSort(kept, keys)
<1>1. nodes \in Seq(NodeSet)
  BY ContractNodesType
<1>2. Compile(c) = t
  BY DEF Compile, Optimize
<1> HIDE DEF nodes
<1>3. once \in Seq(NodeSet) /\ \A x : x \in ToSet(once) <=> x \in ToSet(nodes)
  BY <1>1, DeduplicateKeeps
<1> HIDE DEF once
<1>4. /\ kept \in Seq(NodeSet)
      /\ \A x : x \in ToSet(kept) => x \in ToSet(once)
      /\ \A x : x \in ToSet(once) /\ x.kind # "QualityMetricCheck" => x \in ToSet(kept)
  BY <1>3, FuseKeeps
<1> HIDE DEF kept
<1>5. keys \in [1..Len(kept) -> Int] /\ \A i \in 1..Len(kept) : keys[i] = NodeKey(kept[i])
  <2>1. DOMAIN kept = 1..Len(kept)
    BY <1>4
  <2>2. ASSUME NEW i \in 1..Len(kept) PROVE NodeKey(kept[i]) \in Int
    BY <1>4, NodeKeys
  <2>3. QED
    BY <2>1, <2>2
<1> HIDE DEF keys
<1>6. t \in Seq(NodeSet) /\ \A x : x \in ToSet(t) <=> x \in ToSet(kept)
  BY <1>4, <1>5, SortContains
<1>7. /\ Len(t) = Len(kept)
      /\ \A k, l \in 1..Len(kept) : k < l =>
           \E i, j \in 1..Len(kept) : t[k] = kept[i] /\ t[l] = kept[j] /\ keys[i] <= keys[j]
  BY <1>4, <1>5, SortPlaces, SortElements
<1> HIDE DEF t
<1>8. InKeyOrder(t)
  BY <1>5, <1>7 DEF InKeyOrder
<1>9. QED
  BY <1>2, <1>3, <1>4, <1>6, <1>8 DEF nodes

(* The nodes of a column, the blocking ones first.                         *)
LEMMA ColumnPart ==
  ASSUME NEW nodes \in Seq(NodeSet), InKeyOrder(nodes), NEW column \in Columns
  PROVE  /\ ColumnNodes(nodes, column) \in Seq(NodeSet)
         /\ \A x : x \in ToSet(ColumnNodes(nodes, column)) <=> x \in ToSet(nodes) /\ x.column = column
         /\ \A k, l \in 1..Len(ColumnNodes(nodes, column)) :
              k < l /\ Blocks(ColumnNodes(nodes, column)[l]) => Blocks(ColumnNodes(nodes, column)[k])
<1> DEFINE I == {i \in DOMAIN nodes : nodes[i].column = column}
           t == At(nodes, I)
           place == Ascending(I)
<1>1. ColumnNodes(nodes, column) = t
  BY DEF ColumnNodes
<1>2. /\ DOMAIN nodes = 1..Len(nodes) /\ Len(nodes) \in Nat
      /\ \A x : x \in ToSet(nodes) <=> \E i \in 1..Len(nodes) : nodes[i] = x
      /\ \A i \in 1..Len(nodes) : nodes[i] \in NodeSet
  BY Elements
<1>3. I \in SUBSET (1..Len(nodes)) /\ \A i \in 1..Len(nodes) : i \in I <=> nodes[i].column = column
  BY <1>2
<1> HIDE DEF I
<1>4. t \in Seq(NodeSet) /\ \A x : x \in ToSet(t) <=> \E i \in I : nodes[i] = x
  BY <1>3, AtContains
<1>5. Picks(place, nodes, I)
  BY <1>3, AtPicks
<1> HIDE DEF place
<1>6. /\ place \in [1..Len(t) -> I]
      /\ \A k \in 1..Len(t) : t[k] = nodes[place[k]]
      /\ \A k, l \in 1..Len(t) : k < l => place[k] < place[l]
  BY <1>5 DEF Picks
<1> HIDE DEF t
<1>7. ASSUME NEW k \in 1..Len(t), NEW l \in 1..Len(t), k < l, Blocks(t[l]) PROVE Blocks(t[k])
  <2>1. /\ place[k] \in 1..Len(nodes) /\ place[l] \in 1..Len(nodes) /\ place[k] < place[l]
        /\ t[k] = nodes[place[k]] /\ t[l] = nodes[place[l]]
        /\ t[k].column = column /\ t[l].column = column /\ t[k] \in NodeSet /\ t[l] \in NodeSet
    <3>1. place[k] \in I /\ place[l] \in I /\ place[k] < place[l] /\ t[k] = nodes[place[k]] /\ t[l] = nodes[place[l]]
      BY <1>6, <1>7
    <3>2. \A i \in I : i \in 1..Len(nodes) /\ nodes[i].column = column /\ nodes[i] \in NodeSet
      BY <1>2, <1>3
    <3>3. QED
      BY <3>1, <3>2
  <2>2. NodeKey(t[k]) <= NodeKey(t[l])
    BY <2>1 DEF InKeyOrder
  <2>3. QED
    BY <1>7, <2>1, <2>2, NodeKeys
<1>8. ASSUME NEW x PROVE x \in ToSet(t) <=> x \in ToSet(nodes) /\ x.column = column
  BY <1>2, <1>3, <1>4
<1>9. QED
  BY <1>1, <1>4, <1>7, <1>8

-----------------------------------------------------------------------------
(* What the checks find. *)

LEMMA WhenElements ==
  ASSUME NEW condition, NEW v, NEW w \in ToSet(When(condition, v))
  PROVE  w = v /\ condition
BY DEF When, ToSet

(* A node reports on its own column, and no less severely than it is.      *)
LEMMA NodeFinds ==
  ASSUME NEW d, NEW n \in NodeSet
  PROVE  /\ NodeViolations(d, n) \in Seq(ViolationType)
         /\ \A v \in ToSet(NodeViolations(d, n)) : v.column = n.column /\ (Blocks(n) => Blocks(v))
<1> DEFINE column == n.column
           severity == n.severity
<1>1. n.kind \in DOMAIN NodeKinds /\ column \in Columns /\ severity \in Severities
  BY DEF NodeSet
<1>2. << >> \in Seq(ViolationType) /\ ToSet(<< >>) = {}
  BY DEF ToSet
<1>3. ASSUME NEW check \in ToSet(CheckNames), NEW condition
      PROVE  /\ When(condition, Violation(column, check, severity)) \in Seq(ViolationType)
             /\ \A v \in ToSet(When(condition, Violation(column, check, severity))) :
                  v.column = column /\ v.severity = severity
  <2>1. When(condition, Violation(column, check, severity)) \in Seq(ViolationType)
    BY <1>1, ViolationTypes
  <2>2. Violation(column, check, severity).column = column /\ Violation(column, check, severity).severity = severity
    BY DEF Violation
  <2>3. QED
    BY <2>1, <2>2, WhenElements
<1>4. CASE n.kind \in {"Profile", "TypeCheck", "DriftCheck"}
  BY <1>2, <1>4 DEF NodeViolations
<1>5. CASE n.kind = "QualityMetricCheck"
  <2>1. NodeViolations(d, n) = RuleViolations(d, n)
    BY <1>5 DEF NodeViolations
  <2>2. n.metric \in ToSet(CheckNames)
    BY <1>5, NamesAre DEF NodeSet, Metrics
  <2>3. CASE Missing(d, n.column)
    <3> DEFINE w == Violation(column, "quality_check", "Blocking")
    <3>1. "quality_check" \in ToSet(CheckNames) /\ "Blocking" \in Severities
      BY NamesAre DEF Severities
    <3>2. w \in ViolationType
      BY <1>1, <3>1, ViolationTypes
    <3>3. w.column = column /\ w.severity = "Blocking"
      BY DEF Violation
    <3>4. NodeViolations(d, n) = <<w>>
      BY <2>1, <2>3 DEF RuleViolations
    <3> HIDE DEF w
    <3>5. <<w>> \in Seq(ViolationType) /\ ToSet(<<w>>) = {w}
      BY <3>2 DEF ToSet
    <3>6. QED
      BY <3>3, <3>4, <3>5 DEF Blocks
  <2>4. CASE ~Missing(d, n.column)
    <3>1. NodeViolations(d, n) = When(n.fact \in d[n.column], Violation(n.column, n.metric, n.severity))
      BY <2>1, <2>4 DEF RuleViolations
    <3>2. QED
      BY <1>3, <2>2, <3>1 DEF Blocks
  <2>5. QED
    BY <2>3, <2>4
<1>6. CASE n.kind \notin {"Profile", "TypeCheck", "DriftCheck", "QualityMetricCheck"}
  <2>1. n.kind \in Reporting
    BY <1>1, <1>6 DEF Reporting
  <2>2. NodeKinds[n.kind].check \in ToSet(CheckNames)
    BY <2>1, KindNames
  <2>3. NodeViolations(d, n) = When(~Missing(d, n.column) /\ n.fact \in d[n.column],
                                    Violation(n.column, NodeKinds[n.kind].check, n.severity))
    BY <1>6 DEF NodeViolations
  <2>4. QED
    BY <1>3, <2>2, <2>3 DEF Blocks
<1>7. QED
  BY <1>4, <1>5, <1>6

(* Nodes report as severely as they are, but that a quality metric of a    *)
(* column that is missing always blocks; then no other node finds a thing. *)
LEMMA NodeSeverity ==
  ASSUME NEW d, NEW n \in NodeSet, NEW v \in ToSet(NodeViolations(d, n))
  PROVE  /\ Blocks(v) => Blocks(n) \/ Missing(d, n.column)
         /\ Missing(d, n.column) => Blocks(v)
<1>1. ASSUME NEW check, NEW condition, v \in ToSet(When(condition, Violation(n.column, check, n.severity)))
      PROVE  condition /\ v.severity = n.severity
  <2>1. condition /\ v = Violation(n.column, check, n.severity)
    BY <1>1, WhenElements
  <2>2. QED
    BY <2>1 DEF Violation
<1>2. CASE n.kind \in {"Profile", "TypeCheck", "DriftCheck"}
  <2>1. NodeViolations(d, n) = << >>
    BY <1>2 DEF NodeViolations
  <2>2. QED
    BY <2>1 DEF ToSet
<1>3. CASE n.kind = "QualityMetricCheck"
  <2>1. v \in ToSet(RuleViolations(d, n))
    BY <1>3 DEF NodeViolations
  <2>2. CASE Missing(d, n.column)
    <3>1. v \in ToSet(<<Violation(n.column, "quality_check", "Blocking")>>)
      BY <2>1, <2>2 DEF RuleViolations
    <3>2. v.severity = "Blocking"
      BY <3>1 DEF ToSet, Violation
    <3>3. QED
      BY <2>2, <3>2 DEF Blocks
  <2>3. CASE ~Missing(d, n.column)
    <3>1. v.severity = n.severity
      BY <1>1, <2>1, <2>3 DEF RuleViolations
    <3>2. QED
      BY <2>3, <3>1 DEF Blocks
  <2>4. QED
    BY <2>2, <2>3
<1>4. CASE n.kind \notin {"Profile", "TypeCheck", "DriftCheck", "QualityMetricCheck"}
  <2>1. v \in ToSet(When(~Missing(d, n.column) /\ n.fact \in d[n.column],
                         Violation(n.column, NodeKinds[n.kind].check, n.severity)))
    BY <1>4 DEF NodeViolations
  <2>2. ~Missing(d, n.column) /\ v.severity = n.severity
    BY <1>1, <2>1
  <2>3. QED
    BY <2>2 DEF Blocks
<1>5. QED
  BY <1>2, <1>3, <1>4

(* A quality node finds what its rule finds.                               *)
LEMMA QualityNodeFinds ==
  ASSUME NEW d, NEW r
  PROVE  NodeViolations(d, Node("QualityMetricCheck", r.column, r.metric, r.fact, r.severity)) = RuleViolations(d, r)
<1> DEFINE n == Node("QualityMetricCheck", r.column, r.metric, r.fact, r.severity)
<1>1. /\ n.kind = "QualityMetricCheck" /\ n.column = r.column /\ n.metric = r.metric /\ n.fact = r.fact
      /\ n.severity = r.severity
  BY DEF Node
<1> HIDE DEF n
<1>2. NodeViolations(d, n) = RuleViolations(d, n)
  BY <1>1 DEF NodeViolations
<1>3. RuleViolations(d, n) = RuleViolations(d, r)
  BY <1>1 DEF RuleViolations
<1>4. QED
  BY <1>2, <1>3 DEF n

LEMMA RuleFinds ==
  ASSUME NEW d, NEW r \in QualityRules PROVE RuleViolations(d, r) \in Seq(ViolationType)
<1> DEFINE n == Node("QualityMetricCheck", r.column, r.metric, r.fact, r.severity)
<1>1. n \in NodeSet
  BY RuleNodes
<1>2. NodeViolations(d, n) = RuleViolations(d, r)
  BY QualityNodeFinds
<1> HIDE DEF n
<1>3. NodeViolations(d, n) \in Seq(ViolationType)
  BY <1>1, NodeFinds
<1>4. QED
  BY <1>2, <1>3

LEMMA FieldFinds ==
  ASSUME NEW d, NEW f \in Fields PROVE FieldViolations(d, f) \in Seq(ViolationType)
<1> DEFINE n == Len(f.constraints)
           kinds == {f.constraints[i].kind : i \in DOMAIN f.constraints}
           Name(kind) == CASE kind = "primary_key" -> "not_null" [] kind = "unique" -> "uniqueness" [] OTHER -> kind
           Part(i) == When(f.constraints[i].kind \in DOMAIN ConstraintNodes /\ f.constraints[i].fact \in d[f.column],
                           Violation(f.column, Name(f.constraints[i].kind), "Error"))
           parts == [i \in DOMAIN f.constraints |-> Part(i)]
           typeCheck == When("type" \in d[f.column],
                             Violation(f.column, "type_check", IF "coerce" \in kinds THEN "Warning" ELSE "Blocking"))
<1>1. /\ f.column \in Columns /\ f.constraints \in Seq(Constraints) /\ n \in Nat /\ DOMAIN f.constraints = 1..n
      /\ "Error" \in Severities /\ "Warning" \in Severities /\ "Blocking" \in Severities
      /\ "type_check" \in ToSet(CheckNames) /\ "column_exists" \in ToSet(CheckNames)
  BY NamesAre DEF Fields, Severities
<1>2. \A kind \in DOMAIN ConstraintNodes : Name(kind) \in ToSet(CheckNames)
  BY ConstraintKindsAre, NamesAre
<1> HIDE DEF Name
<1>3. ASSUME NEW i \in 1..n PROVE Part(i) \in Seq(ViolationType)
  <2>1. CASE f.constraints[i].kind \in DOMAIN ConstraintNodes
    <3>1. Name(f.constraints[i].kind) \in ToSet(CheckNames)
      BY <1>2, <2>1
    <3>2. QED
      BY <1>1, <3>1, ViolationTypes
  <2>2. CASE f.constraints[i].kind \notin DOMAIN ConstraintNodes
    <3>1. Part(i) = << >>
      BY <2>2 DEF When
    <3>2. << >> \in Seq(ViolationType)
      OBVIOUS
    <3>3. QED
      BY <3>1, <3>2, Zenon
  <2>3. QED
    BY <2>1, <2>2
<1> HIDE DEF Part
<1>4. parts \in [1..n -> Seq(ViolationType)]
  BY <1>1, <1>3
<1> HIDE DEF parts
<1>5. Concat(parts) \in Seq(ViolationType)
  BY <1>1, <1>4, ConcatContains
<1>6. typeCheck \in Seq(ViolationType)
  <2> DEFINE severity == IF "coerce" \in kinds THEN "Warning" ELSE "Blocking"
  <2>1. severity \in Severities
    BY <1>1
  <2> HIDE DEF severity
  <2>2. When("type" \in d[f.column], Violation(f.column, "type_check", severity)) \in Seq(ViolationType)
    BY <1>1, <2>1, ViolationTypes
  <2>3. QED
    BY <2>2 DEF severity
<1>7. CASE Missing(d, f.column)
  <2> DEFINE w == Violation(f.column, "column_exists", "Blocking")
  <2>1. w \in ViolationType
    BY <1>1, ViolationTypes
  <2>2. FieldViolations(d, f) = <<w>>
    BY <1>7 DEF FieldViolations
  <2> HIDE DEF w
  <2>3. QED
    BY <2>1, <2>2
<1>8. CASE ~Missing(d, f.column)
  <2>1. FieldViolations(d, f) = typeCheck \o Concat(parts)
    BY <1>8, Zenon DEF FieldViolations, parts, Part, Name
  <2> HIDE DEF typeCheck
  <2>2. QED
    BY <1>5, <1>6, <2>1
<1>9. QED
  BY <1>7, <1>8

(* The sequential checks report well typed violations, and those of each   *)
(* quality rule among them.                                                *)
LEMMA DirectFinds ==
  ASSUME NEW d, NEW c \in ContractType
  PROVE  /\ SchemaViolations(d, c) \in Seq(ViolationType)
         /\ QualityViolations(d, c) \in Seq(ViolationType)
         /\ CrossViolations(d, c) \in Seq(ViolationType)
         /\ \A i \in 1..Len(c.quality) : \A v \in ToSet(RuleViolations(d, c.quality[i])) :
              v \in ToSet(QualityViolations(d, c))
<1>1. c.schema \in Seq(Fields) /\ c.quality \in Seq(QualityRules) /\ c.cross \in Seq(CrossRules)
  BY DEF ContractType
<1>2. SchemaViolations(d, c) \in Seq(ViolationType)
  <2> DEFINE parts == [i \in DOMAIN c.schema |-> FieldViolations(d, c.schema[i])]
             n == Len(c.schema)
  <2>1. n \in Nat /\ DOMAIN c.schema = 1..n
    BY <1>1
  <2>2. ASSUME NEW i \in 1..n PROVE FieldViolations(d, c.schema[i]) \in Seq(ViolationType)
    BY <1>1, FieldFinds
  <2>3. parts \in [1..n -> Seq(ViolationType)]
    BY <2>1, <2>2
  <2>4. SchemaViolations(d, c) = Concat(parts)
    BY DEF SchemaViolations
  <2> HIDE DEF parts, n
  <2>5. QED
    BY <2>1, <2>3, <2>4, ConcatContains
<1>3. /\ QualityViolations(d, c) \in Seq(ViolationType)
      /\ \A i \in 1..Len(c.quality) : \A v \in ToSet(RuleViolations(d, c.quality[i])) :
           v \in ToSet(QualityViolations(d, c))
  <2> DEFINE parts == [i \in DOMAIN c.quality |-> RuleViolations(d, c.quality[i])]
             n == Len(c.quality)
  <2>1. n \in Nat /\ DOMAIN c.quality = 1..n
    BY <1>1
  <2>2. ASSUME NEW i \in 1..n PROVE RuleViolations(d, c.quality[i]) \in Seq(ViolationType)
    BY <1>1, RuleFinds
  <2>3. parts \in [1..n -> Seq(ViolationType)] /\ \A i \in 1..n : parts[i] = RuleViolations(d, c.quality[i])
    BY <2>1, <2>2
  <2>4. QualityViolations(d, c) = Concat(parts)
    BY DEF QualityViolations
  <2> HIDE DEF parts
  <2>5. /\ Concat(parts) \in Seq(ViolationType)
        /\ \A x : x \in ToSet(Concat(parts)) <=> \E i \in 1..n : x \in ToSet(parts[i])
    <3> HIDE DEF n
    <3>1. QED
      BY <2>1, <2>3, ConcatContains
  <2>6. QED
    BY <2>3, <2>4, <2>5
<1>4. CrossViolations(d, c) \in Seq(ViolationType)
  <2> DEFINE Part(r) == When(Missing(d, r.whenColumn) \/ Missing(d, r.assertColumn) \/ r.fact \in d[r.assertColumn],
                             Violation(r.assertColumn, "cross_column_rule", r.severity))
             parts == [i \in DOMAIN c.cross |-> Part(c.cross[i])]
             n == Len(c.cross)
  <2>1. n \in Nat /\ DOMAIN c.cross = 1..n
    BY <1>1
  <2>2. ASSUME NEW r \in CrossRules PROVE Part(r) \in Seq(ViolationType)
    <3>1. r.assertColumn \in Columns /\ r.severity \in Severities
      BY DEF CrossRules
    <3>2. "cross_column_rule" \in ToSet(CheckNames)
      BY NamesAre
    <3>3. QED
      BY <3>1, <3>2, ViolationTypes
  <2>3. CrossViolations(d, c) = Concat(parts)
    BY DEF CrossViolations
  <2> HIDE DEF Part
  <2>4. parts \in [1..n -> Seq(ViolationType)]
    BY <1>1, <2>1, <2>2
  <2> HIDE DEF parts, n
  <2>5. QED
    BY <2>1, <2>3, <2>4, ConcatContains
<1>5. QED
  BY <1>2, <1>3, <1>4

-----------------------------------------------------------------------------
(* The columns' nodes and what they find. *)

LEMMA DagShape ==
  ASSUME contract \in ContractType, dag = Compile(contract)
  PROVE  /\ dag \in Seq(NodeSet)
         /\ \A c \in Columns :
              /\ Nodes(c) \in Seq(NodeSet)
              /\ \A x : x \in ToSet(Nodes(c)) <=> x \in ToSet(dag) /\ x.column = c
              /\ \A k, l \in 1..Len(Nodes(c)) : k < l /\ Blocks(Nodes(c)[l]) => Blocks(Nodes(c)[k])
         /\ DagColumns \in SUBSET Columns
         /\ \A c \in Columns : c \in DagColumns <=> Len(Nodes(c)) >= 1
<1>1. dag \in Seq(NodeSet) /\ InKeyOrder(dag)
  BY CompileKeeps
<1>2. ASSUME NEW c \in Columns
      PROVE  /\ Nodes(c) \in Seq(NodeSet)
             /\ \A x : x \in ToSet(Nodes(c)) <=> x \in ToSet(dag) /\ x.column = c
             /\ \A k, l \in 1..Len(Nodes(c)) : k < l /\ Blocks(Nodes(c)[l]) => Blocks(Nodes(c)[k])
  BY <1>1, ColumnPart DEF Nodes
<1>3. /\ \A x : x \in ToSet(dag) <=> \E i \in 1..Len(dag) : dag[i] = x
      /\ DOMAIN dag = 1..Len(dag) /\ \A i \in 1..Len(dag) : dag[i] \in NodeSet
  BY <1>1, Elements
<1>4. DagColumns = {dag[i].column : i \in 1..Len(dag)}
  BY <1>3 DEF DagColumns
<1>5. DagColumns \in SUBSET Columns
  BY <1>3, <1>4 DEF NodeSet
<1>6. ASSUME NEW c \in Columns PROVE c \in DagColumns <=> Len(Nodes(c)) >= 1
  <2>1. c \in DagColumns <=> \E x : x \in ToSet(dag) /\ x.column = c
    BY <1>3, <1>4
  <2> DEFINE nodes == Nodes(c)
  <2>2. nodes \in Seq(NodeSet) /\ \A x : x \in ToSet(nodes) <=> x \in ToSet(dag) /\ x.column = c
    BY <1>2
  <2> HIDE DEF nodes
  <2>3. Len(nodes) \in Nat /\ \A x : x \in ToSet(nodes) <=> \E i \in 1..Len(nodes) : nodes[i] = x
    BY <2>2, Elements
  <2>4. Len(nodes) >= 1 <=> \E x : x \in ToSet(nodes)
    <3>1. ASSUME Len(nodes) >= 1 PROVE nodes[1] \in ToSet(nodes)
      BY <2>3, <3>1
    <3>2. ASSUME NEW x, x \in ToSet(nodes) PROVE Len(nodes) >= 1
      BY <2>3, <3>2
    <3>3. QED
      BY <3>1, <3>2
  <2>5. QED
    BY <2>1, <2>2, <2>4 DEF nodes
<1>7. QED
  BY <1>1, <1>2, <1>5, <1>6

LEMMA FindingsAtType ==
  ASSUME contract \in ContractType, dag = Compile(contract), NEW c \in Columns, NEW k \in 1..Len(Nodes(c))
  PROVE  /\ FindingsAt(c, k) \in Seq(ViolationType)
         /\ \A v \in ToSet(FindingsAt(c, k)) : v.column = c /\ (Blocks(Nodes(c)[k]) => Blocks(v))
<1> DEFINE nodes == Nodes(c)
<1>1. nodes \in Seq(NodeSet) /\ \A x : x \in ToSet(nodes) <=> x \in ToSet(dag) /\ x.column = c
  BY DagShape
<1> DEFINE n == nodes[k]
<1>2. n \in ToSet(nodes) /\ n \in NodeSet
  <2>1. k \in 1..Len(nodes)
    OBVIOUS
  <2> HIDE DEF nodes
  <2>2. QED
    BY <1>1, <2>1, Elements
<1>3. n.column = c
  BY <1>1, <1>2
<1>4. FindingsAt(c, k) = NodeViolations(data, n)
  BY DEF FindingsAt
<1> HIDE DEF n
<1>5. /\ NodeViolations(data, n) \in Seq(ViolationType)
      /\ \A v \in ToSet(NodeViolations(data, n)) : v.column = n.column /\ (Blocks(n) => Blocks(v))
  BY <1>2, NodeFinds
<1>6. QED
  BY <1>3, <1>4, <1>5 DEF n

LEMMA FindingsGrow ==
  ASSUME contract \in ContractType, dag = Compile(contract), NEW c \in Columns
  PROVE  /\ Findings(c, 0) = << >>
         /\ \A n \in 0..Len(Nodes(c)) :
              /\ Findings(c, n) \in Seq(ViolationType)
              /\ \A v : v \in ToSet(Findings(c, n)) <=> \E k \in 1..n : v \in ToSet(FindingsAt(c, k))
              /\ n < Len(Nodes(c)) => Findings(c, n + 1) = Findings(c, n) \o FindingsAt(c, n + 1)
<1> DEFINE m == Len(Nodes(c))
           parts(n) == [k \in 1..n |-> FindingsAt(c, k)]
<1>1. m \in Nat
  BY DagShape
<1>2. \A k \in 1..m : FindingsAt(c, k) \in Seq(ViolationType)
  BY FindingsAtType
<1> HIDE DEF m
<1>3. ASSUME NEW n \in 0..m
      PROVE  n \in Nat /\ parts(n) \in [1..n -> Seq(ViolationType)] /\ \A k \in 1..n : parts(n)[k] = FindingsAt(c, k)
  BY <1>1, <1>2
<1>4. Findings(c, 0) = << >>
  <2>1. parts(0) = << >>
    OBVIOUS
  <2>2. QED
    BY <2>1, ConcatEmpty DEF Findings
<1>5. ASSUME NEW n \in 0..m
      PROVE  /\ Findings(c, n) \in Seq(ViolationType)
             /\ \A v : v \in ToSet(Findings(c, n)) <=> \E k \in 1..n : v \in ToSet(FindingsAt(c, k))
  <2> DEFINE p == parts(n)
  <2>1. n \in Nat /\ p \in [1..n -> Seq(ViolationType)] /\ \A k \in 1..n : p[k] = FindingsAt(c, k)
    BY <1>3
  <2>2. Findings(c, n) = Concat(p)
    BY DEF Findings
  <2> HIDE DEF p
  <2>3. /\ Concat(p) \in Seq(ViolationType)
        /\ \A v : v \in ToSet(Concat(p)) <=> \E k \in 1..n : v \in ToSet(p[k])
    BY <2>1, ConcatContains
  <2>4. QED
    BY <2>1, <2>2, <2>3
<1>6. ASSUME NEW n \in 0..m, n < m PROVE Findings(c, n + 1) = Findings(c, n) \o FindingsAt(c, n + 1)
  <2> DEFINE p == parts(n)
             q == parts(n + 1)
             last == FindingsAt(c, n + 1)
  <2>1. p \in Seq(Seq(ViolationType)) /\ last \in Seq(ViolationType)
    <3>1. n + 1 \in 1..m
      BY <1>1, <1>6
    <3>2. QED
      BY <1>2, <1>3, <3>1
  <2>2. q = Append(p, last)
    BY <1>3
  <2>3. Findings(c, n) = Concat(p) /\ Findings(c, n + 1) = Concat(q)
    BY DEF Findings
  <2> HIDE DEF p, q, last
  <2>4. Concat(Append(p, last)) = Concat(p) \o last
    BY <2>1, ConcatAppend
  <2>5. QED
    BY <2>2, <2>3, <2>4 DEF last
<1>7. QED
  BY <1>4, <1>5, <1>6 DEF m

-----------------------------------------------------------------------------
(* The inductive invariant. *)

LEMMA InitInv == Init => IInv
<1> SUFFICES ASSUME Init PROVE IInv
  OBVIOUS
<1>1. contract \in ContractType /\ dag = Compile(contract) /\ pc = "validate" /\ report = NoReport
  BY ContractsAssumption DEF Init
<1>2. /\ next = [c \in Columns |-> 1] /\ abort = [c \in Columns |-> FALSE]
      /\ found = [c \in Columns |-> << >>]
  BY DEF Init
<1>3. next \in [Columns -> Nat] /\ abort \in [Columns -> BOOLEAN] /\ DOMAIN found = Columns
  BY <1>2
<1>4. ASSUME NEW c \in Columns PROVE TaskInv(c)
  <2>1. Len(Nodes(c)) \in Nat /\ Findings(c, 0) = << >>
    BY <1>1, DagShape, FindingsGrow
  <2>2. next[c] = 1 /\ found[c] = << >> /\ ~abort[c]
    BY <1>2
  <2>3. QED
    BY <2>1, <2>2 DEF TaskInv
<1>5. QED
  BY <1>1, <1>3, <1>4 DEF IInv, Phases

(* What no step changes.                                                   *)
LEMMA SameInputs ==
  ASSUME [Next]_vars
  PROVE  /\ UNCHANGED <<contract, data, hasReference, dag>>
         /\ \A c : Nodes(c)' = Nodes(c) /\ \A k : FindingsAt(c, k)' = FindingsAt(c, k)
         /\ \A c, n : Findings(c, n)' = Findings(c, n)
         /\ Direct' = Direct /\ DagColumns' = DagColumns /\ Orders' = Orders
<1>1. UNCHANGED <<contract, data, hasReference, dag>>
  BY DEF Next, Validate, GroupByColumn, RunNode, Join, MakeReport, Returned, vars, inputs
<1>2. QED
  BY <1>1 DEF Nodes, FindingsAt, Findings, Direct, DagColumns, Orders

LEMMA SameTasks ==
  ASSUME [Next]_vars, UNCHANGED <<next, abort, found>>, NEW c \in Columns, TaskInv(c)
  PROVE  TaskInv(c)' /\ (HasNext(c)' <=> HasNext(c))
BY SameInputs DEF TaskInv, HasNext, Nodes

(* A column's task that runs a node stays a task that has run its nodes.   *)
LEMMA RunNodeTasks ==
  ASSUME IInv, [Next]_vars, NEW c \in Columns, RunNode(c)
  PROVE  /\ next' \in [Columns -> Nat] /\ abort' \in [Columns -> BOOLEAN] /\ DOMAIN found' = Columns
         /\ \A e \in Columns : TaskInv(e)'
<1> DEFINE k == next[c]
           m == Len(Nodes(c))
<1>1. /\ contract \in ContractType /\ dag = Compile(contract)
      /\ next \in [Columns -> Nat] /\ abort \in [Columns -> BOOLEAN] /\ DOMAIN found = Columns
      /\ \A e \in Columns : TaskInv(e)
  BY DEF IInv
<1>2. ~abort[c] /\ k \in 1..m /\ m \in Nat
  <2>1. m \in Nat /\ k \in Nat /\ k \in 1..(m + 1)
    BY <1>1, DagShape DEF TaskInv
  <2>2. ~abort[c] /\ k <= m
    BY DEF RunNode, HasNext, Nodes
  <2>3. QED
    BY <2>1, <2>2
<1>3. /\ found' = [found EXCEPT ![c] = @ \o FindingsAt(c, k)]
      /\ abort' = [abort EXCEPT ![c] = Stops(FindingsAt(c, k))]
      /\ next' = [next EXCEPT ![c] = @ + 1]
  BY DEF RunNode, FindingsAt, Nodes
<1>4. /\ found[c] = Findings(c, k - 1)
      /\ \A l \in 1..(k - 2) : ~Stops(FindingsAt(c, l))
      /\ k > 1 => ~Stops(FindingsAt(c, k - 1))
  BY <1>1, <1>2 DEF TaskInv
<1>5. Findings(c, k) = Findings(c, k - 1) \o FindingsAt(c, k)
  <2>1. k - 1 \in 0..m /\ k - 1 < m /\ (k - 1) + 1 = k
    BY <1>2
  <2> HIDE DEF k
  <2>2. QED
    BY <1>1, <2>1, FindingsGrow
<1>6. Stops(FindingsAt(c, k)) \in BOOLEAN
  BY DEF Stops
<1>7. next' \in [Columns -> Nat] /\ abort' \in [Columns -> BOOLEAN] /\ DOMAIN found' = Columns
  <2>1. next' \in [Columns -> Nat]
    BY <1>1, <1>3
  <2>2. abort' \in [Columns -> BOOLEAN]
    BY <1>1, <1>3, <1>6, Zenon
  <2>3. DOMAIN found' = Columns
    BY <1>1, <1>3
  <2>4. QED
    BY <2>1, <2>2, <2>3
<1>8. TaskInv(c)'
  <2>1. next'[c] = k + 1 /\ found'[c] = Findings(c, k) /\ (abort'[c] <=> Stops(FindingsAt(c, k)))
    <3>1. next'[c] = k + 1
      BY <1>1, <1>3
    <3>2. found'[c] = Findings(c, k)
      BY <1>1, <1>3, <1>4, <1>5
    <3>3. abort'[c] <=> Stops(FindingsAt(c, k))
      BY <1>1, <1>3, Zenon
    <3>4. QED
      BY <3>1, <3>2, <3>3
  <2> HIDE DEF k
  <2>2. ASSUME NEW l \in 1..((k + 1) - 2) PROVE ~Stops(FindingsAt(c, l))
    <3>1. l \in 1..(k - 2) \/ (l = k - 1 /\ k > 1)
      BY <1>2
    <3>2. QED
      BY <1>4, <3>1
  <2>3. k + 1 \in 1..(m + 1) /\ (k + 1) - 1 = k /\ k + 1 > 1
    BY <1>2
  <2>4. /\ Len(Nodes(c))' = m
        /\ Findings(c, next[c] - 1)' = Findings(c, next'[c] - 1)
        /\ \A l : FindingsAt(c, l)' = FindingsAt(c, l)
        /\ FindingsAt(c, next[c] - 1)' = FindingsAt(c, next'[c] - 1)
    BY SameInputs DEF Findings, FindingsAt, Nodes
  <2>5. next'[c] \in 1..(Len(Nodes(c))' + 1) /\ found'[c] = Findings(c, next[c] - 1)'
    BY <2>1, <2>3, <2>4
  <2>6. \A l \in 1..(next'[c] - 2) : ~Stops(FindingsAt(c, l)')
    BY <2>1, <2>2, <2>4
  <2>7. abort'[c] <=> next'[c] > 1 /\ Stops(FindingsAt(c, next[c] - 1)')
    BY <2>1, <2>3, <2>4
  <2>8. QED
    BY <2>5, <2>6, <2>7 DEF TaskInv, Stops
<1>9. ASSUME NEW e \in Columns, e # c PROVE TaskInv(e)'
  <2>1. next'[e] = next[e] /\ found'[e] = found[e] /\ abort'[e] = abort[e]
    BY <1>1, <1>3, <1>9
  <2>2. TaskInv(e)
    BY <1>1
  <2>3. QED
    BY <2>1, <2>2, SameInputs DEF TaskInv, Findings, FindingsAt, Nodes
<1>10. QED
  BY <1>7, <1>8, <1>9

LEMMA NextInv == IInv /\ [Next]_vars => IInv'
<1> SUFFICES ASSUME IInv, [Next]_vars PROVE IInv'
  OBVIOUS
<1> DEFINE Base == /\ contract \in ContractType /\ dag = Compile(contract)
                   /\ next \in [Columns -> Nat] /\ abort \in [Columns -> BOOLEAN] /\ DOMAIN found = Columns
                   /\ \A c \in Columns : TaskInv(c)
<1>1. Base
  BY DEF IInv
<1>2. contract' \in ContractType /\ dag' = Compile(contract)' /\ UNCHANGED <<data, hasReference>>
  BY <1>1, SameInputs
<1>3. ASSUME UNCHANGED <<next, abort, found>>
      PROVE  Base' /\ \A c \in Columns : HasNext(c)' <=> HasNext(c)
  BY <1>1, <1>2, <1>3, SameTasks
<1>4. CASE Validate
  <2>1. UNCHANGED <<next, abort, found, report>> /\ pc = "validate" /\ pc' = "group" /\ checked' = Direct'
    <3>1. checked' = Direct /\ Direct' = Direct
      BY <1>4, SameInputs DEF Validate, Direct
    <3>2. QED
      BY <1>4, <3>1 DEF Validate
  <2>2. report = NoReport
    BY <2>1 DEF IInv
  <2>3. Base'
    BY <1>3, <2>1
  <2>4. QED
    BY <2>1, <2>2, <2>3 DEF IInv, Phases, NoReport
<1>5. CASE GroupByColumn
  <2>1. UNCHANGED <<next, abort, found, report, checked>> /\ pc = "group" /\ pc' = "columns" /\ order' \in Orders'
    BY <1>5, SameInputs DEF GroupByColumn, Orders
  <2>2. report = NoReport /\ checked' = Direct'
    BY <2>1, SameInputs DEF IInv
  <2>3. Base'
    BY <1>3, <2>1
  <2>4. QED
    BY <2>1, <2>2, <2>3 DEF IInv, Phases, NoReport
<1>6. ASSUME NEW c \in Columns, RunNode(c) PROVE IInv'
  <2>1. UNCHANGED <<checked, order, report, pc>> /\ pc = "columns"
    BY <1>6 DEF RunNode
  <2>2. report = NoReport /\ checked' = Direct' /\ order' \in Orders'
    BY <2>1, SameInputs DEF IInv
  <2>3. Base'
    BY <1>2, <1>6, RunNodeTasks
  <2>4. QED
    BY <2>1, <2>2, <2>3 DEF IInv, Phases, NoReport
<1>7. CASE Join
  <2>1. UNCHANGED <<next, abort, found, report, checked, order>> /\ pc = "columns" /\ pc' = "report"
    BY <1>7 DEF Join
  <2>2. report = NoReport /\ checked' = Direct' /\ order' \in Orders'
    BY <2>1, SameInputs DEF IInv
  <2>3. Base' /\ \A c \in Columns : HasNext(c)' <=> HasNext(c)
    BY <1>3, <2>1
  <2>4. ASSUME NEW c \in Columns PROVE ~HasNext(c)
    <3>1. CASE c \in DagColumns
      BY <1>7, <3>1 DEF Join
    <3>2. CASE c \notin DagColumns
      <4>1. Nodes(c) \in Seq(NodeSet) /\ ~(Len(Nodes(c)) >= 1)
        BY <1>1, <3>2, DagShape
      <4>2. next[c] \in 1..(Len(Nodes(c)) + 1)
        BY <1>1 DEF TaskInv
      <4>3. Len(Nodes(c)) \in Nat
        BY <4>1
      <4>4. ~(next[c] <= Len(Nodes(c)))
        BY <4>1, <4>2, <4>3
      <4>5. QED
        BY <4>4 DEF HasNext, Nodes
    <3>3. QED
      BY <3>1, <3>2
  <2>5. QED
    BY <2>1, <2>2, <2>3, <2>4 DEF IInv, Phases, NoReport
<1>8. CASE MakeReport
  <2>1. UNCHANGED <<next, abort, found, checked, order>> /\ pc = "report" /\ pc' = "done"
    BY <1>8 DEF MakeReport
  <2>2. checked' = Direct' /\ order' \in Orders' /\ \A c \in Columns : ~HasNext(c)
    BY <2>1, SameInputs DEF IInv
  <2>3. Base' /\ \A c \in Columns : HasNext(c)' <=> HasNext(c)
    BY <1>3, <2>1
  <2>4. report' = Report(Assemble(checked \o Concat(InOrder)),
                         IF hasReference THEN DriftResults(data, contract) ELSE << >>)
    BY <1>8 DEF MakeReport, InOrder
  <2>5. InOrder' = InOrder /\ UNCHANGED <<checked, data, contract, hasReference>>
    BY <2>1, SameInputs DEF InOrder
  <2>6. report' = Report(Assemble(checked' \o Concat(InOrder')),
                         IF hasReference' THEN DriftResults(data', contract') ELSE << >>)
    BY <2>4, <2>5, Zenon
  <2>7. QED
    BY <2>1, <2>2, <2>3, <2>6 DEF IInv, Phases
<1>9. CASE UNCHANGED vars
  <2>1. UNCHANGED <<next, abort, found, checked, order, report, pc>>
    BY <1>9 DEF vars
  <2>2. Base' /\ \A c \in Columns : HasNext(c)' <=> HasNext(c)
    BY <1>3, <2>1
  <2>3. InOrder' = InOrder /\ Direct' = Direct /\ Orders' = Orders /\ UNCHANGED <<data, contract, hasReference>>
    BY <2>1, SameInputs DEF InOrder
  <2>4. report' = IF pc' = "done"
                  THEN Report(Assemble(checked' \o Concat(InOrder')),
                              IF hasReference' THEN DriftResults(data', contract') ELSE << >>)
                  ELSE NoReport
    BY <2>1, <2>3, Zenon DEF IInv
  <2>5. QED
    BY <2>1, <2>2, <2>3, <2>4 DEF IInv, NoReport
<1>10. QED
  BY <1>4, <1>5, <1>6, <1>7, <1>8, <1>9 DEF Next, Returned

THEOREM Inductive == Spec => []IInv
BY InitInv, NextInv, PTL DEF Spec

-----------------------------------------------------------------------------
(* What the report is made of. *)

LEMMA SortKeys == \A v \in ViolationType : v.column \in Nat /\ CheckRank[v.check] \in 1..29 /\ SortKey(v) \in Int
<1>1. ASSUME NEW v \in ViolationType PROVE v.column \in Nat /\ CheckRank[v.check] \in 1..29
  <2>1. v.column \in Columns /\ v.check \in ToSet(CheckNames)
    BY DEF ViolationType
  <2>2. QED
    BY <2>1, ColumnCountAssumption, RankType DEF Columns
<1>2. \A column \in Nat, rank \in 1..29 : 100 * column + rank \in Int
  OBVIOUS
<1>3. QED
  BY <1>1, <1>2 DEF SortKey

(* Of neighbours that name the same check the first stays.                 *)
LEMMA DedupKeeps ==
  ASSUME NEW s \in Seq(ViolationType)
  PROVE  /\ DedupByCheck(s) \in Seq(ViolationType)
         /\ \A v : v \in ToSet(DedupByCheck(s)) => v \in ToSet(s)
         /\ \A v \in ToSet(s) : \E w \in ToSet(DedupByCheck(s)) : SameCheck(v, w)
         /\ \A i \in 1..Len(s) : \E j \in 1..i : SameCheck(s[i], s[j]) /\ s[j] \in ToSet(DedupByCheck(s))
<1> DEFINE n == Len(s)
           I == {i \in DOMAIN s : i = 1 \/ ~SameCheck(s[i - 1], s[i])}
           t == At(s, I)
<1>1. DOMAIN s = 1..n /\ n \in Nat /\ \A x : x \in ToSet(s) <=> \E i \in 1..n : s[i] = x
  BY Elements
<1>2. DedupByCheck(s) = t
  BY DEF DedupByCheck
<1>3. I \in SUBSET (1..n) /\ \A i \in 1..n : i \in I <=> i = 1 \/ ~SameCheck(s[i - 1], s[i])
  BY <1>1
<1> HIDE DEF I, n
<1>4. t \in Seq(ViolationType) /\ \A x : x \in ToSet(t) <=> \E i \in I : s[i] = x
  BY <1>3, AtContains DEF n
<1> HIDE DEF t
<1>5. ASSUME NEW i \in 1..n PROVE \E j \in I : j \in 1..i /\ SameCheck(s[i], s[j])
  <2> DEFINE S == {j \in 1..i : \A k \in j..i : SameCheck(s[k], s[i])}
  <2>1. S \in SUBSET Nat /\ i \in S
    BY <1>1 DEF SameCheck
  <2>2. PICK j \in S : \A k \in S : j <= k
    <3> HIDE DEF S
    <3>1. QED
      BY <2>1, LeastExists
  <2>3. j \in 1..i /\ \A k \in j..i : SameCheck(s[k], s[i])
    OBVIOUS
  <2>4. ASSUME j # 1, SameCheck(s[j - 1], s[j]) PROVE FALSE
    <3>1. SameCheck(s[j - 1], s[i])
      BY <1>1, <2>3, <2>4 DEF SameCheck
    <3>2. j - 1 \in 1..i /\ \A k \in (j - 1)..i : k = j - 1 \/ k \in j..i
      BY <1>1, <2>3, <2>4
    <3>3. j - 1 \in S
      BY <2>3, <3>1, <3>2
    <3>4. QED
      BY <1>1, <2>2, <2>3, <3>3
  <2>5. j \in 1..n /\ j \in j..i
    BY <1>1, <2>3
  <2>6. j \in I
    BY <1>3, <2>4, <2>5
  <2>7. QED
    BY <2>3, <2>5, <2>6 DEF SameCheck
<1>6. ASSUME NEW v \in ToSet(s) PROVE \E w \in ToSet(t) : SameCheck(v, w)
  <2>1. PICK i \in 1..n : s[i] = v
    BY <1>1
  <2>2. PICK j \in I : SameCheck(s[i], s[j])
    BY <1>5
  <2>3. QED
    BY <1>4, <2>1, <2>2
<1>7. ASSUME NEW v, v \in ToSet(t) PROVE v \in ToSet(s)
  BY <1>1, <1>3, <1>4, <1>7
<1>8. ASSUME NEW i \in 1..n PROVE \E j \in 1..i : SameCheck(s[i], s[j]) /\ s[j] \in ToSet(t)
  BY <1>4, <1>5
<1>9. QED
  BY <1>2, <1>4, <1>6, <1>7, <1>8 DEF n

LEMMA AssembleKeeps ==
  ASSUME NEW s \in Seq(ViolationType)
  PROVE  /\ Assemble(s) \in Seq(ViolationType)
         /\ \A v : v \in ToSet(Assemble(s)) => v \in ToSet(s)
         /\ \A v \in ToSet(s) : \E w \in ToSet(Assemble(s)) : SameCheck(v, w)
         /\ \A i \in 1..Len(s) : \E j \in 1..i : SameCheck(s[i], s[j]) /\ s[j] \in ToSet(Assemble(s))
<1> DEFINE keys == [i \in DOMAIN s |-> SortKey(s[i])]
           sorted == StableSort(s, keys)
<1>1. keys \in [1..Len(s) -> Int]
  <2>1. DOMAIN s = 1..Len(s) /\ \A i \in 1..Len(s) : s[i] \in ViolationType
    OBVIOUS
  <2>2. \A i \in 1..Len(s) : SortKey(s[i]) \in Int
    BY <2>1, SortKeys
  <2>3. QED
    BY <2>1, <2>2
<1>2. Assemble(s) = DedupByCheck(sorted)
  BY DEF Assemble
<1>a. \A i, j \in 1..Len(s) : SameCheck(s[i], s[j]) => keys[i] = keys[j]
  <2>1. DOMAIN s = 1..Len(s)
    OBVIOUS
  <2>2. QED
    BY <2>1 DEF SameCheck, SortKey
<1> HIDE DEF keys
<1>3. sorted \in Seq(ViolationType) /\ \A x : x \in ToSet(sorted) <=> x \in ToSet(s)
  BY <1>1, SortContains
<1>b. Len(sorted) = Len(s) /\ \A i \in 1..Len(s) : sorted[Place(keys, i)] = s[i]
  BY <1>1, SortPlaces
<1> HIDE DEF sorted
<1>4. /\ DedupByCheck(sorted) \in Seq(ViolationType)
      /\ \A v : v \in ToSet(DedupByCheck(sorted)) => v \in ToSet(sorted)
      /\ \A v \in ToSet(sorted) : \E w \in ToSet(DedupByCheck(sorted)) : SameCheck(v, w)
      /\ \A p \in 1..Len(sorted) :
           \E q \in 1..p : SameCheck(sorted[p], sorted[q]) /\ sorted[q] \in ToSet(DedupByCheck(sorted))
  BY <1>3, DedupKeeps
<1>5. /\ Len(s) \in Nat
      /\ \A i \in 1..Len(s) : Place(keys, i) \in 1..Len(s)
      /\ \A i, j \in 1..Len(s) : GoesBefore(keys, i, j) => Place(keys, i) < Place(keys, j)
      /\ \A k \in 1..Len(s) : \E i \in 1..Len(s) : Place(keys, i) = k
  <2>1. Len(s) \in Nat
    OBVIOUS
  <2>2. QED
    BY <1>1, <2>1, Places
<1>6. ASSUME NEW i \in 1..Len(s)
      PROVE  \E j \in 1..i : SameCheck(s[i], s[j]) /\ s[j] \in ToSet(DedupByCheck(sorted))
  <2> DEFINE p == Place(keys, i)
  <2>1. p \in 1..Len(s) /\ sorted[p] = s[i]
    BY <1>5, <1>b
  <2>2. PICK q \in 1..p : SameCheck(sorted[p], sorted[q]) /\ sorted[q] \in ToSet(DedupByCheck(sorted))
    BY <1>4, <1>b, <2>1
  <2>3. q \in 1..Len(s)
    BY <1>5, <2>1
  <2>4. PICK j \in 1..Len(s) : Place(keys, j) = q
    BY <1>5, <2>3
  <2>5. sorted[q] = s[j] /\ SameCheck(s[i], s[j])
    BY <1>b, <2>1, <2>2, <2>4
  <2>6. ~(i < j)
    <3>1. keys[i] = keys[j]
      BY <1>a, <2>5
    <3>2. i < j => p < q
      BY <1>5, <2>4, <3>1 DEF GoesBefore
    <3>3. QED
      BY <1>5, <2>1, <2>3, <3>2
  <2>7. j \in 1..i
    BY <1>5, <2>6
  <2>8. QED
    BY <2>2, <2>5, <2>7
<1>7. QED
  BY <1>2, <1>3, <1>4, <1>6

(* A column's task has found what its nodes up to the next find.           *)
LEMMA FoundIs ==
  ASSUME IInv, NEW c \in Columns
  PROVE  /\ Len(Nodes(c)) \in Nat /\ next[c] \in 1..(Len(Nodes(c)) + 1)
         /\ found[c] \in Seq(ViolationType)
         /\ \A v : v \in ToSet(found[c]) <=> \E k \in 1..(next[c] - 1) : v \in ToSet(FindingsAt(c, k))
         /\ \A v \in ToSet(found[c]) : v.column = c
         /\ c \notin DagColumns => found[c] = << >>
<1>1. /\ contract \in ContractType /\ dag = Compile(contract) /\ next[c] \in 1..(Len(Nodes(c)) + 1)
      /\ found[c] = Findings(c, next[c] - 1)
  BY DEF IInv, TaskInv
<1>2. Len(Nodes(c)) \in Nat /\ (c \in DagColumns <=> Len(Nodes(c)) >= 1)
  BY <1>1, DagShape
<1>3. next[c] - 1 \in 0..Len(Nodes(c))
  BY <1>1, <1>2
<1>4. /\ found[c] \in Seq(ViolationType)
      /\ \A v : v \in ToSet(found[c]) <=> \E k \in 1..(next[c] - 1) : v \in ToSet(FindingsAt(c, k))
  BY <1>1, <1>3, FindingsGrow
<1>5. ASSUME NEW k \in 1..(next[c] - 1), NEW v \in ToSet(FindingsAt(c, k)) PROVE v.column = c
  <2>1. k \in 1..Len(Nodes(c))
    BY <1>2, <1>3
  <2>2. QED
    BY <1>1, <2>1, FindingsAtType
<1>6. ASSUME c \notin DagColumns PROVE found[c] = << >>
  <2>1. next[c] - 1 = 0
    BY <1>1, <1>2, <1>6
  <2>2. QED
    BY <1>1, <2>1, FindingsGrow
<1>7. QED
  BY <1>1, <1>2, <1>4, <1>5, <1>6

(* The columns' findings, in the order of the HashMap.                     *)
LEMMA InOrderIs ==
  ASSUME IInv, order \in Orders
  PROVE  /\ Cardinality(DagColumns) \in Nat /\ order \in [1..Cardinality(DagColumns) -> DagColumns]
         /\ DagColumns \in SUBSET Columns
         /\ \A c \in DagColumns : \E i \in 1..Cardinality(DagColumns) : order[i] = c
         /\ InOrder \in [1..Cardinality(DagColumns) -> Seq(ViolationType)]
         /\ Concat(InOrder) \in Seq(ViolationType)
         /\ \A v : v \in ToSet(Concat(InOrder)) <=> \E c \in Columns : v \in ToSet(found[c])
<1> DEFINE n == Cardinality(DagColumns)
<1>1. contract \in ContractType /\ dag = Compile(contract)
  BY DEF IInv
<1>2. DagColumns \in SUBSET Columns /\ n \in Nat
  <2>1. DagColumns \in SUBSET Columns
    BY <1>1, DagShape
  <2>2. IsFiniteSet(1..ColumnCount)
    BY ColumnCountAssumption, FS_Interval
  <2>3. IsFiniteSet(DagColumns)
    BY <2>1, <2>2, FS_Subset DEF Columns
  <2>4. QED
    BY <2>1, <2>3, FS_CardinalityType
<1>3. order \in [1..n -> DagColumns] /\ {order[i] : i \in DOMAIN order} = DagColumns
  BY DEF Orders
<1> HIDE DEF n
<1>4. DOMAIN order = 1..n /\ \A c \in DagColumns : \E i \in 1..n : order[i] = c
  BY <1>3
<1>5. ASSUME NEW i \in 1..n PROVE found[order[i]] \in Seq(ViolationType) /\ order[i] \in Columns
  BY <1>2, <1>3, FoundIs
<1>6. InOrder \in [1..n -> Seq(ViolationType)] /\ \A i \in 1..n : InOrder[i] = found[order[i]]
  BY <1>4, <1>5 DEF InOrder
<1>7. /\ Concat(InOrder) \in Seq(ViolationType)
      /\ \A v : v \in ToSet(Concat(InOrder)) <=> \E i \in 1..n : v \in ToSet(InOrder[i])
  BY <1>2, <1>6, ConcatContains
<1>8. ASSUME NEW v PROVE v \in ToSet(Concat(InOrder)) <=> \E c \in Columns : v \in ToSet(found[c])
  <2>1. ASSUME v \in ToSet(Concat(InOrder)) PROVE \E c \in Columns : v \in ToSet(found[c])
    <3>1. PICK i \in 1..n : v \in ToSet(InOrder[i])
      BY <1>7, <2>1
    <3>2. QED
      BY <1>5, <1>6, <3>1
  <2>2. ASSUME NEW c \in Columns, v \in ToSet(found[c]) PROVE v \in ToSet(Concat(InOrder))
    <3>1. c \in DagColumns
      <4>1. ToSet(<< >>) = {}
        BY DEF ToSet
      <4>2. QED
        BY <2>2, <4>1, FoundIs
    <3>2. PICK i \in 1..n : order[i] = c
      BY <1>4, <3>1
    <3>3. QED
      BY <1>6, <1>7, <2>2, <3>2
  <2>3. QED
    BY <2>1, <2>2
<1>9. QED
  BY <1>2, <1>3, <1>4, <1>6, <1>7, <1>8 DEF n

(* What the report is assembled from.                                      *)
LEMMA ReportIs ==
  ASSUME IInv, pc = "done"
  PROVE  /\ report.violations = Assemble(Direct \o Concat(InOrder))
         /\ report.passed \in BOOLEAN
         /\ Direct \in Seq(ViolationType) /\ Concat(InOrder) \in Seq(ViolationType)
         /\ \A v : v \in ToSet(Direct \o Concat(InOrder))
                     <=> v \in ToSet(Direct) \/ \E c \in Columns : v \in ToSet(found[c])
         /\ report.violations \in Seq(ViolationType)
         /\ \A v : v \in ToSet(Direct) \/ (\E c \in Columns : v \in ToSet(found[c])) =>
              \E w \in ToSet(report.violations) : SameCheck(v, w)
         /\ \A v \in ToSet(Direct) : \E w \in ToSet(report.violations) \cap ToSet(Direct) : SameCheck(v, w)
         /\ \A w \in ToSet(report.violations) : w \in ToSet(Direct) \/ \E c \in Columns : w \in ToSet(found[c])
<1> DEFINE all == Direct \o Concat(InOrder)
           drift == IF hasReference THEN DriftResults(data, contract) ELSE << >>
<1>1. contract \in ContractType /\ order \in Orders /\ checked = Direct /\ report = Report(Assemble(checked \o Concat(InOrder)), drift)
  BY DEF IInv
<1> HIDE DEF drift
<1>2. report.violations = Assemble(all) /\ report.passed \in BOOLEAN
  BY <1>1 DEF Report
<1>3. Direct \in Seq(ViolationType)
  <2>1. /\ SchemaViolations(data, contract) \in Seq(ViolationType)
        /\ QualityViolations(data, contract) \in Seq(ViolationType)
        /\ CrossViolations(data, contract) \in Seq(ViolationType)
    BY <1>1, DirectFinds
  <2>2. QED
    BY <2>1 DEF Direct
<1>4. /\ Concat(InOrder) \in Seq(ViolationType)
      /\ \A v : v \in ToSet(Concat(InOrder)) <=> \E c \in Columns : v \in ToSet(found[c])
  BY <1>1, InOrderIs
<1>5. all \in Seq(ViolationType) /\ \A v : v \in ToSet(all) <=> v \in ToSet(Direct) \/ v \in ToSet(Concat(InOrder))
  BY <1>3, <1>4, JoinContains
<1> DEFINE direct == Direct
           rest == Concat(InOrder)
<1>a. direct \in Seq(ViolationType) /\ rest \in Seq(ViolationType) /\ all = direct \o rest
  BY <1>3, <1>4
<1> HIDE DEF all, direct, rest
<1>b. Len(direct) \in Nat /\ Len(direct) <= Len(all) /\ \A i \in 1..Len(direct) : all[i] = direct[i]
  BY <1>a
<1>6. /\ Assemble(all) \in Seq(ViolationType)
      /\ \A v : v \in ToSet(Assemble(all)) => v \in ToSet(all)
      /\ \A v \in ToSet(all) : \E w \in ToSet(Assemble(all)) : SameCheck(v, w)
      /\ \A i \in 1..Len(all) : \E j \in 1..i : SameCheck(all[i], all[j]) /\ all[j] \in ToSet(Assemble(all))
  BY <1>5, AssembleKeeps
<1>7. \A v : v \in ToSet(all) <=> v \in ToSet(Direct) \/ \E c \in Columns : v \in ToSet(found[c])
  BY <1>4, <1>5
<1>8. \A v \in ToSet(all) : \E w \in ToSet(report.violations) : SameCheck(v, w)
  BY <1>2, <1>6
<1>9. ASSUME NEW v \in ToSet(direct)
      PROVE  \E w \in ToSet(report.violations) \cap ToSet(direct) : SameCheck(v, w)
  <2>1. PICK i \in 1..Len(direct) : direct[i] = v
    BY <1>a, Elements
  <2>2. i \in 1..Len(all)
    <3>1. Len(all) \in Nat
      BY <1>5
    <3>2. QED
      BY <1>b, <3>1
  <2>3. PICK j \in 1..i : SameCheck(all[i], all[j]) /\ all[j] \in ToSet(Assemble(all))
    BY <1>6, <2>2
  <2>4. j \in 1..Len(direct)
    BY <1>b
  <2>5. all[i] = v /\ all[j] = direct[j] /\ direct[j] \in ToSet(direct)
    BY <1>a, <1>b, <2>1, <2>4, Elements
  <2>6. QED
    BY <1>2, <2>3, <2>5
<1>10. QED
  BY <1>2, <1>3, <1>4, <1>6, <1>7, <1>8, <1>9 DEF all, direct

-----------------------------------------------------------------------------
(* The theorems. *)

LEMMA TypesHold == IInv => TypeOK
<1> SUFFICES ASSUME IInv PROVE TypeOK
  OBVIOUS
<1>1. ASSUME NEW c \in Columns
      PROVE  /\ next[c] \in 1..(Len(ColumnNodes(dag, c)) + 1)
             /\ abort[c] \in BOOLEAN
             /\ \A i \in DOMAIN found[c] : found[c][i].column = c
  <2>1. abort[c] \in BOOLEAN
    BY Zenon DEF IInv
  <2>2. next[c] \in 1..(Len(ColumnNodes(dag, c)) + 1)
    BY FoundIs DEF Nodes
  <2> DEFINE s == found[c]
  <2>3. s \in Seq(ViolationType) /\ \A v \in ToSet(s) : v.column = c
    BY FoundIs
  <2> HIDE DEF s
  <2>4. \A i \in DOMAIN s : s[i].column = c
    BY <2>3, Elements
  <2>5. QED
    BY <2>1, <2>2, <2>4 DEF s
<1>2. pc \in {"validate", "group", "columns", "report", "done"}
  BY DEF IInv, Phases
<1>3. report.violations \in Seq(ViolationType) /\ report.passed \in BOOLEAN
  <2>1. CASE pc = "done"
    BY <2>1, ReportIs
  <2>2. CASE pc # "done"
    BY <2>2 DEF IInv, NoReport
  <2>3. QED
    BY <2>1, <2>2
<1>4. \A i \in DOMAIN report.violations : report.violations[i] \in ViolationType
  BY <1>3
<1>5. QED
  BY <1>1, <1>2, <1>3, <1>4 DEF TypeOK, ViolationType

(* The state of an execution is well typed; a column's task finds          *)
(* violations of its own column.                                           *)
THEOREM Types == Spec => []TypeOK
BY Inductive, TypesHold, PTL

LEMMA BlockingFirst == IInv => BlockingChecksRunFirst
<1> SUFFICES ASSUME IInv, NEW c \in Columns, NEW i \in next[c]..Len(Nodes(c)), Blocks(Nodes(c)[i])
             PROVE  /\ \A j \in DOMAIN found[c] : Blocks(found[c][j])
                    /\ pc \in {"report", "done"} /\ c \in DagColumns => found[c] # << >>
  BY DEF BlockingChecksRunFirst, Nodes
<1>1. contract \in ContractType /\ dag = Compile(contract) /\ TaskInv(c)
  BY DEF IInv
<1>2. /\ Len(Nodes(c)) \in Nat /\ next[c] \in 1..(Len(Nodes(c)) + 1) /\ found[c] \in Seq(ViolationType)
      /\ \A v : v \in ToSet(found[c]) <=> \E k \in 1..(next[c] - 1) : v \in ToSet(FindingsAt(c, k))
  BY FoundIs
<1>3. ASSUME NEW k \in 1..(next[c] - 1), NEW v \in ToSet(FindingsAt(c, k)) PROVE Blocks(v)
  <2>1. k \in 1..Len(Nodes(c)) /\ i \in 1..Len(Nodes(c)) /\ k < i
    BY <1>2
  <2>2. Blocks(Nodes(c)[k])
    BY <1>1, <2>1, DagShape
  <2>3. QED
    BY <1>1, <2>1, <2>2, FindingsAtType
<1>4. \A j \in DOMAIN found[c] : Blocks(found[c][j])
  <2> DEFINE s == found[c]
  <2>1. s \in Seq(ViolationType) /\ \A v \in ToSet(s) : Blocks(v)
    BY <1>2, <1>3
  <2> HIDE DEF s
  <2>2. \A j \in DOMAIN s : Blocks(s[j])
    BY <2>1, Elements
  <2>3. QED
    BY <2>2 DEF s
<1>5. ASSUME pc \in {"report", "done"} PROVE found[c] # << >>
  <2>1. ~HasNext(c)
    BY <1>5 DEF IInv
  <2>2. next[c] <= Len(Nodes(c))
    BY <1>2
  <2>3. next[c] > 1 /\ Stops(FindingsAt(c, next[c] - 1))
    BY <1>1, <2>1, <2>2 DEF TaskInv, HasNext, Nodes
  <2>4. PICK j \in DOMAIN FindingsAt(c, next[c] - 1) : TRUE
    BY <2>3 DEF Stops
  <2>5. FindingsAt(c, next[c] - 1)[j] \in ToSet(FindingsAt(c, next[c] - 1)) /\ next[c] - 1 \in 1..(next[c] - 1)
    BY <1>2, <2>3, <2>4 DEF ToSet
  <2>6. FindingsAt(c, next[c] - 1)[j] \in ToSet(found[c])
    BY <1>2, <2>5
  <2>7. QED
    BY <2>6 DEF ToSet
<1>6. QED
  BY <1>4, <1>5

(* A blocking check is skipped only behind a blocking failure of its own   *)
(* column, and never in favour of a check that is not blocking.            *)
THEOREM BlockingFirstAlways == Spec => []BlockingChecksRunFirst
BY Inductive, BlockingFirst, PTL

(* What a node of the contract finds is found by the sequential checks or  *)
(* by the column's task, unless the task stopped before it.                *)
LEMMA NodesAreHeard ==
  ASSUME IInv, pc = "done", NEW n \in ToSet(ContractNodes(contract)), NEW v \in ToSet(NodeViolations(data, n))
  PROVE  \/ v \in ToSet(Direct)
         \/ v.column \in Columns /\ v \in ToSet(found[v.column])
         \/ v.column \in Columns /\ \E w \in ToSet(found[v.column]) : Blocks(w)
<1>1. /\ contract \in ContractType /\ dag = Compile(contract)
      /\ \A c \in Columns : TaskInv(c) /\ ~HasNext(c)
  BY DEF IInv
<1>2. ToSet(ContractNodes(contract)) \in SUBSET NodeSet
  <2>1. ContractNodes(contract) \in Seq(NodeSet)
    BY <1>1, ContractNodesType
  <2>2. QED
    BY <2>1, Elements
<1>3. v.column = n.column /\ n.column \in Columns
  <2>1. n \in NodeSet
    BY <1>2
  <2>2. v.column = n.column
    BY <2>1, NodeFinds
  <2>3. QED
    BY <2>1, <2>2 DEF NodeSet
<1>4. CASE n.kind = "QualityMetricCheck"
  <2>1. PICK i \in 1..Len(contract.quality) :
          n = Node("QualityMetricCheck", contract.quality[i].column, contract.quality[i].metric,
                   contract.quality[i].fact, contract.quality[i].severity)
    BY <1>1, <1>4, ContractNodesType
  <2>2. NodeViolations(data, n) = RuleViolations(data, contract.quality[i])
    BY <2>1, QualityNodeFinds
  <2> DEFINE q == QualityViolations(data, contract)
             s == SchemaViolations(data, contract)
             x == CrossViolations(data, contract)
  <2>3. s \in Seq(ViolationType) /\ q \in Seq(ViolationType) /\ x \in Seq(ViolationType) /\ v \in ToSet(q)
    BY <1>1, <2>2, DirectFinds
  <2>4. Direct = (s \o q) \o x
    BY DEF Direct
  <2> HIDE DEF q, s, x
  <2> DEFINE sq == s \o q
  <2>5. sq \in Seq(ViolationType) /\ v \in ToSet(sq)
    BY <2>3, JoinContains
  <2> HIDE DEF sq
  <2>6. v \in ToSet(sq \o x)
    BY <2>3, <2>5, JoinContains
  <2>7. QED
    BY <2>4, <2>6 DEF sq
<1>5. CASE n.kind # "QualityMetricCheck"
  <2> DEFINE c == n.column
             nodes == Nodes(c)
  <2>1. n \in ToSet(dag)
    BY <1>1, <1>5, CompileKeeps
  <2>2. nodes \in Seq(NodeSet) /\ n \in ToSet(nodes)
    BY <1>1, <1>3, <2>1, DagShape
  <2>3. PICK k \in 1..Len(nodes) : nodes[k] = n
    <3> HIDE DEF nodes
    <3>1. QED
      BY <2>2, Elements
  <2>4. v \in ToSet(FindingsAt(c, k))
    BY <2>3 DEF FindingsAt
  <2> HIDE DEF c
  <2>5. c \in Columns /\ c = v.column
    BY <1>3 DEF c
  <2>6. /\ next[c] \in 1..(Len(nodes) + 1) /\ Len(nodes) \in Nat
        /\ \A w : w \in ToSet(found[c]) <=> \E l \in 1..(next[c] - 1) : w \in ToSet(FindingsAt(c, l))
    BY <2>5, FoundIs
  <2>7. CASE k < next[c]
    <3>1. k \in 1..(next[c] - 1)
      BY <2>6, <2>7
    <3>2. QED
      BY <2>4, <2>5, <2>6, <3>1
  <2>8. CASE ~(k < next[c])
    <3>1. next[c] <= Len(nodes)
      BY <2>6, <2>8
    <3>2. next[c] > 1 /\ Stops(FindingsAt(c, next[c] - 1))
      BY <1>1, <2>5, <3>1 DEF TaskInv, HasNext, Nodes
    <3>3. PICK j \in DOMAIN FindingsAt(c, next[c] - 1) : Blocks(FindingsAt(c, next[c] - 1)[j])
      BY <3>2 DEF Stops, Blocks
    <3>4. FindingsAt(c, next[c] - 1)[j] \in ToSet(FindingsAt(c, next[c] - 1)) /\ next[c] - 1 \in 1..(next[c] - 1)
      BY <2>6, <3>2, <3>3 DEF ToSet
    <3>5. FindingsAt(c, next[c] - 1)[j] \in ToSet(found[c])
      BY <2>6, <3>4
    <3>6. QED
      BY <2>5, <3>3, <3>5
  <2>9. QED
    BY <2>7, <2>8
<1>6. QED
  BY <1>4, <1>5

LEMMA Mentioned == IInv => FailuresAreMentioned
<1> SUFFICES ASSUME IInv, pc = "done"
             PROVE  /\ \A v \in ToSet(Direct) : \E w \in ToSet(report.violations) : SameCheck(v, w)
                    /\ \A n \in ToSet(ContractNodes(contract)) : \A v \in ToSet(NodeViolations(data, n)) :
                         \/ \E w \in ToSet(report.violations) : SameCheck(v, w)
                         \/ \E w \in ToSet(found[v.column]) : Blocks(w)
  BY Zenon DEF FailuresAreMentioned
<1>1. \A v : v \in ToSet(Direct) \/ (\E c \in Columns : v \in ToSet(found[c])) =>
        \E w \in ToSet(report.violations) : SameCheck(v, w)
  BY ReportIs
<1>2. QED
  BY <1>1, NodesAreHeard

(* No failing check goes unmentioned, unless its column stopped before it  *)
(* at a blocking failure.                                                  *)
THEOREM MentionedAlways == Spec => []FailuresAreMentioned
BY Inductive, Mentioned, PTL

(* Once a column's task has met a blocking violation, it has none that is  *)
(* not: blocking nodes ran first, and it stopped.                          *)
LEMMA BlockingAlone ==
  ASSUME IInv, NEW c \in Columns, NEW v \in ToSet(found[c]), Blocks(v), NEW w \in ToSet(found[c])
  PROVE  Blocks(w)
<1>1. contract \in ContractType /\ dag = Compile(contract) /\ TaskInv(c)
  BY DEF IInv
<1> DEFINE nodes == Nodes(c)
<1>2. Len(nodes) \in Nat /\ next[c] \in 1..(Len(nodes) + 1)
  BY FoundIs
<1>3. PICK k \in 1..(next[c] - 1) : v \in ToSet(FindingsAt(c, k))
  BY FoundIs
<1>4. PICK l \in 1..(next[c] - 1) : w \in ToSet(FindingsAt(c, l))
  BY FoundIs
<1>5. Stops(FindingsAt(c, k))
  BY <1>3 DEF ToSet, Stops, Blocks
<1>6. k = next[c] - 1
  <2>1. ~(k \in 1..(next[c] - 2))
    BY <1>1, <1>5 DEF TaskInv
  <2>2. QED
    BY <1>2, <2>1
<1>7. k \in 1..Len(nodes) /\ l \in 1..Len(nodes) /\ (l < k \/ l = k)
  BY <1>2, <1>6
<1>8. /\ nodes \in Seq(NodeSet) /\ \A x : x \in ToSet(nodes) => x.column = c
      /\ Blocks(nodes[k]) => Blocks(nodes[l])
  BY <1>1, <1>7, DagShape
<1>9. v \in ToSet(NodeViolations(data, nodes[k])) /\ w \in ToSet(NodeViolations(data, nodes[l]))
  BY <1>3, <1>4 DEF FindingsAt
<1> HIDE DEF nodes
<1>10. /\ nodes[k] \in NodeSet /\ nodes[l] \in NodeSet
       /\ nodes[k].column = c /\ nodes[l].column = c
  BY <1>7, <1>8, Elements
<1>11. CASE Blocks(nodes[l])
  BY <1>9, <1>10, <1>11, NodeFinds
<1>12. CASE ~Blocks(nodes[l])
  <2>1. Missing(data, nodes[k].column)
    BY <1>8, <1>9, <1>10, <1>12, NodeSeverity
  <2>2. QED
    BY <1>9, <1>10, <2>1, NodeSeverity
<1>13. QED
  BY <1>11, <1>12

(* What is found and blocks is reported, or a milder finding of the        *)
(* sequential checks stands in for it.                                     *)
LEMMA FoundIsShown ==
  ASSUME IInv, pc = "done", NEW v, Blocks(v), v \in ToSet(Direct) \/ \E c \in Columns : v \in ToSet(found[c])
  PROVE  Shown(v)
<1>1. /\ Direct \in Seq(ViolationType)
      /\ \A u : u \in ToSet(Direct) \/ (\E c \in Columns : u \in ToSet(found[c])) =>
           \E w \in ToSet(report.violations) : SameCheck(u, w)
      /\ \A u \in ToSet(Direct) : \E w \in ToSet(report.violations) \cap ToSet(Direct) : SameCheck(u, w)
      /\ \A w \in ToSet(report.violations) : w \in ToSet(Direct) \/ \E c \in Columns : w \in ToSet(found[c])
  BY ReportIs
<1>2. \A c \in Columns : \A u \in ToSet(found[c]) : u \in ViolationType /\ u.column = c
  <2>1. ASSUME NEW c \in Columns PROVE \A u \in ToSet(found[c]) : u \in ViolationType /\ u.column = c
    <3> DEFINE s == found[c]
    <3>1. s \in Seq(ViolationType) /\ \A u \in ToSet(s) : u.column = c
      BY FoundIs
    <3> HIDE DEF s
    <3>2. ToSet(s) \in SUBSET ViolationType
      BY <3>1, Elements
    <3>3. QED
      BY <3>1, <3>2 DEF s
  <2>2. QED
    BY <2>1
<1>3. \A u \in ToSet(Direct) : u \in ViolationType
  <2> DEFINE s == Direct
  <2>1. s \in Seq(ViolationType)
    BY <1>1
  <2> HIDE DEF s
  <2>2. ToSet(s) \in SUBSET ViolationType
    BY <2>1, Elements
  <2>3. QED
    BY <2>2 DEF s
<1>4. PICK w \in ToSet(report.violations) :
        SameCheck(v, w) /\ (w \in ToSet(Direct) \/ (v \notin ToSet(Direct) /\ Blocks(w)))
  <2>1. CASE v \in ToSet(Direct)
    BY <1>1, <2>1
  <2>2. CASE v \notin ToSet(Direct)
    <3>1. PICK c \in Columns : v \in ToSet(found[c])
      BY <2>2
    <3>2. PICK w \in ToSet(report.violations) : SameCheck(v, w)
      BY <1>1, <3>1
    <3>3. CASE w \in ToSet(Direct)
      BY <3>2, <3>3
    <3>4. CASE w \notin ToSet(Direct)
      <4>1. PICK e \in Columns : w \in ToSet(found[e])
        BY <1>1, <3>4
      <4>2. e = c
        BY <1>2, <3>1, <3>2, <4>1 DEF SameCheck
      <4>3. Blocks(w)
        BY <3>1, <4>1, <4>2, BlockingAlone
      <4>4. QED
        BY <2>2, <3>2, <4>3
    <3>5. QED
      BY <3>3, <3>4
  <2>3. QED
    BY <2>1, <2>2
<1>5. v \in ViolationType /\ w \in ViolationType
  BY <1>1, <1>2, <1>3
<1>6. CASE Blocks(w)
  <2>1. v = w
    BY <1>4, <1>5, <1>6 DEF ViolationType, SameCheck, Blocks
  <2>2. QED
    BY <2>1 DEF Shown
<1>7. CASE ~Blocks(w)
  BY <1>4, <1>7 DEF Shown, Masked
<1>8. QED
  BY <1>6, <1>7

LEMMA NamesakesMask == IInv => OnlyNamesakesMask
<1> SUFFICES ASSUME IInv, pc = "done", NEW v \in Failures, Blocks(v)
             PROVE  \/ Shown(v)
                    \/ /\ v \notin ToSet(Direct) \cup ToSet(found[v.column])
                       /\ \E b \in ToSet(found[v.column]) : Blocks(b) /\ Shown(b)
  BY Zenon DEF OnlyNamesakesMask
<1>1. \/ v \in ToSet(Direct)
      \/ v.column \in Columns /\ v \in ToSet(found[v.column])
      \/ v.column \in Columns /\ \E u \in ToSet(found[v.column]) : Blocks(u)
  <2>1. v \in ToSet(Direct) \/ \E n \in ToSet(ContractNodes(contract)) : v \in ToSet(NodeViolations(data, n))
    BY Zenon DEF Failures
  <2>2. QED
    BY <2>1, NodesAreHeard
<1>2. CASE v \in ToSet(Direct) \/ (v.column \in Columns /\ v \in ToSet(found[v.column]))
  BY <1>2, FoundIsShown
<1>3. ASSUME v.column \in Columns, v \notin ToSet(Direct) \cup ToSet(found[v.column]),
             NEW u \in ToSet(found[v.column]), Blocks(u)
      PROVE  Shown(u)
  BY <1>3, FoundIsShown
<1>4. QED
  BY <1>1, <1>2, <1>3

(* A blocking failure is missing from a report only where a milder finding *)
(* of its column and name by the sequential checks was kept instead, or    *)
(* where its column had stopped before at one of which the same holds.     *)
THEOREM NamesakesMaskAlways == Spec => []OnlyNamesakesMask
BY Inductive, NamesakesMask, PTL

-----------------------------------------------------------------------------
(* The order of the columns does not matter to the report. *)

LEMMA NumbersCount ==
  ASSUME NEW n \in Nat, NEW A, NEW pos, Numbers(pos, A, n) PROVE n = Cardinality(A)
<1>1. /\ pos \in [A -> 1..n]
      /\ \A b, c \in A : pos[b] = pos[c] => b = c
      /\ \A k \in 1..n : \E b \in A : pos[b] = k
  BY DEF Numbers
<1>2. IsFiniteSet(1..n) /\ Cardinality(1..n) = n
  BY FS_Interval
<1>3. pos \in Injection(A, 1..n) /\ pos \in Surjection(A, 1..n)
  BY <1>1 DEF Injection, Surjection, IsInjective
<1>4. Cardinality(A) = Cardinality(1..n)
  BY <1>2, <1>3, FS_Injection
<1>5. QED
  BY <1>2, <1>4

(* The violations of a report: the k-th of the sequential checks (0) or of *)
(* a column. F has the violations of each.                                 *)
Entries(F) == {a \in (0..ColumnCount) \X Nat : a[2] \in 1..Len(F[a[1]])}

(* In s the entries stand somewhere, those of the sequential checks first, *)
(* those of each column in their order.                                    *)
Arranged(pos, s, F) ==
  /\ Numbers(pos, Entries(F), Len(s))
  /\ \A a \in Entries(F) : s[pos[a]] = F[a[1]][a[2]]
  /\ \A a, b \in Entries(F) : a[1] = b[1] => (pos[a] < pos[b] <=> a[2] < b[2])
  /\ \A a, b \in Entries(F) : a[1] = 0 /\ b[1] # 0 => pos[a] < pos[b]

(* The parts are those of F, but for empty ones, in some order.            *)
Arranges(o, n, parts, F) ==
  /\ o \in [1..n -> Columns]
  /\ \A i \in 1..n : parts[i] = F[o[i]]
  /\ \A i, j \in 1..n : o[i] = o[j] => i = j
  /\ \A c \in Columns : Len(F[c]) >= 1 => \E i \in 1..n : o[i] = c

(* Parts do not overlap, and leave nothing out.                            *)
Apart(off, parts, n) ==
  /\ \A i \in 1..n : Len(parts[i]) \in Nat /\ off[i - 1] \in Nat
  /\ \A i \in 1..n : \A k \in 1..Len(parts[i]) :
       off[i - 1] + k \in 1..Len(Concat(parts)) /\ Concat(parts)[off[i - 1] + k] = parts[i][k]
  /\ \A i, j \in 1..n : \A k \in 1..Len(parts[i]), l \in 1..Len(parts[j]) :
       i < j => off[i - 1] + k < off[j - 1] + l
  /\ \A p \in 1..Len(Concat(parts)) :
       \E i \in 1..n : \E k \in 1..Len(parts[i]) : p = off[i - 1] + k

LEMMA PartsApart ==
  ASSUME NEW T, NEW n \in Nat, NEW parts \in [1..n -> Seq(T)], NEW off, Offsets(off, parts)
  PROVE  Apart(off, parts, n)
<1> DEFINE whole == Concat(parts)
<1>1. parts \in Seq(Seq(T)) /\ Len(parts) = n /\ \A i \in 1..n : Len(parts[i]) \in Nat
  OBVIOUS
<1>2. /\ off \in [0..n -> Nat] /\ off[n] = Len(whole)
      /\ \A i \in 1..n : /\ off[i] = off[i - 1] + Len(parts[i])
                         /\ \A k \in 1..Len(parts[i]) : whole[off[i - 1] + k] = parts[i][k]
      /\ \A i, j \in 0..n : i <= j => off[i] <= off[j]
      /\ \A p \in 1..Len(whole) : \E i \in 1..n : off[i - 1] < p /\ p <= off[i]
  BY <1>1, Zenon DEF Offsets
<1> HIDE DEF whole
<1>3. \A i \in 1..n : i - 1 \in 0..n /\ i \in 0..n /\ i <= n
  OBVIOUS
<1>4. n \in 0..n /\ \A i \in 0..n : off[i] \in Nat
  BY <1>2
<1>5. ASSUME NEW i \in 1..n
      PROVE  /\ off[i - 1] \in Nat /\ off[i] \in Nat /\ off[n] \in Nat /\ off[i] <= off[n]
             /\ off[i] = off[i - 1] + Len(parts[i]) /\ Len(parts[i]) \in Nat
  BY <1>1, <1>2, <1>3, <1>4
<1>6. ASSUME NEW i \in 1..n, NEW k \in 1..Len(parts[i])
      PROVE  off[i - 1] + k \in 1..Len(whole) /\ whole[off[i - 1] + k] = parts[i][k]
  <2>1. \A x, y, z : x \in Nat /\ y \in Nat /\ z \in Nat /\ x + y <= z /\ k \in 1..y => x + k \in 1..z
    OBVIOUS
  <2>2. off[i - 1] + Len(parts[i]) <= Len(whole) /\ Len(whole) \in Nat
    BY <1>2, <1>5
  <2>3. off[i - 1] + k \in 1..Len(whole)
    BY <1>5, <2>1, <2>2
  <2>4. QED
    BY <1>2, <2>3
<1>7. ASSUME NEW i \in 1..n, NEW j \in 1..n, NEW k \in 1..Len(parts[i]), NEW l \in 1..Len(parts[j]), i < j
      PROVE  off[i - 1] + k < off[j - 1] + l
  <2>1. i \in 0..n /\ j - 1 \in 0..n /\ i <= j - 1
    BY <1>3, <1>7
  <2>2. off[i] <= off[j - 1]
    BY <1>2, <2>1
  <2>3. off[i - 1] \in Nat /\ off[i] = off[i - 1] + Len(parts[i]) /\ Len(parts[i]) \in Nat /\ off[j - 1] \in Nat
        /\ Len(parts[j]) \in Nat
    BY <1>5
  <2>4. QED
    BY <2>2, <2>3
<1>8. ASSUME NEW p \in 1..Len(whole)
      PROVE  \E i \in 1..n : \E k \in 1..Len(parts[i]) : p = off[i - 1] + k
  <2>1. PICK i \in 1..n : off[i - 1] < p /\ p <= off[i]
    BY <1>2
  <2>2. p - off[i - 1] \in 1..Len(parts[i]) /\ p = off[i - 1] + (p - off[i - 1])
    BY <1>5, <2>1
  <2>3. QED
    BY <2>2
<1>9. QED
  BY <1>1, <1>5, <1>6, <1>7, <1>8 DEF whole, Apart

LEMMA Arrange ==
  ASSUME NEW T, NEW n \in Nat, NEW parts \in [1..n -> Seq(T)], NEW o, NEW F,
         F \in [0..ColumnCount -> Seq(T)], Arranges(o, n, parts, F)
  PROVE  \E pos : Arranged(pos, F[0] \o Concat(parts), F)
<1> DEFINE D == F[0]
           d == Len(D)
           whole == Concat(parts)
           s == D \o whole
           A == Entries(F)
<1>1. /\ o \in [1..n -> Columns]
      /\ \A i \in 1..n : parts[i] = F[o[i]]
      /\ \A i, j \in 1..n : o[i] = o[j] => i = j
      /\ \A c \in Columns : Len(F[c]) >= 1 => \E i \in 1..n : o[i] = c
  BY DEF Arranges
<1>2. /\ ColumnCount \in Nat /\ 0 \in 0..ColumnCount /\ 0 \notin Columns
      /\ \A c : c \in 0..ColumnCount <=> c = 0 \/ c \in Columns
  BY ColumnCountAssumption DEF Columns
<1>3. whole \in Seq(T) /\ \E off : Offsets(off, parts)
  <2>1. parts \in Seq(Seq(T))
    OBVIOUS
  <2>2. QED
    BY <2>1, ConcatPlaces
<1>4. PICK off : Offsets(off, parts)
  BY <1>3
<1>5. /\ \A i \in 1..n : Len(parts[i]) \in Nat /\ off[i - 1] \in Nat
      /\ \A i \in 1..n : \A k \in 1..Len(parts[i]) :
           off[i - 1] + k \in 1..Len(whole) /\ whole[off[i - 1] + k] = parts[i][k]
      /\ \A i, j \in 1..n : \A k \in 1..Len(parts[i]), l \in 1..Len(parts[j]) :
           i < j => off[i - 1] + k < off[j - 1] + l
      /\ \A p \in 1..Len(whole) : \E i \in 1..n : \E k \in 1..Len(parts[i]) : p = off[i - 1] + k
  <2>1. Apart(off, parts, n)
    BY <1>4, PartsApart
  <2>2. QED
    BY <2>1 DEF Apart
<1>6. D \in Seq(T) /\ d \in Nat /\ Len(whole) \in Nat
  BY <1>2, <1>3
<1>7. /\ Len(s) = d + Len(whole)
      /\ \A p \in 1..d : s[p] = D[p]
      /\ \A p \in 1..Len(whole) : s[d + p] = whole[p]
  BY <1>3, <1>6, Joined
<1> DEFINE Where(c) == CHOOSE i \in 1..n : o[i] = c
<1>8. ASSUME NEW a \in A, a[1] # 0
      PROVE  /\ Where(a[1]) \in 1..n /\ o[Where(a[1])] = a[1]
             /\ a[2] \in 1..Len(parts[Where(a[1])]) /\ parts[Where(a[1])] = F[a[1]]
  <2>1. a[1] \in Columns /\ a[2] \in 1..Len(F[a[1]]) /\ F[a[1]] \in Seq(T)
    BY <1>2, <1>8 DEF Entries
  <2>2. Len(F[a[1]]) >= 1
    BY <2>1
  <2>3. \E i \in 1..n : o[i] = a[1]
    BY <1>1, <2>1, <2>2
  <2>4. Where(a[1]) \in 1..n /\ o[Where(a[1])] = a[1]
    BY <2>3, Zenon
  <2> HIDE DEF Where
  <2>5. QED
    BY <1>1, <2>1, <2>4
<1>9. ASSUME NEW i \in 1..n PROVE Where(o[i]) = i
  <2>1. Where(o[i]) \in 1..n /\ o[Where(o[i])] = o[i]
    BY Zenon
  <2> HIDE DEF Where
  <2>2. QED
    BY <1>1, <2>1
<1> HIDE DEF Where
<1> DEFINE pos == [a \in A |-> IF a[1] = 0 THEN a[2] ELSE d + (off[Where(a[1]) - 1] + a[2])]
<1>10. \A a \in A : a \in (0..ColumnCount) \X Nat /\ a[2] \in Nat /\ a[2] \in 1..Len(F[a[1]])
  BY DEF Entries
<1>11. ASSUME NEW a \in A
       PROVE  /\ a[1] = 0 => pos[a] = a[2] /\ a[2] \in 1..d
              /\ a[1] # 0 => pos[a] = d + (off[Where(a[1]) - 1] + a[2])
  BY <1>10
<1> HIDE DEF s, whole, D, d, A, pos
<1>12. ASSUME NEW a \in A, a[1] # 0
       PROVE  /\ off[Where(a[1]) - 1] \in Nat /\ a[2] \in Nat
              /\ off[Where(a[1]) - 1] + a[2] \in 1..Len(whole)
              /\ whole[off[Where(a[1]) - 1] + a[2]] = F[a[1]][a[2]]
  BY <1>5, <1>8, <1>10, <1>12
<1>13. ASSUME NEW a \in A PROVE pos[a] \in 1..Len(s) /\ s[pos[a]] = F[a[1]][a[2]]
  <2>1. CASE a[1] = 0
    BY <1>6, <1>7, <1>11, <2>1 DEF D
  <2>2. CASE a[1] # 0
    <3> DEFINE p == off[Where(a[1]) - 1] + a[2]
    <3>1. p \in 1..Len(whole) /\ whole[p] = F[a[1]][a[2]] /\ pos[a] = d + p
      BY <1>11, <1>12, <2>2
    <3> HIDE DEF p
    <3>2. QED
      BY <1>6, <1>7, <3>1
  <2>3. QED
    BY <2>1, <2>2
<1>14. ASSUME NEW a \in A, NEW b \in A, a[1] = 0, b[1] # 0 PROVE pos[a] < pos[b]
  <2>1. pos[a] \in 1..d
    BY <1>11, <1>14
  <2>2. off[Where(b[1]) - 1] + b[2] \in 1..Len(whole) /\ pos[b] = d + (off[Where(b[1]) - 1] + b[2])
    BY <1>11, <1>12, <1>14
  <2>3. \A x \in 1..d, y \in 1..Len(whole) : x < d + y
    BY <1>6
  <2>4. QED
    BY <2>1, <2>2, <2>3
<1>15. ASSUME NEW a \in A, NEW b \in A, a[1] = b[1] PROVE pos[a] < pos[b] <=> a[2] < b[2]
  <2>1. CASE a[1] = 0
    BY <1>11, <1>15, <2>1
  <2>2. CASE a[1] # 0
    <3> DEFINE x == off[Where(a[1]) - 1]
    <3>1. x \in Nat /\ a[2] \in Nat /\ b[2] \in Nat /\ pos[a] = d + (x + a[2]) /\ pos[b] = d + (x + b[2])
      BY <1>10, <1>11, <1>12, <1>15, <2>2
    <3> HIDE DEF x
    <3>2. QED
      BY <1>6, <3>1
  <2>3. QED
    BY <2>1, <2>2
<1>16. ASSUME NEW a \in A, NEW b \in A, a[1] # b[1] PROVE pos[a] # pos[b]
  <2>1. pos[a] \in Int /\ pos[b] \in Int
    BY <1>13
  <2>2. CASE a[1] = 0 \/ b[1] = 0
    <3>1. pos[a] < pos[b] \/ pos[b] < pos[a]
      BY <1>14, <1>16, <2>2
    <3>2. QED
      BY <2>1, <3>1
  <2>3. CASE a[1] # 0 /\ b[1] # 0
    <3> DEFINE i == Where(a[1])
               j == Where(b[1])
               x == off[i - 1] + a[2]
               y == off[j - 1] + b[2]
    <3>1. /\ i \in 1..n /\ j \in 1..n /\ o[i] = a[1] /\ o[j] = b[1]
          /\ a[2] \in 1..Len(parts[i]) /\ b[2] \in 1..Len(parts[j])
      BY <1>8, <2>3
    <3>2. x \in 1..Len(whole) /\ y \in 1..Len(whole) /\ pos[a] = d + x /\ pos[b] = d + y
      BY <1>11, <1>12, <2>3
    <3>3. i < j \/ j < i
      BY <1>16, <3>1
    <3>4. x < y \/ y < x
      BY <1>5, <3>1, <3>3
    <3> HIDE DEF x, y
    <3>5. QED
      BY <1>6, <3>2, <3>4
  <2>4. QED
    BY <2>2, <2>3
<1>17. ASSUME NEW a \in A, NEW b \in A, pos[a] = pos[b] PROVE a = b
  <2>1. a[1] = b[1]
    BY <1>16, <1>17
  <2>2. pos[a] \in Int /\ ~(pos[a] < pos[b]) /\ ~(pos[b] < pos[a])
    BY <1>13, <1>17
  <2>3. ~(a[2] < b[2]) /\ ~(b[2] < a[2])
    BY <1>15, <2>1, <2>2
  <2>4. a[2] = b[2]
    BY <1>10, <2>3
  <2>5. QED
    BY <1>10, <2>1, <2>4
<1>18. ASSUME NEW p \in 1..Len(s) PROVE \E a \in A : pos[a] = p
  <2>1. CASE p \in 1..d
    <3>1. <<0, p>> \in A
      BY <1>2, <1>6, <2>1 DEF A, Entries, D, d
    <3>2. pos[<<0, p>>] = p
      BY <1>11, <3>1
    <3>3. QED
      BY <3>1, <3>2
  <2>2. CASE p \notin 1..d
    <3>1. p - d \in 1..Len(whole) /\ p = d + (p - d)
      BY <1>6, <1>7, <2>2
    <3>2. PICK i \in 1..n : \E k \in 1..Len(parts[i]) : p - d = off[i - 1] + k
      BY <1>5, <3>1
    <3>3. PICK k \in 1..Len(parts[i]) : p - d = off[i - 1] + k
      BY <3>2
    <3> DEFINE a == <<o[i], k>>
    <3>4. o[i] \in Columns /\ o[i] # 0 /\ o[i] \in 0..ColumnCount /\ k \in 1..Len(F[o[i]]) /\ k \in Nat
      BY <1>1, <1>2, <1>5, <3>3
    <3>5. a \in A /\ a[1] = o[i] /\ a[2] = k
      BY <3>4 DEF A, Entries
    <3> HIDE DEF a
    <3>6. pos[a] = d + (off[i - 1] + k)
      BY <1>9, <1>11, <3>4, <3>5
    <3>7. pos[a] = p
      BY <3>1, <3>3, <3>6
    <3>8. QED
      BY <3>5, <3>7
  <2>3. QED
    BY <2>1, <2>2
<1>19. Numbers(pos, A, Len(s))
  <2>1. pos \in [A -> 1..Len(s)]
    <3>1. pos = [a \in A |-> pos[a]]
      BY DEF pos
    <3>2. QED
      BY <1>13, <3>1
  <2>2. QED
    BY <1>17, <1>18, <2>1 DEF Numbers
<1>20. Arranged(pos, s, F)
  BY <1>13, <1>14, <1>15, <1>19 DEF Arranged, A
<1>21. QED
  BY <1>20 DEF s, D, whole

(* Arranged differently, the same violations make the same report.         *)
LEMMA ArrangedAlike ==
  ASSUME NEW F \in [0..ColumnCount -> Seq(ViolationType)],
         \A c \in Columns : \A k \in 1..Len(F[c]) : F[c][k].column = c,
         NEW s \in Seq(ViolationType), NEW t \in Seq(ViolationType),
         NEW pos, Arranged(pos, s, F), NEW qos, Arranged(qos, t, F)
  PROVE  Assemble(s) = Assemble(t)
<1> DEFINE A == Entries(F)
           n == Len(s)
           ks == [i \in DOMAIN s |-> SortKey(s[i])]
           kt == [i \in DOMAIN t |-> SortKey(t[i])]
           Key(a) == SortKey(F[a[1]][a[2]])
<1>1. n \in Nat /\ Len(t) \in Nat /\ DOMAIN s = 1..n /\ DOMAIN t = 1..Len(t)
  OBVIOUS
<1>2. Numbers(pos, A, n) /\ Numbers(qos, A, Len(t))
  BY DEF Arranged
<1>3. Len(t) = n
  <2> HIDE DEF A, n
  <2>1. QED
    BY <1>1, <1>2, NumbersCount
<1>4. /\ \A a \in A : s[pos[a]] = F[a[1]][a[2]] /\ t[qos[a]] = F[a[1]][a[2]]
      /\ \A a, b \in A : a[1] = b[1] => (pos[a] < pos[b] <=> a[2] < b[2]) /\ (qos[a] < qos[b] <=> a[2] < b[2])
      /\ \A a, b \in A : a[1] = 0 /\ b[1] # 0 => pos[a] < pos[b] /\ qos[a] < qos[b]
  BY DEF Arranged
<1>5. \A a \in A : pos[a] \in 1..n /\ qos[a] \in 1..n
  <2> HIDE DEF A
  <2>1. QED
    BY <1>2, <1>3 DEF Numbers
<1>6. ks \in [1..n -> Int] /\ kt \in [1..n -> Int]
  <2>1. \A i \in 1..n : SortKey(s[i]) \in Int /\ SortKey(t[i]) \in Int
    BY <1>1, <1>3, SortKeys
  <2>2. QED
    BY <1>1, <1>3, <2>1
<1>7. \A a \in A : ks[pos[a]] = Key(a) /\ kt[qos[a]] = Key(a)
  BY <1>1, <1>3, <1>4, <1>5
<1>8. ASSUME NEW a \in A
      PROVE  /\ a[1] \in 0..ColumnCount /\ Key(a) \in Int
             /\ a[1] # 0 => \E rank \in 1..29 : Key(a) = 100 * a[1] + rank
  <2> DEFINE v == F[a[1]][a[2]]
  <2>1. a[1] \in 0..ColumnCount /\ a[2] \in 1..Len(F[a[1]]) /\ F[a[1]] \in Seq(ViolationType)
    BY DEF Entries
  <2>2. v \in ViolationType
    BY <2>1
  <2>3. a[1] # 0 => v.column = a[1]
    <3>1. a[1] # 0 => a[1] \in Columns
      BY <2>1, ColumnCountAssumption DEF Columns
    <3>2. QED
      BY <2>1, <3>1
  <2> HIDE DEF v
  <2>4. SortKey(v) \in Int /\ CheckRank[v.check] \in 1..29
    BY <2>2, SortKeys
  <2>5. SortKey(v) = 100 * v.column + CheckRank[v.check]
    BY DEF SortKey
  <2>6. QED
    BY <2>1, <2>3, <2>4, <2>5 DEF v
<1> HIDE DEF A, n, ks, kt, Key
<1>9. ASSUME NEW a \in A, NEW b \in A, Key(b) = Key(a) PROVE pos[b] < pos[a] <=> qos[b] < qos[a]
  <2>1. pos[a] \in Int /\ pos[b] \in Int /\ qos[a] \in Int /\ qos[b] \in Int
    BY <1>5
  <2>2. CASE a[1] = b[1]
    BY <1>4, <2>2
  <2>3. CASE a[1] # b[1] /\ a[1] = 0
    <3>1. pos[a] < pos[b] /\ qos[a] < qos[b]
      BY <1>4, <2>3
    <3>2. QED
      BY <2>1, <3>1
  <2>4. CASE a[1] # b[1] /\ b[1] = 0
    BY <1>4, <2>4
  <2>5. CASE a[1] # b[1] /\ a[1] # 0 /\ b[1] # 0
    <3>1. PICK i \in 1..29 : Key(a) = 100 * a[1] + i
      BY <1>8, <2>5
    <3>2. PICK j \in 1..29 : Key(b) = 100 * b[1] + j
      BY <1>8, <2>5
    <3>3. a[1] \in 0..ColumnCount /\ b[1] \in 0..ColumnCount
      BY <1>8
    <3>4. \A x, y \in 0..ColumnCount : 100 * x + i = 100 * y + j => x = y
      BY ColumnCountAssumption
    <3>5. a[1] = b[1]
      BY <1>9, <3>1, <3>2, <3>3, <3>4
    <3>6. QED
      BY <2>5, <3>5
  <2>6. QED
    BY <2>2, <2>3, <2>4, <2>5
<1>10. ASSUME NEW a \in A, NEW b \in A
       PROVE  GoesBefore(ks, pos[b], pos[a]) <=> GoesBefore(kt, qos[b], qos[a])
  <2>1. ks[pos[a]] = Key(a) /\ kt[qos[a]] = Key(a) /\ ks[pos[b]] = Key(b) /\ kt[qos[b]] = Key(b)
    BY <1>7
  <2>2. Key(b) = Key(a) => (pos[b] < pos[a] <=> qos[b] < qos[a])
    BY <1>9
  <2>3. QED
    BY <2>1, <2>2 DEF GoesBefore
<1>11. \A a \in A : s[pos[a]] = t[qos[a]]
  BY <1>4
<1>12. StableSort(s, ks) = StableSort(t, kt)
  <2>1. /\ Len(t) = Len(s) /\ ks \in [1..Len(s) -> Int] /\ kt \in [1..Len(s) -> Int]
        /\ Numbers(pos, A, Len(s)) /\ Numbers(qos, A, Len(s))
    BY <1>2, <1>3, <1>6 DEF n
  <2>2. Alike(A, s, ks, pos, t, kt, qos)
    BY <1>10, <1>11 DEF Alike
  <2>3. QED
    BY <2>1, <2>2, SortAgrees
<1>13. QED
  BY <1>12, Zenon DEF Assemble, ks, kt

(* A task that ended has found what its column's nodes find up to the      *)
(* first that blocks.                                                      *)
LEMMA ColumnFindingsAre ==
  ASSUME IInv, pc = "done", NEW c \in Columns PROVE ColumnFindings(c) = found[c]
<1> DEFINE nodes == Nodes(c)
           m == Len(nodes)
           p == next[c] - 1
           stops == {i \in DOMAIN nodes : \E v \in ToSet(NodeViolations(data, nodes[i])) : Blocks(v)}
           K == {i \in DOMAIN nodes : \A j \in stops : i <= j}
<1>1. /\ contract \in ContractType /\ dag = Compile(contract) /\ TaskInv(c) /\ ~HasNext(c)
      /\ m \in Nat /\ next[c] \in 1..(m + 1)
  BY FoundIs DEF IInv
<1>2. /\ found[c] = Findings(c, p) /\ p \in 0..m
      /\ \A k \in 1..(p - 1) : ~Stops(FindingsAt(c, k))
      /\ abort[c] => p >= 1 /\ Stops(FindingsAt(c, p))
      /\ abort[c] \/ p = m
  <2>1. /\ found[c] = Findings(c, p)
        /\ \A k \in 1..(next[c] - 2) : ~Stops(FindingsAt(c, k))
        /\ abort[c] => next[c] > 1 /\ Stops(FindingsAt(c, p))
    BY <1>1 DEF TaskInv
  <2>2. abort[c] \/ ~(next[c] <= m)
    BY <1>1 DEF HasNext, Nodes
  <2>3. next[c] \in Nat /\ (next[c] - 1) - 1 = next[c] - 2
    BY <1>1
  <2>4. QED
    BY <1>1, <2>1, <2>2, <2>3
<1>3. DOMAIN nodes = 1..m
  <2>1. nodes \in Seq(NodeSet)
    BY <1>1, DagShape
  <2> HIDE DEF nodes
  <2>2. QED
    BY <2>1 DEF m
<1>4. \A i \in 1..m : i \in stops <=> Stops(FindingsAt(c, i))
  <2>1. ASSUME NEW i \in 1..m PROVE i \in stops <=> Stops(FindingsAt(c, i))
    <3> DEFINE f == FindingsAt(c, i)
    <3>1. i \in stops <=> \E v \in ToSet(f) : Blocks(v)
      BY <1>3 DEF FindingsAt
    <3> HIDE DEF f
    <3>2. Stops(f) <=> \E v \in ToSet(f) : Blocks(v)
      BY DEF Stops, ToSet, Blocks
    <3>3. QED
      BY <3>1, <3>2 DEF f
  <2>2. QED
    BY <2>1
<1>5. stops \in SUBSET (1..m)
  BY <1>3
<1>6. \A i : i \in K <=> i \in 1..m /\ \A j \in stops : i <= j
  BY <1>3
<1>7. ColumnFindings(c) = Concat([k \in K |-> FindingsAt(c, k)])
  BY Zenon DEF ColumnFindings, FindingsAt, Nodes
<1> HIDE DEF m, p, stops, K, nodes
<1>8. ASSUME NEW j \in stops PROVE j \in 1..m /\ p <= j
  <2>1. j \in 1..m /\ Stops(FindingsAt(c, j))
    BY <1>4, <1>5
  <2>2. j \notin 1..(p - 1)
    BY <1>2, <2>1
  <2>3. QED
    BY <1>1, <1>2, <2>1, <2>2
<1>9. ASSUME NEW i PROVE i \in K <=> i \in 1..p
  <2>1. ASSUME i \in K PROVE i \in 1..p
    <3>1. i \in 1..m /\ \A j \in stops : i <= j
      BY <1>6, <2>1
    <3>2. CASE p = m
      BY <3>1, <3>2
    <3>3. CASE abort[c]
      <4>1. p \in 1..m /\ Stops(FindingsAt(c, p))
        BY <1>1, <1>2, <3>3
      <4>2. i <= p
        BY <1>4, <3>1, <4>1
      <4>3. QED
        BY <1>1, <3>1, <4>1, <4>2
    <3>4. QED
      BY <1>2, <3>2, <3>3
  <2>2. ASSUME i \in 1..p PROVE i \in K
    <3>1. i \in 1..m
      BY <1>1, <1>2, <2>2
    <3>2. ASSUME NEW j \in stops PROVE i <= j
      BY <1>1, <1>2, <1>8, <2>2, <3>2
    <3>3. QED
      BY <1>6, <3>1, <3>2
  <2>3. QED
    BY <2>1, <2>2
<1>10. K = 1..p
  BY <1>9
<1>11. QED
  BY <1>2, <1>7, <1>10 DEF Findings

LEMMA Deterministic == IInv => ReportIsDeterministic
<1> SUFFICES ASSUME IInv, pc = "done"
             PROVE  report.violations = Assemble(Direct \o Concat([c \in Columns |-> ColumnFindings(c)]))
  BY Zenon DEF ReportIsDeterministic
<1> DEFINE byColumn == [c \in Columns |-> ColumnFindings(c)]
           F == [c \in 0..ColumnCount |-> IF c = 0 THEN Direct ELSE found[c]]
           n == Cardinality(DagColumns)
<1>1. order \in Orders /\ ColumnCount \in Nat /\ Columns = 1..ColumnCount
  BY ColumnCountAssumption DEF IInv, Columns
<1>2. /\ report.violations = Assemble(Direct \o Concat(InOrder))
      /\ Direct \in Seq(ViolationType) /\ Concat(InOrder) \in Seq(ViolationType)
  BY ReportIs
<1>3. ASSUME NEW c \in Columns
      PROVE  /\ found[c] \in Seq(ViolationType)
             /\ \A k \in 1..Len(found[c]) : found[c][k].column = c
             /\ c \notin DagColumns => Len(found[c]) = 0
  <2> DEFINE f == found[c]
  <2>1. f \in Seq(ViolationType) /\ (\A v \in ToSet(f) : v.column = c) /\ (c \notin DagColumns => f = << >>)
    BY FoundIs
  <2> HIDE DEF f
  <2>2. \A k \in 1..Len(f) : f[k].column = c
    BY <2>1, Elements
  <2>3. c \notin DagColumns => Len(f) = 0
    BY <2>1
  <2>4. QED
    BY <2>1, <2>2, <2>3 DEF f
<1>4. /\ F \in [0..ColumnCount -> Seq(ViolationType)] /\ F[0] = Direct
      /\ \A c \in Columns : F[c] = found[c]
  <2>1. \A c \in 0..ColumnCount : c # 0 => c \in Columns
    BY <1>1
  <2>2. \A c \in Columns : c \in 0..ColumnCount /\ c # 0
    BY <1>1
  <2>3. 0 \in 0..ColumnCount
    BY <1>1
  <2>4. QED
    BY <1>2, <1>3, <2>1, <2>2, <2>3
<1>5. \A c \in Columns : \A k \in 1..Len(F[c]) : F[c][k].column = c
  BY <1>3, <1>4
<1>6. /\ n \in Nat /\ order \in [1..n -> DagColumns] /\ DagColumns \in SUBSET Columns
      /\ \A c \in DagColumns : \E i \in 1..n : order[i] = c
      /\ InOrder \in [1..n -> Seq(ViolationType)]
      /\ \A i \in 1..n : InOrder[i] = found[order[i]]
  BY <1>1, InOrderIs DEF InOrder
<1> HIDE DEF F, n
<1>7. \A i, j \in 1..n : order[i] = order[j] => i = j
  <2>1. IsFiniteSet(DagColumns)
    <3>1. IsFiniteSet(1..ColumnCount)
      BY <1>1, FS_Interval
    <3>2. DagColumns \in SUBSET (1..ColumnCount)
      BY <1>1, <1>6
    <3>3. QED
      BY <3>1, <3>2, FS_Subset
  <2>2. IsFiniteSet(1..n) /\ Cardinality(1..n) = n
    BY <1>6, FS_Interval
  <2>3. order \in Surjection(1..n, DagColumns)
    BY <1>6 DEF Surjection
  <2>4. order \in Injection(1..n, DagColumns)
    BY <2>1, <2>2, <2>3, FS_Surjection DEF n
  <2>5. QED
    BY <2>4 DEF Injection, IsInjective
<1>8. Arranges(order, n, InOrder, F)
  <2>1. order \in [1..n -> Columns] /\ \A i \in 1..n : InOrder[i] = F[order[i]]
    BY <1>4, <1>6
  <2>2. ASSUME NEW c \in Columns, Len(F[c]) >= 1 PROVE \E i \in 1..n : order[i] = c
    <3>1. c \in DagColumns
      BY <1>3, <1>4, <2>2
    <3>2. QED
      BY <1>6, <3>1
  <2>3. QED
    BY <1>7, <2>1, <2>2 DEF Arranges
<1>9. PICK pos : Arranged(pos, F[0] \o Concat(InOrder), F)
  BY <1>4, <1>6, <1>8, Arrange
<1> DEFINE self == [c \in Columns |-> c]
<1>10. byColumn \in [1..ColumnCount -> Seq(ViolationType)] /\ \A c \in Columns : byColumn[c] = found[c]
  <2>1. \A c \in Columns : ColumnFindings(c) = found[c]
    BY ColumnFindingsAre
  <2>2. QED
    BY <1>1, <1>3, <2>1
<1>11. self \in [1..ColumnCount -> Columns] /\ \A c \in Columns : self[c] = c
  BY <1>1
<1> HIDE DEF byColumn, self
<1>12. Arranges(self, ColumnCount, byColumn, F)
  BY <1>1, <1>4, <1>10, <1>11 DEF Arranges
<1>13. PICK qos : Arranged(qos, F[0] \o Concat(byColumn), F)
  BY <1>1, <1>4, <1>10, <1>12, Arrange
<1>14. Direct \o Concat(InOrder) \in Seq(ViolationType) /\ Direct \o Concat(byColumn) \in Seq(ViolationType)
  <2>1. Concat(byColumn) \in Seq(ViolationType)
    BY <1>1, <1>10, ConcatContains
  <2>2. QED
    BY <1>2, <2>1
<1>15. Assemble(Direct \o Concat(InOrder)) = Assemble(Direct \o Concat(byColumn))
  BY <1>4, <1>5, <1>9, <1>13, <1>14, ArrangedAlike
<1>16. QED
  BY <1>2, <1>15, Zenon DEF byColumn

(* The same contract and data give the same violations in the same order,  *)
(* whatever the interleaving of the columns' tasks and the order of the    *)
(* HashMap.                                                                *)
THEOREM DeterministicAlways == Spec => []ReportIsDeterministic
BY Inductive, Deterministic, PTL
=============================================================================
