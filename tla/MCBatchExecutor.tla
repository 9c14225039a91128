--------------------------- MODULE MCBatchExecutor ---------------------------
(* Contracts over two columns that exercise each source of violations, and *)
(* datasets in which any of the facts they name may hold.                  *)
EXTENDS BatchExecutor

Field(column, constraints) == [column |-> column, constraints |-> constraints]
Must(kind, fact) == [kind |-> kind, fact |-> fact]
Rule(metric, column, fact, severity) == [metric |-> metric, column |-> column, fact |-> fact, severity |-> severity]
Cross(assertColumn, whenColumn, fact, severity) ==
  [assertColumn |-> assertColumn, whenColumn |-> whenColumn, fact |-> fact, severity |-> severity]
Drift(column, severity) == [column |-> column, fact |-> "drifted", severity |-> severity]
Anomaly(function, column, fact, severity) ==
  [function |-> function, column |-> column, fact |-> fact, severity |-> severity]

(* examples/basic_validation.sg, its id column. *)
BasicId ==
  [schema    |-> <<Field(1, <<Must("not_null", "nulls"), Must("unique", "duplicates"), Must("primary_key", "nulls")>>)>>,
   quality   |-> <<Rule("completeness", 1, "nulls", "Error"), Rule("uniqueness", 1, "duplicates", "Blocking")>>,
   cross     |-> << >>,
   stats     |-> << >>,
   anomalies |-> <<Anomaly("detect_duplicates", 1, "duplicates", "Blocking")>>]

(* Two columns, severities free where they matter. *)
TwoColumns(s1, s2) ==
  [schema    |-> <<Field(1, <<Must("min", "range"), Must("max", "range"), Must("not_null", "nulls"), Must("coerce", "")>>),
                   Field(2, <<Must("not_null", "nulls")>>)>>,
   quality   |-> <<Rule("completeness", 2, "sparse", s1), Rule("validity", 1, "nulls", s2)>>,
   cross     |-> <<Cross(2, 1, "late", s2)>>,
   stats     |-> <<Drift(1, s1)>>,
   anomalies |-> <<Anomaly("detect_outliers", 1, "range", "Warning"), Anomaly("detect_nulls", 2, "nulls", s2)>>]

MCContracts == {BasicId} \cup {TwoColumns(s1, s2) : s1, s2 \in {"Blocking", "Error", "Warning"}}

(* Facts that can be told apart; a column that is missing has no others,    *)
(* and a completeness below its threshold means there are nulls.           *)
MCFacts(c) ==
  IF c = 1 THEN SUBSET {"type", "nulls", "duplicates", "range"} \cup {{"missing"}, {"drifted"}, {"drifted", "scalar"}}
           ELSE {f \in SUBSET {"type", "nulls", "sparse", "late"} : "sparse" \in f => "nulls" \in f} \cup {{"missing"}}
MCDatasets == {<<f, g>> : f \in MCFacts(1), g \in MCFacts(2)}
=============================================================================
