---------------------------- MODULE MCDataReader ----------------------------
(* One path for each reader and for each way to be refused. *)
EXTENDS DataReader

CONSTANT OddEntries     \* how many data files have entries that are not complete

P(cloud, log, metadata, glob, ext) ==
  [cloud |-> cloud, log |-> log, metadata |-> metadata, glob |-> glob, ext |-> ext]

DeltaPath == P(FALSE, TRUE, FALSE, FALSE, "none")
IcebergPath == P(FALSE, FALSE, TRUE, FALSE, "none")
MCPaths ==
  {DeltaPath, IcebergPath,
   P(FALSE, TRUE, TRUE, FALSE, "none"),      \* a Delta table with Iceberg metadata
   P(FALSE, FALSE, FALSE, FALSE, "csv"), P(FALSE, FALSE, FALSE, FALSE, "orc"),
   P(TRUE, FALSE, FALSE, TRUE, "other"), P(TRUE, FALSE, FALSE, FALSE, "avro")}
MCFileContents == {<< >>, <<1>>, <<1, 2, 3>>, <<4, 5>>}
MCRowKinds == {{"a"}, {"a", "b"}, {"b"}}

(* Each task starts from one value of the parameters it does not look at.  *)
Relevant ==
  /\ task = "push" => path = DeltaPath
  /\ task # "push" => windowSize = 2
  /\ (task = "stream" \/ batchSize = 1)
  /\ (task = "stream" /\ Reader(path) = "file") \/ contents = << >>
  /\ (task # "push" /\ Reader(path) = "iceberg") \/ (form = "list" /\ kindOf = [m \in 1..MaxCommits |-> "complete"])
  /\ Cardinality({m \in 1..MaxCommits : kindOf[m] # "complete"}) <= OddEntries
  /\ \A m \in 1..MaxCommits : kindOf[m] = "complete" \/ form = "list" \/ (form = "inline" /\ kindOf[m] # "pathless")

MCInit == Init /\ Relevant

MCSpec == MCInit /\ [][Next]_vars
=============================================================================
