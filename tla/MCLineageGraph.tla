--------------------------- MODULE MCLineageGraph ---------------------------
(* Three ids, one of them shared by two tables and one without a table:    *)
(* graphs with circles, parallel edges and two paths between two tables.   *)
EXTENDS LineageGraph

MCTables == {[table |-> <<"a">>, stage |-> <<"b", "c">>, version |-> "1"],
             [table |-> <<"a", "b">>, stage |-> <<"c">>, version |-> "1"],
             [table |-> <<"d">>, stage |-> <<"raw">>, version |-> "1"]}
MCDangling == {<<"x", "raw", "2">>}
=============================================================================
