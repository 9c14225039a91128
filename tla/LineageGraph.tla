---------------------------- MODULE LineageGraph ----------------------------
(***************************************************************************)
(* LineageGraph (crates/statguardian-lineage, src/model.rs): the tables of *)
(* a warehouse and which feeds which, and get_impact_chain, the tables     *)
(* affected when one breaks.                                               *)
(*                                                                         *)
(* Nothing checks the graph: edges may repeat, run in circles or end at    *)
(* tables that were never added. The class of the same name in             *)
(* python/statguardian/_lineage.py differs in one place only, the end of   *)
(* the work list it takes from. What LineageStore has under the same name  *)
(* is called after the graph here, so that LineageProofs can extend both.  *)
(***************************************************************************)
EXTENDS Enumeration, SequencesExt

CONSTANTS
  Tables,     \* (table_id, stage, version), each part a sequence of words
  Dangling,   \* ids of edges' ends that are no table's
  MaxEdges,   \* how many edges are added
  None

VARIABLES
  nodes,      \* LineageGraph.nodes, by id
  edges,      \* LineageGraph.edges
  call        \* the call of get_impact_chain under way: its locals

graph == <<nodes, edges>>
graphVars == <<graph, call>>

(* LineageNode::new: the id joins the parts by the word separator "__",    *)
(* so two tables may share one.                                            *)
NodeId(t) == t.table \o t.stage \o <<t.version>>

Ids == {NodeId(t) : t \in Tables} \cup Dangling
Edges == [source : Ids, target : Ids]

GraphInit ==
  /\ nodes = << >>
  /\ edges = << >>
  /\ call = None

-----------------------------------------------------------------------------
(* The graph is built by add_node and add_edge, in any order.              *)

(* IndexMap::insert: a table of the same id is replaced.                   *)
AddNode(t) ==
  /\ call = None
  /\ nodes' = (NodeId(t) :> t) @@ nodes
  /\ UNCHANGED <<edges, call>>

AddEdge(e) ==
  /\ call = None
  /\ Len(edges) < MaxEdges
  /\ edges' = Append(edges, e)
  /\ UNCHANGED <<nodes, call>>

GetUpstream(id) == LET into == At(edges, {i \in DOMAIN edges : edges[i].target = id})
                   IN  [k \in DOMAIN into |-> into[k].source]

GetDownstream(id) == LET out == At(edges, {i \in DOMAIN edges : edges[i].source = id})
                     IN  [k \in DOMAIN out |-> out[k].target]

-----------------------------------------------------------------------------
(* get_impact_chain. The Rust method takes from the end where it adds (end *)
(* = "back"), the Python one from the other ("front").                     *)

Call(target, end) ==
  /\ call = None
  /\ call' = [target |-> target, end |-> end, affected |-> << >>, queue |-> <<target>>, pops |-> 0]
  /\ UNCHANGED graph

Popped == IF call.end = "back" THEN Last(call.queue) ELSE Head(call.queue)
Rest == IF call.end = "back" THEN Front(call.queue) ELSE Tail(call.queue)

(* visited holds just what affected lists.                                 *)
Visited == ToSet(call.affected)

(* Seeded fault: the tables that feed the broken one are taken.            *)
UnvisitedUpstream(id, visited) ==
  LET up == GetUpstream(id) IN At(up, {k \in DOMAIN up : up[k] \notin visited})

(* What is queued after a table: those of its downstream not yet visited,  *)
(* once for every edge.                                                    *)
Unvisited(id, visited) ==
  LET down == GetDownstream(id) IN At(down, {k \in DOMAIN down : down[k] \notin visited})

(* Seeded fault: tables are looked up only when they are queued.           *)
KnownNever(id) == FALSE

(* A table queued by several edges before its turn came.                   *)
Known(id) == id \in Visited

SkipKnown ==
  /\ call # None
  /\ call.queue # << >>
  /\ Known(Popped)
  /\ call' = [call EXCEPT !.queue = Rest, !.pops = @ + 1]
  /\ UNCHANGED graph

Visit ==
  /\ call # None
  /\ call.queue # << >>
  /\ ~Known(Popped)
  /\ call' = [call EXCEPT !.affected = Append(@, Popped),
                          !.queue = Rest \o Unvisited(Popped, Visited \cup {Popped}),
                          !.pops = @ + 1]
  /\ UNCHANGED graph

(* The list of affected tables is the answer.                              *)
ReturnImpact ==
  /\ call # None
  /\ call.queue = << >>
  /\ call' = None
  /\ UNCHANGED graph

GraphNext ==
  \/ \E t \in Tables : AddNode(t)
  \/ \E e \in Edges : AddEdge(e)
  \/ \E id \in Ids, end \in {"back", "front"} : Call(id, end)
  \/ SkipKnown \/ Visit \/ ReturnImpact

GraphSpec == GraphInit /\ [][GraphNext]_graphVars

-----------------------------------------------------------------------------
(* Properties. *)

(* The answer is exactly the tables reachable from the broken one along    *)
(* the edges, itself first, each once and after one that feeds it,         *)
(* whichever end of the work list is served and whatever the graph         *)
(* (model.rs:216, "all tables affected if target_node breaks"). Reachable  *)
(* is what is in every set that has the table and is closed under edges.   *)
Closed(ids) == \A i \in DOMAIN edges : edges[i].source \in ids => edges[i].target \in ids
Affected(id) == {n \in Ids : \A ids \in SUBSET Ids : id \in ids /\ Closed(ids) => n \in ids}
IsImpactOf(r) ==
  /\ ToSet(r.affected) = Affected(r.target)
  /\ IsInjective(r.affected)
  /\ r.affected[1] = r.target
  /\ \A i \in 2..Len(r.affected) : \E j \in 1..(i - 1) : r.affected[j] \in ToSet(GetUpstream(r.affected[i]))
ImpactIsReachability ==
  [][ReturnImpact => IsImpactOf(call)]_graphVars

(* An edge is followed at most once however many paths lead over it: a     *)
(* call takes no more from its list than the edges the affected tables     *)
(* have, and one for the target.                                           *)
EdgesOut(ids) == Cardinality({i \in DOMAIN edges : edges[i].source \in ids})
EachEdgeFollowedOnce ==
  call # None => call.pops + Len(call.queue) <= 1 + EdgesOut(Visited)
=============================================================================
