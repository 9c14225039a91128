--------------------------- MODULE MCLineageStore ---------------------------
(* Two processes and two warehouses; lists of no change, of two that differ *)
(* in type, and of two that differ only in their target.                   *)
EXTENDS LineageStore, TLC

CONSTANTS p1, p2, w1, w2

MCWriters == {p1, p2}
MCWarehouses == {w1, w2}
MCSymmetry == Permutations(MCWriters) \cup Permutations(MCWarehouses)

Change(type, target, severity) == [source |-> "t", type |-> type, target |-> target, severity |-> severity]
MCChanges == {Change("added", "u", "low"), Change("removed", "u", "high"), Change("added", "v", "low")}
MCChangeLists ==
  {<< >>,
   <<Change("added", "u", "low"), Change("removed", "u", "high")>>,
   <<Change("added", "u", "low"), Change("added", "v", "low")>>}
=============================================================================
