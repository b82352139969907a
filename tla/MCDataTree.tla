----------------------------- MODULE MCDataTree -----------------------------
(* Instances of DataTree for TLC.                                           *)
EXTENDS DataTree, TLC

(* Nodes are only told apart by what they hold and how they are linked, names *)
(* by whether they are equal.                                              *)
Symmetric == Permutations(Nodes) \cup Permutations(Names)

(* No action depends on what the last one returned: states that differ in  *)
(* nothing else are explored once (the steps into each are all checked).    *)
Memory == heap

(* Of four nodes in trees at least one holds no member: heaps in which it  *)
(* could, because all four are containers, are not gone on from.           *)
FewContainers == Cardinality({n \in Nodes : heap[n].type \in Containers}) <= 3
=============================================================================
