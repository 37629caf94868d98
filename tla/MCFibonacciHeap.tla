--------------------------- MODULE MCFibonacciHeap ---------------------------
(* Instances of FibonacciHeap for TLC. *)
EXTENDS FibonacciHeap, TLC

Symmetry == Permutations(Node)

\* A second key is raised among three entries at most.
FewRaised == raises = 2 => Cardinality(live) <= 3
=============================================================================
