--------------------------- MODULE MCCorrelation ---------------------------
(* A small host for TLC: one table of sockets, one of questions.             *)
EXTENDS Correlation, TLC

CONSTANTS x, y, p1, p2

Symmetry == Permutations(Programs) \cup Permutations(Pids)
SharedName == [a \in Programs |-> "python"]
=============================================================================
