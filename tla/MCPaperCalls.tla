---------------------------- MODULE MCPaperCalls ----------------------------
(* Instances of PaperCalls for TLC. *)
EXTENDS PaperCalls, TLC

CONSTANTS f1, p1, p2

OneOrder == {1}
TwoOrders == {1, 2}
OneName == {f1}
\* A client's own id and the one the scanner derives for an order: the first
\* order of the safety run, the second of the liveness run.
NamesFirst == {f1, <<"full", 1>>}
NamesSecond == {f1, <<"full", 2>>}
TwoCallers == {p1, p2}
OneCaller == {p1}

Symmetry == Permutations(Callers)
=============================================================================
