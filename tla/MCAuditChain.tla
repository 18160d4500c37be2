----------------------------- MODULE MCAuditChain -----------------------------
(* Instances of AuditChain for TLC. *)
EXTENDS AuditChain, TLC

CONSTANTS p1, p2, c1, c2, x1, x2

TwoProcesses == {p1, p2}
TwoCalls == {c1, c2}
OneId == {x1}
TwoIds == {x1, x2}

Symmetry == Permutations(Processes) \cup Permutations(Calls) \cup Permutations(Ids)
=============================================================================
