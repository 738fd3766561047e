----------------------------- MODULE MCQQPairing -----------------------------
(* Instances of QQPairing for TLC: two processes, either command each.     *)
EXTENDS QQPairing, TLC

CONSTANTS p1, p2, g1, g2

TwoProcesses == {p1, p2}
TwoGroups    == {g1, g2}
Symmetric    == Permutations(TwoProcesses) \cup Permutations(TwoGroups)
=============================================================================
