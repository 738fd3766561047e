----------------------------- MODULE MCQQHandler -----------------------------
(* Instances of QQHandler for TLC.                                         *)
EXTENDS QQHandler, TLC
CONSTANTS r1, r2
TwoRunners == {r1, r2}
RunnerSymmetry == Permutations(TwoRunners)
=============================================================================
