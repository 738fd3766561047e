----------------------------- MODULE MCQQSandbox -----------------------------
(* Instances of QQSandbox for TLC.                                         *)
EXTENDS QQSandbox, TLC
CONSTANTS r1, r2, m1, m2
OneRunner   == {r1}
TwoRunners  == {r1, r2}
OneMessage  == {m1}
TwoMessages == {m1, m2}
RunnerSymmetry == Permutations(TwoRunners)
=============================================================================
