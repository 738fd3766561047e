------------------------------ MODULE MCQQModel ------------------------------
(* Instances of QQModel for TLC.                                           *)
EXTENDS QQModel
CONSTANTS r1
OneRunner == {r1}
=============================================================================
