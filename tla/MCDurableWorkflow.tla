-------------------------- MODULE MCDurableWorkflow --------------------------
(* Instances of DurableWorkflow for TLC.                                   *)
EXTENDS DurableWorkflow
CONSTANTS w1, w2, o1
OneWorker  == {w1}
TwoWorkers == {w1, w2}
OneOperator == {o1}
NoOperator == {}
AllCommands == {PAUSE, RESUME, CANCEL}
=============================================================================
