-------------------------- MODULE MCApprovedDelivery --------------------------
(* Instances of ApprovedDelivery for TLC.                                  *)
EXTENDS ApprovedDelivery
CONSTANTS w1, w2, a1, a2
OneWorker    == {w1}
TwoWorkers   == {w1, w2}
OneApprover  == {a1}
TwoApprovers == {a1, a2}
=============================================================================
