---------------------------- MODULE MCLiveAttempt ----------------------------
(* The budget of evals/live/budget-profile.v1.json with fewer tokens.      *)
EXTENDS LiveAttempt

OneOrTwo == {1, 2}
=============================================================================
