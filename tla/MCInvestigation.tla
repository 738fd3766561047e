--------------------------- MODULE MCInvestigation ---------------------------
(* Small instances of Investigation.                                       *)
EXTENDS Investigation

CONSTANTS a1, a2, w1, o1

OneAgent == {a1}
TwoAgents == {a1, a2}
OneSweeper == {w1}
NoSweeper == {}
OneOperator == {o1}
NoOperator == {}
AgentSymmetry == Permutations(TwoAgents)
AllCommands == {PAUSE, RESUME, CANCEL}

Transcript(actions, actionBudget, toolBudget, noProgressLimit) ==
    [actions |-> actions, actionBudget |-> actionBudget, toolBudget |-> toolBudget,
     noProgressLimit |-> noProgressLimit]

InOrder    == Transcript(<<"crm", "monitoring", "knowledge", "response_candidate">>, 4, 3, 2)
OutOfOrder == Transcript(<<"monitoring", "crm", "knowledge", "response_candidate">>, 6, 6, 3)
Repeating  == Transcript(<<"crm", "crm", "monitoring", "knowledge", "response_candidate">>, 6, 4, 2)
Handing    == Transcript(<<"crm", "monitoring", "knowledge", "needs_operator">>, 4, 3, 2)

AllTranscripts == {InOrder, OutOfOrder, Repeating, Handing}
TheFixture == {InOrder}
TwoTranscripts == {InOrder, OutOfOrder}
=============================================================================
