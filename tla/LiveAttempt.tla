----------------------------- MODULE LiveAttempt -----------------------------
(***************************************************************************)
(* One attempt of the live model evaluation                                *)
(* (run_live_investigation_attempt in weflow_agent_runtime/live_runtime.py *)
(* with live_budget.py, live_store.py and live_provider.py): a model is    *)
(* asked turn by turn for an action, under budgets it cannot see, reads    *)
(* fixtures and proposes a response that the workflow's verifier judges.   *)
(*                                                                         *)
(* execute_live_suite gives every attempt stores of its own, in one        *)
(* process, and throws them away: an attempt is not resumed (the store's   *)
(* recover_attempt has no caller).  What is hard here is the provider and  *)
(* the numbers: an answer that never comes, errors to be retried, a bill   *)
(* that is larger than the reservation, limits that are met exactly.       *)
(*                                                                         *)
(* Input tokens, output tokens and cost are checked and settled alike; one *)
(* kind of token stands for them.  The turns, invocations and actions of   *)
(* the live store are written once under derived names, so the account of  *)
(* an attempt is what they add up to.                                      *)
(***************************************************************************)
EXTENDS Integers, Sequences, FiniteSets

CONSTANTS
    CallLimit, RetryLimit, TokenLimit, ActionLimit, ToolLimit, NoProgressLimit,
                    \* the budget profile
    Reservations,   \* what a call may reserve: prompt and answer at most
    MaxOvercharge   \* bound: what a provider bills beyond the reservation

ASSUME BudgetAssumption ==
    /\ {CallLimit, RetryLimit, TokenLimit, ActionLimit, ToolLimit, NoProgressLimit,
        MaxOvercharge} \subseteq Nat
    /\ Reservations \subseteq Nat \ {0}

VARIABLES
    pc,             \* where the attempt is
    outcome,        \* live_attempts: open, or the terminal outcome
    turn, retry,    \* turn_index and retry_index
    calls,          \* provider_call_count: the reservations made
    account,        \* total_tokens: settled, or else reserved
    retries,        \* retry_count
    noProgress,     \* no_progress_count
    last,           \* the call in hand and its result
    steps,          \* agent_steps: the action types
    exchanges,      \* the tools read, in order
    used            \* what the provider has really used

vars == <<pc, outcome, turn, retry, calls, account, retries, noProgress, last, steps, exchanges,
          used>>
budgetVars   == <<calls, account, retries, noProgress>>
workflowVars == <<steps, exchanges>>

Tools     == {"crm", "monitoring", "knowledge"}
Terminals == {"response_candidate", "needs_information", "needs_operator"}
RequiredTools == <<"crm", "monitoring", "knowledge">>
Failures  == {"observed_retryable_error", "rejected", "malformed_model_output"}
Statuses  == {"none", "completed", "provider_outcome_unknown"} \cup Failures

NoCall == [reserved |-> 0, status |-> "none", billed |-> 0, action |-> "none"]

Init ==
    /\ pc = "turn" /\ outcome = "open"
    /\ turn = 1 /\ retry = 0
    /\ calls = 0 /\ account = 0 /\ retries = 0 /\ noProgress = 0
    /\ last = NoCall
    /\ steps = <<>> /\ exchanges = <<>>
    /\ used = 0

(* _close_result with close_attempt *)
Close(result) == pc' = "done" /\ outcome' = result

(* An error that run_live_investigation_attempt does not catch: the suite  *)
(* counts a failure and the attempt stays open.                            *)
Raise == pc' = "done" /\ UNCHANGED outcome

Continue(label) == pc' = label /\ UNCHANGED outcome

(* _invocation_intent and _invocation_observation: a call in hand and what *)
(* came of it.                                                             *)
Intended(tokens) == [NoCall EXCEPT !.reserved = tokens]

Observed(status, billed, proposal) ==
    [last EXCEPT !.status = status, !.billed = billed, !.action = proposal]

-----------------------------------------------------------------------------
(* One invocation of the provider.                                         *)

(* The head of the turn loop.                                              *)
BeginTurn ==
    /\ pc = "turn"
    /\ IF turn > ActionLimit THEN Close("budget_exhausted") ELSE Continue("reserve")
    /\ retry' = 0
    /\ UNCHANGED <<turn, budgetVars, last, workflowVars, used>>

(* Mutant: the call is made as long as the budget is not used up.          *)
ReserveWhileLeft ==
    /\ pc = "reserve"
    /\ \E tokens \in Reservations, late \in BOOLEAN :
          IF calls + 1 <= CallLimit /\ account < TokenLimit /\ retries + retry <= RetryLimit /\ ~late
          THEN /\ Continue("call")
               /\ calls' = calls + 1
               /\ account' = account + tokens
               /\ retries' = retries + retry
               /\ last' = Intended(tokens)
          ELSE Close("budget_exhausted") /\ UNCHANGED <<calls, account, retries, last>>
    /\ UNCHANGED <<turn, retry, noProgress, workflowVars, used>>

(* reserve_provider_call: the worst case is reserved before the call, or   *)
(* the attempt ends.  The wall time may be spent at any time.              *)
ReserveProviderCall ==
    /\ pc = "reserve"
    /\ \E tokens \in Reservations, late \in BOOLEAN :
          IF /\ calls + 1 <= CallLimit
             /\ account + tokens <= TokenLimit
             /\ retries + retry <= RetryLimit
             /\ ~late
          THEN /\ Continue("call")
               /\ calls' = calls + 1
               /\ account' = account + tokens
               /\ retries' = retries + retry
               /\ last' = Intended(tokens)
          ELSE Close("budget_exhausted") /\ UNCHANGED <<calls, account, retries, last>>
    /\ UNCHANGED <<turn, retry, noProgress, workflowVars, used>>

(* append_intent and propose: the provider answers with an action, fails   *)
(* in one of several ways, or nobody knows.  An oversized answer raises.   *)
(* The usage is reported or not; without a report a completed answer is    *)
(* malformed.                                                              *)
Propose ==
    /\ pc = "call"
    /\ \/ \E billed \in 0..(last.reserved + MaxOvercharge) :
             /\ \/ \E action \in Tools \cup Terminals :
                      last' = Observed("completed", billed, action)
                \/ \E status \in Failures :
                      last' = Observed(status, billed, "none")
             /\ used' = used + billed
             /\ Continue("observe")
       \/ \E tokens \in 0..last.reserved, status \in Failures \cup {"provider_outcome_unknown"} :
             /\ last' = Observed(status, last.reserved, "none")
             /\ used' = used + tokens
             /\ Continue("observe")
       \/ \E tokens \in 0..last.reserved :
             used' = used + tokens /\ Raise /\ UNCHANGED last
    /\ UNCHANGED <<turn, retry, budgetVars, workflowVars>>

(* What follows an observed result.                                        *)
AfterResult ==
    IF last.status = "observed_retryable_error" /\ retry < RetryLimit
    THEN Continue("reserve") /\ retry' = retry + 1
    ELSE /\ IF last.status = "completed" THEN Continue("action") ELSE Close(last.status)
         /\ UNCHANGED retry

(* Mutant: a call without an answer is taken for one that cost nothing.    *)
ObserveUnknownFree ==
    /\ pc = "observe"
    /\ IF last.status = "provider_outcome_unknown"
       THEN /\ account' = account - last.reserved
            /\ IF retry < RetryLimit
               THEN Continue("reserve") /\ retry' = retry + 1
               ELSE Close(last.status) /\ UNCHANGED retry
       ELSE /\ account' = account - last.reserved + last.billed
            /\ IF last.billed > last.reserved THEN Raise /\ UNCHANGED retry ELSE AfterResult
    /\ UNCHANGED <<turn, calls, retries, noProgress, last, workflowVars, used>>

(* append_observation and settle_provider_call: the bill replaces the      *)
(* reservation, except that of an unknown outcome, and a bill beyond the   *)
(* reservation raises.                                                     *)
Observe ==
    /\ pc = "observe"
    /\ IF last.status = "provider_outcome_unknown"
       THEN AfterResult /\ UNCHANGED account
       ELSE /\ account' = account - last.reserved + last.billed
            /\ IF last.billed > last.reserved THEN Raise /\ UNCHANGED retry ELSE AfterResult
    /\ UNCHANGED <<turn, calls, retries, noProgress, last, workflowVars, used>>

-----------------------------------------------------------------------------
(* The action the model proposed.                                          *)

Repeated == steps # <<>> /\ steps[Len(steps)] = last.action

(* consume_no_progress: the count after this turn.                         *)
Stalled ==
    \/ noProgress + 1 > NoProgressLimit
    \/ noProgress + 1 >= IF NoProgressLimit > 2 THEN NoProgressLimit - 1 ELSE 1

(* A task may carry a fault: the answer is thrown away as if the budget    *)
(* were used up.                                                           *)
InjectExhaustion ==
    /\ pc = "action"
    /\ Close("budget_exhausted")
    /\ UNCHANGED <<turn, retry, budgetVars, last, workflowVars, used>>

(* normalize_model_proposal: the step an action becomes is scoped by the   *)
(* manifest and the turn; its type is all that varies.                     *)
Recorded == Append(steps, last.action)

(* consume_action and record_agent_action, with the no-progress rule       *)
(* between them: a run of equal actions ends the attempt, and its last     *)
(* action is not recorded.                                                 *)
RecordAction ==
    /\ pc = "action"
    /\ noProgress' = IF Repeated /\ noProgress + 1 <= NoProgressLimit
                     THEN noProgress + 1 ELSE noProgress
    /\ IF Repeated /\ Stalled
       THEN Close("needs_operator") /\ UNCHANGED steps
       ELSE /\ steps' = Recorded
            /\ CASE last.action \in Tools -> Continue("read")
                 [] last.action = "response_candidate" -> Continue("candidate")
                 [] OTHER -> Close(last.action)
    /\ UNCHANGED <<turn, retry, calls, account, retries, last, exchanges, used>>

(* gateway.read: one more exchange, under a name of its own.               *)
Exchange == Append(exchanges, last.action)

(* consume_tool and record_tool_exchange.  A fixture may stand for a tool  *)
(* that timed out.                                                         *)
ReadTool ==
    /\ pc = "read"
    /\ IF Len(exchanges) + 1 > ToolLimit
       THEN Close("budget_exhausted") /\ UNCHANGED <<exchanges, turn>>
       ELSE /\ exchanges' = Exchange
            /\ \/ Continue("turn") /\ turn' = turn + 1
               \/ Close("tool_timeout") /\ UNCHANGED turn
    /\ UNCHANGED <<retry, budgetVars, last, steps, used>>

ToolsRead == {exchanges[i] : i \in 1..Len(exchanges)}

(* verify_response_candidate, as in Investigation.                         *)
Verified(cited) == exchanges = RequiredTools /\ cited = exchanges

(* build_live_candidate, record_response_candidate and the verifier.  A    *)
(* draft that does not cite every observation, or that is not fit to be    *)
(* shown, is denied; the same tool cited twice breaks the contract of the  *)
(* candidate, which nobody catches.                                        *)
BuildLiveCandidate ==
    /\ pc = "candidate"
    /\ \/ Close("policy_denied")
       \/ /\ exchanges # <<>>
          /\ IF Cardinality(ToolsRead) # Len(exchanges) THEN Raise
             ELSE Close(IF Verified(exchanges) THEN "response_ready" ELSE "needs_operator")
    /\ UNCHANGED <<turn, retry, budgetVars, last, workflowVars, used>>

Next ==
    \/ BeginTurn \/ ReserveProviderCall \/ Propose \/ Observe
    \/ InjectExhaustion \/ RecordAction \/ ReadTool \/ BuildLiveCandidate

Spec == Init /\ [][Next]_vars

-----------------------------------------------------------------------------
(* Properties.                                                             *)

(* The attempt never really uses more than its budget, whatever the        *)
(* provider answers or leaves unanswered, except by what the last bill     *)
(* exceeds its own reservation by: reserve_provider_call asks an account   *)
(* that holds every call at its worst case or at its bill.                 *)
SpendingBounded ==
    LET overcharge == IF last.billed > last.reserved THEN last.billed - last.reserved ELSE 0
    IN used <= TokenLimit + overcharge

(* The provider is not called again once a call was left without an answer *)
(* or billed beyond its reservation: such a call stays the last one.       *)
NoCallAfterDoubt ==
    [][pc = "reserve" /\ pc' = "call" =>
          last.status # "provider_outcome_unknown" /\ last.billed <= last.reserved]_vars

(* A response is called ready only when the three tools were read, each    *)
(* once and in the order the verifier demands, by actions the workflow     *)
(* recorded before the one candidate.                                      *)
ReadyOnlyOnDemandedReads ==
    outcome = "response_ready" => steps = RequiredTools \o <<"response_candidate">>
=============================================================================
