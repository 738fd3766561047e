-------------------------- MODULE LiveAttemptProofs --------------------------
(* The budget of a live attempt and the way to its response, for every     *)
(* budget profile and every provider.                                      *)
EXTENDS LiveAttempt, TLAPS

(* The types the arithmetic needs.                                         *)
AccountType ==
    /\ pc \in {"turn", "reserve", "call", "observe", "action", "read", "candidate", "done"}
    /\ account \in Int /\ used \in Int
    /\ last \in [reserved : Nat, status : Statuses, billed : Nat,
                 action : Tools \cup Terminals \cup {"none"}]

(* What the account stands for at each place: it covers what was used, and *)
(* during a call also what the call may still use.                         *)
AccountCovers ==
    /\ pc \in {"turn", "reserve", "action", "read", "candidate"} =>
          used <= account /\ account <= TokenLimit /\ last.billed <= last.reserved
    /\ pc = "call" =>
          used + last.reserved <= account /\ account <= TokenLimit /\ last.billed = 0
    /\ pc = "observe" =>
          /\ used + last.reserved <= account + last.billed /\ account <= TokenLimit
          /\ last.status = "provider_outcome_unknown" => last.billed = last.reserved
    /\ pc = "done" => SpendingBounded

(* A call without an answer is never followed by another: where a call can *)
(* be reserved, the last one was answered.                                 *)
DoubtIsLast ==
    pc \in {"turn", "reserve", "action", "read", "candidate"} =>
        last.status # "provider_outcome_unknown"

BudgetInv == AccountType /\ AccountCovers /\ DoubtIsLast

LEMMA Constants ==
    /\ TokenLimit \in Nat /\ MaxOvercharge \in Nat
    /\ \A r \in Reservations : r \in Nat
BY BudgetAssumption

LEMMA BudgetInit == Init => BudgetInv
<1> SUFFICES ASSUME Init PROVE BudgetInv
    OBVIOUS
<1>1. AccountType
    BY DEF Init, AccountType, NoCall, Statuses, Failures
<1>2. AccountCovers /\ DoubtIsLast
    BY Constants DEF Init, AccountCovers, DoubtIsLast, NoCall
<1> QED
    BY <1>1, <1>2 DEF BudgetInv

LEMMA ReservePreserves ==
    ASSUME BudgetInv, ReserveProviderCall
    PROVE  BudgetInv'
<1> USE Constants
<1>1. PICK tokens \in Reservations, late \in BOOLEAN :
          IF /\ calls + 1 <= CallLimit
             /\ account + tokens <= TokenLimit
             /\ retries + retry <= RetryLimit
             /\ ~late
          THEN /\ Continue("call")
               /\ calls' = calls + 1
               /\ account' = account + tokens
               /\ retries' = retries + retry
               /\ last' = Intended(tokens)
          ELSE Close("budget_exhausted") /\ UNCHANGED <<calls, account, retries, last>>
    BY DEF ReserveProviderCall
<1>2. pc = "reserve" /\ used' = used /\ tokens \in Nat
    BY DEF ReserveProviderCall
<1>3. CASE Continue("call") /\ account' = account + tokens
           /\ account + tokens <= TokenLimit /\ last' = Intended(tokens)
    <2>1. last' = [reserved |-> tokens, status |-> "none", billed |-> 0, action |-> "none"]
        BY <1>3 DEF Intended, NoCall
    <2>a. "none" \in Statuses
        BY DEF Statuses
    <2>b. last' \in [reserved : Nat, status : Statuses, billed : Nat,
                     action : Tools \cup Terminals \cup {"none"}]
        BY <1>2, <2>1, <2>a
    <2>2. AccountType'
        BY <1>2, <1>3, <2>b DEF BudgetInv, AccountType, Continue
    <2>3. last'.reserved = tokens /\ last'.billed = 0
        BY <2>1
    <2>4. AccountCovers' /\ DoubtIsLast'
        BY <1>2, <1>3, <2>3
        DEF BudgetInv, AccountType, AccountCovers, DoubtIsLast, Continue
    <2> QED
        BY <2>2, <2>4 DEF BudgetInv
<1>4. CASE Close("budget_exhausted") /\ UNCHANGED <<account, last>>
    BY <1>2, <1>4
    DEF BudgetInv, AccountType, AccountCovers, DoubtIsLast, SpendingBounded, Close
<1> QED
    BY <1>1, <1>3, <1>4

LEMMA ProposePreserves ==
    ASSUME BudgetInv, Propose
    PROVE  BudgetInv'
<1> USE Constants
<1>1. pc = "call" /\ account' = account /\ account \in Int /\ used \in Int
      /\ last \in [reserved : Nat, status : Statuses, billed : Nat,
                   action : Tools \cup Terminals \cup {"none"}]
      /\ used + last.reserved <= account /\ account <= TokenLimit /\ last.billed = 0
    BY DEF Propose, BudgetInv, AccountType, AccountCovers, budgetVars
<1>2. CASE \E billed \in 0..(last.reserved + MaxOvercharge) :
             /\ \/ \E action \in Tools \cup Terminals :
                      last' = Observed("completed", billed, action)
                \/ \E status \in Failures : last' = Observed(status, billed, "none")
             /\ used' = used + billed
             /\ Continue("observe")
    <2>1. PICK billed \in 0..(last.reserved + MaxOvercharge) :
             /\ \/ \E action \in Tools \cup Terminals :
                      last' = Observed("completed", billed, action)
                \/ \E status \in Failures : last' = Observed(status, billed, "none")
             /\ used' = used + billed
             /\ Continue("observe")
        BY <1>2
    <2>a. last.reserved \in Nat
        BY <1>1
    <2>2. billed \in Nat
        BY <2>a
    <2>b. PICK status \in Failures \cup {"completed"}, action \in Tools \cup Terminals \cup {"none"} :
              last' = [last EXCEPT !.status = status, !.billed = billed, !.action = action]
        BY <2>1 DEF Observed
    <2>3. /\ last'.reserved = last.reserved /\ last'.billed = billed
          /\ last'.status # "provider_outcome_unknown"
          /\ last' \in [reserved : Nat, status : Statuses, billed : Nat,
                        action : Tools \cup Terminals \cup {"none"}]
        BY <1>1, <2>b, <2>2 DEF Failures, Statuses
    <2>4. used' = used + billed /\ pc' = "observe"
        BY <2>1 DEF Continue
    <2> QED
        BY <1>1, <2>2, <2>3, <2>4
        DEF BudgetInv, AccountType, AccountCovers, DoubtIsLast, Continue
<1>3. CASE \E tokens \in 0..last.reserved, status \in Failures \cup {"provider_outcome_unknown"} :
             /\ last' = Observed(status, last.reserved, "none")
             /\ used' = used + tokens
             /\ Continue("observe")
    <2>1. PICK tokens \in 0..last.reserved, status \in Failures \cup {"provider_outcome_unknown"} :
             /\ last' = Observed(status, last.reserved, "none")
             /\ used' = used + tokens
             /\ Continue("observe")
        BY <1>3
    <2>2. /\ last'.reserved = last.reserved /\ last'.billed = last.reserved
          /\ last' \in [reserved : Nat, status : Statuses, billed : Nat,
                        action : Tools \cup Terminals \cup {"none"}]
        BY <1>1, <2>1 DEF Observed, Failures, Statuses
    <2> QED
        BY <1>1, <2>1, <2>2
        DEF BudgetInv, AccountType, AccountCovers, DoubtIsLast, Continue
<1>4. CASE \E tokens \in 0..last.reserved :
             used' = used + tokens /\ Raise /\ UNCHANGED last
    <2>1. PICK tokens \in 0..last.reserved : used' = used + tokens /\ Raise /\ UNCHANGED last
        BY <1>4
    <2> QED
        BY <1>1, <2>1
        DEF BudgetInv, AccountType, AccountCovers, DoubtIsLast, SpendingBounded, Raise
<1> QED
    BY <1>2, <1>3, <1>4 DEF Propose

LEMMA ObservePreserves ==
    ASSUME BudgetInv, Observe
    PROVE  BudgetInv'
<1> USE Constants
<1>1. /\ pc = "observe" /\ last' = last /\ used' = used /\ account \in Int /\ used \in Int
      /\ last \in [reserved : Nat, status : Statuses, billed : Nat,
                   action : Tools \cup Terminals \cup {"none"}]
      /\ used + last.reserved <= account + last.billed /\ account <= TokenLimit
      /\ last.status = "provider_outcome_unknown" => last.billed = last.reserved
    BY DEF Observe, BudgetInv, AccountType, AccountCovers
<1>2. pc' \in {"reserve", "action", "done"}
    BY DEF Observe, AfterResult, Continue, Close, Raise
<1>3. CASE last.status = "provider_outcome_unknown"
    <2>1. pc' = "done" /\ account' = account
        BY <1>3 DEF Observe, AfterResult, Close
    <2> QED
        BY <1>1, <1>3, <2>1
        DEF BudgetInv, AccountType, AccountCovers, DoubtIsLast, SpendingBounded
<1>4. CASE last.status # "provider_outcome_unknown" /\ last.billed > last.reserved
    <2>1. pc' = "done" /\ account' = account - last.reserved + last.billed
        BY <1>4 DEF Observe, Raise
    <2> QED
        BY <1>1, <1>4, <2>1
        DEF BudgetInv, AccountType, AccountCovers, DoubtIsLast, SpendingBounded
<1>5. CASE last.status # "provider_outcome_unknown" /\ ~(last.billed > last.reserved)
    <2>1. account' = account - last.reserved + last.billed
        BY <1>5 DEF Observe
    <2> QED
        BY <1>1, <1>2, <1>5, <2>1
        DEF BudgetInv, AccountType, AccountCovers, DoubtIsLast, SpendingBounded
<1> QED
    BY <1>3, <1>4, <1>5

(* The other steps of an attempt leave the account alone.                  *)
LEMMA QuietPreserves ==
    ASSUME BudgetInv,
           UNCHANGED <<account, used, last>>,
           pc \in {"turn", "action", "read", "candidate"},
           pc' \in {"turn", "reserve", "action", "read", "candidate", "done"}
    PROVE  BudgetInv'
BY Constants DEF BudgetInv, AccountType, AccountCovers, DoubtIsLast, SpendingBounded

LEMMA BudgetNext == BudgetInv /\ [Next]_vars => BudgetInv'
<1> SUFFICES ASSUME BudgetInv, [Next]_vars PROVE BudgetInv'
    OBVIOUS
<1>1. CASE BeginTurn
    BY <1>1, QuietPreserves DEF BeginTurn, Close, Continue, budgetVars
<1>2. CASE ReserveProviderCall
    BY <1>2, ReservePreserves
<1>3. CASE Propose
    BY <1>3, ProposePreserves
<1>4. CASE Observe
    BY <1>4, ObservePreserves
<1>5. CASE RecordAction
    <2>1. pc' \in {"read", "candidate", "done"}
        BY <1>5 DEF RecordAction, Close, Continue
    <2> QED
        BY <1>5, <2>1, QuietPreserves DEF RecordAction
<1>6. CASE ReadTool
    BY <1>6, QuietPreserves DEF ReadTool, Close, Continue, budgetVars
<1>7. CASE BuildLiveCandidate
    BY <1>7, QuietPreserves DEF BuildLiveCandidate, Close, Raise, budgetVars
<1>8. CASE InjectExhaustion
    BY <1>8, QuietPreserves DEF InjectExhaustion, Close, budgetVars
<1>9. CASE UNCHANGED vars
    BY <1>9
    DEF vars, BudgetInv, AccountType, AccountCovers, DoubtIsLast, SpendingBounded
<1> QED
    BY <1>1, <1>2, <1>3, <1>4, <1>5, <1>6, <1>7, <1>8, <1>9 DEF Next

LEMMA InvIsBounded == BudgetInv => SpendingBounded
BY Constants DEF BudgetInv, AccountType, AccountCovers, SpendingBounded

(* A live attempt never uses more tokens than its budget, but for the      *)
(* excess of one last bill, whatever the budget, the reservations and the  *)
(* answers of the provider: the account of live_budget.py covers every     *)
(* call before it is made.                                                 *)
THEOREM SpendingIsBounded == Spec => []SpendingBounded
BY BudgetInit, BudgetNext, InvIsBounded, PTL DEF Spec

(* No provider call follows one that was left without an answer or billed  *)
(* beyond its reservation.                                                 *)
THEOREM NoCallFollowsDoubt == Spec => NoCallAfterDoubt
<1>1. BudgetInv /\ [Next]_vars =>
        [pc = "reserve" /\ pc' = "call" =>
            last.status # "provider_outcome_unknown" /\ last.billed <= last.reserved]_vars
    BY DEF BudgetInv, AccountCovers, DoubtIsLast
<1> QED
    BY <1>1, BudgetInit, BudgetNext, PTL DEF Spec, NoCallAfterDoubt
-----------------------------------------------------------------------------
(* The way to a response.                                                  *)

(* The recorded steps are the tools read, with the action in hand on top   *)
(* while it is carried out; a terminal action is never followed by another *)
(* step, so that a verdict is one on the steps as they stand.              *)
StepsAreReads ==
    /\ exchanges \in Seq(Tools)
    /\ pc \in {"turn", "reserve", "call", "observe", "action"} => steps = exchanges
    /\ pc = "read" => last.action \in Tools /\ steps = Append(exchanges, last.action)
    /\ pc = "candidate" => steps = Append(exchanges, "response_candidate")
    /\ pc # "done" => outcome = "open"
    /\ ReadyOnlyOnDemandedReads

ResponseInv == BudgetInv /\ StepsAreReads

LEMMA ResponseInit == Init => ResponseInv
BY BudgetInit DEF Init, ResponseInv, StepsAreReads, ReadyOnlyOnDemandedReads

(* The steps that record no action and read no tool keep the two in step.  *)
LEMMA UnrecordedSteps ==
    ASSUME ResponseInv, UNCHANGED workflowVars,
           pc \in {"turn", "reserve", "call", "observe", "action"},
           \/ pc' \in {"turn", "reserve", "call", "observe", "action"} /\ outcome' = outcome
           \/ pc' = "done" /\ outcome' # "response_ready"
    PROVE  StepsAreReads'
BY DEF ResponseInv, StepsAreReads, ReadyOnlyOnDemandedReads, workflowVars

LEMMA ObserveIsUnrecorded ==
    ASSUME ResponseInv, Observe
    PROVE  StepsAreReads'
<1>1. pc = "observe" /\ UNCHANGED workflowVars /\ outcome = "open"
    BY DEF Observe, ResponseInv, StepsAreReads
<1>2. last.status \in Statuses
    BY DEF ResponseInv, BudgetInv, AccountType
<1>3. last.status # "response_ready"
    BY <1>2 DEF Statuses, Failures
<1>4. CASE AfterResult
    BY <1>1, <1>3, <1>4, UnrecordedSteps DEF AfterResult, Continue, Close
<1>5. CASE Raise
    BY <1>1, <1>5, UnrecordedSteps DEF Raise
<1> QED
    BY <1>4, <1>5 DEF Observe

LEMMA RecordActionKeepsStep ==
    ASSUME ResponseInv, RecordAction
    PROVE  StepsAreReads'
<1>1. /\ pc = "action" /\ exchanges' = exchanges /\ last' = last /\ outcome = "open"
      /\ steps = exchanges /\ exchanges \in Seq(Tools)
      /\ last.action \in Tools \cup Terminals \cup {"none"}
    BY DEF RecordAction, ResponseInv, StepsAreReads, BudgetInv, AccountType
<1>2. CASE Repeated /\ Stalled
    <2>1. pc' = "done" /\ outcome' = "needs_operator"
        BY <1>2 DEF RecordAction, Close
    <2> QED
        BY <1>1, <2>1 DEF StepsAreReads, ReadyOnlyOnDemandedReads
<1>3. CASE ~(Repeated /\ Stalled)
    <2>1. /\ steps' = Append(exchanges, last.action)
          /\ CASE last.action \in Tools -> Continue("read")
               [] last.action = "response_candidate" -> Continue("candidate")
               [] OTHER -> Close(last.action)
        BY <1>1, <1>3 DEF RecordAction, Recorded
    <2>2. CASE last.action \in Tools
        <3>1. pc' = "read" /\ outcome' = "open"
            BY <1>1, <2>1, <2>2 DEF Continue, Tools
        <3> QED
            BY <1>1, <2>1, <2>2, <3>1 DEF StepsAreReads, ReadyOnlyOnDemandedReads
    <2>3. CASE last.action = "response_candidate"
        <3>1. pc' = "candidate" /\ outcome' = "open"
            BY <1>1, <2>1, <2>3 DEF Continue, Tools
        <3> QED
            BY <1>1, <2>1, <2>3, <3>1 DEF StepsAreReads, ReadyOnlyOnDemandedReads
    <2>4. CASE last.action \notin Tools /\ last.action # "response_candidate"
        <3>1. pc' = "done" /\ outcome' = last.action /\ last.action # "response_ready"
            BY <1>1, <2>1, <2>4 DEF Close, Terminals
        <3> QED
            BY <1>1, <3>1 DEF StepsAreReads, ReadyOnlyOnDemandedReads
    <2> QED
        BY <2>2, <2>3, <2>4
<1> QED
    BY <1>2, <1>3

LEMMA ReadToolKeepsStep ==
    ASSUME ResponseInv, ReadTool
    PROVE  StepsAreReads'
<1>1. /\ pc = "read" /\ steps' = steps /\ outcome = "open" /\ exchanges \in Seq(Tools)
      /\ last.action \in Tools /\ steps = Append(exchanges, last.action)
    BY DEF ReadTool, ResponseInv, StepsAreReads
<1>2. CASE pc' = "done" /\ outcome' \in {"budget_exhausted", "tool_timeout"}
    <2>1. exchanges' = exchanges \/ exchanges' = Append(exchanges, last.action)
        BY DEF ReadTool, Exchange
    <2>2. exchanges' \in Seq(Tools)
        BY <1>1, <2>1
    <2> QED
        BY <1>2, <2>2 DEF StepsAreReads, ReadyOnlyOnDemandedReads
<1>3. CASE pc' = "turn" /\ outcome' = outcome /\ exchanges' = Append(exchanges, last.action)
    <2>1. exchanges' \in Seq(Tools) /\ steps' = exchanges'
        BY <1>1, <1>3
    <2> QED
        BY <1>1, <1>3, <2>1 DEF StepsAreReads, ReadyOnlyOnDemandedReads
<1> QED
    BY <1>2, <1>3 DEF ReadTool, Close, Continue, Exchange

LEMMA CandidateIsVerified ==
    ASSUME ResponseInv, BuildLiveCandidate
    PROVE  StepsAreReads'
<1>1. /\ UNCHANGED <<steps, exchanges>> /\ pc' = "done" /\ outcome = "open"
      /\ steps = Append(exchanges, "response_candidate") /\ exchanges \in Seq(Tools)
    BY DEF BuildLiveCandidate, ResponseInv, StepsAreReads, workflowVars, Close, Raise
<1>2. outcome' = "response_ready" => exchanges = RequiredTools
    BY <1>1 DEF BuildLiveCandidate, Close, Raise, Verified
<1>3. Append(RequiredTools, "response_candidate") = RequiredTools \o <<"response_candidate">>
    BY DEF RequiredTools
<1> QED
    BY <1>1, <1>2, <1>3 DEF StepsAreReads, ReadyOnlyOnDemandedReads

LEMMA ResponseNext == ResponseInv /\ [Next]_vars => ResponseInv'
<1> SUFFICES ASSUME ResponseInv, [Next]_vars PROVE StepsAreReads'
    BY BudgetNext DEF ResponseInv
<1>0. pc # "done" => outcome = "open"
    BY DEF ResponseInv, StepsAreReads
<1>1. CASE BeginTurn
    BY <1>1, UnrecordedSteps DEF BeginTurn, Close, Continue
<1>2. CASE ReserveProviderCall
    BY <1>2, UnrecordedSteps DEF ReserveProviderCall, Close, Continue
<1>3. CASE Propose
    BY <1>0, <1>3, UnrecordedSteps DEF Propose, Continue, Raise
<1>4. CASE Observe
    BY <1>4, ObserveIsUnrecorded
<1>5. CASE RecordAction
    BY <1>5, RecordActionKeepsStep
<1>6. CASE ReadTool
    BY <1>6, ReadToolKeepsStep
<1>7. CASE BuildLiveCandidate
    BY <1>7, CandidateIsVerified
<1>8. CASE InjectExhaustion
    BY <1>8, UnrecordedSteps DEF InjectExhaustion, Close
<1>9. CASE UNCHANGED vars
    BY <1>9 DEF vars, ResponseInv, StepsAreReads, ReadyOnlyOnDemandedReads
<1> QED
    BY <1>1, <1>2, <1>3, <1>4, <1>5, <1>6, <1>7, <1>8, <1>9 DEF Next

(* A response of a live attempt is ready only after the three tools were   *)
(* read in the order the verifier demands, by recorded actions and before  *)
(* the one candidate, whatever the model proposes and however often.       *)
THEOREM ReadyIsVerified == Spec => []ReadyOnlyOnDemandedReads
<1>1. ResponseInv => ReadyOnlyOnDemandedReads
    BY DEF ResponseInv, StepsAreReads
<1> QED
    BY <1>1, ResponseInit, ResponseNext, PTL DEF Spec
=============================================================================
