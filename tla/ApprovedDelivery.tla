--------------------------- MODULE ApprovedDelivery ---------------------------
(***************************************************************************)
(* The policy-approved delivery of one workflow                            *)
(* (weflow_control_kernel/durable_workflow.py and policy.py), from a       *)
(* verified candidate in RESPONSE_READY to DELIVERY_RECORDED: the opt-in,  *)
(* the capability grant, the policy decision, the authorization binding,   *)
(* the approval request, the approver's decision and the fixture-local     *)
(* outbound delivery with its reconciliation.                              *)
(*                                                                         *)
(* Workers run activate_policy_approval and recovery sweeps, approvers run *)
(* submit_approval_decision, in separate processes over one store.  As in  *)
(* DurableWorkflow every transaction is one action, and so are the reads   *)
(* between two transactions.  Hashes and identifiers are left out: within  *)
(* one workflow there is one candidate, one grant and one binding, so what *)
(* the hash comparisons tell apart is which policy decision a row was made *)
(* from, and whether the grant and the binding still hold.  The operator   *)
(* commands and the SLA deadline of DurableWorkflow are not repeated here; *)
(* the ticket effects are complete, and only delivery intents are listed.  *)
(***************************************************************************)
EXTENDS WorkflowState, Naturals, Sequences, FiniteSets

CONSTANTS
    Workers,        \* processes that run activations and recovery sweeps
    Approvers,      \* principals with the approver role
    Serialized,     \* TRUE: no process starts while another is at work
    MaxSweeps,      \* bound: activations and sweeps, where processes may overlap
    MaxSubmits,     \* bound: calls of submit_approval_decision
    MaxCrashes,     \* bound: process crashes
    MaxTimeouts,    \* bound: injected reconciliation timeouts
    MayExpire,      \* whether the clock may reach the expiry of grant and binding
    MayRevoke       \* whether the grant may be revoked

ASSUME PartyAssumption == Workers \cap Approvers = {}
ASSUME LimitAssumption ==
    /\ MaxSweeps \in Nat /\ MaxSubmits \in Nat /\ MaxCrashes \in Nat /\ MaxTimeouts \in Nat
    /\ Serialized \in BOOLEAN /\ MayExpire \in BOOLEAN /\ MayRevoke \in BOOLEAN

Procs == Workers \cup Approvers

VARIABLES
    optIn,          \* policy_approval_activations holds the row of this workflow
    grant,          \* capability_grants holds the row of this workflow
    revoked,        \* capability_grant_status_events revokes the grant
    decisions,      \* policy_decisions, in rowid order
    binding,        \* authorization_bindings holds the row, made from an allow decision
    request,        \* approval_requests holds the row
    approval,       \* approval_decisions: the row, or NoApproval
    intent,         \* outbound_delivery_intents holds the row
    deliveries,     \* fixture_delivery_records: number of rows
    observations,   \* outbound_delivery_observations
    completion,     \* outbound_delivery_completions: phase of its observation, or "none"
    grantExpired, bindingExpired,          \* the clock has reached expires_at
    sweeps, submits, crashes, timeouts,    \* what the bounds count
    journal, events, pc, reg, result       \* as in WorkflowJournal

policyVars   == <<optIn, grant, revoked, decisions, binding, request, approval>>
deliveryVars == <<intent, deliveries, observations, completion>>
clockVars    == <<grantExpired, bindingExpired>>
boundVars    == <<sweeps, submits, crashes, timeouts>>
vars == <<policyVars, deliveryVars, clockVars, boundVars, journal, events, pc, reg, result>>

-----------------------------------------------------------------------------
(* Records.                                                                *)

DELIVERY == "outbound-delivery"    \* the one delivery intent of the workflow

Decisions  == [granted : BOOLEAN, allow : BOOLEAN]
NoDecision == [granted |-> FALSE, allow |-> FALSE]
Votes      == {"approved", "rejected"}
NoApproval == [vote |-> "none", by |-> "none"]
Phases     == {"reconcile", "reconcile-timeout", "execute"}
Statuses   == {"absent", "present", "unknown", "conflict"}

Causes == {"none", "candidate", "approval-request", "approval", "approval-invalid",
           "authorization-denied", "delivery-intent", "delivery-completion",
           "delivery-reconciliation", "delivery-reconciled"}
Checkpoint(state, cause, kind) ==
    [state |-> state, resume |-> state, pending |-> {}, completed |-> {},
     cause |-> cause, kind |-> kind]

NoRegisters == [at |-> 0, base |-> 0, want |-> Checkpoint(RECEIVED, "none", "none"),
                ret |-> "idle", cont |-> "idle", from |-> RECEIVED, row |-> NoDecision,
                vote |-> "none", phase |-> "reconcile", status |-> "unknown",
                driving |-> FALSE]

(* Checkpoints, transitions and Case events of this workflow.              *)
INSTANCE WorkflowJournal

(* _all_pending_intent_ids and _all_completed_intent_ids, delivery part.   *)
Pending   == IF intent /\ completion = "none" THEN {DELIVERY} ELSE {}
Completed == IF completion = "none" THEN {} ELSE {DELIVERY}

MayStart(p) ==
    /\ pc[p] = "idle"
    /\ Serialized => \A q \in Procs : pc[q] = "idle"

-----------------------------------------------------------------------------
(* What rebuild_workflow_projection accepts.                               *)

GatedStates == {AWAITING_APPROVAL, DELIVERING, DELIVERY_RECORDED}
StatesSeen  == {journal[i].state : i \in 1..Len(journal)}

(* The rows of the binding and the approval in _validate_change4_source,   *)
(* each with the row it was made from.                                     *)
ApprovalRowsValid ==
    /\ binding => grant /\ decisions # <<>> /\ decisions[1].granted
    /\ request => binding
    /\ approval # NoApproval => request

(* _validate_fixture_delivery_source                                       *)
FixtureDeliveryValid == deliveries > 0 => intent

(* _validate_change4_source: at most one row of each kind, and all of them *)
(* behind a gated state.                                                   *)
PolicySourceValid ==
    /\ ~optIn => /\ StatesSeen \cap GatedStates = {} /\ decisions = <<>>
                 /\ ~grant /\ ~binding /\ ~request /\ approval = NoApproval /\ ~intent
    /\ Len(decisions) <= 1
    /\ ApprovalRowsValid
    /\ StatesSeen \cap GatedStates # {} => grant /\ decisions # <<>> /\ binding /\ request
    /\ FixtureDeliveryValid

(* validate_outbound_delivery_chain                                        *)
DeliveryChainValid ==
    /\ intent => binding
    /\ completion # "none" => [phase |-> completion, status |-> "present"] \in observations

JournalValid ==
    /\ \A i \in 2..Len(journal) : ValidSuccessor(journal[i-1], journal[i])
    /\ \A i \in 1..Len(journal) : journal[i].pending \cap journal[i].completed = {}
    /\ Latest.pending \cup Latest.completed \subseteq Pending \cup Completed
    /\ Latest.completed \subseteq Completed
    /\ DeliveryChainValid
    /\ PolicySourceValid

-----------------------------------------------------------------------------
(* The checkpoint transaction and the Case event of every transition.      *)

AppendCheckpoint(p) ==
    /\ AppendRow(p)
    /\ UNCHANGED <<policyVars, deliveryVars, clockVars, boundVars>>

SyncCaseState(p) ==
    /\ ReadCaseState(p)
    /\ UNCHANGED <<policyVars, deliveryVars, clockVars, boundVars, journal, events>>

AppendWorkflowStateEvent(p) ==
    /\ AppendStateEvent(p)
    /\ UNCHANGED <<policyVars, deliveryVars, clockVars, boundVars>>

(* The part of a step that only reads the store.                           *)
ReadsOnly == UNCHANGED <<policyVars, deliveryVars, clockVars, boundVars, journal, events>>

Keep(p, r, kind, next, cause, cont) ==
    Transition(p, r, kind, next, next, cause, journal[r.at].pending,
               journal[r.at].completed, cont)

-----------------------------------------------------------------------------
(* Starting: activate_policy_approval, and recover_workflow on a workflow  *)
(* that has got this far.                                                  *)

Begin(p) ==
    /\ p \in Workers /\ MayStart(p)
    /\ result' = [result EXCEPT ![p] = "none"]
    /\ Serialized \/ sweeps < MaxSweeps
    /\ sweeps' = IF Serialized THEN sweeps ELSE sweeps + 1
    /\ UNCHANGED <<policyVars, deliveryVars, clockVars, submits, crashes, timeouts,
                   journal, events, reg>>

(* activate_policy_approval: the opt-in is asked for only in               *)
(* RESPONSE_READY; later calls go on with the one that exists.             *)
ActivatePolicyApproval(p) ==
    /\ Begin(p)
    /\ Latest.state = RESPONSE_READY \/ optIn
    /\ pc' = [pc EXCEPT ![p] = IF Latest.state = RESPONSE_READY THEN "optin" ELSE "grant"]

(* _ensure_policy_approval_activation                                      *)
EnsurePolicyApprovalActivation(p) ==
    /\ pc[p] = "optin"
    /\ optIn' = TRUE
    /\ Goto(p, "grant", reg[p])
    /\ UNCHANGED <<grant, revoked, decisions, binding, request, approval, deliveryVars,
                   clockVars, boundVars, journal, events>>

StartSweep(p) ==
    /\ Begin(p)
    /\ pc' = [pc EXCEPT ![p] = "rebuild"]

(* recover_workflow: rebuild, then finish an interrupted Case event.       *)
RecoverWorkflow(p) ==
    /\ pc[p] = "rebuild"
    /\ IF JournalValid
       THEN Goto(p, "sync", [reg[p] EXCEPT !.at = Len(journal), !.cont = "dispatch"])
       ELSE Stop(p, "policy_journal_invalid")
    /\ ReadsOnly

(* recover_workflow rebuilds again; _recover_workflow then dispatches on   *)
(* the latest checkpoint.  A workflow that never opted in stays inert.     *)
Dispatch(p) ==
    /\ pc[p] = "dispatch"
    /\ LET r == [reg[p] EXCEPT !.at = Len(journal)] IN
       \/ /\ ~JournalValid
          /\ Stop(p, "policy_journal_invalid")
       \/ /\ JournalValid /\ Latest.state = NEEDS_RECONCILIATION
          /\ Goto(p, "process", r)
       \/ /\ JournalValid /\ optIn
          /\ Latest.state \in {RESPONSE_READY, AWAITING_APPROVAL, DELIVERING}
          /\ Goto(p, "grant", r)
       \/ /\ JournalValid
          /\ \/ Latest.state \in {WAITING_FOR_OPERATOR, DELIVERY_RECORDED}
             \/ Latest.state = RESPONSE_READY /\ ~optIn
          /\ Goto(p, "finish", NoRegisters)
    /\ ReadsOnly

(* get_workflow_projection, which every branch ends with.                  *)
Finish(p) ==
    /\ pc[p] = "finish"
    /\ Stop(p, IF JournalValid THEN "ok" ELSE "policy_journal_invalid")
    /\ ReadsOnly

-----------------------------------------------------------------------------
(* _recover_policy_approval: grant, policy decision, binding, request.     *)

(* _ensure_fixture_grant                                                   *)
EnsureFixtureGrant(p) ==
    /\ pc[p] = "grant"
    /\ grant' = TRUE
    /\ Goto(p, "evaluate", reg[p])
    /\ UNCHANGED <<optIn, revoked, decisions, binding, request, approval, deliveryVars,
                   clockVars, boundVars, journal, events>>

(* evaluate_fixture_policy, on the grant as it is now: a revoked grant is  *)
(* not part of the policy input, an expired one is but is denied.          *)
EvaluateFixturePolicy(p) ==
    /\ pc[p] = "evaluate"
    /\ Goto(p, "decide", [reg[p] EXCEPT !.row = [granted |-> ~revoked,
                                                 allow |-> ~revoked /\ ~grantExpired]])
    /\ ReadsOnly

(* Mutant: every evaluation is stored.                                     *)
DecideAgain(p) ==
    /\ pc[p] = "decide"
    /\ decisions' = Append(decisions, reg[p].row)
    /\ Goto(p, IF reg[p].row.allow THEN "bind" ELSE "finish", [reg[p] EXCEPT !.row = NoDecision])
    /\ UNCHANGED <<optIn, grant, revoked, binding, request, approval, deliveryVars,
                   clockVars, boundVars, journal, events>>

(* _ensure_policy_decision: one row per policy input; an existing row wins *)
(* over the evaluation just made.                                          *)
EnsurePolicyDecision(p) ==
    /\ pc[p] = "decide"
    /\ LET row == reg[p].row
           same == {i \in 1..Len(decisions) : decisions[i].granted = row.granted}
           allow == IF same = {} THEN row.allow ELSE \E i \in same : decisions[i].allow IN
       /\ decisions' = IF same = {} THEN Append(decisions, row) ELSE decisions
       /\ Goto(p, IF allow THEN "bind" ELSE "finish", [reg[p] EXCEPT !.row = NoDecision])
    /\ UNCHANGED <<optIn, grant, revoked, binding, request, approval, deliveryVars,
                   clockVars, boundVars, journal, events>>

(* _ensure_authorization_binding                                           *)
EnsureAuthorizationBinding(p) ==
    /\ pc[p] = "bind"
    /\ binding' = TRUE
    /\ Goto(p, "request", reg[p])
    /\ UNCHANGED <<optIn, grant, revoked, decisions, request, approval, deliveryVars,
                   clockVars, boundVars, journal, events>>

(* _ensure_approval_request                                                *)
EnsureApprovalRequest(p) ==
    /\ pc[p] = "request"
    /\ request' = TRUE
    /\ Goto(p, "enter", reg[p])
    /\ UNCHANGED <<optIn, grant, revoked, decisions, binding, approval, deliveryVars,
                   clockVars, boundVars, journal, events>>

(* _recover_policy_approval after the request: what the latest checkpoint  *)
(* calls for.                                                              *)
EnterApproval(p) ==
    /\ pc[p] = "enter"
    /\ LET r == [reg[p] EXCEPT !.at = Len(journal)] IN
       CASE Latest.state = RESPONSE_READY ->
              Keep(p, r, POLICY_APPROVAL_ACTIVATED, AWAITING_APPROVAL, "approval-request",
                   "decision")
         [] Latest.state = AWAITING_APPROVAL -> Goto(p, "decision", r)
         [] Latest.state = DELIVERING -> Goto(p, "deliver", r)
         [] OTHER -> Goto(p, "finish", NoRegisters)
    /\ ReadsOnly

(* Mutant: recovery waits for the approver although the decision is there. *)
ForgetDecision(p) ==
    /\ pc[p] = "decision"
    /\ Goto(p, "finish", NoRegisters)
    /\ ReadsOnly

(* _approval_decision_for_request: without a decision the workflow waits.  *)
ReadDecision(p) ==
    /\ pc[p] = "decision"
    /\ IF approval = NoApproval THEN Goto(p, "finish", NoRegisters)
       ELSE Goto(p, "decided", reg[p])
    /\ ReadsOnly

-----------------------------------------------------------------------------
(* The decision and the delivery gate.                                     *)

(* Mutant: any decision counts as an approval.                             *)
AnyVote(a) == a # NoApproval

(* validate_hash_bound_approval, the vote: only "approved" grants.         *)
Approved(a) == a.vote = "approved"

(* validate_change4_authorization_profile: neither the grant nor the       *)
(* binding (nor the approval, which ends with it) has expired, and the     *)
(* latest policy decision is the allow the binding was made from.          *)
AuthorizationProfileValid ==
    ~grantExpired /\ ~bindingExpired /\ decisions[Len(decisions)].allow

(* Mutant: the profile is taken to last once it was bound.                 *)
ProfileBound == binding

(* _authorization_profile_is_current: the grant has no revocation, and the *)
(* profile is still valid.                                                 *)
ProfileCurrent == ~revoked /\ AuthorizationProfileValid

(* _apply_persisted_approval_decision, on the checkpoint in hand.          *)
ApplyDecision(p) ==
    /\ pc[p] = "decided"
    /\ LET r == reg[p] IN
       IF journal[r.at].state # AWAITING_APPROVAL
       THEN Goto(p, "finish", NoRegisters)
       ELSE IF ~Approved(approval)
       THEN Keep(p, r, AUTHORIZATION_DENIED, WAITING_FOR_OPERATOR, "approval", "finish")
       ELSE IF ~ProfileCurrent
       THEN Keep(p, r, AUTHORIZATION_DENIED, WAITING_FOR_OPERATOR, "approval-invalid", "finish")
       ELSE Keep(p, r, APPROVAL_GRANTED, DELIVERING, "approval", "deliver")
    /\ ReadsOnly

(* _recover_delivery up to the intent: everything is checked again, and a  *)
(* failed check ends in _authorization_denial_projection.                  *)
RecoverDelivery(p) ==
    /\ pc[p] = "deliver"
    /\ LET r == reg[p] IN
       IF journal[r.at].state # DELIVERING
       THEN Goto(p, "finish", NoRegisters)
       ELSE IF Approved(approval) /\ ProfileCurrent
       THEN Goto(p, "intent", [r EXCEPT !.driving = TRUE])
       ELSE Transition(p, r, AUTHORIZATION_DENIED, WAITING_FOR_OPERATOR,
                       WAITING_FOR_OPERATOR, "authorization-denied", Pending, Completed,
                       "finish")
    /\ ReadsOnly

(* _ensure_delivery_intent                                                 *)
EnsureDeliveryIntent(p) ==
    /\ pc[p] = "intent"
    /\ intent' = TRUE
    /\ Goto(p, "mark", reg[p])
    /\ UNCHANGED <<policyVars, deliveries, observations, completion, clockVars, boundVars,
                   journal, events>>

(* _recover_delivery: a progress checkpoint of the delivery.               *)
MarkDelivery(p, cause, ret) ==
    EnsureCheckpoint(p, reg[p],
                     [Checkpoint(DELIVERING, cause, "none") EXCEPT !.pending = Pending,
                                                                   !.completed = Completed],
                     ret, "idle")

MarkIntent(p) ==
    /\ pc[p] = "mark"
    /\ MarkDelivery(p, "delivery-intent", "process")
    /\ ReadsOnly

AfterProcess(r) == IF r.driving THEN "driven" ELSE "reconciled"

(* _reconcile_delivery_intent: look the natural key up before sending.     *)
Reconciled ==
    CASE deliveries = 0 -> "absent"
      [] deliveries = 1 -> "present"
      [] OTHER          -> "conflict"

(* _process_delivery_intent up to its first write.                         *)
ProcessDeliveryIntent(p) ==
    /\ pc[p] = "process"
    /\ \/ /\ completion # "none"
          /\ Goto(p, AfterProcess(reg[p]), reg[p])
          /\ UNCHANGED timeouts
       \/ /\ completion = "none"
          /\ Goto(p, "observe", [reg[p] EXCEPT !.status = Reconciled, !.phase = "reconcile"])
          /\ UNCHANGED timeouts
       \/ /\ completion = "none" /\ timeouts < MaxTimeouts
          /\ Goto(p, "observe", [reg[p] EXCEPT !.status = "unknown",
                                               !.phase = "reconcile-timeout"])
          /\ timeouts' = timeouts + 1
    /\ UNCHANGED <<policyVars, deliveryVars, clockVars, sweeps, submits, crashes,
                   journal, events>>

(* Mutant: a lost answer is taken for a delivery.                          *)
TrustTheSend(r) ==
    IF r.status \in {"present", "unknown"} THEN "complete"
    ELSE IF r.status = "absent" THEN "execute"
    ELSE IF r.driving THEN "block" ELSE "finish"

(* Where _process_delivery_intent goes with an observation.                *)
AfterObservation(r) ==
    CASE r.status = "present" -> "complete"
      [] r.status = "absent"  -> "execute"
      [] r.status \notin {"present", "absent"} -> IF r.driving THEN "block" ELSE "finish"

(* _record_delivery_observation                                            *)
RecordDeliveryObservation(p) ==
    /\ pc[p] = "observe"
    /\ observations' = observations \cup {[phase |-> reg[p].phase, status |-> reg[p].status]}
    /\ Goto(p, AfterObservation(reg[p]), reg[p])
    /\ UNCHANGED <<policyVars, intent, deliveries, completion, clockVars, boundVars,
                   journal, events>>

(* Mutant: the adapter sends without looking for an earlier record.        *)
SendAgain(p) ==
    /\ pc[p] = "execute"
    /\ deliveries' = deliveries + 1
    /\ Goto(p, "observe", [reg[p] EXCEPT !.status = "present", !.phase = "execute"])
    /\ UNCHANGED <<policyVars, intent, observations, completion, clockVars, boundVars,
                   journal, events>>

(* _execute_delivery_intent: one transaction, idempotent on the natural    *)
(* key.                                                                    *)
ExecuteDeliveryIntent(p) ==
    /\ pc[p] = "execute"
    /\ deliveries' = IF deliveries = 0 THEN 1 ELSE deliveries
    /\ Goto(p, "observe", [reg[p] EXCEPT !.status = "present", !.phase = "execute"])
    /\ UNCHANGED <<policyVars, intent, observations, completion, clockVars, boundVars,
                   journal, events>>

(* _record_delivery_completion: the first row wins, later callers get it.  *)
RecordDeliveryCompletion(p) ==
    /\ pc[p] = "complete"
    /\ completion' = IF completion = "none" THEN reg[p].phase ELSE completion
    /\ Goto(p, AfterProcess(reg[p]), [reg[p] EXCEPT !.status = "unknown",
                                                    !.phase = "reconcile"])
    /\ UNCHANGED <<policyVars, intent, deliveries, observations, clockVars, boundVars,
                   journal, events>>

(* _recover_delivery: an outcome that is not known blocks the workflow.    *)
BlockDelivery(p) ==
    /\ pc[p] = "block"
    /\ Transition(p, reg[p], RECONCILIATION_REQUIRED, NEEDS_RECONCILIATION, DELIVERING,
                  "delivery-reconciliation", Pending, Completed, "finish")
    /\ ReadsOnly

MarkCompletion(p) ==
    /\ pc[p] = "driven"
    /\ MarkDelivery(p, "delivery-completion", "record")
    /\ ReadsOnly

RecordDelivery(p) ==
    /\ pc[p] = "record"
    /\ Keep(p, reg[p], DELIVERY_COMPLETE, DELIVERY_RECORDED, "delivery-completion", "finish")
    /\ ReadsOnly

(* _recover_delivery_reconciliation once the intent is complete.           *)
FinishReconciliation(p) ==
    /\ pc[p] = "reconciled"
    /\ Transition(p, reg[p], RECONCILIATION_COMPLETE, DELIVERING, DELIVERING,
                  "delivery-reconciled", Pending, Completed, "deliver")
    /\ ReadsOnly

-----------------------------------------------------------------------------
(* submit_approval_decision                                                *)

(* The checks before the transaction, on one read of the store.  An        *)
(* approver names the version it saw, the latest or one before it.         *)
SubmitApprovalDecision(a) ==
    /\ a \in Approvers /\ MayStart(a) /\ request
    /\ submits < MaxSubmits
    /\ submits' = submits + 1
    /\ \E vote \in Votes, expected \in {Len(journal) - 1, Len(journal)} :
       LET r == [NoRegisters EXCEPT !.at = Len(journal)] IN
       \/ /\ approval = [vote |-> vote, by |-> a]
          /\ Goto(a, "decided", r)
       \/ /\ approval \notin {NoApproval, [vote |-> vote, by |-> a]}
          /\ Stop(a, "approval_decision_conflict")
       \/ /\ approval = NoApproval /\ expected # Len(journal)
          /\ Stop(a, "workflow_version_conflict")
       \/ /\ approval = NoApproval /\ expected = Len(journal)
          /\ Latest.state # AWAITING_APPROVAL
          /\ Stop(a, "approval_decision_not_available")
       \/ /\ approval = NoApproval /\ expected = Len(journal)
          /\ Latest.state = AWAITING_APPROVAL
          /\ Goto(a, "vote", [r EXCEPT !.vote = vote])
    /\ UNCHANGED <<policyVars, deliveryVars, clockVars, sweeps, crashes, timeouts,
                   journal, events>>

(* _persist_approval_decision: the first decision of a request stands.     *)
PersistApprovalDecision(a) ==
    /\ pc[a] = "vote"
    /\ \/ /\ approval = NoApproval
          /\ approval' = [vote |-> reg[a].vote, by |-> a]
          /\ Goto(a, "decided", [reg[a] EXCEPT !.vote = "none"])
       \/ /\ approval # NoApproval
          /\ UNCHANGED approval
          /\ Stop(a, "approval_decision_conflict")
    /\ UNCHANGED <<optIn, grant, revoked, decisions, binding, request, deliveryVars,
                   clockVars, boundVars, journal, events>>

-----------------------------------------------------------------------------
(* The environment.                                                        *)

(* revoke_fixture_grant                                                    *)
RevokeFixtureGrant ==
    /\ MayRevoke /\ grant /\ ~revoked
    /\ revoked' = TRUE
    /\ UNCHANGED <<optIn, grant, decisions, binding, request, approval, deliveryVars,
                   clockVars, boundVars, journal, events, pc, reg, result>>

(* The clock reaches expires_at of the grant or of the binding: 30 minutes *)
(* after the one was issued, 15 after the other, so either may come first. *)
Expire ==
    /\ MayExpire
    /\ \/ grant /\ ~grantExpired /\ grantExpired' = TRUE /\ UNCHANGED bindingExpired
       \/ binding /\ ~bindingExpired /\ bindingExpired' = TRUE /\ UNCHANGED grantExpired
    /\ UNCHANGED <<policyVars, deliveryVars, boundVars, journal, events, pc, reg, result>>

(* A process stops between two transactions.                               *)
Crash(p) ==
    /\ pc[p] # "idle" /\ crashes < MaxCrashes
    /\ crashes' = crashes + 1
    /\ Stop(p, "interrupted")
    /\ UNCHANGED <<policyVars, deliveryVars, clockVars, sweeps, submits, timeouts,
                   journal, events>>

(* The workflow as the investigation left it: a verified candidate.        *)
Init ==
    /\ optIn = FALSE /\ grant = FALSE /\ revoked = FALSE /\ decisions = <<>>
    /\ binding = FALSE /\ request = FALSE /\ approval = NoApproval
    /\ intent = FALSE /\ deliveries = 0 /\ observations = {} /\ completion = "none"
    /\ grantExpired = FALSE /\ bindingExpired = FALSE
    /\ sweeps = 0 /\ submits = 0 /\ crashes = 0 /\ timeouts = 0
    /\ journal = <<Checkpoint(INVESTIGATING, "candidate", INVESTIGATION_STARTED),
                   Checkpoint(RESPONSE_READY, "candidate", RESPONSE_CANDIDATE_VERIFIED)>>
    /\ events = <<[at |-> 2, from |-> INVESTIGATING, to |-> RESPONSE_READY]>>
    /\ pc = [p \in Procs |-> "idle"]
    /\ reg = [p \in Procs |-> NoRegisters]
    /\ result = [p \in Procs |-> "none"]

JournalStep(p) ==
    AppendCheckpoint(p) \/ SyncCaseState(p) \/ AppendWorkflowStateEvent(p)

PolicyStep(p) ==
    EnsurePolicyApprovalActivation(p) \/ RecoverWorkflow(p) \/ Dispatch(p) \/ Finish(p)
      \/ EnsureFixtureGrant(p) \/ EvaluateFixturePolicy(p) \/ EnsurePolicyDecision(p)
      \/ EnsureAuthorizationBinding(p) \/ EnsureApprovalRequest(p) \/ EnterApproval(p)
      \/ ReadDecision(p) \/ PersistApprovalDecision(p) \/ ApplyDecision(p)

DeliveryStep(p) ==
    RecoverDelivery(p) \/ EnsureDeliveryIntent(p) \/ MarkIntent(p)
      \/ ProcessDeliveryIntent(p) \/ RecordDeliveryObservation(p)
      \/ ExecuteDeliveryIntent(p) \/ RecordDeliveryCompletion(p) \/ BlockDelivery(p)
      \/ MarkCompletion(p) \/ RecordDelivery(p) \/ FinishReconciliation(p)

Step(p) == JournalStep(p) \/ PolicyStep(p) \/ DeliveryStep(p)

Next ==
    \/ RevokeFixtureGrant \/ Expire
    \/ \E p \in Procs : \/ ActivatePolicyApproval(p) \/ StartSweep(p)
                        \/ SubmitApprovalDecision(p) \/ Step(p) \/ Crash(p)

Spec == Init /\ [][Next]_vars

(* A process that is at work goes on or crashes, and sweeps are started    *)
(* again and again, whatever activations and submissions come in between.  *)
(* Nobody has to opt in or to decide.                                      *)
Fairness ==
    /\ \A p \in Procs : WF_vars(Step(p))
    /\ \A w \in Workers : SF_vars(StartSweep(w))

FairSpec == Spec /\ Fairness

-----------------------------------------------------------------------------
(* Types.                                                                  *)

Labels ==
    {"idle", "append", "sync", "event", "optin", "rebuild", "dispatch", "finish",
     "grant", "evaluate", "decide", "bind", "request", "enter", "decision", "vote",
     "decided", "deliver", "intent", "mark", "process", "observe", "execute",
     "complete", "block", "driven", "record", "reconciled"}

Results ==
    {"none", "ok", "interrupted", "policy_journal_invalid",
     "workflow_checkpoint_effect_overlap", "workflow_checkpoint_predecessor_invalid",
     "workflow_transition_not_allowed", "workflow_event_conflict",
     "workflow_event_predecessor_mismatch", "workflow_version_conflict",
     "approval_decision_conflict", "approval_decision_not_available"}

Checkpoints ==
    [state : WORKFLOW_STATES, resume : WORKFLOW_STATES, pending : SUBSET {DELIVERY},
     completed : SUBSET {DELIVERY}, cause : Causes,
     kind : WORKFLOW_TRANSITION_KINDS \cup {"none"}]

Registers ==
    [at : Nat, base : Nat, want : Checkpoints, ret : Labels, cont : Labels,
     from : WORKFLOW_STATES, row : Decisions, vote : Votes \cup {"none"},
     phase : Phases, status : Statuses, driving : BOOLEAN]

(* Every table of the store and every register holds a record of its kind. *)
TypeOK ==
    /\ {optIn, grant, revoked, binding, request, intent, grantExpired, bindingExpired}
         \subseteq BOOLEAN
    /\ decisions \in Seq(Decisions)
    /\ approval \in [vote : Votes, by : Approvers] \cup {NoApproval}
    /\ deliveries \in Nat /\ observations \subseteq [phase : Phases, status : Statuses]
    /\ completion \in Phases \cup {"none"}
    /\ journal \in Seq(Checkpoints)
    /\ events \in Seq([at : Nat, from : WORKFLOW_STATES, to : WORKFLOW_STATES])
    /\ {sweeps, submits, crashes, timeouts} \subseteq Nat
    /\ pc \in [Procs -> Labels] /\ reg \in [Procs -> Registers]
    /\ result \in [Procs -> Results]

-----------------------------------------------------------------------------
(* Safety.                                                                 *)

(* The adapter holds at most one record of the delivery, whichever of the  *)
(* racing sweeps and approvers reaches _execute_delivery_intent, and       *)
(* however often a crash makes them try again.                             *)
DeliveredOnce == deliveries <= 1

(* Nothing is delivered but under an intent, after an approver's "approved"*)
(* became the persisted decision and a checkpoint granted the delivery:    *)
(* no race of two votes, and no recovery, gets around                      *)
(* _apply_persisted_approval_decision.                                     *)
DeliveredOnlyApproved ==
    deliveries > 0 =>
        /\ intent /\ approval.vote = "approved"
        /\ \E i \in 1..Len(journal) : journal[i].kind = APPROVAL_GRANTED

(* The journal passes the validation that rebuild_workflow_projection runs *)
(* before every recovery: what a crash, an expiry or a late decision       *)
(* leaves behind never blocks the next sweep.                              *)
PolicyJournalStaysValid == JournalValid

Lapsed   == revoked \/ grantExpired \/ bindingExpired
AllIdle  == \A p \in Procs : pc[p] = "idle"

(* An authorization that lapsed while nobody was at work starts no         *)
(* delivery any more, whoever approves it and however it is recovered.     *)
LapsedStartsNoDelivery ==
    [](Lapsed /\ AllIdle /\ ~intent => []~intent)

(* An authorization that lapsed while nobody was at work, before the       *)
(* adapter delivered, is never used to deliver.                            *)
LapsedNeverDelivers ==
    [](Lapsed /\ AllIdle /\ deliveries = 0 => [](deliveries = 0))

-----------------------------------------------------------------------------
(* The delivery implements EffectOnce with one effect that builds on none. *)

NoEffect(e) == {}

Delivery == INSTANCE EffectOnce WITH
    Effects <- {DELIVERY}, Requires <- NoEffect,
    intended <- IF intent THEN {DELIVERY} ELSE {},
    executed <- IF deliveries > 0 THEN {DELIVERY} ELSE {},
    completed <- Completed

(* The delivery is intended, executed once and only then known complete,   *)
(* under crashes, lost answers and racing processes.                       *)
ImplementsDeliveryOnce == Delivery!Spec

-----------------------------------------------------------------------------
Settled == Latest.state \in {DELIVERY_RECORDED, WAITING_FOR_OPERATOR}
Stuck   == \E p \in Procs : result[p] = "workflow_event_predecessor_mismatch"

(* A decision takes effect: the response is delivered and recorded, or the *)
(* workflow is handed to an operator, even when submit_approval_decision   *)
(* stopped right after it persisted the decision.  The only thing that     *)
(* keeps it from it is a Case event that a crash left out and              *)
(* _append_workflow_state_event then refuses.                              *)
DecisionTakesEffectUnlessStuck == (approval # NoApproval) ~> (Settled \/ Stuck)
=============================================================================
