---------------------------- MODULE WorkflowState ----------------------------
(***************************************************************************)
(* The allowlisted state machine of a durable support workflow             *)
(* (weflow_control_kernel/workflow_state.py).  It is a pure table: every   *)
(* module that appends a checkpoint or a Case event consults it.           *)
(***************************************************************************)

RECEIVED             == "RECEIVED"
TICKET_READY         == "TICKET_READY"
INVESTIGATING        == "INVESTIGATING"
RESPONSE_READY       == "RESPONSE_READY"
AWAITING_APPROVAL    == "AWAITING_APPROVAL"
DELIVERING           == "DELIVERING"
DELIVERY_RECORDED    == "DELIVERY_RECORDED"
PAUSED               == "PAUSED"
WAITING_FOR_OPERATOR == "WAITING_FOR_OPERATOR"
NEEDS_RECONCILIATION == "NEEDS_RECONCILIATION"
CANCELLED            == "CANCELLED"

WORKFLOW_STATES ==
    {RECEIVED, TICKET_READY, INVESTIGATING, RESPONSE_READY, AWAITING_APPROVAL,
     DELIVERING, DELIVERY_RECORDED, PAUSED, WAITING_FOR_OPERATOR,
     NEEDS_RECONCILIATION, CANCELLED}

TERMINAL_STATES == {RESPONSE_READY, DELIVERY_RECORDED, CANCELLED}

TICKET_HANDOFF_COMPLETE     == "ticket-handoff-complete"
INVESTIGATION_STARTED       == "investigation-started"
RESPONSE_CANDIDATE_VERIFIED == "response-candidate-verified"
POLICY_APPROVAL_ACTIVATED   == "policy-approval-activated"
APPROVAL_GRANTED            == "approval-granted"
AUTHORIZATION_DENIED        == "authorization-denied"
DELIVERY_COMPLETE           == "delivery-complete"
PAUSE                       == "pause"
RESUME                      == "resume"
CANCEL                      == "cancel"
SLA_EXPIRED                 == "sla-expired"
RECONCILIATION_REQUIRED     == "reconciliation-required"
RECONCILIATION_COMPLETE     == "reconciliation-complete"

WORKFLOW_TRANSITION_KINDS ==
    {TICKET_HANDOFF_COMPLETE, INVESTIGATION_STARTED, RESPONSE_CANDIDATE_VERIFIED,
     POLICY_APPROVAL_ACTIVATED, APPROVAL_GRANTED, AUTHORIZATION_DENIED,
     DELIVERY_COMPLETE, PAUSE, RESUME, CANCEL, SLA_EXPIRED,
     RECONCILIATION_REQUIRED, RECONCILIATION_COMPLETE}

PAUSABLE_STATES ==
    {RECEIVED, TICKET_READY, INVESTIGATING, RESPONSE_READY, AWAITING_APPROVAL,
     DELIVERING, WAITING_FOR_OPERATOR}

(* The states from which each transition kind is allowed at all.           *)
AllowedSources(kind, resume, unresolved) ==
    CASE kind = TICKET_HANDOFF_COMPLETE     -> {RECEIVED}
      [] kind = INVESTIGATION_STARTED       -> {TICKET_READY}
      [] kind = RESPONSE_CANDIDATE_VERIFIED -> {INVESTIGATING}
      [] kind = POLICY_APPROVAL_ACTIVATED   -> {RESPONSE_READY}
      [] kind = APPROVAL_GRANTED            -> {AWAITING_APPROVAL}
      [] kind = AUTHORIZATION_DENIED        -> {AWAITING_APPROVAL, DELIVERING}
      [] kind = DELIVERY_COMPLETE           -> {DELIVERING}
      [] kind = PAUSE                       -> PAUSABLE_STATES
      [] kind = RESUME ->
            IF resume \in WORKFLOW_STATES \ {PAUSED, DELIVERY_RECORDED, CANCELLED}
            THEN {PAUSED} ELSE {}
      [] kind = CANCEL ->
            IF unresolved THEN {}
            ELSE WORKFLOW_STATES \ {CANCELLED, NEEDS_RECONCILIATION}
      [] kind = SLA_EXPIRED ->
            WORKFLOW_STATES \ (TERMINAL_STATES \cup {NEEDS_RECONCILIATION})
      [] kind = RECONCILIATION_REQUIRED -> WORKFLOW_STATES \ TERMINAL_STATES
      [] kind = RECONCILIATION_COMPLETE ->
            IF resume \in WORKFLOW_STATES \
                  {PAUSED, NEEDS_RECONCILIATION, DELIVERY_RECORDED, CANCELLED}
            THEN {NEEDS_RECONCILIATION} ELSE {}
      [] OTHER -> {}

(* Where a transition of the given kind leads.                             *)
TargetOf(kind, resume) ==
    CASE kind = TICKET_HANDOFF_COMPLETE     -> TICKET_READY
      [] kind = INVESTIGATION_STARTED       -> INVESTIGATING
      [] kind = RESPONSE_CANDIDATE_VERIFIED -> RESPONSE_READY
      [] kind = POLICY_APPROVAL_ACTIVATED   -> AWAITING_APPROVAL
      [] kind = APPROVAL_GRANTED            -> DELIVERING
      [] kind = AUTHORIZATION_DENIED        -> WAITING_FOR_OPERATOR
      [] kind = DELIVERY_COMPLETE           -> DELIVERY_RECORDED
      [] kind = PAUSE                       -> PAUSED
      [] kind = CANCEL                      -> CANCELLED
      [] kind = SLA_EXPIRED                 -> WAITING_FOR_OPERATOR
      [] kind = RECONCILIATION_REQUIRED     -> NEEDS_RECONCILIATION
      [] OTHER                              -> resume

(* allowed_targets: the legal target states of one durable fact or command. *)
AllowedTargets(current, kind, resume, unresolved) ==
    IF current \in AllowedSources(kind, resume, unresolved)
    THEN {TargetOf(kind, resume)} ELSE {}

(* validate_transition: whether the step is on the allowlist.              *)
TransitionAllowed(current, kind, next, resume, unresolved) ==
    /\ next \in WORKFLOW_STATES
    /\ next \in AllowedTargets(current, kind, resume, unresolved)
=============================================================================
