# A TLA+ model of WeFlow

WeFlow turns an inbound support message into a *Case*, runs a durable workflow over it (ticket
effects, a bounded investigation, a policy-gated and human-approved delivery) and lets operators
pause, resume and cancel it. Everything is kept in one SQLite store with append-only tables. Several
operating-system processes work on that store without knowing of each other, and each of them may be
killed at any point. The promise of the code is that re-running recovery from the rows alone always
leads on, never repeats an effect, and never claims an effect that did not happen. This project
models that promise and checks it.

Paths below are relative to the repository. `K` stands for
`packages/python/weflow-control-kernel/src/weflow_control_kernel`.

## 1. Inventory

| component | state it keeps | operations |
|---|---|---|
| Workflow state table, `K/workflow_state.py` | none (a table) | `allowed_targets`, `validate_transition` |
| Durable workflow runner, `K/durable_workflow.py` | activations, checkpoints, ticket intents / observations / completions, fixture ticket, SLA events, commands | `activate_case`, `recover_all`, `recover_workflow`, `submit_command`, snapshots |
| Investigation, `durable_workflow.py` and `apps/agent-runtime/.../investigation.py` | investigation activation, agent steps, tool requests and results, candidates, verifier outcomes | `run_investigation_replay` and the `record_*` calls, `verify_response_candidate`, `_recover_investigation` |
| Policy approval and simulated delivery, `durable_workflow.py`, `K/policy.py`, `weflow_contracts/authorization.py` | opt-in, grant and its status events, policy decisions, binding, approval request and decision, delivery intent / observation / completion / record | `activate_policy_approval`, `submit_approval_decision`, `revoke_fixture_grant`, recovery |
| Case ledger, `K/ledger.py` | receipts, Cases, revisions, business events, conversation cursors, projection | `intake`, `intake_qq`, `_append_workflow_state_event`, `rebuild_projection`, snapshots |
| QQ sandbox adapter, `K/qq_sandbox.py`, `apps/control-worker/.../qq_runner.py`, `qq_adapter.py` | gateway cursor, acknowledgement intents / observations / completions, reply locators; per process: session, last sequence number | `run_one`, `accept`, `record_cursor`, `process`, `recoverable_intent_ids` |
| QQ group pairing, `K/qq_pairing.py`, `apps/control-worker/.../qq_pairing_runner.py` | challenges and their lifecycle, completions, locators; per process: the text of its challenge | `record_challenge`, `complete`, `expire_challenge`, `purge_expired`, `resolve`, `revoke` |
| QQ human handler, `K/qq_handler.py`, `qq_handler_service.py`, `apps/control-worker/.../qq_handler_runner.py`, `qq_handler_adapter.py` | handler sessions, observations, bindings; the handler's Case, artifacts, candidates, approval requests and decisions, the notification, recorded commands, passive intents and results | pairing of a handler; `handle_private_event`, `handle_group_approval`, `execute_notification`, `execute_passive_reply`, `delete_artifacts` |
| QQ model workflow, `K/qq_model.py`, `apps/agent-runtime/.../qq_model.py`, `apps/control-worker/.../qq_model_runner.py` | assist requests, contexts, invocation intents and observations, actions, tool results, budget snapshots, candidate bindings, outcomes; per run: usage and what was read | the assist command and its recovery, `BoundedQQModelAssistRuntime.run` / `safe_stop`, `create_model_candidate`, `create_outcome`, the approval check |
| Live model runtime, `apps/agent-runtime/.../live_*.py` | one attempt: its budget account, turns, invocations, actions, exchanges | `reserve_provider_call`, `propose`, `settle_provider_call`, `record_agent_action`, `record_tool_exchange`, `close_attempt` |
| Evidence trajectory, `K/evidence_trajectory.py` | an export of facts the others wrote | append, inspect |
| Temporal driver, control worker, platform API | none of their own | drive `recover_workflow`, `recover_all`, `submit_command`, `submit_approval_decision` |
| Business simulator, web console, testkit, SDK, telemetry, scripts | fixtures and reports | presentation and development tools |

**How they interact.** All of them meet in the store. Recovery sweeps come from
`control-worker --run-once` or from the Temporal activity `recover_durable_workflow`; commands and
approval decisions come from the platform API in another process; the agent runtime replays an
investigation in a third; the QQ runner brings Cases in. The QQ stages build on each other through
their stores: the group pairing names the group, the handler's binding is made under a pairing, the
handler's workflow runs for a binding, and the model workflow adds one command to it. Each call is a chain of short
`BEGIN IMMEDIATE` transactions with reads in between, and ends with a rebuilt projection. The
workflow tells the Case ledger of each transition after the transition is stored.

**What is hard.** (a) A process may stop between two transactions, and recovery has to finish what
is half done: a checkpoint without its Case event, an effect without its completion, a command or a
decision without its checkpoint. (b) Two sweeps, or a sweep and a command, interleave between
transactions, so what one read is stale when it writes. (c) Effects may time out with an unknown
outcome. (d) Clocks pass: the SLA deadline, the expiry of grant, binding and QQ reply. (e) A journal
that its own validation rejects ends all progress, because every call validates it first. (f) The QQ
gateway repeats, renumbers and may lose frames, and so do the handler's messages. (g) A model provider
may answer anything, not at all, or bill more than was reserved for it.

The properties that make each component correct are those of section 4; the hazards they are for,
with their lines, are listed in `PROJECT.json`.

## 2. Modules

```
WorkflowState     the state table                    (workflow_state.py)
WorkflowJournal   checkpoints, transitions, Case events, shared by the workflow modules
EffectOnce        abstract: intended, executed once, then known complete
DurableWorkflow   activation to TICKET_READY, sweeps, SLA, operator commands
  DurableWorkflowProofs        TypeOK, the effect theorems and the refinement of EffectOnce; then
                               the theorems for calls that follow one another (CallInv)
Investigation     TICKET_READY to RESPONSE_READY; composes agents with DurableWorkflow's
                  sweeps and commands over one store
  InvestigationProofs          rows, verdicts, readiness, journal
ApprovedDelivery  RESPONSE_READY to DELIVERY_RECORDED; refines EffectOnce too
  ApprovedDeliveryProofs       one approved delivery, the refinement, lapsed authorizations, its journal
QQSandbox         gateway, Case intake, passive acknowledgement; refines EffectOnce too
  QQSandboxProofs              intake, the refinement, lapsed replies, the cursor
ExclusiveGrant    abstract: a scope has one holder, and what was given up never holds again
QQPairing         pairing of the group and of the handler; refines ExclusiveGrant twice
  QQPairingProofs              both refinements
QQHandler         notification, commands, approval, final reply; refines EffectOnce too
  QQHandlerProofs              the four properties of its run, the refinement among them
QQModel           EXTENDS QQHandler by the model's assist and its recovery
  QQModelProofs                calls of a turn and their accounting, previews, final replies
LiveAttempt       one attempt of the live model evaluation and its budget
  LiveAttemptProofs            the budget, the unknown outcome, the verified candidate
MC*               instances for TLC
```

**State and steps.** A variable is a table (or the part of it the properties tell apart), or what a
process holds in memory. `pc[p]` says where in its call a process is, `reg[p]` what it has read.
One action is one transaction, or one stretch of reads between two transactions; the guard is the
code's condition at that point, and an early return or an exception ends the call (`Stop`, `Leave`).
`Crash(p)` is enabled everywhere: it clears `pc` and `reg` and leaves the tables. `result[p]` is the
error code with which a call ended. Retried and repeated calls are new calls of the same process.

**Data.** Hashes, identifiers and timestamps are derived from a few facts by the code, so they are
replaced by those facts: an intent by its operation, a checkpoint by its position, evidence by the
tool that produced it, an acknowledgement by its message. Schema validation of single records is
left out, the validation of their relations (`JournalValid`, `PolicySourceValid`, ...) is not: the
code refuses to work on a store that fails it. Uniqueness constraints of the schema are guards.

**Abstractions to know about.**
- The reads between two transactions count as one atomic read. The code reads several tables one
  after the other there; all are append-only, which is why one moment can stand for them. In the handler's store some rows are updated (the Case, the
  bodies of artifacts); that a stretch of reads sees them at one moment is an abstraction there.
- The Case projection is the state of the last Case event, which is what `_projection_from_records`
  computes.
- `QQHandler` and `QQModel` follow one Case of one binding; messages of other people are refused before
  they change anything. The handler's messages are numbered as they are written and stay available:
  each may be delivered to any runner, in any order, again and again, or never. A candidate, its
  artifact and its request are named by the version of the Case that made them.
- In `QQModel` only provider calls and tool reads are counted; that tokens, cost or time run out is a
  choice. In `LiveAttempt` one kind of token stands for input tokens, output tokens and cost, which are
  checked and settled alike.
- In `QQPairing` a challenge is a number; only the process that made it knows its text, so a message
  with the text exists for that process alone.
- One workflow. `recover_all` goes through all of them and ends at the first error; several
  workflows are not modelled (section 7).
- `Investigation` and `ApprovedDelivery` start from the journal an undisturbed earlier stage leaves.
  Operator commands are part of `DurableWorkflow` and `Investigation`, not of `ApprovedDelivery`.
- Names called "Mutant: ..." are wrong variants of the definition next to them. The modules never
  use them; they are there to show that a property fails when the code has that bug.

| module | source |
|---|---|
| `DurableWorkflow` sweeps: `StartSweep`, `ActivateCase`, `RecoverWorkflow`, `ReadPendingCommands`, `RecoverPendingCommand`, `Dispatch`, `FinishSweep` | `recover_all`, `activate_case`, `recover_workflow`, `_recover_pending_commands`, `_recover_workflow`, `get_workflow_projection` |
| effects: `EnsureIntent`, `MarkIntent`, `ProcessIntent`, `RecordObservation`, `ExecuteIntent`, `RecordCompletion`, `BlockEffect`, `MarkCompletion`, `NextEffect`, `FinishReconciliation` | `_ensure_intent`, `_drive_effect`, `_process_intent`, `_reconcile_intent`, `_record_observation`, `_execute_intent`, `_record_completion`, `_recover_reconciliation` |
| commands: `StartSubmit`, `PrimeSubmit`, `PersistCommand`, `ApplyCommand`, `CommandApplied` | `submit_command`, `_apply_persisted_command` |
| deadline: `RecordSlaExpiry`, `ExpireSla` | `_record_sla_expiry`, `_recover_workflow` |
| `Investigation`: `StartRun`, `BeginInvestigation`, `EnterInvestigation`, `NextAction`, `RecordAgentAction`, `ReadTool`, `RecordToolExchange`, `Propose`, `RecordResponseCandidate`, `Verify`, `RecordVerifierOutcome`, `AdvanceVerifiedCandidate`, `RecoverInvestigation` | `run_investigation_replay` with `begin_investigation`, `record_agent_action`, `record_tool_exchange`, `record_response_candidate`, `verify_response_candidate`, `_advance_verified_candidate`, `_recover_investigation` |
| `ApprovedDelivery`: policy, approval and delivery actions | `_recover_policy_approval`, `_ensure_*`, `submit_approval_decision`, `_apply_persisted_approval_decision`, `_recover_delivery`, `_process_delivery_intent`, `_recover_delivery_reconciliation` |
| `QQSandbox`: `StartRun`, `Authenticate`, `Receive`, `Reconnect`, `Accept`, `IntakeQq`, `CreateAcknowledgementIntent`, `Process`, `SendFixedAcknowledgement`, `AppendObservation`, `Complete`, `Done`, `ReadCursor` / `WriteCursor` | `run_one`, `_authenticate`, `accept`, `intake_qq`, `create_acknowledgement_intent`, `process`, the adapter's send, `append_observation`, `complete`, `record_cursor` |
| `QQPairing`: `BeginPurge`, `PurgeRow`, `RecordChallenge`, `Accept`, `ExpireChallenge`, `Revoke`, `RecordRevocation`, `Resolve`, `BeginHandlerPairing`, `RecordObservation`, `ConfirmHandlerBinding`, `RevokeHandlerBinding`, `Stop` | `purge_expired`, `record_challenge`, `complete`, `expire_challenge`, `revoke`, `resolve`; `record_pairing_session`, `record_pairing_observation`, `confirm_handler_binding`, `revoke_handler_binding` |
| `QQHandler`: `StartRun`, `CreateIssueArtifact`, `CreateNotificationIntent`, `StartAttempt`, `NotifyC2c`, `RecordNotification`, `ReceivePrivate`, `CreateCandidateAndRequest`, `TransitionSimpleCommand`, `Respond`, `RecordCommandOnce`, `ApproveRequest`, `FinalDeliveryIntent`, `CreatePassiveIntent`, `ExecutePassiveReply`, `Send`, `RecordPassiveResult`, `DeleteArtifacts` | `run_live_handler_case`, `create_issue_artifact`, `execute_notification`, `handle_private_event`, `create_candidate_and_request`, `transition_simple_command`, `record_command_once`, `handle_group_approval` with `approve_request` and `final_delivery_intent`, `create_passive_intent`, `execute_passive_reply`, `_record_passive_result`, `delete_artifacts` |
| `QQModel`: `ReceiveAssist`, `CreateAssistRequest`, `RecoverPersistedAssist`, `CompileContext`, `RecordContext`, `StartAssist`, `RunTurn` (`RecoverTurn`, `ReserveTurn`), `AppendIntent`, `Propose`, `AppendObservation`, `AppendAction`, `Checkpoint`, `ReadTool`, `Finish`, `CreateModelCandidate`, `CreateStoppedOutcome`, `CreateReadyOutcome`, `AssertModelApproval`, `DeleteModelContent` | `handle_private_event` and `_recover_persisted_assist` of the model's service, `create_assist_request`, `compile_context`, `BoundedQQModelAssistRuntime.run`, `safe_stop` and `_finish`, `append_*`, `create_model_candidate`, `create_outcome`, `assert_model_approval_current`, `execute_final_response` |
| `LiveAttempt`: `BeginTurn`, `ReserveProviderCall`, `Propose`, `Observe`, `InjectExhaustion`, `RecordAction`, `ReadTool`, `BuildLiveCandidate` | the turn loop of `run_live_investigation_attempt` with `LiveBudgetLedger` and the live store |

`PROJECT.json` has the line range of every definition.

## 3. Concurrency and fairness

*Who runs at the same time.* The Temporal activity has a `start_to_close_timeout` of 30 s; an attempt
that times out is retried and the old attempt may still be running in its worker thread: two sweeps
of one workflow. The platform API serves commands and decisions while sweeps run. The agent runtime
and the QQ command are processes that anybody may start twice. `Serialized = FALSE` lets all of
these interleave; `Serialized = TRUE` models the offline use, one command at a time, and keeps the
crash as the only source of half-done work.

*What is fair.* A process that is at work goes on or crashes: weak fairness of its steps, and the
number of crashes is bounded. Sweeps are started again and again: Temporal's default retry policy
repeats the activity until it succeeds, and the offline worker is meant to be re-run. In
`ApprovedDelivery` this is strong fairness, since activations and submissions may disable the start
of a sweep in between. Nobody has to submit a command, decide, opt in or run an agent. For the QQ
command the assumption is the operator's: liveness there says what repeated runs achieve. Timeouts
(`FaultProfile`) and failed sends are bounded, as a permanently failing provider justifies no
liveness.

No fairness is assumed of the pairing, the handler, the model workflow and the live attempt, and no
liveness is stated: an operator starts their commands when he likes, a gateway failure ends them, and
nothing in the code resumes a Case unless its message is delivered again.

## 4. Runs

Every property of a passing run is also checked to fail for a mutated definition (`PROJECT.json`,
"mutants"). Deadlock is checked where the system can always go on, and switched off where the bounds
on sweeps, sessions and messages end a behaviour.

| run | instance | properties |
|---|---|---|
| `operator_commands` | one worker, one operator, pause / resume / cancel, 2 commands, retries, 1 crash, 2 timeouts, deadline; serialized | `UnknownOutcomeBlocks`: an effect runs only on an absence that is known and still so, and no sweep ends well with an effect left to run; `JournalStaysValid`; `CancelledIsResolved`: no cancel over an unknown effect; `ContinuesWhereSaved`; `SweepLeavesCaseInStep`; `SettlesUnlessStuck`: sweeps bring the workflow to rest for good |
| `racing_workers` | two workers interleaved, 2 sweeps, 1 crash, 1 timeout, deadline | `TicketExactlyOnce`, `CheckpointsTruthful`, `ImplementsEffectOnce` |
| `investigation_recovery` | agent, sweeper, operator; four transcripts (deserving, out of order, repeating until it is stopped, handing over); 2 agent runs, 2 commands, 1 crash; serialized | `InvestigationJournalValid`, `CancelledIsNeverJudged`, `VerifiedBecomesReadyUnlessStuck`, `CommandTakesEffectUnlessStuck` |
| `racing_agents` | two agents interleaved with a cancelling operator, 3 runs, 1 crash, symmetric agents | `FactsInOrder`: the rows are those of one run; `VerdictAsDeserved`; `ReadyOnlyVerified` |
| `approval_recovery` | one worker, two approvers, 2 votes, 1 crash, 1 timeout, both expiries; serialized | `PolicyJournalStaysValid`, `LapsedStartsNoDelivery`, `DecisionTakesEffectUnlessStuck` |
| `racing_delivery` | sweeps interleaved with an approver, 1 crash, 1 timeout, revocation | `DeliveredOnce`, `DeliveredOnlyApproved`, `ImplementsDeliveryOnce` |
| `qq_recovery` | one runner, one message that may be redelivered with the same or other content, 2 sessions, 2 frames each, 1 of them lost, 1 reconnect, 1 failed send, 1 crash, deadline, with and without `verify_event_dedup` | `CursorAccountsForAll`: while no frame is lost the cursor passes no message without a receipt; `IntakeOnce`; `ImplementsAckOnce`; `LapsedIsNotSent`; `AckSettlesUnlessCutOff` |
| `racing_handlers` | two runners interleaved, draft and reject, 2 messages; any one of a crash, a failed send, a passing deadline or a revocation, at any point; symmetric runners | `NotifiedOnce`; `CommandsTruthful`: a message moves the Case once and every response that says so is true; `AcceptedContentIsDeleted`; `ImplementsFinalOnce` |
| `model_assist` | one runner, accept / assist / draft, 3 messages delivered in any order and again, 1 crash, one deadline (of the issue, a request or the group's pairing) or a revocation, 2 tools, 3 calls, 1 retry | `TurnsCalledOnce`; `CallsAccounted`; `CaseBudgetKept`: all assists of a Case together stay within its call limit; `FinalIsGrounded`; `PreviewsTruthful` |
| `racing_pairings` | two processes with either command, two groups, 2 challenges, 2 sessions, 1 expiry, any number of restarts; symmetric processes and groups | `ImplementsGroupGrant`, `ImplementsHandlerGrant` |
| `live_attempt` | the checked-in budget profile with fewer tokens: 6 calls of 1 or 2 tokens out of 7, 1 retry, 3 tools, overcharge by 1 | `SpendingBounded`, `NoCallAfterDoubt` |
| `stale_assist` | `model_assist` with reject, too | expected counterexample, section 6 |

**Further configurations.** Six more `.cfg` files run with the same modules:
`crash_recovery` (`MCDurableWorkflow`; 2 crashes and 2 timeouts without an operator: `TypeOK`,
`CompletionTruthful`, `DeadlineFactStable`, `SlaFactNamesExpiry`, `SweepLeavesEventsInStep`,
`SettlesUnlessStuck`, which then means unconditionally) and `racing_runners` (`MCQQSandbox`; two QQ
runners: `TypeOK`, `IntakeOnce`, `ImplementsAckOnce`; 4 million states) pass. `overtaken_sweep`
(`MCInvestigation`), `reconciled_after_expiry` (`MCApprovedDelivery`), `resume_after_gap`
(`MCQQSandbox`) and `cancelled_challenge` (`MCQQPairing`) end in the counterexamples of section 6. The
type invariants are proved (section 5) and there for readers and for configurations of this kind.

**Why the bounds are enough.** The stores are append-only or write each row once, and every step is
keyed, so a second crash, sweep or command meets the same cases as the first; one crash already
reaches every half-done state. Two processes are enough for each race of "read, then write": the
hazards name pairs. Two commands give pause-resume, pause-cancel and a retry with the same or another
content; two messages of the handler give a draft with its approval, a draft that overtakes a draft
and a rejection that overtakes a draft (one mishap is enough there, as a runner that merely never goes
on is one that crashed, and the other runner meets what it left); three give an accepted Case, an assist and what overtakes
it. That a reply comes too late for its message is left to `racing_handlers`: such a reply is refused, which shows or
makes nothing that `model_assist` asks about. Three provider calls are what two tools and a candidate need, so that a retry or a lost call
uses up the limit. Two workers *and* an operator in one interleaved instance of
`DurableWorkflow` are beyond TLC in reasonable time; for the ticket effects the theorems below cover
any number of both. The interleaved run of agents has no sweeper and the liveness runs are
serialized, because the disagreements of section 6 break the journal there; what can be said then is
what these runs say. "Unless stuck" in a property names exactly the error codes of those cases, so
that nothing else is excused: for `SettlesUnlessStuck` a persisted command after which sweeps fail with
`workflow_transition_not_allowed` (a refused command stays pending and blocks every later recovery),
`workflow_sla_conflict`, `workflow_event_predecessor_mismatch` or
`workflow_command_recovery_conflict`. Without any one of the four the property fails.

## 5. Theorems

TLAPS proves, for every value of the constants and every interleaving, crash and retry:

| theorem | statement |
|---|---|
| `TypeCorrect` | `Spec => []TypeOK` |
| `TicketEffectsOnce` | `Spec => []TicketExactlyOnce` |
| `UnknownOutcomesBlock` (calls follow one another) | `Spec => UnknownOutcomeBlocks` |
| `CompletionsTrue` | `Spec => []CompletionTruthful` |
| `CheckpointsTrue` | `Spec => []CheckpointsTruthful` |
| `EffectsRefineEffectOnce` | `Spec => ImplementsEffectOnce` |
| `JournalAcceptsItself` (calls follow one another) | `Spec => []JournalStaysValid` |
| `CancelledHasNothingOpen` (likewise) | `Spec => []CancelledIsResolved` |
| `ContinuesAsSaved` (likewise) | `Spec => ContinuesWhereSaved` |
| `SweepsLeaveCaseInStep` (likewise) | `Spec => SweepLeavesCaseInStep` |
| `PairingsRefineGrant` (`QQPairing`) | `Spec => ImplementsGroupGrant` |
| `BindingsRefineGrant` (`QQPairing`) | `Spec => ImplementsHandlerGrant` |
| `SpendingIsBounded` (`LiveAttempt`) | `Spec => []SpendingBounded` |
| `NoCallFollowsDoubt` (`LiveAttempt`) | `Spec => NoCallAfterDoubt` |
| `NotifiedAtMostOnce` (`QQHandler`) | `Spec => []NotifiedOnce` |
| `ResponsesTruthful` (`QQHandler`) | `Spec => []CommandsTruthful` |
| `FinalRefinesEffectOnce` (`QQHandler`) | `Spec => ImplementsFinalOnce` |
| `AcceptedContentErased` (`QQHandler`) | `Spec => []AcceptedContentIsDeleted` |
| `ReadyIsVerified` (`LiveAttempt`) | `Spec => []ReadyOnlyOnDemandedReads` |
| `SandboxTypeCorrect` (`QQSandbox`) | `Spec => []TypeOK` |
| `MessagesTakenInOnce` (`QQSandbox`) | `Spec => []IntakeOnce` |
| `AcknowledgementsRefineEffectOnce` (`QQSandbox`) | `Spec => ImplementsAckOnce` |
| `LapsedStaysUnsent` (`QQSandbox`) | `Spec => LapsedIsNotSent` |
| `CursorPassesNothing` (`QQSandbox`, one runner) | `Spec => []CursorAccountsForAll` |
| `ApprovedDeliveryInvariant`, `ApprovedDeliveryTypes` | `Spec => []IInv`, `Spec => []TypeOK` |
| `DeliversOnce` (`ApprovedDelivery`) | `Spec => []DeliveredOnce` |
| `DeliversOnlyApproved` (`ApprovedDelivery`) | `Spec => []DeliveredOnlyApproved` |
| `DeliveryRefinesEffectOnce` (`ApprovedDelivery`) | `Spec => ImplementsDeliveryOnce` |
| `LapsedNeverStarts` (`ApprovedDelivery`) | `Spec => LapsedStartsNoDelivery` |
| `PolicyJournalIsValid` (`ApprovedDelivery`, calls follow one another, no revocation) | `Spec => []PolicyJournalStaysValid` |
| `InvestigationInvariant`, `InvestigationTypes` | `Spec => []FactInv`, `Spec => []TypeOK` |
| `FactsStayInOrder` (`Investigation`) | `Spec => []FactsInOrder` |
| `VerdictIsDeserved` (`Investigation`) | `Spec => []VerdictAsDeserved` |
| `ReadyIsVerified` (`Investigation`, no stale sweep) | `Spec => []ReadyOnlyVerified` |
| `JournalIsValid` (`Investigation`, no stale sweep) | `Spec => []InvestigationJournalValid` |
| `CancelledStaysUnjudged` (`Investigation`, no stale sweep) | `Spec => CancelledIsNeverJudged` |
| `TurnCalledAtMostOnce` (`QQModel`) | `ModelSpec => []TurnsCalledOnce` |
| `PreviewIsTruthful` (`QQModel`, one runner) | `ModelSpec => []PreviewsTruthful` |
| `FinalReplyIsGrounded` (`QQModel`, one runner) | `ModelSpec => []FinalIsGrounded` |
| `CallsAreAccounted` (`QQModel`, one runner) | `ModelSpec => []CallsAccounted` |

The first ten are about `DurableWorkflow`.

*Hypotheses.* Thirteen theorems hold under a condition. Five of `DurableWorkflow`
assume `Serialized`: no process starts a call while another is at work, with crashes, timeouts and the
deadline at any point. Interleaved, `_drive_effect` may checkpoint progress under a state it read before
another process's pause or deadline row, an intent may be written after a cancel has looked for open
ones, and a command may move the workflow between the last step of a sweep and its return. `PolicyJournalIsValid`
assumes `Serialized` too, and that nothing is revoked: without the first a process may apply the approval to the checkpoint it
has in hand and append after the one that is the latest by then (a worker and an approver around an expiry: a denial
follows a denial), without the second a sweep stores a second policy
decision; TLC shows a counterexample of each. `CursorPassesNothing` is for
one runner: of two, one whose session is gone still writes the number of that session as
"disconnected", and does so under the session the other has stored meanwhile. "No stale sweep" is
`NoStaleSweep == Serialized \/ Sweepers = {}`: agents and operators interleave in any way, and either
there is no recovery sweep, or calls follow one another. A sweep that read TICKET_READY appends
INVESTIGATION_STARTED whatever was appended meanwhile, after RESPONSE_READY for example (`overtaken_sweep`, section 6);
from there on the journal is invalid, the workflow may become ready a second time, and a cancelled one
may be judged. `PreviewIsTruthful`, `FinalReplyIsGrounded` and `CallsAreAccounted` are for one runner too,
the handler command that a person starts. They need it: of two runners with one assist each stores a result of the same
tool, so the evidence has as many entries as the task asks for without all of its tools; and one
runner may stop an assist while the other has made its candidate and is killed before it says so. The
same race settles the assist while the other runner's call is on its way, so the settled usage
does not count that call. All other theorems are without such a condition.

*Assumptions.* `ProcessAssumption` (a process is a worker or an operator, not both),
`CommandAssumption` (commands are pause, resume or cancel) and `BoundAssumption` (bounds are numbers,
switches are Booleans), for `QQPairing` `PairingAssumption` (bounds are numbers), for `LiveAttempt`
`BudgetAssumption` (limits are numbers, a call reserves at least one token), for `QQHandler`
`HandlerAssumption` (bounds are numbers, the commands are the five of the protocol), for `QQSandbox`
`GatewayAssumption` (bounds are numbers, modes are Booleans), for `ApprovedDelivery` `PartyAssumption` (a
process is a worker or an approver, not both) and `LimitAssumption` (as `BoundAssumption`), for
`Investigation` `RunAssumption` (agents are other processes than sweeps and operators, commands as above)
and `TranscriptAssumption` (transcripts are the ones the loader of the agent runtime accepts, with budgets that are
numbers), for `QQModel` `ModelAssumption` (evidence is required, at least one call is allowed). Nothing is assumed about
finiteness.

*Types.* `TypeOK` alone is not inductive: `ExecuteIntent` and `AppendCheckpoint` use what a register
points to. `TypeInv == StoreTypes /\ Control` adds that each process which holds a checkpoint holds one
that exists, and that the rows a command loop still has to visit exist.

*Effects.* That a completion row is true depends on what its writer saw some steps earlier, with other
processes at work in between. `EffectInv` therefore has four parts: `TicketShape` (the ticket is
empty, created, or created and handed off, with the matching operation rows), `EffectOrder` (intended
before executed, executed before complete, the handoff after find-or-create is complete), `Truthful`
for every checkpoint, and `KnowledgeHolds`: what each process knows about its effect at its label
(`EffectHolds`). The last one is stable because the tables only grow (`Grows`, `KnowledgeIsStable`):
no step of another process can make something false that a process has read. This is the reason why
the code needs no lock between its transactions. There is one lemma per action; the refinement then
needs the invariant only for `EnsureIntent`, `ExecuteIntent` and `RecordCompletion`, every other step
leaves the abstract variables alone (`QuietSteps`).

*Unknown outcomes.* That an effect runs only on a known absence needs no hypothesis
(`OnlyKnownAbsent`). The absence is read in one transaction and acted on in another, so what has to be carried over the
gap is that whoever is at "execute" has recorded the absence it saw (`LookInv`), while the transaction itself looks again.
That no sweep ends well with an effect left to run does: `RestInv` follows the one sweep at work to its end and says that
the latest checkpoint is at rest there; another process could move it on in between.

*Calls that follow one another.* `JournalStaysValid` and its companions relate a row to the one it
follows, and so depend on what a call has read being so when it writes. `CallInv` is `OneAtATime`,
`Books` and `InCall`. `Books` is what every transaction leaves behind: each row is a step of the
transition table from the one before, carries effects that are on record, and stands right after the
version its command names (`Rows`); Case events are in the order of their checkpoints, and a
checkpoint without a transition was written with the Case in step (`EventsInOrder`). `InCall` is what the one
process at work holds at its label: it has the latest checkpoint in hand (`Fresh`), the row it is about to
append may follow it (`Fits`), the Case is in step where the code relies on it (`Synced`), an effect is driven
only in RECEIVED (`Drives`), and an answer it completes from was observed. A crash or a failed call lets go
of all of that and leaves `Books`. There is one lemma per action; then `JournalStaysValid` is `Rows`
read with `EffectInv`, and the action properties follow from `Fits` at the only step that appends (`OnlyAppended`)
and from the transition table (`WaysOn`).

*Pairings.* That a completion leaves exactly one pairing current, and a confirmation one handler per
group, rests on what processes did and hold from before. `PairingInv` is `TypeOK` with `LocatorsInv`
(a locator belongs to a completion, only completed pairings expire, at most one is current, and a row
a process is about to purge has expired), `RegistersInv` (what a process holds at its label) and
`BindingsInv` (a session is for one completed pairing and so for one group; a group has one active
binding). The interesting case is the purge, which reads rows and updates them later, one by one:
because a locator's expiry is for good, it can only end what has ended. Each action is shown to be a
grant, a release or a stutter of both instances of `ExclusiveGrant`.

*Live attempt.* `BudgetInv` says what the account covers at each place of the loop (`AccountCovers`):
what was used, and during a call also what the call may still use; after an observation the bill has
taken the place of the reservation. `DoubtIsLast` says that where a call may be reserved the last one
was answered. Both are needed: after an unknown outcome the reservation stays in the account, after an
overcharge the account may exceed the limit, and in neither case does the loop go on.

*Human handler.* Nothing ties the message a runner read to the Case it later writes to but the version
the message names. `HandlerInv` says what follows from that. `MailInv`: a version is made by one
message, which names the version before it; so a message that is delivered to two runners moves the
Case once. `CommandInv`: a recorded response has its intent and tells the truth, and so has every
shown one. `FinalInv`: a candidate has one deciding message and a message decides for one candidate,
so all final intents with one key carry one candidate, and an accepted result has its reply on show.
`NoticeInv`: whoever is about to notify is alone, and nobody did before. `Knows`: what a runner holds
at its label; it is stable because decisions, versions, intents, replies and messages are never taken
back (`Grows`, `KnowsKept`). Each action has its lemma; most leave the store alone (`QuietStep`). For
the refinement a step writes at most one of decisions, replies and results and adds one to it
(`OneGrows`). The deletion needs `ContentInv` besides: a Case with an accepted final reply stays final
(`StaysFinal`), so no new body can be made, and whoever recorded the reply is about to delete the old
ones unless it crashes.

*QQ sandbox.* `SandboxInv` orders the tables (intent after receipt, shown after intent, complete after
shown: `TablesAgree`) and says what a runner knows at its label (`Knows`); both only grow. For the
refinement every step is one of the three of `EffectOnce` or a stutter. That a lapsed reply stays unsent
needs a count of the sends (`SentAtMost`). The cursor needs more: `InStep` follows one runner's session, its frames, the
number it has in hand and the number it is about to write. The session's numbers are those of its frames
(`SessionOrder`), and the stored number, the one on its way to the store and the one of the frame that is being processed
have each accounted for all frames up to them (`CursorInStep`, `WriteInStep`, `FrameInStep`), as long as the gateway lost none.

*Approved delivery.* `IInv == StoreTypes /\ Control /\ DeliveryOrder`. A checkpoint is `Backed` when the
decision, the checkpoints before it and the intent justify it; `Knows` says that the checkpoint a
process is about to append is backed too, and what it relies on between intent, delivery and completion.
`DeliveryOrder` says the same of the tables: granted, intended, delivered, known complete. None of it can be taken
back (`Grows`), which is why one approval more, or a vote between two steps of a sweep, changes
nothing. For the lapsed authorization, `NothingUnderway` is closed under all steps: only a process past
the check of `_recover_delivery` writes the intent, and nobody comes to that place any more
(`KeepsOff`).

For the journal `CallInv` is built as in `DurableWorkflow`. `PolicyTables` has each policy row behind the one it is
made from (activation, grant, decision, binding, request, approval, intent), one decision at most, and a checkpoint
that asks for an approval only behind the request. `JournalRows` has every row a step of the table with its effects on
record. `Informed` and `InCall` say of the one process at work which rows it has found or made, that the checkpoint in
its hand is the latest, that the row it is about to append may follow it, and that a delivery is driven only in
DELIVERING. Whoever rests claims nothing (`OneSteps`), so a step has to be looked at for its own process only.

*Investigation.* `FactInv` has four parts. `Control` types the tables and says for the place a process is
bound for (`Toward`; during a transition that is the place it continues at) which transcript and
checkpoint it holds (`Held`). `Facts` has the rows in the order of the transcript. `Judgement` makes the
verdict that of the transcript. `Progress` is the one that carries the interleavings: whoever
wrote the rows, an agent bound for a place finds recorded all that comes before its step (`Claim`), so two
agents of one transcript write the same rows, and the second one's are the first one's again. For the journal,
`ReadyInv` uses that a row lands right after the checkpoint it was built on or not at all
(`JournalGrows`), and says what processes carry towards it (`Carries`): agents and commands ask for the
latest checkpoint in the step in which they set out, while a sweep goes by what it read before, which is the
latest one because it is alone (`OneAtATime`). Once a verified candidate is on record the workflow stays
RESPONSE_READY, is paused from it or cancelled (`Follows`, `MadeReady`). `JournalInv` adds
that every row after those of the ticket stage is a step of the table which keeps the completed effects (`RowsValid`), that
a command's row stands right after the version its command names (`CommandRows`), that processes bring
only such rows and commands (`Bears`), and that the ticket effects are complete and stay so
(`EffectsDone`).

*Model workflow.* What a message's assist is at follows from rows alone (`ModelTypes`), so that runs
which were cut off can be resumed in any order. `CallInv` has that a turn whose call was made has a row, and that of
all runners at most one is between the row of its turn and the call. `TellInv` is about what is shown: what was
told of an assist (`StoreTold`), and what a runner holds at its label that it will tell (`Tells`), is
the assist's own candidate or the outcome it was settled with; an assist that a runner works on is not settled. `ReadInv`
adds the evidence: no tool twice in the evidence of an assist (`Distinct`), what the runner has in hand is what is
stored (`HasRead`), and a candidate is bound to an assist with as many results as are demanded. That
those are all demanded tools is then a pigeonhole argument (`AllRead`), which each later place carries up to the reply
on show. The accounting relates the calls of all assists of one Case in the order in which they were made, and
has three layers of its own. `RequestInv` is what the store says of the Case and of an assist: nobody has moved
a version that was not reached yet, and an open assist of the current version keeps the Case in an assisted
status and its issue readable. `RowInv` is about the snapshots of the counter: the number of a
row goes with its calls, an assist has one latest row, and of two such rows the one written later counts at least
as much. A new row therefore makes no assist count less, and its own assist starts from the same
number as before (`AppendRow`, `Grown`). `ChargeInv` says that every call made beyond what a fresh run would start
from is covered by turns which that run picks up one by one (`Covered`, `Followed`), and that the latest snapshot of
a settled assist counts all (`Counted`). The bound on the calls of one assist is then one on a cardinality
(`CountedCalls`).

*Only model-checked.* The five liveness properties (`SettlesUnlessStuck`, `VerifiedBecomesReadyUnlessStuck`,
`CommandTakesEffectUnlessStuck`, `DecisionTakesEffectUnlessStuck`, `AckSettlesUnlessCutOff`): fairness and ENABLED
are outside the prover's reach. `CaseBudgetKept` is model-checked too: it sums over the calls of all assists, and the
proof of `CallsAccounted` bounds those of one. Every other property of the passing runs is a theorem above, the
conditional ones under their hypotheses.

## 6. Where code and documents disagree

The run `stale_assist`: `create_assist_request` returns the request its message has made before
without asking for the version and state of the Case again, `compile_context` then sets the Case to
INVESTIGATING, the provider is called, and `create_outcome` sets the Case to ACCEPTED under a new
version, both unconditionally. An assist whose run was cut off, and whose message is delivered again
after a draft or a rejection, reopens a Case that has moved on.
`openspec/specs/bounded-live-model-qq-workflow/spec.md:32-35` has a stale version rejected "without model
contact, Case mutation, approval, or QQ write".

Further configurations with a counterexample (`tlc -config X.cfg M`):

- `overtaken_sweep`, `InvestigationJournalValid`: `_transition` validates a step against the
  checkpoint it was handed, but `_ensure_checkpoint` appends after the one that is the latest by then.
  A sweep that read TICKET_READY before an agent reached RESPONSE_READY appends INVESTIGATING after it,
  and the journal is invalid for good. (`openspec/specs/durable-support-workflow/spec.md:68`: "preserve
  the prior projection and workflow checkpoint".)
- `reconciled_after_expiry`, `LapsedNeverDelivers`: the reconciliation of a blocked delivery executes
  it without looking at grant, binding and approval again.
  (`openspec/specs/hash-bound-approval-gates/spec.md:62-64`: "recovery SHALL not resume delivery".)
- `resume_after_gap`, `CursorSkipsNothing`: only group messages are tested for a gap; other frames
  move the QQ cursor over it, and a session is resumed after the frame that showed the gap. This is why
  `CursorAccountsForAll` speaks of behaviours that lose no frame.
  (`openspec/specs/qq-sandbox-intake-and-ack/spec.md:77-79`: "without skipping an unaccounted event".)
- `cancelled_challenge`, `CancelledIsUnusable`: a second pairing command cancels the pending challenge
  of the first, which is not told, and `complete` does not ask for the status: the cancelled challenge
  is completed when it is posted first.
  (`openspec/specs/secure-qq-first-group-pairing/spec.md:83`: "restart SHALL cancel or expire it and
  require a fresh challenge".)

Further cases, met while modelling or shown by the same instances with other constants. The first two
and the first two of the list above were also reproduced by calling the Python code:

- With `MayRevoke = TRUE`, `PolicyJournalStaysValid` fails: a sweep after a revocation
  stores a second policy decision, which the validation never accepts.
- A decision submitted between a crash and the next sweep moves the journal on while a Case event is
  missing; the ledger then refuses all later events. This is `Stuck` in
  `DecisionTakesEffectUnlessStuck`.
- `DeadlineFactStable` fails with one pause: a paused workflow whose deadline was met is due again,
  and its second fact conflicts with the first on every sweep.
- A command persisted before another transition is never applied (`workflow_command_recovery_conflict`
  on every sweep); a cancel accepted between a completion row and its checkpoint likewise. This is
  `Stuck` in `CommandTakesEffectUnlessStuck`.
- With two workers and an operator interleaved, a progress checkpoint may carry the state from before
  a pause, since `_drive_effect` reads it before the effect runs.
- A QQ runner that stops between the observation "accepted" and its completion leaves an intent that
  recovery does not list (`CutOff`); one that stops between the Case and its intent leaves a Case
  without acknowledgement; the replay of `verify_event_dedup` sends a second time after an unanswered
  first send although the report says otherwise.
- Pairing: `purge_expired` overwrites REVOKED with EXPIRED when the row was read before the
  revocation; a binding made under a pairing that was renewed is not found by
  `active_binding_for_config` and yet refuses a new one for the group; pending locators are never
  deleted; `pair_live_handler` has no deadline of its own.
- Handler: a crash between FINAL_ACCEPTED and `delete_artifacts` leaves the bodies where
  they are (`AcceptedContentIsDeleted` is about runs without a crash).
- Model workflow: the calls of an assist are accounted for only when it ran undisturbed
  (`Undisturbed` in `CallsAccounted`): an assist that is stopped because its issue cannot be read any
  more is settled with the usage of other assists; one that is resumed after another assist ran counts
  on from that one's numbers and may call for a new turn although an earlier call was never answered;
  one that is resumed after a retry stops at the failed turn and does not count the call after it.
  (`openspec/specs/bounded-live-model-qq-workflow/spec.md:76`: "its reserved budget remains accounted".) Recovery reads a tool that a model asked for although the policy
  refused it before the crash; the tool limit counts over all assists of a Case; the content of a
  candidate that was proposed before a crash is lost, and the assist stops.
- Live attempt: a bill beyond its reservation (`LiveBudgetIntegrityError`), an oversized response and a
  candidate that cites one tool twice raise errors nobody catches: the attempt stays open, where
  `openspec/specs/live-model-evaluation-pilot/spec.md` lets it end "only at verifier-authorized
  `RESPONSE_READY` or a declared safe outcome".

## 7. Not modelled, and the plan

Not modelled on purpose: schema validation of single records and DDL, HTTP parsing and read-only
routes, report formatting, the web console, fixtures, test and development tools, and the contents of
model answers and messages. Of the QQ stages: several
Cases or bindings in one store, the event cursors of the handler's runner (written, never asked), the
gateway's reconnects during a pairing, token refresh, and the checks on the content of an issue.
`recover_attempt` of the live store has no caller. `evidence_trajectory.py` exports facts that the other
components wrote and is read back by nothing that acts.

The plan for what is left, in order:

1. Liveness of the handler's workflow under redelivery: which approved replies are settled at last.
2. `CaseLedger`: intake of channels with contiguous numbering, projection rebuild and snapshots;
   `EvidenceTrajectory`: append and rebuild.
3. Several workflows in one `recover_all`; operator commands in the approval stage; snapshot export
   and restore of a workflow.
