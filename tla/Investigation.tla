---------------------------- MODULE Investigation ----------------------------
(***************************************************************************)
(* The investigation of one workflow                                       *)
(* (weflow_agent_runtime/investigation.py and the investigation half of    *)
(* weflow_control_kernel/durable_workflow.py), from TICKET_READY to        *)
(* RESPONSE_READY: agents replay a transcript of fixture reads and a       *)
(* terminal answer, every step is a durable fact, a deterministic verifier *)
(* judges the candidate, and only its verdict moves the workflow.          *)
(*                                                                         *)
(* The module composes agents with the sweeps and the operator commands of *)
(* DurableWorkflow, whose actions it uses over the same store.  The ticket *)
(* effects are complete at the start, so the effect steps and the SLA      *)
(* deadline (which ends with the handoff) take no part.                    *)
(*                                                                         *)
(* Identities and hashes are derived from transcript and manifest; within  *)
(* one workflow a step, its tool request and its result are told apart by  *)
(* the step's index, evidence by the tool it was read from, and a          *)
(* candidate by the evidence it cites.                                     *)
(***************************************************************************)
EXTENDS WorkflowState, Naturals, Sequences, FiniteSets, SequencesExt

CONSTANTS
    Agents,         \* processes that run run_investigation_replay
    Sweepers,       \* processes that run recovery sweeps
    Operators,      \* processes that submit commands
    Transcripts,    \* the transcripts a fixture may hold
    Serialized,     \* TRUE: no process starts while another is at work
    CommandTypes,   \* the command types the operators use
    MaxRuns,        \* bound: agent runs, reruns after a crash included
    MaxSweeps, MaxCommands, MaxSubmits, MaxCrashes    \* as in DurableWorkflow

Tools == {"crm", "monitoring", "knowledge"}
Terminals == {"response_candidate", "needs_information", "needs_operator"}
RequiredTools == <<"crm", "monitoring", "knowledge">>

(* How many of the first n actions read a tool; a read action is written   *)
(* as its tool.                                                            *)
ReadCount(actions, n) == Cardinality({i \in 1..n : actions[i] \in Tools})

(* load_investigation_transcript                                           *)
LoaderAccepts(t) ==
    /\ Len(t.actions) \in 1..t.actionBudget /\ t.toolBudget >= 1 /\ t.noProgressLimit >= 1
    /\ \A i \in 1..Len(t.actions) : t.actions[i] \in Terminals <=> i = Len(t.actions)
    /\ Tools \subseteq Range(t.actions)
    /\ ReadCount(t.actions, Len(t.actions)) <= t.toolBudget

ASSUME TranscriptAssumption ==
    \A t \in Transcripts :
        /\ t.actions \in Seq(Tools \cup Terminals)
        /\ {t.actionBudget, t.toolBudget, t.noProgressLimit} \subseteq Nat
        /\ LoaderAccepts(t)
ASSUME RunAssumption ==
    /\ MaxRuns \in Nat /\ Agents \cap (Sweepers \cup Operators) = {}
    /\ CommandTypes \subseteq {PAUSE, RESUME, CANCEL}

VARIABLES
    transcript,     \* the fixture the agents replay
    investigated,   \* investigation_activations holds the row of this workflow
    steps,          \* agent_steps: step indices, in rowid order
    exchanges,      \* investigation_tool_requests with their results, in rowid order
    candidates,     \* investigation_candidates, by the evidence they cite
    verdicts,       \* investigation_verifier_outcomes
    turn,           \* the step each agent is at, 0 before the first
    verdict,        \* the verifier outcome each process holds
    runs,           \* what MaxRuns counts
    (* the store and the processes of DurableWorkflow *)
    activated, journal, events, intents, ticket, operations, observations,
    completions, slaFact, commands, expired, sweeps, submits, crashes, timeouts,
    pc, reg, result

DW == INSTANCE DurableWorkflow WITH
    Workers <- Agents \cup Sweepers, MaxTimeouts <- 0, SlaMayExpire <- FALSE

factVars  == <<investigated, steps, exchanges, candidates, verdicts>>
agentVars == <<transcript, factVars, turn, verdict, runs>>
vars == <<agentVars, DW!vars>>

Latest == DW!Latest

-----------------------------------------------------------------------------
(* A process moves on, or leaves its call.  The store keeps everything but *)
(* what the action says.                                                   *)

quietVars == <<activated, events, intents, ticket, operations, observations, completions,
               slaFact, commands, expired, sweeps, submits, crashes, timeouts>>

Goto(p, label) == DW!Goto(p, label, reg[p])
Leave(p, outcome) == DW!Stop(p, outcome)
StoreUnchanged == UNCHANGED <<journal, quietVars>>

(* Mutant: the new checkpoint forgets the completed ticket effects.        *)
MoveForgetful(p, kind, next, cause, cont) ==
    DW!Transition(p, [reg[p] EXCEPT !.at = Len(journal)], kind, next, next, DW!Cause(cause),
                  {}, {}, cont)

(* _transition on the latest checkpoint, keeping its effects.              *)
MoveTo(p, kind, next, cause, cont) ==
    DW!Transition(p, [reg[p] EXCEPT !.at = Len(journal)], kind, next, next, DW!Cause(cause),
                  Latest.pending, Latest.completed, cont)

-----------------------------------------------------------------------------
(* run_investigation_replay: begin_investigation.                          *)

Action(n) == transcript.actions[n]

(* The run up to the activation transaction: the facts of an earlier run   *)
(* are reused, otherwise a manifest is compiled on TICKET_READY.           *)
StartRun(a) ==
    /\ a \in Agents /\ DW!MayStart(a) /\ runs < MaxRuns
    /\ runs' = runs + 1
    /\ turn' = [turn EXCEPT ![a] = 0]
    /\ verdict' = [verdict EXCEPT ![a] = "none"]
    /\ \/ ~DW!JournalValid /\ Leave(a, "workflow_journal_invalid")
       \/ DW!JournalValid /\ investigated /\ Goto(a, "begun")
       \/ DW!JournalValid /\ ~investigated /\ Latest.state = TICKET_READY /\ Goto(a, "investigate")
       \/ /\ DW!JournalValid /\ ~investigated /\ Latest.state # TICKET_READY
          /\ Leave(a, "investigation_predecessor_invalid")
    /\ UNCHANGED <<transcript, factVars>> /\ StoreUnchanged

(* The activation row; one per workflow.                                   *)
BeginInvestigation(a) ==
    /\ pc[a] = "investigate"
    /\ investigated' = TRUE
    /\ IF investigated THEN Leave(a, "investigation_activation_failed") ELSE Goto(a, "begun")
    /\ UNCHANGED <<transcript, steps, exchanges, candidates, verdicts, turn, verdict, runs>>
    /\ StoreUnchanged

(* Mutant: a rerun does not look at the state of the workflow.             *)
EnterAnyState(a) ==
    /\ pc[a] = "begun"
    /\ IF ~DW!JournalValid THEN Leave(a, "workflow_journal_invalid")
       ELSE IF Latest.state = TICKET_READY
       THEN MoveTo(a, INVESTIGATION_STARTED, INVESTIGATING, "investigation", "act")
       ELSE Goto(a, "act")
    /\ UNCHANGED agentVars /\ StoreUnchanged

(* The transition that begin_investigation ends with.  The run goes on     *)
(* whichever checkpoint the transition returned.                           *)
EnterInvestigation(a) ==
    /\ pc[a] = "begun"
    /\ IF ~DW!JournalValid THEN Leave(a, "workflow_journal_invalid")
       ELSE IF Latest.state = TICKET_READY
       THEN MoveTo(a, INVESTIGATION_STARTED, INVESTIGATING, "investigation", "act")
       ELSE IF Latest.state \in {INVESTIGATING, RESPONSE_READY} THEN Goto(a, "act")
       ELSE Leave(a, "investigation_state_not_allowlisted")
    /\ UNCHANGED agentVars /\ StoreUnchanged

-----------------------------------------------------------------------------
(* The action loop.                                                        *)

(* How often the action at n has been repeated without another between.    *)
Repeats(n) == Cardinality({k \in 1..n : \A j \in k..n : Action(j) = Action(n)})

OutOfBudget(n) == n > transcript.actionBudget \/ Repeats(n) >= transcript.noProgressLimit

(* After step n was recorded: read its tool, or end the run.               *)
AfterStep(a, n) ==
    IF Action(n) = "response_candidate" THEN Goto(a, "candidate")
    ELSE IF Action(n) \in Terminals \/ ReadCount(transcript.actions, n) > transcript.toolBudget
    THEN Leave(a, "needs_operator")
    ELSE Goto(a, "read")

(* record_agent_action up to its transaction, for the next action: a step  *)
(* of an earlier run is reused, a new one only while INVESTIGATING.        *)
NextAction(a) ==
    /\ pc[a] = "act"
    /\ LET n == turn[a] + 1 IN
       /\ turn' = [turn EXCEPT ![a] = n]
       /\ IF OutOfBudget(n) THEN Leave(a, "needs_operator")
          ELSE IF ~DW!JournalValid THEN Leave(a, "workflow_journal_invalid")
          ELSE IF n \in Range(steps) THEN AfterStep(a, n)
          ELSE IF Latest.state # INVESTIGATING
          THEN Leave(a, "investigation_state_not_allowlisted")
          ELSE Goto(a, "step")
    /\ UNCHANGED <<transcript, factVars, verdict, runs>> /\ StoreUnchanged

(* The transaction of record_agent_action; (workflow, step) is unique.     *)
RecordAgentAction(a) ==
    /\ pc[a] = "step"
    /\ LET n == turn[a] IN
       IF n \in Range(steps)
       THEN Leave(a, "agent_step_persist_failed") /\ UNCHANGED steps
       ELSE AfterStep(a, n) /\ steps' = Append(steps, n)
    /\ UNCHANGED <<transcript, investigated, exchanges, candidates, verdicts, turn, verdict, runs>>
    /\ StoreUnchanged

(* record_tool_exchange up to its transaction, with the tool count.        *)
ReadTool(a) ==
    /\ pc[a] = "read"
    /\ LET n == turn[a] IN
       IF ~DW!JournalValid THEN Leave(a, "workflow_journal_invalid")
       ELSE IF n \in Range(exchanges) THEN Goto(a, "act")
       ELSE IF Latest.state # INVESTIGATING
       THEN Leave(a, "investigation_state_not_allowlisted")
       ELSE IF n \notin Range(steps) THEN Leave(a, "tool_request_action_mismatch")
       ELSE IF Len(exchanges) >= transcript.toolBudget
       THEN Leave(a, "investigation_tool_budget_exceeded")
       ELSE Goto(a, "exchange")
    /\ UNCHANGED agentVars /\ StoreUnchanged

(* Mutant: the request row is reused and its result recorded once more.    *)
RecordExchangeAgain(a) ==
    /\ pc[a] = "exchange"
    /\ exchanges' = Append(exchanges, turn[a])
    /\ Goto(a, "act")
    /\ UNCHANGED <<transcript, investigated, steps, candidates, verdicts, turn, verdict, runs>>
    /\ StoreUnchanged

(* The transaction of record_tool_exchange: request and result together;   *)
(* a request has one result.                                               *)
RecordToolExchange(a) ==
    /\ pc[a] = "exchange"
    /\ LET n == turn[a] IN
       IF n \in Range(exchanges)
       THEN Leave(a, "tool_result_persist_failed") /\ UNCHANGED exchanges
       ELSE Goto(a, "act") /\ exchanges' = Append(exchanges, n)
    /\ UNCHANGED <<transcript, investigated, steps, candidates, verdicts, turn, verdict, runs>>
    /\ StoreUnchanged

-----------------------------------------------------------------------------
(* The candidate and its verdict.                                          *)

(* The evidence_hashes an agent has collected when it proposes, one for    *)
(* each read before the terminal action, the only one that is no read.     *)
Evidence == Front(transcript.actions)

Judged(evidence) == {v \in verdicts : v.evidence = evidence}

(* _validate_investigation_source: the manifest was compiled on a          *)
(* checkpoint of this workflow, and what was judged had been proposed.     *)
(* Every rebuild asks it; as it always holds (InvestigationJournalValid),  *)
(* the actions ask only for the workflow's part, JournalValid.             *)
InvestigationSourceValid ==
    investigated =>
        /\ \E i \in 1..Len(journal) : journal[i].state = TICKET_READY
        /\ \A v \in verdicts : v.evidence \in candidates

(* record_response_candidate up to its transaction.                        *)
Propose(a) ==
    /\ pc[a] = "candidate"
    /\ IF ~DW!JournalValid THEN Leave(a, "workflow_journal_invalid")
       ELSE IF Evidence \in candidates THEN Goto(a, "verify")
       ELSE IF Latest.state # INVESTIGATING
       THEN Leave(a, "investigation_state_not_allowlisted")
       ELSE IF Cardinality({n \in Range(steps) : Action(n) = "response_candidate"}) # 1
       THEN Leave(a, "response_candidate_action_missing")
       ELSE Goto(a, "propose")
    /\ UNCHANGED agentVars /\ StoreUnchanged

(* The transaction of record_response_candidate.                           *)
RecordResponseCandidate(a) ==
    /\ pc[a] = "propose"
    /\ candidates' = candidates \cup {Evidence}
    /\ IF Evidence \in candidates THEN Leave(a, "response_candidate_persist_failed")
       ELSE Goto(a, "verify")
    /\ UNCHANGED <<transcript, investigated, steps, exchanges, verdicts, turn, verdict, runs>>
    /\ StoreUnchanged

ToolsRead == [i \in 1..Len(exchanges) |-> Action(exchanges[i])]

(* Mutant: the evidence is checked for completeness, not for its order.    *)
VerifierReasonUnordered(evidence) ==
    IF /\ Len(steps) <= transcript.actionBudget /\ Len(exchanges) <= transcript.toolBudget
       /\ steps # <<>> /\ Action(steps[Len(steps)]) = "response_candidate"
       /\ Range(ToolsRead) = Tools
       /\ evidence = ToolsRead
    THEN "verified" ELSE "rejected"

(* _deterministic_verifier_reason: the durable rows alone decide.          *)
DeterministicVerifierReason(evidence) ==
    IF /\ Len(steps) <= transcript.actionBudget /\ Len(exchanges) <= transcript.toolBudget
       /\ steps # <<>> /\ Action(steps[Len(steps)]) = "response_candidate"
       /\ ToolsRead = RequiredTools
       /\ evidence = ToolsRead
    THEN "verified" ELSE "rejected"

(* verify_response_candidate up to its transaction.  It does not look at   *)
(* the state of the workflow.                                              *)
Verify(a) ==
    /\ pc[a] = "verify"
    /\ IF ~DW!JournalValid THEN Leave(a, "workflow_journal_invalid") /\ UNCHANGED verdict
       ELSE IF Judged(Evidence) # {}
       THEN /\ Goto(a, "advance")
            /\ \E v \in Judged(Evidence) : verdict' = [verdict EXCEPT ![a] = v.verdict]
       ELSE /\ Goto(a, "outcome")
            /\ verdict' = [verdict EXCEPT ![a] = DeterministicVerifierReason(Evidence)]
    /\ UNCHANGED <<transcript, factVars, turn, runs>> /\ StoreUnchanged

(* The transaction of verify_response_candidate; a candidate is judged once. *)
RecordVerifierOutcome(a) ==
    /\ pc[a] = "outcome"
    /\ IF Judged(Evidence) # {}
       THEN Leave(a, "verifier_outcome_persist_failed") /\ UNCHANGED verdicts
       ELSE /\ Goto(a, "advance")
            /\ verdicts' = verdicts \cup {[evidence |-> Evidence, verdict |-> verdict[a]]}
    /\ UNCHANGED <<transcript, investigated, steps, exchanges, candidates, turn, verdict, runs>>
    /\ StoreUnchanged

(* Mutant: the verdict is not looked at.                                   *)
AdvanceAnyCandidate(p) ==
    /\ pc[p] = "advance"
    /\ IF Latest.state = RESPONSE_READY THEN Goto(p, "finish")
       ELSE IF Latest.state # INVESTIGATING
       THEN Leave(p, "investigation_state_not_allowlisted")
       ELSE MoveTo(p, RESPONSE_CANDIDATE_VERIFIED, RESPONSE_READY, "verifier", "finish")
    /\ UNCHANGED agentVars /\ StoreUnchanged

(* _advance_verified_candidate                                             *)
AdvanceVerifiedCandidate(p) ==
    /\ pc[p] = "advance"
    /\ IF verdict[p] # "verified" \/ Latest.state = RESPONSE_READY THEN Goto(p, "finish")
       ELSE IF Latest.state # INVESTIGATING
       THEN Leave(p, "investigation_state_not_allowlisted")
       ELSE MoveTo(p, RESPONSE_CANDIDATE_VERIFIED, RESPONSE_READY, "verifier", "finish")
    /\ UNCHANGED agentVars /\ StoreUnchanged

-----------------------------------------------------------------------------
(* The recovery sweep of an investigation.                                 *)

Verified == \E v \in verdicts : v.verdict = "verified"

(* Mutant: recovery leaves a verified candidate to the next agent run.     *)
RecoverNothing(p) ==
    /\ pc[p] = "dispatch"
    /\ IF investigated /\ journal[reg[p].at].state = TICKET_READY
       THEN /\ DW!Transition(p, reg[p], INVESTIGATION_STARTED, INVESTIGATING, INVESTIGATING,
                             DW!Cause("investigation"), journal[reg[p].at].pending,
                             journal[reg[p].at].completed, "recover")
            /\ UNCHANGED verdict
       ELSE Goto(p, "finish") /\ UNCHANGED verdict
    /\ UNCHANGED <<transcript, factVars, turn, runs>> /\ StoreUnchanged

(* _recover_workflow and _recover_investigation, on the checkpoint in hand. *)
RecoverInvestigation(p) ==
    /\ pc[p] = "dispatch"
    /\ LET c == journal[reg[p].at] IN
       IF investigated /\ c.state = TICKET_READY
       THEN /\ DW!Transition(p, reg[p], INVESTIGATION_STARTED, INVESTIGATING, INVESTIGATING,
                             DW!Cause("investigation"), c.pending, c.completed, "recover")
            /\ UNCHANGED verdict
       ELSE IF investigated /\ c.state = INVESTIGATING /\ Verified
       THEN Goto(p, "advance") /\ verdict' = [verdict EXCEPT ![p] = "verified"]
       ELSE Goto(p, "finish") /\ UNCHANGED verdict
    /\ UNCHANGED <<transcript, factVars, turn, runs>> /\ StoreUnchanged

(* The second half, after the transition: the latest checkpoint counts.    *)
RecoverVerified(p) ==
    /\ pc[p] = "recover"
    /\ IF Latest.state = INVESTIGATING /\ Verified
       THEN Goto(p, "advance") /\ verdict' = [verdict EXCEPT ![p] = "verified"]
       ELSE Goto(p, "finish") /\ UNCHANGED verdict
    /\ UNCHANGED <<transcript, factVars, turn, runs>> /\ StoreUnchanged

-----------------------------------------------------------------------------
(* What sweeps and operators do as in DurableWorkflow.                     *)

StartSweep(p) == p \in Sweepers /\ DW!StartSweep(p) /\ UNCHANGED agentVars
StartSubmit(p) == DW!StartSubmit(p) /\ UNCHANGED agentVars

WorkflowStep(p) ==
    /\ \/ DW!AppendCheckpoint(p) \/ DW!SyncCaseState(p) \/ DW!AppendWorkflowStateEvent(p)
       \/ DW!RecoverWorkflow(p) \/ DW!ReadPendingCommands(p) \/ DW!RecoverPendingCommand(p)
       \/ DW!CommandApplied(p) \/ DW!PersistCommand(p) \/ DW!ApplyCommand(p)
       \/ DW!FinishSweep(p)
    /\ UNCHANGED agentVars

Crash(p) == DW!Crash(p) /\ UNCHANGED agentVars

AgentStep(a) ==
    \/ BeginInvestigation(a) \/ EnterInvestigation(a) \/ NextAction(a)
    \/ RecordAgentAction(a) \/ ReadTool(a) \/ RecordToolExchange(a) \/ Propose(a)
    \/ RecordResponseCandidate(a) \/ Verify(a) \/ RecordVerifierOutcome(a)

Step(p) ==
    AgentStep(p) \/ AdvanceVerifiedCandidate(p) \/ RecoverInvestigation(p)
      \/ RecoverVerified(p) \/ WorkflowStep(p)

(* The workflow as an undisturbed first sweep leaves it in TICKET_READY.   *)
Find    == DW!FIND_OR_CREATE
Handoff == DW!WORKFLOW_HANDOFF

TicketReadyJournal ==
    LET row(pending, completed, by, op) ==
            [DW!FirstCheckpoint EXCEPT !.pending = pending, !.completed = completed,
                                       !.cause = DW!EffectCause(by, op)] IN
    <<DW!FirstCheckpoint,
      row({Find}, {}, "intent", Find), row({}, {Find}, "completion", Find),
      row({Handoff}, {Find}, "intent", Handoff),
      row({}, {Find, Handoff}, "completion", Handoff),
      [state |-> TICKET_READY, resume |-> TICKET_READY, pending |-> {},
       completed |-> {Find, Handoff}, cause |-> DW!Cause("handoff"),
       kind |-> TICKET_HANDOFF_COMPLETE]>>

TicketDone ==
    /\ activated = TRUE /\ journal = TicketReadyJournal
    /\ events = <<[at |-> 6, from |-> RECEIVED, to |-> TICKET_READY]>>
    /\ intents = {Find, Handoff} /\ ticket = <<Find, Handoff>>
    /\ operations = [op \in {Find, Handoff} |-> IF op = Find THEN 1 ELSE 2]
    /\ observations = {[op |-> op, phase |-> ph, status |-> IF ph = "execute" THEN "present" ELSE "absent",
                        version |-> IF op = Find /\ ph = "reconcile" THEN 0
                                    ELSE IF op = Handoff /\ ph = "execute" THEN 2 ELSE 1]
                       : op \in {Find, Handoff}, ph \in {"reconcile", "execute"}}
    /\ completions = [op \in {Find, Handoff} |->
                        [phase |-> "execute", version |-> operations[op]]]
    /\ slaFact = 0 /\ expired = FALSE

Init ==
    /\ transcript \in Transcripts
    /\ investigated = FALSE /\ steps = <<>> /\ exchanges = <<>>
    /\ candidates = {} /\ verdicts = {} /\ runs = 0
    /\ turn = [a \in Agents |-> 0]
    /\ verdict = [p \in Agents \cup Sweepers |-> "none"]
    /\ TicketDone
    /\ commands = <<>> /\ sweeps = 0 /\ submits = 0 /\ crashes = 0 /\ timeouts = 0
    /\ pc = [p \in DW!Procs |-> "idle"]
    /\ reg = [p \in DW!Procs |-> DW!NoRegisters]
    /\ result = [p \in DW!Procs |-> "none"]

Next ==
    \E p \in DW!Procs : StartRun(p) \/ StartSweep(p) \/ StartSubmit(p) \/ Step(p) \/ Crash(p)

Spec == Init /\ [][Next]_vars

-----------------------------------------------------------------------------
(* Fairness: a process that is at work goes on or crashes, and sweeps are  *)
(* repeated (DurableWorkflow).  Nobody has to run an agent again.          *)
Fairness ==
    /\ \A p \in Sweepers : WF_vars(StartSweep(p) \/ Step(p))
    /\ \A p \in Agents \cup Operators : WF_vars(Step(p))

FairSpec == Spec /\ Fairness

-----------------------------------------------------------------------------
Verdicts == {"none", "verified", "rejected"}
Labels ==
    {"idle", "append", "sync", "event", "rebuild", "pending", "commands", "applied",
     "dispatch", "finish", "persist", "apply", "investigate", "begun", "act", "step",
     "read", "exchange", "candidate", "propose", "verify", "outcome", "advance", "recover"}

(* Every fact of the investigation is a record of its kind, and a process  *)
(* is always at a place of its code.                                       *)
TypeOK ==
    /\ investigated \in BOOLEAN
    /\ steps \in Seq(1..Len(transcript.actions)) /\ exchanges \in Seq(1..Len(transcript.actions))
    /\ candidates \subseteq Seq(Tools)
    /\ verdicts \subseteq [evidence : candidates, verdict : Verdicts \ {"none"}]
    /\ turn \in [Agents -> 0..Len(transcript.actions)]
    /\ verdict \in [Agents \cup Sweepers -> Verdicts]
    /\ pc \in [DW!Procs -> Labels]

(* The durable facts are those of one undisturbed run, as far as it got,   *)
(* whoever of the racing and crashing agents wrote them: steps and reads   *)
(* in the order of the transcript, none twice, and no step before the      *)
(* evidence of the step before it.                                         *)
FactsInOrder ==
    /\ \A i \in 1..Len(steps) : steps[i] = i
    /\ \A i \in 1..Len(exchanges) : exchanges[i] = i
    /\ Len(exchanges) <= Len(steps) /\ Len(steps) <= Len(exchanges) + 1
    /\ candidates # {} => Len(steps) = Len(transcript.actions)

(* The verdict is the one the transcript deserves: verified exactly when   *)
(* its reads are the required tools in their order.  No race, crash or     *)
(* rerun makes _deterministic_verifier_reason see other rows.              *)
VerdictAsDeserved ==
    \A v \in verdicts : v.verdict = "verified" <=> Evidence = RequiredTools

(* The workflow becomes RESPONSE_READY once, and only for a candidate that *)
(* was verified.                                                           *)
ReadyOnlyVerified ==
    LET ready == {i \in 1..Len(journal) : journal[i].kind = RESPONSE_CANDIDATE_VERIFIED} IN
    Cardinality(ready) <= 1 /\ (ready # {} => Verified)

(* Operator commands and agents together never leave a journal or          *)
(* investigation rows that the validation of the next rebuild rejects.     *)
InvestigationJournalValid == DW!JournalValid /\ InvestigationSourceValid

AgentsIdle == \A a \in Agents : pc[a] = "idle"

(* A Case that was cancelled while no agent was at work, before the        *)
(* verifier judged a candidate, is never judged any more, however often    *)
(* run_investigation_replay is called again.                               *)
CancelledIsNeverJudged ==
    [](Latest.state = CANCELLED /\ AgentsIdle /\ verdicts = {} => [](verdicts = {}))

Stuck == \E p \in Sweepers :
    result[p] \in {"workflow_event_predecessor_mismatch", "workflow_command_recovery_conflict"}

(* A verified candidate makes the workflow RESPONSE_READY through sweeps   *)
(* alone, unless an operator holds it or a lost Case event or an overtaken *)
(* command makes the sweeps fail.                                          *)
VerifiedBecomesReadyUnlessStuck ==
    Verified ~> (Latest.state \in {RESPONSE_READY, PAUSED, CANCELLED} \/ Stuck)

(* A command that was persisted gets its checkpoint, even when the         *)
(* operator's process stops right after persisting it, unless an agent     *)
(* moved the workflow on meanwhile or a Case event was lost.               *)
CommandTakesEffectUnlessStuck ==
    \A id \in 1..MaxCommands :
        (id <= Len(commands)) ~> (DW!CommandCheckpointExists(id) \/ Stuck)
=============================================================================
