--------------------------- MODULE DurableWorkflow ---------------------------
(***************************************************************************)
(* One durable support workflow over its SQLite journal                    *)
(* (weflow_control_kernel/durable_workflow.py, class                       *)
(* SQLiteDurableWorkflow), from activation to TICKET_READY, together with  *)
(* the operator commands, the synthetic SLA deadline, the fixture-local    *)
(* ticket effects and the Case events the workflow appends.                *)
(*                                                                         *)
(* Workers run recover_all / recover_workflow, operators run               *)
(* submit_command; they are separate processes over one store.  Every      *)
(* BEGIN IMMEDIATE ... commit is one action.  The reads a process makes    *)
(* between two transactions are one action too, separate from the          *)
(* transaction that uses what was read, so a value may be stale when it is *)
(* written back.  A process may stop between any two actions: what it held *)
(* in registers is gone, what is in the store stays.                       *)
(***************************************************************************)
EXTENDS WorkflowState, Naturals, Sequences, FiniteSets

CONSTANTS
    Workers,        \* processes that run recovery sweeps
    Operators,      \* processes that submit pause / resume / cancel
    Serialized,     \* TRUE: no process starts while another is at work
    CommandTypes,   \* the command types the operators use
    MaxSweeps,      \* bound: recovery sweeps, where processes may overlap
    MaxCommands,    \* bound: distinct command identities
    MaxSubmits,     \* bound: calls of submit_command, retries included
    MaxCrashes,     \* bound: process crashes
    MaxTimeouts,    \* bound: injected reconciliation timeouts
    SlaMayExpire    \* whether the clock may reach the SLA deadline

ASSUME ProcessAssumption == Workers \cap Operators = {}
ASSUME CommandAssumption == CommandTypes \subseteq {PAUSE, RESUME, CANCEL}
ASSUME BoundAssumption ==
    /\ MaxSweeps \in Nat /\ MaxCommands \in Nat /\ MaxSubmits \in Nat
    /\ MaxCrashes \in Nat /\ MaxTimeouts \in Nat
    /\ Serialized \in BOOLEAN /\ SlaMayExpire \in BOOLEAN

Procs == Workers \cup Operators

FIND_OR_CREATE   == "find-or-create"
WORKFLOW_HANDOFF == "workflow-handoff"
Operations == {FIND_OR_CREATE, WORKFLOW_HANDOFF}

VARIABLES
    activated,     \* workflow_activations holds the row of this Case revision
    journal,       \* workflow_checkpoints, in checkpoint_sequence order
    events,        \* workflow-originated business_events of the Case
    intents,       \* side_effect_intents: the operations with an intent row
    ticket,        \* fixture_ticket_revisions: the operation behind each version
    operations,    \* fixture_ticket_operations: observed version, 0 = no row
    observations,  \* side_effect_observations
    completions,   \* side_effect_completions, phase "none" = no row
    slaFact,       \* workflow_sla_events: checkpoint of the row, 0 = no row
    commands,      \* workflow_commands, in accepted order
    expired,       \* the clock has reached sla_deadline_at
    sweeps, submits, crashes, timeouts,   \* what the bounds count
    pc,            \* where each process is, "idle" between calls
    reg,           \* the values each process holds between transactions
    result         \* how the last call of each process ended, "none" while a sweep runs

effectVars == <<intents, ticket, operations, observations, completions>>
boundVars  == <<sweeps, submits, crashes, timeouts>>
storeVars  == <<activated, journal, events, slaFact, commands>>
vars == <<storeVars, effectVars, expired, boundVars, pc, reg, result>>

-----------------------------------------------------------------------------
(* Records.                                                                *)

Kinds  == WORKFLOW_TRANSITION_KINDS \cup {"none"}
Causes == [by : {"none", "source", "intent", "completion", "handoff", "sla",
                 "reconciliation", "command"},
           op : Operations \cup {"none"}, id : Nat]
Cause(by) == [by |-> by, op |-> "none", id |-> 0]
EffectCause(by, op) == [by |-> by, op |-> op, id |-> 0]
CommandCause(id) == [by |-> "command", op |-> "none", id |-> id]

Checkpoints == [state : WORKFLOW_STATES, resume : WORKFLOW_STATES,
                pending : SUBSET Operations, completed : SUBSET Operations,
                cause : Causes, kind : Kinds]
FirstCheckpoint == [state |-> RECEIVED, resume |-> RECEIVED, pending |-> {},
                    completed |-> {}, cause |-> Cause("source"), kind |-> "none"]
NoCheckpoint == [FirstCheckpoint EXCEPT !.cause = Cause("none")]

Phases   == {"reconcile", "reconcile-timeout", "execute"}
Statuses == {"absent", "present", "unknown", "conflict"}
Outcomes == [status : Statuses, version : Nat]
NoOutcome == [status |-> "unknown", version |-> 0]
NoCompletion == [phase |-> "none", version |-> 0]

Commands == [id : Nat, type : {PAUSE, RESUME, CANCEL}, version : Nat]
NoCommand == [id |-> 0, type |-> PAUSE, version |-> 0]

NoRegisters == [at |-> 0, base |-> 0, want |-> NoCheckpoint, ret |-> "idle",
                cont |-> "idle", op |-> FIND_OR_CREATE, out |-> NoOutcome,
                phase |-> "reconcile", from |-> RECEIVED, cmd |-> NoCommand,
                row |-> 0, rows |-> 0, driving |-> FALSE]

(* Checkpoints, transitions and Case events of this workflow.              *)
INSTANCE WorkflowJournal

CommandCheckpointExists(id) ==
    \E i \in 1..Len(journal) : journal[i].cause = CommandCause(id)

(* What the readers of the store compute.                                  *)
(* Mutant: the effects the last checkpoint calls pending.                  *)
PendingInCheckpoint == IF journal = <<>> THEN {} ELSE journal[Len(journal)].pending

Completed  == {op \in Operations : completions[op].phase # "none"}
Unresolved == intents \ Completed

-----------------------------------------------------------------------------
(* rebuild_workflow_projection raises unless every record of the journal   *)
(* is consistent: what it accepts is the meaning of a valid journal.       *)

TicketSourceValid ==
    \A op \in Operations : operations[op] > 0 =>
        /\ op \in intents
        /\ operations[op] \in 1..Len(ticket)
        /\ ticket[operations[op]] = op
        /\ op = FIND_OR_CREATE => operations[op] = 1

EffectChainValid ==
    \A op \in Completed : \E o \in observations :
        /\ o.op = op /\ o.status = "present"
        /\ o.phase = completions[op].phase /\ o.version = completions[op].version

(* Every checkpoint follows from the one before it.                        *)
CheckpointsValid ==
    /\ journal[1] = FirstCheckpoint
    /\ \A i \in 2..Len(journal) : ValidSuccessor(journal[i-1], journal[i])
    /\ \A i \in 1..Len(journal) : journal[i].pending \cap journal[i].completed = {}

(* A command has moved the workflow at most once.                          *)
CommandsAppliedOnce ==
    \A c \in 1..Len(commands) : \A i, j \in 1..Len(journal) :
       journal[i].cause = CommandCause(c) /\ journal[j].cause = CommandCause(c) => i = j

(* The last checkpoint names effects that exist, and completed ones that   *)
(* are.                                                                    *)
EffectsOnRecord ==
    /\ Latest.pending \cup Latest.completed \subseteq intents
    /\ Latest.completed \subseteq Completed

JournalValid ==
    journal # <<>> => /\ CheckpointsValid /\ CommandsAppliedOnce /\ EffectsOnRecord
                      /\ EffectChainValid /\ TicketSourceValid

-----------------------------------------------------------------------------
(* Control of one process.                                                 *)

MayStart(p) ==
    /\ pc[p] = "idle"
    /\ Serialized => \A q \in Procs : pc[q] = "idle"

(* The transaction of _ensure_checkpoint.                                  *)
AppendCheckpoint(p) ==
    /\ AppendRow(p)
    /\ UNCHANGED <<activated, slaFact, commands, effectVars, expired, boundVars>>

(* Mutant: the blocked checkpoint saves its own state as the continuation. *)
EnterReconciliationForgetful(p, r, cause, cont) ==
    IF journal[r.at].state = NEEDS_RECONCILIATION
    THEN Goto(p, cont, r)
    ELSE Transition(p, r, RECONCILIATION_REQUIRED, NEEDS_RECONCILIATION,
                    NEEDS_RECONCILIATION, cause, Unresolved, Completed, cont)

(* _enter_reconciliation                                                   *)
EnterReconciliation(p, r, cause, cont) ==
    IF journal[r.at].state = NEEDS_RECONCILIATION
    THEN Goto(p, cont, r)
    ELSE Transition(p, r, RECONCILIATION_REQUIRED, NEEDS_RECONCILIATION,
                    journal[r.at].state, cause, Unresolved, Completed, cont)

(* _sync_case_state up to the ledger call.                                 *)
SyncCaseState(p) ==
    /\ ReadCaseState(p)
    /\ UNCHANGED <<storeVars, effectVars, expired, boundVars>>

(* SQLiteCaseLedger._append_workflow_state_event                           *)
AppendWorkflowStateEvent(p) ==
    /\ AppendStateEvent(p)
    /\ UNCHANGED <<activated, slaFact, commands, effectVars, expired, boundVars>>

-----------------------------------------------------------------------------
(* The recovery sweep.                                                     *)

(* recover_all: a Case revision without an activation is activated first.  *)
StartSweep(p) ==
    /\ p \in Workers /\ MayStart(p)
    /\ pc' = [pc EXCEPT ![p] = IF activated THEN "rebuild" ELSE "activate"]
    /\ result' = [result EXCEPT ![p] = "none"]
    /\ Serialized \/ sweeps < MaxSweeps
    /\ sweeps' = IF Serialized THEN sweeps ELSE sweeps + 1
    /\ UNCHANGED <<storeVars, effectVars, expired, submits, crashes, timeouts, reg>>

(* activate_case: one activation and its first run, or the existing one.   *)
ActivateCase(p) ==
    /\ pc[p] = "activate"
    /\ activated' = TRUE
    /\ Goto(p, "rebuild", reg[p])
    /\ UNCHANGED <<journal, events, slaFact, commands, effectVars, expired, boundVars>>

(* Mutant: recovery that does not finish an interrupted Case event.        *)
RecoverWorkflowNoSync(p) ==
    /\ pc[p] = "rebuild"
    /\ IF ~JournalValid THEN Stop(p, "workflow_journal_invalid")
       ELSE IF journal = <<>>
       THEN EnsureCheckpoint(p, reg[p], FirstCheckpoint, "pending", "idle")
       ELSE Goto(p, "pending", [reg[p] EXCEPT !.at = Len(journal)])
    /\ UNCHANGED <<storeVars, effectVars, expired, boundVars>>

(* recover_workflow, first half: rebuild the projections, make sure of the *)
(* first checkpoint, finish an interrupted Case event.                     *)
RecoverWorkflow(p) ==
    /\ pc[p] = "rebuild"
    /\ IF ~JournalValid THEN Stop(p, "workflow_journal_invalid")
       ELSE IF journal = <<>>
       THEN EnsureCheckpoint(p, reg[p], FirstCheckpoint, "sync", "pending")
       ELSE Goto(p, "sync", [reg[p] EXCEPT !.at = Len(journal), !.cont = "pending"])
    /\ UNCHANGED <<storeVars, effectVars, expired, boundVars>>

(* Mutant: recovery that never looks at persisted commands.                *)
ReadNoPendingCommands(p) ==
    /\ pc[p] = "pending"
    /\ IF ~JournalValid THEN Stop(p, "workflow_journal_invalid")
       ELSE Goto(p, "dispatch", [NoRegisters EXCEPT !.at = Len(journal)])
    /\ UNCHANGED <<storeVars, effectVars, expired, boundVars>>

(* recover_workflow, second half, and the row read of                      *)
(* _recover_pending_commands.                                              *)
ReadPendingCommands(p) ==
    /\ pc[p] = "pending"
    /\ IF ~JournalValid THEN Stop(p, "workflow_journal_invalid")
       ELSE Goto(p, "commands", [reg[p] EXCEPT !.row = 1, !.rows = Len(commands)])
    /\ UNCHANGED <<storeVars, effectVars, expired, boundVars>>

(* Mutant: a resumed workflow starts over.                                 *)
RestartState(c) == RECEIVED

(* The state a resume command goes back to.                                *)
ResumeTarget(c) == c.resume

(* _apply_persisted_command for a command without a checkpoint.            *)
ApplyPersistedCommand(p, c) ==
    LET r == [reg[p] EXCEPT !.at = Len(journal)]
        current == Latest
        apply(kind, next, resume) ==
            Transition(p, r, kind, next, resume, CommandCause(c.id),
                       current.pending, current.completed, "applied") IN
    IF Len(journal) - 1 # c.version
    THEN Stop(p, "workflow_command_recovery_conflict")
    ELSE CASE c.type = PAUSE  -> apply(PAUSE, PAUSED, current.state)
           [] c.type = RESUME -> apply(RESUME, ResumeTarget(current), ResumeTarget(current))
           [] c.type = CANCEL ->
                IF Unresolved # {}
                THEN EnterReconciliation(p, r, CommandCause(c.id), "applied")
                ELSE IF current.state = NEEDS_RECONCILIATION
                THEN Goto(p, "applied", r)
                ELSE apply(CANCEL, CANCELLED, CANCELLED)

(* The loop of _recover_pending_commands, one persisted command at a time. *)
RecoverPendingCommand(p) ==
    /\ pc[p] = "commands"
    /\ LET c == commands[reg[p].row] IN
       IF reg[p].row > reg[p].rows
       THEN Goto(p, "dispatch", [NoRegisters EXCEPT !.at = Len(journal)])
       ELSE IF \/ c.type = CANCEL /\ Latest.state = NEEDS_RECONCILIATION
               \/ CommandCheckpointExists(c.id)
       THEN Goto(p, "commands", [reg[p] EXCEPT !.row = @ + 1])
       ELSE ApplyPersistedCommand(p, c)
    /\ UNCHANGED <<storeVars, effectVars, expired, boundVars>>

(* The projection rebuild that ends _apply_persisted_command.              *)
CommandApplied(p) ==
    /\ pc[p] = "applied"
    /\ IF ~JournalValid THEN Stop(p, "workflow_journal_invalid")
       ELSE IF p \in Operators THEN Stop(p, "ok")
       ELSE Goto(p, "commands", [reg[p] EXCEPT !.row = @ + 1])
    /\ UNCHANGED <<storeVars, effectVars, expired, boundVars>>

(* _recover_workflow: the deadline passed before the handoff was complete. *)
SlaDue(c) ==
    /\ expired
    /\ WORKFLOW_HANDOFF \notin Completed
    /\ c.state \notin {WAITING_FOR_OPERATOR, NEEDS_RECONCILIATION, CANCELLED}

(* The only state in which a sweep drives the ticket effects.              *)
Runnable(state) == state = RECEIVED

(* _recover_workflow: what the checkpoint in hand calls for.               *)
Dispatch(p) ==
    /\ pc[p] = "dispatch"
    /\ LET c == journal[reg[p].at] IN
       \/ /\ SlaDue(c)
          /\ Goto(p, "sla", reg[p])
       \/ /\ ~SlaDue(c) /\ c.state = NEEDS_RECONCILIATION /\ Unresolved # {}
          /\ \E op \in Unresolved : Goto(p, "process", [reg[p] EXCEPT !.op = op])
       \/ /\ ~SlaDue(c) /\ c.state = NEEDS_RECONCILIATION /\ Unresolved = {}
          /\ Goto(p, "reconciled", reg[p])
       \/ /\ ~SlaDue(c) /\ Runnable(c.state)
          /\ Goto(p, "intent", [reg[p] EXCEPT !.op = FIND_OR_CREATE, !.driving = TRUE])
       \/ /\ ~SlaDue(c) /\ c.state # NEEDS_RECONCILIATION /\ ~Runnable(c.state)
          /\ Goto(p, "finish", NoRegisters)
    /\ UNCHANGED <<storeVars, effectVars, expired, boundVars>>

(* get_workflow_projection, which every branch of _recover_workflow ends with. *)
FinishSweep(p) ==
    /\ pc[p] = "finish"
    /\ Stop(p, IF JournalValid THEN "ok" ELSE "workflow_journal_invalid")
    /\ UNCHANGED <<storeVars, effectVars, expired, boundVars>>

(* _record_sla_expiry: one deadline fact per workflow.                     *)
RecordSlaExpiry(p) ==
    /\ pc[p] = "sla"
    /\ \/ /\ slaFact \in {0, reg[p].at}
          /\ slaFact' = reg[p].at
          /\ Goto(p, "expire", reg[p])
       \/ /\ slaFact \notin {0, reg[p].at}
          /\ UNCHANGED slaFact
          /\ Stop(p, "workflow_sla_conflict")
    /\ UNCHANGED <<activated, journal, events, commands, effectVars, expired, boundVars>>

ExpireSla(p) ==
    /\ pc[p] = "expire"
    /\ LET c == journal[reg[p].at] IN
       Transition(p, reg[p], SLA_EXPIRED, WAITING_FOR_OPERATOR, WAITING_FOR_OPERATOR,
                  Cause("sla"), c.pending, c.completed, "finish")
    /\ UNCHANGED <<storeVars, effectVars, expired, boundVars>>

-----------------------------------------------------------------------------
(* The fixture-local ticket effects.                                       *)

(* _ensure_intent                                                          *)
EnsureIntent(p) ==
    /\ pc[p] = "intent"
    /\ intents' = intents \cup {reg[p].op}
    /\ Goto(p, "mark", reg[p])
    /\ UNCHANGED <<storeVars, ticket, operations, observations, completions,
                   expired, boundVars>>

(* Mutants: a progress checkpoint that forgets what is complete, or calls  *)
(* complete what is only intended.                                         *)
ForgetfulCheckpoint(state, cause) ==
    [state |-> state, resume |-> state, pending |-> Unresolved,
     completed |-> Completed \cap {cause.op}, cause |-> cause, kind |-> "none"]
HastyCheckpoint(state, cause) ==
    [state |-> state, resume |-> state, pending |-> {},
     completed |-> intents, cause |-> cause, kind |-> "none"]

(* _drive_effect: a progress checkpoint that keeps the state in hand.      *)
ProgressCheckpoint(state, cause) ==
    [state |-> state, resume |-> state, pending |-> Unresolved,
     completed |-> Completed, cause |-> cause, kind |-> "none"]

(* _drive_effect: the checkpoint that names the pending intent.            *)
MarkIntent(p) ==
    /\ pc[p] = "mark"
    /\ EnsureCheckpoint(p, reg[p],
                        ProgressCheckpoint(journal[reg[p].at].state,
                                           EffectCause("intent", reg[p].op)),
                        "process", "idle")
    /\ UNCHANGED <<storeVars, effectVars, expired, boundVars>>

(* _expected_handoff_version: 0 stands for None.                           *)
ExpectedHandoffVersion ==
    IF FIND_OR_CREATE \in intents \cap Completed
    THEN completions[FIND_OR_CREATE].version ELSE 0

(* _reconcile_intent: look the natural key up before any execution.        *)
Reconciled(op) ==
    IF operations[op] > 0 THEN [status |-> "present", version |-> operations[op]]
    ELSE IF op = FIND_OR_CREATE
    THEN IF ticket = <<>> THEN [status |-> "absent", version |-> 0]
         ELSE [status |-> "present", version |-> Len(ticket)]
    ELSE IF ticket = <<>> \/ ExpectedHandoffVersion = 0
    THEN [status |-> "conflict", version |-> 0]
    ELSE IF Len(ticket) = ExpectedHandoffVersion
    THEN [status |-> "absent", version |-> 0]
    ELSE [status |-> "conflict", version |-> Len(ticket)]

(* _process_intent up to its first write: a completed intent is not touched *)
(* again; otherwise reconcile, or meet an injected reconciliation timeout. *)
ProcessIntent(p) ==
    /\ pc[p] = "process"
    /\ LET op == reg[p].op IN
       \/ /\ op \in Completed
          /\ Goto(p, IF reg[p].driving THEN "driven" ELSE "reconciled", reg[p])
          /\ UNCHANGED timeouts
       \/ /\ op \notin Completed
          /\ Goto(p, "observe", [reg[p] EXCEPT !.out = Reconciled(op), !.phase = "reconcile"])
          /\ UNCHANGED timeouts
       \/ /\ op \notin Completed /\ timeouts < MaxTimeouts
          /\ Goto(p, "observe", [reg[p] EXCEPT !.out = NoOutcome,
                                               !.phase = "reconcile-timeout"])
          /\ timeouts' = timeouts + 1
    /\ UNCHANGED <<storeVars, effectVars, expired, sweeps, submits, crashes>>

(* Mutants: an absent effect is taken for done; an unknown outcome is not  *)
(* told from an absent effect.                                             *)
AssumeDone(r) ==
    IF r.out.status \in {"present", "absent"} THEN "complete"
    ELSE IF r.driving THEN "block" ELSE "finish"
ExecuteUnlessConflict(r) ==
    CASE r.out.status = "present"  -> "complete"
      [] r.out.status = "conflict" -> IF r.driving THEN "block" ELSE "finish"
      [] r.out.status \in {"absent", "unknown"} -> "execute"

(* _record_observation, and the branch _process_intent takes on it.        *)
AfterObservation(r) ==
    CASE r.out.status = "present"              -> "complete"
      [] r.out.status = "absent"               -> "execute"
      [] r.out.status \notin {"present", "absent"} ->
            IF r.driving THEN "block" ELSE "finish"

RecordObservation(p) ==
    /\ pc[p] = "observe"
    /\ observations' = observations \cup
          {[op |-> reg[p].op, phase |-> reg[p].phase, status |-> reg[p].out.status,
            version |-> reg[p].out.version]}
    /\ Goto(p, AfterObservation(reg[p]), reg[p])
    /\ UNCHANGED <<storeVars, intents, ticket, operations, completions, expired, boundVars>>

(* Mutant: the effect is executed on the strength of the earlier           *)
(* reconciliation, without looking again inside the transaction.           *)
ExecuteIntentUnchecked(p) ==
    /\ pc[p] = "execute"
    /\ ticket' = Append(ticket, reg[p].op)
    /\ operations' = [operations EXCEPT ![reg[p].op] = Len(ticket')]
    /\ Goto(p, "observe", [reg[p] EXCEPT !.phase = "execute",
             !.out = [status |-> "present", version |-> Len(ticket')]])
    /\ UNCHANGED <<storeVars, intents, observations, completions, expired, boundVars>>

(* _execute_intent: one transaction, idempotent on the idempotency key; a  *)
(* handoff updates only the version the find-or-create completion names.   *)
ExecuteIntent(p) ==
    /\ pc[p] = "execute"
    /\ LET op == reg[p].op
           executed(version) == [reg[p] EXCEPT !.phase = "execute",
                 !.out = [status |-> "present", version |-> version]] IN
       \/ /\ operations[op] > 0
          /\ Goto(p, "observe", executed(operations[op]))
          /\ UNCHANGED <<ticket, operations>>
       \/ /\ operations[op] = 0 /\ op = FIND_OR_CREATE
          /\ ticket' = IF ticket = <<>> THEN <<op>> ELSE ticket
          /\ operations' = [operations EXCEPT ![op] = Len(ticket')]
          /\ Goto(p, "observe", executed(Len(ticket')))
       \/ /\ operations[op] = 0 /\ op = WORKFLOW_HANDOFF
          /\ ticket # <<>> /\ Len(ticket) = ExpectedHandoffVersion
          /\ ticket' = Append(ticket, op)
          /\ operations' = [operations EXCEPT ![op] = Len(ticket')]
          /\ Goto(p, "observe", executed(Len(ticket')))
       \/ /\ operations[op] = 0 /\ op = WORKFLOW_HANDOFF
          /\ ticket = <<>> \/ Len(ticket) # ExpectedHandoffVersion
          /\ Goto(p, "observe", [reg[p] EXCEPT !.phase = "execute",
                                     !.out = [status |-> "conflict", version |-> 0]])
          /\ UNCHANGED <<ticket, operations>>
    /\ UNCHANGED <<storeVars, intents, observations, completions, expired, boundVars>>

(* _record_completion: at most one row; a row that names another           *)
(* observation is a conflict.                                              *)
RecordCompletion(p) ==
    /\ pc[p] = "complete"
    /\ LET op == reg[p].op
           row == [phase |-> reg[p].phase, version |-> reg[p].out.version] IN
       \/ /\ completions[op] \in {NoCompletion, row}
          /\ completions' = [completions EXCEPT ![op] = row]
          /\ Goto(p, IF reg[p].driving THEN "driven" ELSE "reconciled",
                  [reg[p] EXCEPT !.out = NoOutcome, !.phase = "reconcile"])
       \/ /\ completions[op] \notin {NoCompletion, row}
          /\ UNCHANGED completions
          /\ Stop(p, "workflow_completion_conflict")
    /\ UNCHANGED <<storeVars, intents, ticket, operations, observations, expired, boundVars>>

(* _drive_effect: an outcome that is not known blocks the workflow.        *)
BlockEffect(p) ==
    /\ pc[p] = "block"
    /\ EnterReconciliation(p, reg[p], EffectCause("intent", reg[p].op), "finish")
    /\ UNCHANGED <<storeVars, effectVars, expired, boundVars>>

(* _drive_effect: the checkpoint after a known completion.                 *)
MarkCompletion(p) ==
    /\ pc[p] = "driven"
    /\ EnsureCheckpoint(p, reg[p],
                        ProgressCheckpoint(journal[reg[p].at].state,
                                           EffectCause("completion", reg[p].op)),
                        "next", "idle")
    /\ UNCHANGED <<storeVars, effectVars, expired, boundVars>>

(* _recover_workflow, RECEIVED: find-or-create, then the handoff, then     *)
(* TICKET_READY.                                                           *)
NextEffect(p) ==
    /\ pc[p] = "next"
    /\ LET c == journal[reg[p].at] IN
       \/ /\ reg[p].op = FIND_OR_CREATE
          /\ Goto(p, "intent", [reg[p] EXCEPT !.op = WORKFLOW_HANDOFF])
       \/ /\ reg[p].op = WORKFLOW_HANDOFF
          /\ Transition(p, reg[p], TICKET_HANDOFF_COMPLETE, TICKET_READY, TICKET_READY,
                        Cause("handoff"), c.pending, c.completed, "finish")
    /\ UNCHANGED <<storeVars, effectVars, expired, boundVars>>

(* _recover_reconciliation once the intent it picked is complete.          *)
FinishReconciliation(p) ==
    /\ pc[p] = "reconciled"
    /\ LET resume == journal[reg[p].at].resume IN
       \/ /\ Unresolved # {}
          /\ Goto(p, "finish", NoRegisters)
       \/ /\ Unresolved = {}
          /\ Transition(p, reg[p], RECONCILIATION_COMPLETE, resume, resume,
                        Cause("reconciliation"), {}, Completed, "dispatch")
    /\ UNCHANGED <<storeVars, effectVars, expired, boundVars>>

-----------------------------------------------------------------------------
(* submit_command.  An operator names the version it has just read; a      *)
(* retry repeats the identity of an earlier command, with the same content *)
(* or another.                                                             *)

StartSubmit(p) ==
    /\ p \in Operators /\ MayStart(p) /\ activated
    /\ submits < MaxSubmits
    /\ submits' = submits + 1
    /\ \E type \in CommandTypes :
       \E cmd \in {[id |-> Len(commands) + 1, type |-> type,
                    version |-> IF journal = <<>> THEN 0 ELSE Len(journal) - 1]}
                  \cup {[commands[i] EXCEPT !.type = type] : i \in 1..Len(commands)} :
          /\ cmd.id <= MaxCommands
          /\ LET r == [NoRegisters EXCEPT !.cmd = cmd] IN
             IF journal = <<>>
             THEN EnsureCheckpoint(p, r, FirstCheckpoint, "prime", "idle")
             ELSE Goto(p, "persist", [r EXCEPT !.at = Len(journal)])
    /\ UNCHANGED <<storeVars, effectVars, expired, sweeps, crashes, timeouts>>

(* The projection rebuild after submit_command wrote the first checkpoint. *)
PrimeSubmit(p) ==
    /\ pc[p] = "prime"
    /\ IF JournalValid THEN Goto(p, "persist", reg[p])
       ELSE Stop(p, "workflow_journal_invalid")
    /\ UNCHANGED <<storeVars, effectVars, expired, boundVars>>

(* Whether the command is legal in the checkpoint read before the          *)
(* transaction.                                                            *)
CommandAllowed(type, c) ==
    CASE type = PAUSE  -> TransitionAllowed(c.state, PAUSE, PAUSED, c.state, FALSE)
      [] type = RESUME -> TransitionAllowed(c.state, RESUME, c.resume, c.resume, FALSE)
      [] type = CANCEL ->
            \/ Unresolved # {} \/ c.state = NEEDS_RECONCILIATION
            \/ TransitionAllowed(c.state, CANCEL, CANCELLED, CANCELLED, FALSE)

PersistCommand(p) ==
    /\ pc[p] = "persist"
    /\ LET cmd == reg[p].cmd IN
       \/ /\ cmd.id <= Len(commands) /\ commands[cmd.id] = cmd
          /\ Goto(p, "apply", reg[p])
          /\ UNCHANGED commands
       \/ /\ cmd.id <= Len(commands) /\ commands[cmd.id] # cmd
          /\ Stop(p, "workflow_command_conflict")
          /\ UNCHANGED commands
       \/ /\ cmd.id > Len(commands) /\ Len(journal) - 1 # cmd.version
          /\ Stop(p, "workflow_version_conflict")
          /\ UNCHANGED commands
       \/ /\ cmd.id > Len(commands) /\ Len(journal) - 1 = cmd.version
          /\ ~CommandAllowed(cmd.type, journal[reg[p].at])
          /\ Stop(p, "workflow_transition_not_allowed")
          /\ UNCHANGED commands
       \/ /\ cmd.id > Len(commands) /\ Len(journal) - 1 = cmd.version
          /\ CommandAllowed(cmd.type, journal[reg[p].at])
          /\ commands' = Append(commands, cmd)
          /\ Goto(p, "apply", reg[p])
    /\ UNCHANGED <<activated, journal, events, slaFact, effectVars, expired, boundVars>>

(* _apply_persisted_command as submit_command calls it.                    *)
ApplyCommand(p) ==
    /\ pc[p] = "apply"
    /\ IF CommandCheckpointExists(reg[p].cmd.id) THEN Goto(p, "applied", reg[p])
       ELSE ApplyPersistedCommand(p, reg[p].cmd)
    /\ UNCHANGED <<storeVars, effectVars, expired, boundVars>>

-----------------------------------------------------------------------------
(* The environment.                                                        *)

(* The clock reaches the recorded deadline, whatever the workflow does.    *)
DeadlinePasses ==
    /\ SlaMayExpire /\ activated /\ ~expired
    /\ expired' = TRUE
    /\ UNCHANGED <<storeVars, effectVars, boundVars, pc, reg, result>>

(* A process stops between two transactions: a crash, an injected          *)
(* interruption, or a failed BEGIN IMMEDIATE.                              *)
Crash(p) ==
    /\ pc[p] # "idle" /\ crashes < MaxCrashes
    /\ crashes' = crashes + 1
    /\ Stop(p, "interrupted")
    /\ UNCHANGED <<storeVars, effectVars, expired, sweeps, submits, timeouts>>

Init ==
    /\ activated = FALSE /\ journal = <<>> /\ events = <<>>
    /\ intents = {} /\ ticket = <<>> /\ observations = {}
    /\ operations = [op \in Operations |-> 0]
    /\ completions = [op \in Operations |-> NoCompletion]
    /\ slaFact = 0 /\ commands = <<>> /\ expired = FALSE
    /\ sweeps = 0 /\ submits = 0 /\ crashes = 0 /\ timeouts = 0
    /\ pc = [p \in Procs |-> "idle"]
    /\ reg = [p \in Procs |-> NoRegisters]
    /\ result = [p \in Procs |-> "none"]

JournalStep(p) ==
    AppendCheckpoint(p) \/ SyncCaseState(p) \/ AppendWorkflowStateEvent(p)

CommandStep(p) ==
    RecoverPendingCommand(p) \/ CommandApplied(p) \/ PrimeSubmit(p)
      \/ PersistCommand(p) \/ ApplyCommand(p)

SweepStep(p) ==
    ActivateCase(p) \/ RecoverWorkflow(p) \/ ReadPendingCommands(p) \/ Dispatch(p)
      \/ RecordSlaExpiry(p) \/ ExpireSla(p) \/ FinishSweep(p)

EffectStep(p) ==
    EnsureIntent(p) \/ MarkIntent(p) \/ ProcessIntent(p) \/ RecordObservation(p)
      \/ ExecuteIntent(p) \/ RecordCompletion(p) \/ BlockEffect(p)
      \/ MarkCompletion(p) \/ NextEffect(p) \/ FinishReconciliation(p)

Step(p) == JournalStep(p) \/ CommandStep(p) \/ SweepStep(p) \/ EffectStep(p)

Next ==
    \/ DeadlinePasses
    \/ \E p \in Procs : StartSweep(p) \/ StartSubmit(p) \/ Step(p) \/ Crash(p)

Spec == Init /\ [][Next]_vars
-----------------------------------------------------------------------------
(* Types.                                                                  *)

Labels ==
    {"idle", "append", "sync", "event", "activate", "rebuild", "pending", "commands",
     "applied", "dispatch", "finish", "sla", "expire", "intent", "mark", "process",
     "observe", "execute", "complete", "block", "driven", "next", "reconciled",
     "prime", "persist", "apply"}

Results ==
    {"none", "ok", "interrupted", "workflow_journal_invalid",
     "workflow_checkpoint_effect_overlap", "workflow_checkpoint_predecessor_invalid",
     "workflow_transition_not_allowed", "workflow_event_conflict",
     "workflow_event_predecessor_mismatch", "workflow_command_recovery_conflict",
     "workflow_command_conflict", "workflow_version_conflict",
     "workflow_sla_conflict", "workflow_completion_conflict"}

Registers ==
    [at : Nat, base : Nat, want : Checkpoints, ret : Labels, cont : Labels,
     op : Operations, out : Outcomes, phase : Phases, from : WORKFLOW_STATES,
     cmd : Commands, row : Nat, rows : Nat, driving : BOOLEAN]

EventRecords == [at : Nat, from : WORKFLOW_STATES, to : WORKFLOW_STATES]
Observations == [op : Operations, phase : Phases, status : Statuses, version : Nat]

(* Every table of the store and every register holds a record of its kind. *)
TypeOK ==
    /\ activated \in BOOLEAN /\ expired \in BOOLEAN
    /\ journal \in Seq(Checkpoints) /\ events \in Seq(EventRecords)
    /\ intents \in SUBSET Operations /\ ticket \in Seq(Operations)
    /\ operations \in [Operations -> Nat]
    /\ observations \in SUBSET Observations
    /\ completions \in [Operations -> [phase : Phases \cup {"none"}, version : Nat]]
    /\ slaFact \in Nat /\ commands \in Seq(Commands)
    /\ sweeps \in Nat /\ submits \in Nat /\ crashes \in Nat /\ timeouts \in Nat
    /\ pc \in [Procs -> Labels] /\ reg \in [Procs -> Registers]
    /\ result \in [Procs -> Results]

-----------------------------------------------------------------------------
(* Safety.                                                                 *)

(* The ticket effects happen at most once each and in order, however often *)
(* _execute_intent is reached: one find-or-create revision, then at most   *)
(* one handoff revision on top of it, each with its own operation row.     *)
TicketExactlyOnce ==
    /\ ticket \in {<<>>, <<FIND_OR_CREATE>>, <<FIND_OR_CREATE, WORKFLOW_HANDOFF>>}
    /\ \A op \in Operations : \A v \in 1..Len(ticket) :
          ticket[v] = op <=> operations[op] = v

(* A side_effect_completions row is the truth about the ticket: the        *)
(* operation ran, under a persisted intent, and produced the version the   *)
(* row names; the handoff is never complete before find-or-create.         *)
CompletionTruthful ==
    /\ \A op \in Completed :
          op \in intents /\ operations[op] = completions[op].version /\ operations[op] > 0
    /\ WORKFLOW_HANDOFF \in Completed => FIND_OR_CREATE \in Completed

(* No checkpoint claims an effect complete without its completion row, and *)
(* a workflow that was ever moved to TICKET_READY had both effects         *)
(* completed.                                                              *)
CheckpointsTruthful ==
    \A i \in 1..Len(journal) :
        /\ journal[i].completed \subseteq Completed
        /\ journal[i].kind = TICKET_HANDOFF_COMPLETE => Completed = Operations

(* The journal always passes the validation rebuild_workflow_projection    *)
(* runs before every recovery, so no state the code can leave behind       *)
(* blocks its own recovery.                                                *)
JournalStaysValid == JournalValid

(* A Case is never CANCELLED over an effect whose outcome is unknown.      *)
CancelledIsResolved ==
    journal # <<>> /\ Latest.state = CANCELLED => intents \subseteq Completed

(* The Case events are the transitions of the journal, in order.  What     *)
(* _validate_case_event_agreement demands once recovery has completed.     *)
CaseEventsAgree ==
    LET moved == SelectSeq([i \in 1..Len(journal) |-> i],
                           LAMBDA i : journal[i].kind # "none") IN
    /\ Len(events) = Len(moved)
    /\ \A k \in 1..Len(moved) :
          /\ events[k].at = moved[k]
          /\ events[k].to = journal[moved[k]].state
          /\ events[k].from = IF k = 1 THEN RECEIVED ELSE journal[moved[k-1]].state

(* The deadline fact names the checkpoint that expired, and the workflow   *)
(* expires at most once.                                                   *)
SlaFactNamesExpiry ==
    \A i \in 1..Len(journal) : journal[i].kind = SLA_EXPIRED =>
        slaFact = i - 1

(* No recovery sweep fails for having met its own deadline fact again.     *)
DeadlineFactStable == \A w \in Workers : result[w] # "workflow_sla_conflict"

-----------------------------------------------------------------------------
(* What a step may never do.                                               *)

(* A recovery sweep that ends well leaves the Case in the state of the     *)
(* workflow, whatever crashes and commands went before it.                 *)
SweepLeavesCaseInStep ==
    [][\A w \in Workers : pc[w] = "finish" /\ pc'[w] = "idle" /\ result'[w] = "ok"
         => CaseState = Latest.state]_vars

(* A recovery sweep that ends well leaves every transition of the journal  *)
(* with its Case event.                                                    *)
SweepLeavesEventsInStep ==
    [][\A w \in Workers : pc[w] = "finish" /\ pc'[w] = "idle" /\ result'[w] = "ok"
         => CaseEventsAgree]_vars

(* A resumed or reconciled workflow continues where its pause or block     *)
(* checkpoint says, and a cancelled one never moves again.                 *)
ContinuesWhereSaved ==
    [][journal' # journal /\ journal # <<>> =>
         /\ Latest.state # CANCELLED
         /\ Latest.state \in {PAUSED, NEEDS_RECONCILIATION} =>
               \/ Latest'.state = Latest.resume
               \/ Latest'.state \in {CANCELLED, WAITING_FOR_OPERATOR, NEEDS_RECONCILIATION}]_vars

(* What a process may act on: it has looked the effect up and was told     *)
(* that there is none, the look-up is on record, and the ticket is still   *)
(* as the look-up found it.                                                *)
KnownAbsent(op) ==
    /\ \E p \in Procs : reg[p].op = op /\ reg[p].phase = "reconcile"
                         /\ reg[p].out.status = "absent"
    /\ [op |-> op, phase |-> "reconcile", status |-> "absent", version |-> 0] \in observations
    /\ Reconciled(op).status = "absent"

ExecutesOnlyKnownAbsent ==
    \A op \in Operations : operations'[op] # operations[op] => KnownAbsent(op)

NoSweepLeavesRunnable ==
    \A w \in Workers : pc[w] = "finish" /\ pc'[w] = "idle" /\ result'[w] = "ok"
        => ~Runnable(Latest.state)

(* An outcome that _process_intent cannot tell blocks the effect: it runs  *)
(* only on an absence that is known and still so, never after a timeout,   *)
(* a crash or an earlier answer alone; and no sweep that ends well leaves  *)
(* the workflow where the next one would simply go on with the effect.     *)
UnknownOutcomeBlocks == [][ExecutesOnlyKnownAbsent /\ NoSweepLeavesRunnable]_vars

-----------------------------------------------------------------------------
(* The ticket effects implement EffectOnce: the durable tables are the     *)
(* abstract state, everything else a process does is a stuttering step.    *)

EffectsBefore(op) == IF op = WORKFLOW_HANDOFF THEN {FIND_OR_CREATE} ELSE {}
Executed == {op \in Operations : operations[op] > 0}

Effect == INSTANCE EffectOnce WITH
    Effects <- Operations, Requires <- EffectsBefore,
    intended <- intents, executed <- Executed, completed <- Completed

(* Each ticket operation is intended, executed once and only then known    *)
(* complete, in this order, under crashes, retries and racing processes:   *)
(* _ensure_intent, _execute_intent and _record_completion are the only     *)
(* steps that are not stuttering steps of EffectOnce.                      *)
ImplementsEffectOnce == Effect!Spec

-----------------------------------------------------------------------------
(* Fairness: a process that is at work goes on or crashes, and sweeps are  *)
(* started again and again (the Temporal driver retries its activity, the  *)
(* offline worker is run again).  Nobody has to submit a command.          *)

Fairness ==
    /\ \A w \in Workers : WF_vars(StartSweep(w) \/ Step(w))
    /\ \A o \in Operators : WF_vars(Step(o))

FairSpec == Spec /\ Fairness

(* After a command was persisted, a sweep can fail for good: the command   *)
(* is refused each time it is recovered, or the command has passed by the  *)
(* checkpoint that the deadline fact, a Case event or the command names.   *)
Stuck ==
    /\ commands # <<>>
    /\ \E w \in Workers :
          result[w] \in {"workflow_transition_not_allowed", "workflow_sla_conflict",
                         "workflow_event_predecessor_mismatch", "workflow_command_recovery_conflict"}

(* Recovery converges: the workflow ends up, for good, where only an       *)
(* operator or a later stage can move it, unless after a command some      *)
(* sweep fails in one of the ways of Stuck.                                *)
SettlesUnlessStuck ==
    \/ <>[](/\ journal # <<>>
            /\ Latest.state \in {TICKET_READY, WAITING_FOR_OPERATOR, PAUSED, CANCELLED})
    \/ <>Stuck
=============================================================================
