------------------------ MODULE DurableWorkflowProofs ------------------------
(***************************************************************************)
(* Proofs about DurableWorkflow for every set of workers and operators,    *)
(* serialized or not, and for every value of the bounds: the types of the  *)
(* tables, the ticket effects, and calls that follow one another.          *)
(*                                                                         *)
(* An action either moves one process with Goto or ends its call with      *)
(* Stop.  What a process may hold at a label is therefore stated as a      *)
(* predicate on a label and a register record (Holds), and one lemma per   *)
(* control operator (Goto, Stop, EnsureCheckpoint, Transition, ...)        *)
(* carries it through; each action is then a few lines.                    *)
(***************************************************************************)
EXTENDS DurableWorkflow, TLAPS, SequenceTheorems

-----------------------------------------------------------------------------
(* The inductive strengthening of TypeOK.                                  *)

Returns       == {"idle", "sync", "process", "next", "prime"}
Continuations == {"idle", "pending", "applied", "dispatch", "finish"}
Handless      == {"idle", "activate", "rebuild", "append", "finish"}

(* What a process at a label holds in its registers, when the journal has  *)
(* n checkpoints and m commands are persisted: except where it has not     *)
(* read the journal yet, it has a checkpoint of it in hand.                *)
Holds(label, r, n, m) ==
    /\ label \notin Handless => r.at >= 1 /\ r.at <= n
    /\ label = "commands" => r.row >= 1
    /\ r.rows <= m
    /\ r.ret \in Returns /\ r.cont \in Continuations

StoreTypes ==
    /\ activated \in BOOLEAN /\ expired \in BOOLEAN
    /\ journal \in Seq(Checkpoints) /\ events \in Seq(EventRecords)
    /\ intents \in SUBSET Operations /\ ticket \in Seq(Operations)
    /\ operations \in [Operations -> Nat]
    /\ observations \in SUBSET Observations
    /\ completions \in [Operations -> [phase : Phases \cup {"none"}, version : Nat]]
    /\ slaFact \in Nat /\ commands \in Seq(Commands)
    /\ sweeps \in Nat /\ submits \in Nat /\ crashes \in Nat /\ timeouts \in Nat

Control ==
    /\ pc \in [Procs -> Labels] /\ reg \in [Procs -> Registers]
    /\ result \in [Procs -> Results]
    /\ \A p \in Procs : Holds(pc[p], reg[p], Len(journal), Len(commands))

TypeInv == StoreTypes /\ Control

-----------------------------------------------------------------------------
(* Types of the pure parts.                                                *)

(* Whatever is allowed starts in a workflow state and ends in one.         *)
LEMMA AllowedStates ==
    ASSUME NEW current, NEW kind, NEW next, NEW resume, NEW unresolved,
           TransitionAllowed(current, kind, next, resume, unresolved)
    PROVE  current \in WORKFLOW_STATES /\ next \in WORKFLOW_STATES
<1>1. next \in WORKFLOW_STATES
  BY DEF TransitionAllowed
<1>2. current \in AllowedSources(kind, resume, unresolved)
  BY DEF TransitionAllowed, AllowedTargets
<1>3. AllowedSources(kind, resume, unresolved) \subseteq WORKFLOW_STATES
  BY DEF AllowedSources, WORKFLOW_STATES, TERMINAL_STATES, PAUSABLE_STATES
<1> QED
  BY <1>1, <1>2, <1>3

(* The empty registers and the first checkpoint are well typed.            *)
LEMMA ConstantTypes ==
    /\ FirstCheckpoint \in Checkpoints /\ NoCheckpoint \in Checkpoints
    /\ NoRegisters \in Registers
    /\ \A n, m \in Nat : Holds("idle", NoRegisters, n, m) /\ Holds("finish", NoRegisters, n, m)
<1>1. FirstCheckpoint \in Checkpoints /\ NoCheckpoint \in Checkpoints
  BY DEF FirstCheckpoint, NoCheckpoint, Checkpoints, Causes, Cause, Kinds,
         WORKFLOW_STATES, RECEIVED
<1>2. NoRegisters \in Registers
  BY <1>1 DEF NoRegisters, Registers, Labels, Operations, FIND_OR_CREATE, NoOutcome,
         Outcomes, Statuses, Phases, WORKFLOW_STATES, RECEIVED, NoCommand, Commands, PAUSE
<1>3. \A n, m \in Nat : Holds("idle", NoRegisters, n, m) /\ Holds("finish", NoRegisters, n, m)
  BY DEF Holds, NoRegisters, Handless, Returns, Continuations
<1> QED
  BY <1>1, <1>2, <1>3

-----------------------------------------------------------------------------
(* Types: the control operators.                                           *)

LEMMA GotoTypes ==
    ASSUME Control, StoreTypes, StoreTypes',
           Len(journal) <= Len(journal'), Len(commands) <= Len(commands'),
           NEW p \in Procs, NEW label \in Labels, NEW r \in Registers,
           Holds(label, r, Len(journal'), Len(commands')),
           Goto(p, label, r)
    PROVE  Control'
<1>1. /\ pc' \in [Procs -> Labels] /\ reg' \in [Procs -> Registers]
      /\ result' \in [Procs -> Results]
  BY DEF Control, Goto
<1>2. Len(journal) \in Nat /\ Len(journal') \in Nat /\ Len(commands) \in Nat /\ Len(commands') \in Nat
  BY DEF StoreTypes
<1>3. ASSUME NEW q \in Procs
      PROVE  Holds(pc'[q], reg'[q], Len(journal'), Len(commands'))
  <2>1. CASE q = p
    BY <2>1 DEF Goto, Control
  <2>2. CASE q # p
    <3>1. pc'[q] = pc[q] /\ reg'[q] = reg[q]
      BY <2>2 DEF Goto, Control
    <3>2. Holds(pc[q], reg[q], Len(journal), Len(commands))
      BY DEF Control
    <3>3. reg[q].at \in Nat /\ reg[q].rows \in Nat
      BY DEF Control, Registers
    <3> QED
      BY <3>1, <3>2, <3>3, <1>2 DEF Holds
  <2> QED
    BY <2>1, <2>2
<1> QED
  BY <1>1, <1>3 DEF Control

LEMMA StopTypes ==
    ASSUME Control, StoreTypes, StoreTypes',
           Len(journal) <= Len(journal'), Len(commands) <= Len(commands'),
           NEW p \in Procs, NEW outcome \in Results,
           Stop(p, outcome)
    PROVE  Control'
<1>1. /\ pc' \in [Procs -> Labels] /\ reg' \in [Procs -> Registers]
      /\ result' \in [Procs -> Results]
  BY ConstantTypes DEF Control, Stop, Labels
<1>2. Len(journal) \in Nat /\ Len(journal') \in Nat /\ Len(commands) \in Nat /\ Len(commands') \in Nat
  BY DEF StoreTypes
<1>3. ASSUME NEW q \in Procs
      PROVE  Holds(pc'[q], reg'[q], Len(journal'), Len(commands'))
  <2>1. CASE q = p
    <3>1. pc'[q] = "idle" /\ reg'[q] = NoRegisters
      BY <2>1 DEF Stop, Control
    <3> QED
      BY <3>1, <1>2, ConstantTypes
  <2>2. CASE q # p
    <3>1. pc'[q] = pc[q] /\ reg'[q] = reg[q]
      BY <2>2 DEF Stop, Control
    <3>2. Holds(pc[q], reg[q], Len(journal), Len(commands))
      BY DEF Control
    <3>3. reg[q].at \in Nat /\ reg[q].rows \in Nat
      BY DEF Control, Registers
    <3> QED
      BY <3>1, <3>2, <3>3, <1>2 DEF Holds
  <2> QED
    BY <2>1, <2>2
<1> QED
  BY <1>1, <1>3 DEF Control

(* A process that holds r, wherever it is, and moves with it.              *)
Free(r) == r \in Registers /\ Holds("idle", r, Len(journal), Len(commands))

LEMMA EnsureCheckpointTypes ==
    ASSUME TypeInv, StoreTypes', UNCHANGED <<journal, commands>>,
           NEW p \in Procs, NEW r, Free(r), NEW want \in Checkpoints,
           NEW ret \in Returns, NEW cont \in Continuations,
           EnsureCheckpoint(p, r, want, ret, cont)
    PROVE  Control'
<1> DEFINE prev == Len(journal)
<1>1. prev \in Nat /\ Len(journal') = prev /\ Len(commands') = Len(commands) /\ Len(commands) \in Nat
  BY DEF TypeInv, StoreTypes
<1>2. ret \in Labels /\ cont \in Labels /\ "append" \in Labels
  BY DEF Returns, Continuations, Labels
<1>3. CASE Stop(p, "workflow_checkpoint_effect_overlap")
           \/ Stop(p, "workflow_checkpoint_predecessor_invalid")
  BY <1>1, <1>3, StopTypes DEF TypeInv, Results
<1>4. CASE prev > 0 /\ Goto(p, ret, [r EXCEPT !.at = prev, !.cont = cont])
  <2> DEFINE s == [r EXCEPT !.at = prev, !.cont = cont]
  <2>1. s \in Registers
    BY <1>1, <1>2 DEF Free, Registers
  <2>2. Holds(ret, s, prev, Len(commands))
    BY <1>1, <1>4 DEF Free, Registers, Holds, Returns
  <2> QED
    BY <1>1, <1>2, <1>4, <2>1, <2>2, GotoTypes DEF TypeInv
<1>5. CASE Goto(p, "append", [r EXCEPT !.base = prev, !.want = want,
                                       !.ret = ret, !.cont = cont])
  <2> DEFINE s == [r EXCEPT !.base = prev, !.want = want, !.ret = ret, !.cont = cont]
  <2>1. s \in Registers
    BY <1>1, <1>2 DEF Free, Registers
  <2>2. Holds("append", s, prev, Len(commands))
    BY <1>1 DEF Free, Registers, Holds, Handless
  <2> QED
    BY <1>1, <1>2, <1>5, <2>1, <2>2, GotoTypes DEF TypeInv
<1> QED
  BY <1>3, <1>4, <1>5 DEF EnsureCheckpoint

LEMMA TransitionTypes ==
    ASSUME TypeInv, StoreTypes', UNCHANGED <<journal, commands>>,
           NEW p \in Procs, NEW r, Free(r),
           NEW kind \in Kinds, NEW next, NEW resume \in WORKFLOW_STATES,
           NEW cause \in Causes, NEW pending \in SUBSET Operations,
           NEW completed \in SUBSET Operations, NEW cont \in Continuations,
           Transition(p, r, kind, next, resume, cause, pending, completed, cont)
    PROVE  Control'
<1> DEFINE want == [state |-> next, resume |-> resume, pending |-> pending,
                    completed |-> completed, cause |-> cause, kind |-> kind]
<1>1. CASE next \in WORKFLOW_STATES /\ EnsureCheckpoint(p, r, want, "sync", cont)
  <2>1. want \in Checkpoints
    BY <1>1 DEF Checkpoints
  <2>2. "sync" \in Returns
    BY DEF Returns
  <2> QED
    BY <1>1, <2>1, <2>2, EnsureCheckpointTypes
<1>2. CASE Stop(p, "workflow_transition_not_allowed")
  BY <1>2, StopTypes DEF TypeInv, StoreTypes, Results
<1> QED
  BY <1>1, <1>2, AllowedStates DEF Transition

LEMMA EnterReconciliationTypes ==
    ASSUME TypeInv, StoreTypes', UNCHANGED <<journal, commands>>,
           NEW p \in Procs, NEW r, Free(r), r.at \in 1..Len(journal),
           NEW cause \in Causes, NEW cont \in Continuations,
           EnterReconciliation(p, r, cause, cont)
    PROVE  Control'
<1>1. journal[r.at] \in Checkpoints
  BY DEF TypeInv, StoreTypes
<1>2. Unresolved \in SUBSET Operations /\ Completed \in SUBSET Operations
  BY DEF TypeInv, StoreTypes, Unresolved, Completed
<1>3. journal[r.at].state \in WORKFLOW_STATES /\ RECONCILIATION_REQUIRED \in Kinds
  BY <1>1 DEF Checkpoints, Kinds, WORKFLOW_TRANSITION_KINDS
<1>4. CASE Goto(p, cont, r)
  <2>1. Len(journal) \in Nat /\ Len(commands) \in Nat
    BY DEF TypeInv, StoreTypes
  <2>2. cont \in Labels
    BY DEF Continuations, Labels
  <2>3. Holds(cont, r, Len(journal'), Len(commands'))
    BY <2>1 DEF Free, Holds, Continuations
  <2> QED
    BY <1>4, <2>1, <2>2, <2>3, GotoTypes DEF TypeInv, Free
<1>5. CASE Transition(p, r, RECONCILIATION_REQUIRED, NEEDS_RECONCILIATION,
                      journal[r.at].state, cause, Unresolved, Completed, cont)
  BY <1>2, <1>3, <1>5, TransitionTypes
<1> QED
  BY <1>4, <1>5 DEF EnterReconciliation

LEMMA ApplyPersistedCommandTypes ==
    ASSUME TypeInv, StoreTypes', UNCHANGED <<journal, commands>>,
           NEW p \in Procs, Free(reg[p]), Len(journal) >= 1, NEW c \in Commands,
           ApplyPersistedCommand(p, c)
    PROVE  Control'
<1> DEFINE r == [reg[p] EXCEPT !.at = Len(journal)]
           apply(kind, next, resume) ==
              Transition(p, r, kind, next, resume, CommandCause(c.id),
                         Latest.pending, Latest.completed, "applied")
<1>1. Len(journal) \in Nat /\ Len(commands) \in Nat
  BY DEF TypeInv, StoreTypes
<1>2. r \in Registers
  BY <1>1 DEF Free, Registers
<1>3. Free(r)
  BY <1>1, <1>2 DEF Free, Holds, Handless, Registers
<1>4. r.at = Len(journal)
  BY DEF Free, Registers
<1>5. Latest \in Checkpoints
  BY <1>1 DEF Latest, TypeInv, StoreTypes
<1>6. /\ Latest.state \in WORKFLOW_STATES /\ Latest.resume \in WORKFLOW_STATES
      /\ Latest.pending \in SUBSET Operations /\ Latest.completed \in SUBSET Operations
  BY <1>5 DEF Checkpoints
<1>7. CommandCause(c.id) \in Causes /\ "applied" \in Continuations
      /\ CANCELLED \in WORKFLOW_STATES /\ "applied" \in Labels
  BY DEF CommandCause, Causes, Commands, Continuations, WORKFLOW_STATES, Labels
<1>8. PAUSE \in Kinds /\ RESUME \in Kinds /\ CANCEL \in Kinds
  BY DEF Kinds, WORKFLOW_TRANSITION_KINDS
<1>9. ASSUME NEW kind \in Kinds, NEW next, NEW resume \in WORKFLOW_STATES,
             apply(kind, next, resume)
      PROVE  Control'
  BY <1>3, <1>6, <1>7, <1>9, TransitionTypes
<1>10. CASE Stop(p, "workflow_command_recovery_conflict")
  BY <1>1, <1>10, StopTypes DEF TypeInv, Results
<1>11. CASE EnterReconciliation(p, r, CommandCause(c.id), "applied")
  <2>1. r.at \in 1..Len(journal)
    BY <1>1, <1>4
  <2> HIDE DEF r
  <2> QED
    BY <1>3, <1>7, <1>11, <2>1, EnterReconciliationTypes
<1>12. CASE Goto(p, "applied", r)
  <2>1. Holds("applied", r, Len(journal'), Len(commands'))
    BY <1>1, <1>3, <1>4 DEF Free, Holds
  <2> QED
    BY <1>1, <1>2, <1>7, <1>12, <2>1, GotoTypes DEF TypeInv
<1>13. CASE \/ apply(PAUSE, PAUSED, Latest.state)
            \/ apply(RESUME, ResumeTarget(Latest), ResumeTarget(Latest))
            \/ apply(CANCEL, CANCELLED, CANCELLED)
  <2>1. ResumeTarget(Latest) \in WORKFLOW_STATES
    BY <1>6 DEF ResumeTarget
  <2> QED
    BY <1>6, <1>7, <1>8, <1>9, <1>13, <2>1
<1>14. c.type = PAUSE \/ c.type = RESUME \/ c.type = CANCEL
  BY DEF Commands
<1>15. PAUSE # RESUME /\ PAUSE # CANCEL /\ RESUME # CANCEL
  BY DEF PAUSE, RESUME, CANCEL
<1> QED
  <2>1. CASE Len(journal) - 1 # c.version
    BY <2>1, <1>10 DEF ApplyPersistedCommand
  <2> SUFFICES ASSUME Len(journal) - 1 = c.version PROVE Control'
    BY <2>1
  <2>2. CASE c.type = PAUSE
    BY <2>2, <1>13, <1>15 DEF ApplyPersistedCommand
  <2>3. CASE c.type = RESUME
    BY <2>3, <1>13, <1>15 DEF ApplyPersistedCommand
  <2>4. CASE c.type = CANCEL
    BY <2>4, <1>11, <1>12, <1>13, <1>15 DEF ApplyPersistedCommand
  <2> QED
    BY <1>14, <2>2, <2>3, <2>4

(* A process that leaves the journal and the commands alone.               *)
LEMMA MoveTypes ==
    ASSUME TypeInv, StoreTypes', UNCHANGED <<journal, commands>>,
           NEW p \in Procs, NEW label \in Labels, NEW r, Free(r),
           label \notin Handless => r.at \in 1..Len(journal),
           label = "commands" => r.row >= 1,
           Goto(p, label, r)
    PROVE  Control'
<1>1. Len(journal) \in Nat /\ Len(commands) \in Nat
  BY DEF TypeInv, StoreTypes
<1>2. Holds(label, r, Len(journal'), Len(commands'))
  BY <1>1 DEF Holds, Free
<1> QED
  BY <1>1, <1>2, GotoTypes DEF TypeInv, Free

LEMMA HaltTypes ==
    ASSUME TypeInv, StoreTypes', UNCHANGED <<journal, commands>>,
           NEW p \in Procs, NEW outcome \in Results, Stop(p, outcome)
    PROVE  Control'
BY StopTypes DEF TypeInv, StoreTypes

(* What a process at work has in hand.                                     *)
LEMMA InHand ==
    ASSUME TypeInv, NEW p \in Procs
    PROVE  /\ Free(reg[p]) /\ Free(NoRegisters) /\ reg[p] \in Registers /\ pc[p] \in Labels
           /\ Len(journal) \in Nat /\ Len(commands) \in Nat
           /\ pc[p] \notin Handless =>
                 /\ reg[p].at \in 1..Len(journal) /\ Len(journal) >= 1
                 /\ journal[reg[p].at] \in Checkpoints /\ Latest \in Checkpoints
<1>1. Len(journal) \in Nat /\ Len(commands) \in Nat /\ reg[p] \in Registers /\ pc[p] \in Labels
  BY DEF TypeInv, StoreTypes, Control
<1>2. Holds(pc[p], reg[p], Len(journal), Len(commands))
  BY DEF TypeInv, Control
<1>3. Free(reg[p]) /\ Free(NoRegisters)
  BY <1>1, <1>2, ConstantTypes DEF Free, Holds, Handless
<1>4. ASSUME pc[p] \notin Handless
      PROVE  reg[p].at \in 1..Len(journal) /\ Len(journal) >= 1
  <2>1. reg[p].at >= 1 /\ reg[p].at <= Len(journal) /\ reg[p].at \in Nat
    BY <1>1, <1>2, <1>4 DEF Holds, Registers
  <2> QED
    BY <1>1, <2>1
<1>5. ASSUME pc[p] \notin Handless
      PROVE  journal[reg[p].at] \in Checkpoints /\ Latest \in Checkpoints
  BY <1>1, <1>4, <1>5 DEF Latest, TypeInv, StoreTypes
<1> QED
  BY <1>1, <1>3, <1>4, <1>5

-----------------------------------------------------------------------------
(* Types: the actions.                                                     *)

LEMMA AppendCheckpointTypes ==
    ASSUME TypeInv, NEW p \in Procs, AppendCheckpoint(p) PROVE TypeInv'
<1> DEFINE r == [reg[p] EXCEPT !.at = Len(journal'), !.base = 0,
                               !.want = NoRegisters.want, !.ret = "idle"]
<1>1. reg[p] \in Registers /\ Len(journal) \in Nat /\ Len(commands) \in Nat
  BY InHand
<1>2. journal' \in Seq(Checkpoints) /\ Len(journal') \in Nat
      /\ Len(journal') >= 1 /\ Len(journal) <= Len(journal')
  <2>1. CASE Len(journal) > reg[p].base
    BY <1>1, <2>1 DEF AppendCheckpoint, AppendRow, TypeInv, StoreTypes, Registers
  <2>2. CASE ~(Len(journal) > reg[p].base)
    <3>1. reg[p].want \in Checkpoints
      BY <1>1 DEF Registers
    <3>2. journal' = Append(journal, reg[p].want)
      BY <2>2 DEF AppendCheckpoint, AppendRow
    <3> QED
      BY <1>1, <3>1, <3>2 DEF TypeInv, StoreTypes
  <2> QED
    BY <2>1, <2>2
<1>3. StoreTypes'
  BY <1>2 DEF AppendCheckpoint, AppendRow, TypeInv, StoreTypes, effectVars, boundVars
<1>4. reg[p].ret \in Labels /\ reg[p].ret \in Returns
  BY InHand DEF Free, Holds, Registers
<1>5. r \in Registers
  BY <1>1, <1>2, ConstantTypes DEF NoRegisters, Registers, Labels
<1>6. Holds(reg[p].ret, r, Len(journal'), Len(commands'))
  <2>1. Holds("idle", reg[p], Len(journal), Len(commands))
    BY InHand DEF Free
  <2>2. commands' = commands
    BY DEF AppendCheckpoint, AppendRow
  <2> QED
    BY <1>1, <1>2, <1>4, <2>1, <2>2 DEF Holds, Returns, Registers
<1>7. Control'
  BY <1>1, <1>2, <1>3, <1>4, <1>5, <1>6, GotoTypes DEF AppendCheckpoint, AppendRow, TypeInv
<1> QED
  BY <1>3, <1>7 DEF TypeInv

LEMMA SyncCaseStateTypes ==
    ASSUME TypeInv, NEW p \in Procs, SyncCaseState(p) PROVE TypeInv'
<1> DEFINE c == journal[reg[p].at]
           from == journal[Len(journal) - 1].state
<1>1. StoreTypes' /\ UNCHANGED <<journal, commands>>
  BY DEF SyncCaseState, ReadCaseState, TypeInv, StoreTypes, storeVars, effectVars, boundVars
<1> SUFFICES Control'
  BY <1>1 DEF TypeInv
<1>2. reg[p] \in Registers /\ Free(reg[p]) /\ reg[p].at \in 1..Len(journal)
  BY InHand DEF SyncCaseState, ReadCaseState, Handless
<1>3. CASE Goto(p, reg[p].cont, [reg[p] EXCEPT !.cont = "idle"])
  <2> DEFINE r == [reg[p] EXCEPT !.cont = "idle"]
  <2>1. reg[p].cont \in Labels /\ reg[p].cont # "commands"
    BY <1>2 DEF Registers, Free, Holds, Continuations
  <2>2. Free(r) /\ r.at \in 1..Len(journal)
    BY <1>2 DEF Free, Registers, Holds, Continuations, Labels
  <2> QED
    BY <1>1, <1>3, <2>1, <2>2, MoveTypes
<1>4. CASE from \in WORKFLOW_STATES /\ Goto(p, "event", [reg[p] EXCEPT !.from = from])
  <2> DEFINE r == [reg[p] EXCEPT !.from = from]
  <2>1. Free(r) /\ r.at \in 1..Len(journal)
    BY <1>2, <1>4 DEF Free, Registers, Holds
  <2> QED
    BY <1>1, <1>4, <2>1, MoveTypes DEF Labels
<1>5. CASE Stop(p, "workflow_transition_not_allowed")
  BY <1>1, <1>5, HaltTypes DEF Results
<1> QED
  BY <1>3, <1>4, <1>5, AllowedStates DEF SyncCaseState, ReadCaseState

LEMMA AppendWorkflowStateEventTypes ==
    ASSUME TypeInv, NEW p \in Procs, AppendWorkflowStateEvent(p) PROVE TypeInv'
<1> DEFINE e == [at |-> reg[p].at, from |-> reg[p].from, to |-> journal[reg[p].at].state]
           r == [reg[p] EXCEPT !.cont = "idle", !.from = RECEIVED]
<1>1. /\ reg[p] \in Registers /\ Free(reg[p]) /\ reg[p].at \in 1..Len(journal)
      /\ journal[reg[p].at] \in Checkpoints
  BY InHand DEF AppendWorkflowStateEvent, AppendStateEvent, Handless
<1>2. e \in EventRecords
  BY <1>1 DEF EventRecords, Registers, Checkpoints
<1>3. events' \in Seq(EventRecords)
  <2>1. events' = events \/ events' = Append(events, e)
    BY DEF AppendWorkflowStateEvent, AppendStateEvent
  <2>2. events \in Seq(EventRecords)
    BY DEF TypeInv, StoreTypes
  <2> HIDE DEF e
  <2> QED
    BY <1>2, <2>1, <2>2
<1>4. StoreTypes' /\ UNCHANGED <<journal, commands>>
  BY <1>3 DEF AppendWorkflowStateEvent, AppendStateEvent, TypeInv, StoreTypes, effectVars, boundVars
<1> SUFFICES Control'
  BY <1>4 DEF TypeInv
<1>5. CASE Goto(p, reg[p].cont, r)
  <2>1. reg[p].cont \in Labels /\ reg[p].cont # "commands"
    BY <1>1 DEF Registers, Free, Holds, Continuations
  <2>2. Free(r) /\ r.at \in 1..Len(journal)
    BY <1>1 DEF Free, Registers, Holds, Continuations, Labels, WORKFLOW_STATES
  <2> QED
    BY <1>4, <1>5, <2>1, <2>2, MoveTypes
<1>6. CASE Stop(p, "workflow_event_conflict") \/ Stop(p, "workflow_event_predecessor_mismatch")
  BY <1>4, <1>6, HaltTypes DEF Results
<1> QED
  BY <1>5, <1>6 DEF AppendWorkflowStateEvent, AppendStateEvent

LEMMA StartSweepTypes ==
    ASSUME TypeInv, NEW p \in Procs, StartSweep(p) PROVE TypeInv'
<1>1. StoreTypes' /\ UNCHANGED <<journal, commands, reg>>
  BY DEF StartSweep, TypeInv, StoreTypes, storeVars, effectVars
<1>2. pc' \in [Procs -> Labels] /\ result' \in [Procs -> Results]
  BY DEF StartSweep, TypeInv, Control, Labels, Results
<1>3. ASSUME NEW q \in Procs
      PROVE  Holds(pc'[q], reg'[q], Len(journal'), Len(commands'))
  <2>1. Holds(pc[q], reg[q], Len(journal), Len(commands))
    BY DEF TypeInv, Control
  <2>2. pc'[q] = pc[q] \/ pc'[q] = "rebuild" \/ pc'[q] = "activate"
    BY DEF StartSweep, TypeInv, Control
  <2> QED
    BY <1>1, <2>1, <2>2 DEF Holds, Handless
<1> QED
  BY <1>1, <1>2, <1>3 DEF TypeInv, Control

LEMMA ActivateCaseTypes ==
    ASSUME TypeInv, NEW p \in Procs, ActivateCase(p) PROVE TypeInv'
<1>1. StoreTypes' /\ UNCHANGED <<journal, commands>>
  BY DEF ActivateCase, TypeInv, StoreTypes, effectVars, boundVars
<1>2. "rebuild" \in Labels /\ "rebuild" \in Handless /\ "rebuild" # "commands"
  BY DEF Labels, Handless
<1>3. Control'
  BY <1>1, <1>2, InHand, MoveTypes DEF ActivateCase
<1> QED
  BY <1>1, <1>3 DEF TypeInv

LEMMA RecoverWorkflowTypes ==
    ASSUME TypeInv, NEW p \in Procs, RecoverWorkflow(p) PROVE TypeInv'
<1>1. StoreTypes' /\ UNCHANGED <<journal, commands>>
  BY DEF RecoverWorkflow, TypeInv, StoreTypes, storeVars, effectVars, boundVars
<1> SUFFICES Control'
  BY <1>1 DEF TypeInv
<1>2. reg[p] \in Registers /\ Free(reg[p]) /\ Len(journal) \in Nat
  BY InHand
<1>3. CASE Stop(p, "workflow_journal_invalid")
  BY <1>1, <1>3, HaltTypes DEF Results
<1>4. CASE EnsureCheckpoint(p, reg[p], FirstCheckpoint, "sync", "pending")
  <2>1. "sync" \in Returns /\ "pending" \in Continuations
    BY DEF Returns, Continuations
  <2> QED
    BY <1>1, <1>2, <1>4, <2>1, ConstantTypes, EnsureCheckpointTypes
<1>5. CASE journal # <<>> /\ Goto(p, "sync", [reg[p] EXCEPT !.at = Len(journal), !.cont = "pending"])
  <2> DEFINE r == [reg[p] EXCEPT !.at = Len(journal), !.cont = "pending"]
  <2>1. Len(journal) >= 1
    BY <1>2, <1>5 DEF TypeInv, StoreTypes
  <2>2. r \in Registers
    BY <1>2 DEF Registers, Labels
  <2>3. Free(r) /\ r.at \in 1..Len(journal)
    BY <1>2, <2>1, <2>2 DEF Free, Registers, Holds, Continuations, Handless
  <2> QED
    BY <1>1, <1>5, <2>3, MoveTypes DEF Labels
<1> QED
  BY <1>3, <1>4, <1>5 DEF RecoverWorkflow

LEMMA ReadPendingCommandsTypes ==
    ASSUME TypeInv, NEW p \in Procs, ReadPendingCommands(p) PROVE TypeInv'
<1>1. StoreTypes' /\ UNCHANGED <<journal, commands>>
  BY DEF ReadPendingCommands, TypeInv, StoreTypes, storeVars, effectVars, boundVars
<1> SUFFICES Control'
  BY <1>1 DEF TypeInv
<1>2. reg[p] \in Registers /\ Free(reg[p]) /\ Len(commands) \in Nat /\ reg[p].at \in 1..Len(journal)
  BY InHand DEF ReadPendingCommands, Handless
<1>3. CASE Stop(p, "workflow_journal_invalid")
  BY <1>1, <1>3, HaltTypes DEF Results
<1>4. CASE Goto(p, "commands", [reg[p] EXCEPT !.row = 1, !.rows = Len(commands)])
  <2> DEFINE r == [reg[p] EXCEPT !.row = 1, !.rows = Len(commands)]
  <2>1. /\ r \in Registers /\ r.at = reg[p].at /\ r.row = 1 /\ r.rows = Len(commands)
        /\ r.ret = reg[p].ret /\ r.cont = reg[p].cont
    BY <1>2 DEF Registers
  <2> HIDE DEF r
  <2>2. Free(r) /\ r.at \in 1..Len(journal) /\ r.row >= 1
    BY <1>2, <2>1 DEF Free, Holds
  <2> QED
    BY <1>1, <1>4, <2>2, MoveTypes DEF Labels, r
<1> QED
  BY <1>3, <1>4 DEF ReadPendingCommands

LEMMA RecoverPendingCommandTypes ==
    ASSUME TypeInv, NEW p \in Procs, RecoverPendingCommand(p) PROVE TypeInv'
<1> DEFINE c == commands[reg[p].row]
<1>1. StoreTypes' /\ UNCHANGED <<journal, commands>>
  BY DEF RecoverPendingCommand, TypeInv, StoreTypes, storeVars, effectVars, boundVars
<1> SUFFICES Control'
  BY <1>1 DEF TypeInv
<1>2. /\ reg[p] \in Registers /\ Free(reg[p]) /\ Free(NoRegisters)
      /\ Len(commands) \in Nat /\ Len(journal) \in Nat
      /\ reg[p].at \in 1..Len(journal) /\ Len(journal) >= 1
  BY InHand DEF RecoverPendingCommand, Handless
<1>3. reg[p].row \in Nat /\ reg[p].rows \in Nat /\ reg[p].row >= 1 /\ reg[p].rows <= Len(commands)
  BY <1>2 DEF RecoverPendingCommand, TypeInv, Control, Holds, Registers
<1>4. CASE Goto(p, "dispatch", [NoRegisters EXCEPT !.at = Len(journal)])
  <2> DEFINE r == [NoRegisters EXCEPT !.at = Len(journal)]
  <2>1. NoRegisters \in Registers
    BY ConstantTypes
  <2>2. Free(r) /\ r.at \in 1..Len(journal)
    BY <1>2, <2>1 DEF Free, Registers, Holds, Handless
  <2> QED
    BY <1>1, <1>4, <2>2, MoveTypes DEF Labels
<1>5. CASE Goto(p, "commands", [reg[p] EXCEPT !.row = @ + 1])
  <2> DEFINE r == [reg[p] EXCEPT !.row = @ + 1]
  <2>1. /\ r \in Registers /\ r.at = reg[p].at /\ r.row = reg[p].row + 1
        /\ r.rows = reg[p].rows /\ r.ret = reg[p].ret /\ r.cont = reg[p].cont
    BY <1>2 DEF Registers
  <2> HIDE DEF r
  <2>2. Free(r) /\ r.at \in 1..Len(journal) /\ r.row >= 1
    BY <1>2, <1>3, <2>1 DEF Free, Holds
  <2> QED
    BY <1>1, <1>5, <2>2, MoveTypes DEF Labels, r
<1>6. CASE reg[p].row <= reg[p].rows /\ ApplyPersistedCommand(p, c)
  <2>1. c \in Commands
    BY <1>2, <1>3, <1>6 DEF TypeInv, StoreTypes
  <2> QED
    BY <1>1, <1>2, <1>6, <2>1, ApplyPersistedCommandTypes
<1> QED
  BY <1>3, <1>4, <1>5, <1>6 DEF RecoverPendingCommand

LEMMA CommandAppliedTypes ==
    ASSUME TypeInv, NEW p \in Procs, CommandApplied(p) PROVE TypeInv'
<1>1. StoreTypes' /\ UNCHANGED <<journal, commands>>
  BY DEF CommandApplied, TypeInv, StoreTypes, storeVars, effectVars, boundVars
<1> SUFFICES Control'
  BY <1>1 DEF TypeInv
<1>2. reg[p] \in Registers /\ Free(reg[p]) /\ reg[p].at \in 1..Len(journal)
  BY InHand DEF CommandApplied, Handless
<1>3. CASE Stop(p, "workflow_journal_invalid") \/ Stop(p, "ok")
  BY <1>1, <1>3, HaltTypes DEF Results
<1>4. CASE Goto(p, "commands", [reg[p] EXCEPT !.row = @ + 1])
  <2> DEFINE r == [reg[p] EXCEPT !.row = @ + 1]
  <2>1. Free(r) /\ r.at \in 1..Len(journal) /\ r.row >= 1
    BY <1>2 DEF Free, Registers, Holds
  <2> QED
    BY <1>1, <1>4, <2>1, MoveTypes DEF Labels
<1> QED
  BY <1>3, <1>4 DEF CommandApplied

(* A process that keeps the checkpoint it has in hand.                     *)
LEMMA KeepTypes ==
    ASSUME TypeInv, StoreTypes', UNCHANGED <<journal, commands>>,
           NEW p \in Procs, pc[p] \notin Handless,
           NEW label \in Labels, label # "commands", NEW r \in Registers,
           r.at = reg[p].at, r.rows = reg[p].rows, r.ret = reg[p].ret, r.cont = reg[p].cont,
           Goto(p, label, r)
    PROVE  Control'
<1>1. Free(reg[p]) /\ reg[p].at \in 1..Len(journal)
  BY InHand
<1>2. Free(r) /\ r.at \in 1..Len(journal)
  BY <1>1 DEF Free, Holds, Handless
<1> QED
  BY <1>2, MoveTypes

LEMMA DispatchTypes ==
    ASSUME TypeInv, NEW p \in Procs, Dispatch(p) PROVE TypeInv'
<1>1. StoreTypes' /\ UNCHANGED <<journal, commands>>
  BY DEF Dispatch, TypeInv, StoreTypes, storeVars, effectVars, boundVars
<1> SUFFICES Control'
  BY <1>1 DEF TypeInv
<1>2. reg[p] \in Registers /\ Free(NoRegisters) /\ pc[p] \notin Handless
  BY InHand DEF Dispatch, Handless
<1>3. Unresolved \subseteq Operations
  BY DEF TypeInv, StoreTypes, Unresolved
<1>4. CASE Goto(p, "sla", reg[p]) \/ Goto(p, "reconciled", reg[p])
  BY <1>1, <1>2, <1>4, KeepTypes DEF Labels
<1>5. CASE \E op \in Unresolved : Goto(p, "process", [reg[p] EXCEPT !.op = op])
  <2>1. PICK op \in Unresolved : Goto(p, "process", [reg[p] EXCEPT !.op = op])
    BY <1>5
  <2> DEFINE r == [reg[p] EXCEPT !.op = op]
  <2>2. /\ r \in Registers /\ r.at = reg[p].at /\ r.rows = reg[p].rows
        /\ r.ret = reg[p].ret /\ r.cont = reg[p].cont
    BY <1>2, <1>3 DEF Registers
  <2> QED
    BY <1>1, <1>2, <2>1, <2>2, KeepTypes DEF Labels
<1>6. CASE Goto(p, "intent", [reg[p] EXCEPT !.op = FIND_OR_CREATE, !.driving = TRUE])
  <2> DEFINE r == [reg[p] EXCEPT !.op = FIND_OR_CREATE, !.driving = TRUE]
  <2>1. /\ r \in Registers /\ r.at = reg[p].at /\ r.rows = reg[p].rows
        /\ r.ret = reg[p].ret /\ r.cont = reg[p].cont
    BY <1>2 DEF Registers, Operations
  <2> QED
    BY <1>1, <1>2, <1>6, <2>1, KeepTypes DEF Labels
<1>7. CASE Goto(p, "finish", NoRegisters)
  BY <1>1, <1>2, <1>7, MoveTypes DEF Labels, Handless
<1> QED
  BY <1>4, <1>5, <1>6, <1>7 DEF Dispatch

LEMMA FinishSweepTypes ==
    ASSUME TypeInv, NEW p \in Procs, FinishSweep(p) PROVE TypeInv'
<1>1. StoreTypes' /\ UNCHANGED <<journal, commands>>
  BY DEF FinishSweep, TypeInv, StoreTypes, storeVars, effectVars, boundVars
<1>2. Stop(p, "ok") \/ Stop(p, "workflow_journal_invalid")
  BY DEF FinishSweep
<1>3. Control'
  BY <1>1, <1>2, HaltTypes DEF Results
<1> QED
  BY <1>1, <1>3 DEF TypeInv

LEMMA RecordSlaExpiryTypes ==
    ASSUME TypeInv, NEW p \in Procs, RecordSlaExpiry(p) PROVE TypeInv'
<1>1. reg[p] \in Registers /\ pc[p] \notin Handless
  BY InHand DEF RecordSlaExpiry, Handless
<1>2. slaFact' \in Nat
  BY <1>1 DEF RecordSlaExpiry, TypeInv, StoreTypes, Registers
<1>3. StoreTypes' /\ UNCHANGED <<journal, commands>>
  BY <1>2 DEF RecordSlaExpiry, TypeInv, StoreTypes, effectVars, boundVars
<1> SUFFICES Control'
  BY <1>3 DEF TypeInv
<1>4. CASE Goto(p, "expire", reg[p])
  BY <1>1, <1>3, <1>4, KeepTypes DEF Labels
<1>5. CASE Stop(p, "workflow_sla_conflict")
  BY <1>3, <1>5, HaltTypes DEF Results
<1> QED
  BY <1>4, <1>5 DEF RecordSlaExpiry

(* The parts of a checkpoint and the causes the runner uses.               *)
LEMMA CheckpointParts ==
    /\ \A c \in Checkpoints :
          /\ c.state \in WORKFLOW_STATES /\ c.resume \in WORKFLOW_STATES
          /\ c.pending \in SUBSET Operations /\ c.completed \in SUBSET Operations
    /\ \A by \in {"source", "handoff", "sla", "reconciliation"} : Cause(by) \in Causes
    /\ \A by \in {"intent", "completion"}, op \in Operations : EffectCause(by, op) \in Causes
    /\ {SLA_EXPIRED, TICKET_HANDOFF_COMPLETE, RECONCILIATION_COMPLETE} \subseteq Kinds
    /\ {WAITING_FOR_OPERATOR, TICKET_READY} \subseteq WORKFLOW_STATES
<1>1. \A c \in Checkpoints :
          /\ c.state \in WORKFLOW_STATES /\ c.resume \in WORKFLOW_STATES
          /\ c.pending \in SUBSET Operations /\ c.completed \in SUBSET Operations
  BY DEF Checkpoints
<1>2. \A by \in {"source", "handoff", "sla", "reconciliation"} : Cause(by) \in Causes
  BY DEF Cause, Causes
<1>3. \A by \in {"intent", "completion"}, op \in Operations : EffectCause(by, op) \in Causes
  BY DEF EffectCause, Causes
<1>4. /\ {SLA_EXPIRED, TICKET_HANDOFF_COMPLETE, RECONCILIATION_COMPLETE} \subseteq Kinds
      /\ {WAITING_FOR_OPERATOR, TICKET_READY} \subseteq WORKFLOW_STATES
  BY DEF Kinds, WORKFLOW_TRANSITION_KINDS, WORKFLOW_STATES
<1> QED
  BY <1>1, <1>2, <1>3, <1>4

LEMMA ExpireSlaTypes ==
    ASSUME TypeInv, NEW p \in Procs, ExpireSla(p) PROVE TypeInv'
<1>1. StoreTypes' /\ UNCHANGED <<journal, commands>>
  BY DEF ExpireSla, TypeInv, StoreTypes, storeVars, effectVars, boundVars
<1>2. Free(reg[p]) /\ journal[reg[p].at] \in Checkpoints
  BY InHand DEF ExpireSla, Handless
<1>3. "finish" \in Continuations
  BY DEF Continuations
<1>4. /\ SLA_EXPIRED \in Kinds /\ WAITING_FOR_OPERATOR \in WORKFLOW_STATES
      /\ Cause("sla") \in Causes
      /\ journal[reg[p].at].pending \in SUBSET Operations
      /\ journal[reg[p].at].completed \in SUBSET Operations
  BY <1>2, CheckpointParts
<1>5. Control'
  BY <1>1, <1>2, <1>3, <1>4, TransitionTypes DEF ExpireSla
<1> QED
  BY <1>1, <1>5 DEF TypeInv

LEMMA EnsureIntentTypes ==
    ASSUME TypeInv, NEW p \in Procs, EnsureIntent(p) PROVE TypeInv'
<1>1. reg[p] \in Registers /\ pc[p] \notin Handless
  BY InHand DEF EnsureIntent, Handless
<1>2. intents' \in SUBSET Operations
  BY <1>1 DEF EnsureIntent, TypeInv, StoreTypes, Registers
<1>3. StoreTypes' /\ UNCHANGED <<journal, commands>>
  BY <1>2 DEF EnsureIntent, TypeInv, StoreTypes, storeVars, boundVars
<1>4. Control'
  BY <1>1, <1>3, KeepTypes DEF EnsureIntent, Labels
<1> QED
  BY <1>3, <1>4 DEF TypeInv

LEMMA ProgressCheckpointTypes ==
    ASSUME TypeInv, NEW state \in WORKFLOW_STATES, NEW cause \in Causes
    PROVE  ProgressCheckpoint(state, cause) \in Checkpoints
<1>1. Unresolved \in SUBSET Operations /\ Completed \in SUBSET Operations
  BY DEF TypeInv, StoreTypes, Unresolved, Completed
<1> QED
  BY <1>1 DEF ProgressCheckpoint, Checkpoints, Kinds

LEMMA MarkIntentTypes ==
    ASSUME TypeInv, NEW p \in Procs, MarkIntent(p) PROVE TypeInv'
<1> DEFINE cause == EffectCause("intent", reg[p].op)
           want == ProgressCheckpoint(journal[reg[p].at].state, cause)
<1>1. StoreTypes' /\ UNCHANGED <<journal, commands>>
  BY DEF MarkIntent, TypeInv, StoreTypes, storeVars, effectVars, boundVars
<1>2. Free(reg[p]) /\ journal[reg[p].at] \in Checkpoints /\ reg[p].op \in Operations
  BY InHand DEF MarkIntent, Handless, Registers
<1>3. want \in Checkpoints
  BY <1>2, CheckpointParts, ProgressCheckpointTypes
<1>4. "process" \in Returns /\ "idle" \in Continuations
  BY DEF Returns, Continuations
<1> HIDE DEF want
<1>5. Control'
  BY <1>1, <1>2, <1>3, <1>4, EnsureCheckpointTypes DEF MarkIntent, want
<1> QED
  BY <1>1, <1>5 DEF TypeInv

LEMMA MarkCompletionTypes ==
    ASSUME TypeInv, NEW p \in Procs, MarkCompletion(p) PROVE TypeInv'
<1> DEFINE cause == EffectCause("completion", reg[p].op)
           want == ProgressCheckpoint(journal[reg[p].at].state, cause)
<1>1. StoreTypes' /\ UNCHANGED <<journal, commands>>
  BY DEF MarkCompletion, TypeInv, StoreTypes, storeVars, effectVars, boundVars
<1>2. Free(reg[p]) /\ journal[reg[p].at] \in Checkpoints /\ reg[p].op \in Operations
  BY InHand DEF MarkCompletion, Handless, Registers
<1>3. want \in Checkpoints
  BY <1>2, CheckpointParts, ProgressCheckpointTypes
<1>4. "next" \in Returns /\ "idle" \in Continuations
  BY DEF Returns, Continuations
<1> HIDE DEF want
<1>5. Control'
  BY <1>1, <1>2, <1>3, <1>4, EnsureCheckpointTypes DEF MarkCompletion, want
<1> QED
  BY <1>1, <1>5 DEF TypeInv

(* What reconciliation reports is an outcome.                              *)
LEMMA ReconciledTypes ==
    ASSUME StoreTypes, NEW op \in Operations
    PROVE  Reconciled(op) \in Outcomes
<1>1. operations[op] \in Nat /\ Len(ticket) \in Nat
  BY DEF StoreTypes
<1> QED
  BY <1>1 DEF Reconciled, Outcomes, Statuses

LEMMA ProcessIntentTypes ==
    ASSUME TypeInv, NEW p \in Procs, ProcessIntent(p) PROVE TypeInv'
<1>1. reg[p] \in Registers /\ pc[p] \notin Handless /\ reg[p].op \in Operations
  BY InHand DEF ProcessIntent, Handless, Registers
<1>2. timeouts' \in Nat
  BY DEF ProcessIntent, TypeInv, StoreTypes
<1>3. StoreTypes' /\ UNCHANGED <<journal, commands>>
  BY <1>2 DEF ProcessIntent, TypeInv, StoreTypes, storeVars, effectVars
<1> SUFFICES Control'
  BY <1>3 DEF TypeInv
<1>4. CASE Goto(p, IF reg[p].driving THEN "driven" ELSE "reconciled", reg[p])
  BY <1>1, <1>3, <1>4, KeepTypes DEF Labels
<1>5. ASSUME NEW out \in Outcomes, NEW phase \in Phases,
             Goto(p, "observe", [reg[p] EXCEPT !.out = out, !.phase = phase])
      PROVE  Control'
  <2> DEFINE r == [reg[p] EXCEPT !.out = out, !.phase = phase]
  <2>1. /\ r \in Registers /\ r.at = reg[p].at /\ r.rows = reg[p].rows
        /\ r.ret = reg[p].ret /\ r.cont = reg[p].cont
    BY <1>1 DEF Registers
  <2> HIDE DEF r
  <2> QED
    BY <1>1, <1>3, <1>5, <2>1, KeepTypes DEF Labels, r
<1>6. Reconciled(reg[p].op) \in Outcomes /\ NoOutcome \in Outcomes
      /\ "reconcile" \in Phases /\ "reconcile-timeout" \in Phases
  BY <1>1, ReconciledTypes DEF TypeInv, NoOutcome, Outcomes, Statuses, Phases
<1> QED
  BY <1>4, <1>5, <1>6 DEF ProcessIntent

LEMMA AfterObservationTypes ==
    ASSUME NEW r PROVE AfterObservation(r) \in Labels \ {"commands"}
BY DEF AfterObservation, Labels

LEMMA RecordObservationTypes ==
    ASSUME TypeInv, NEW p \in Procs, RecordObservation(p) PROVE TypeInv'
<1> DEFINE row == [op |-> reg[p].op, phase |-> reg[p].phase, status |-> reg[p].out.status,
                   version |-> reg[p].out.version]
<1>1. reg[p] \in Registers /\ pc[p] \notin Handless
  BY InHand DEF RecordObservation, Handless
<1>2. row \in Observations
  BY <1>1 DEF Observations, Registers, Outcomes
<1>3. observations' \in SUBSET Observations
  BY <1>2 DEF RecordObservation, TypeInv, StoreTypes
<1>4. StoreTypes' /\ UNCHANGED <<journal, commands>>
  BY <1>3 DEF RecordObservation, TypeInv, StoreTypes, storeVars, boundVars
<1>5. Control'
  BY <1>1, <1>4, AfterObservationTypes, KeepTypes DEF RecordObservation
<1> QED
  BY <1>4, <1>5 DEF TypeInv

LEMMA ExecuteIntentTypes ==
    ASSUME TypeInv, NEW p \in Procs, ExecuteIntent(p) PROVE TypeInv'
<1>1. reg[p] \in Registers /\ pc[p] \notin Handless /\ reg[p].op \in Operations
  BY InHand DEF ExecuteIntent, Handless, Registers
<1>2. /\ ticket \in Seq(Operations) /\ operations \in [Operations -> Nat]
      /\ operations[reg[p].op] \in Nat
  BY <1>1 DEF TypeInv, StoreTypes
<1>3. ticket' \in Seq(Operations) /\ Len(ticket') \in Nat
  <2>1. ticket' \in {ticket, <<reg[p].op>>, Append(ticket, reg[p].op)}
    BY DEF ExecuteIntent
  <2> DEFINE op == reg[p].op
  <2>2. op \in Operations /\ ticket' \in {ticket, <<op>>, Append(ticket, op)}
    BY <1>1, <2>1
  <2> HIDE DEF op
  <2>3. CASE ticket' = <<op>>
    BY <2>2, <2>3
  <2>4. CASE ticket' = ticket \/ ticket' = Append(ticket, op)
    BY <1>2, <2>2, <2>4
  <2> QED
    BY <2>2, <2>3, <2>4
<1>4. operations' \in [Operations -> Nat]
  <2>1. operations' \in {operations, [operations EXCEPT ![reg[p].op] = Len(ticket')]}
    BY DEF ExecuteIntent
  <2> QED
    BY <1>1, <1>2, <1>3, <2>1
<1>5. StoreTypes' /\ UNCHANGED <<journal, commands>>
  BY <1>3, <1>4 DEF ExecuteIntent, TypeInv, StoreTypes, storeVars, boundVars
<1> SUFFICES Control'
  BY <1>5 DEF TypeInv
<1>6. ASSUME NEW status \in {"present", "conflict"}, NEW version \in Nat,
             Goto(p, "observe", [reg[p] EXCEPT !.phase = "execute",
                        !.out = [status |-> status, version |-> version]])
      PROVE  Control'
  <2> DEFINE out == [status |-> status, version |-> version]
             r == [reg[p] EXCEPT !.phase = "execute", !.out = out]
  <2>1. out \in Outcomes /\ "execute" \in Phases
    BY DEF Outcomes, Statuses, Phases
  <2> HIDE DEF out
  <2>2. /\ r \in Registers /\ r.at = reg[p].at /\ r.rows = reg[p].rows
        /\ r.ret = reg[p].ret /\ r.cont = reg[p].cont
    BY <1>1, <2>1 DEF Registers
  <2>3. Goto(p, "observe", r)
    BY <1>6 DEF out
  <2> HIDE DEF r
  <2> QED
    BY <1>1, <1>5, <2>2, <2>3, KeepTypes DEF Labels
<1> QED
  BY <1>2, <1>3, <1>6 DEF ExecuteIntent

LEMMA RecordCompletionTypes ==
    ASSUME TypeInv, NEW p \in Procs, RecordCompletion(p) PROVE TypeInv'
<1> DEFINE row == [phase |-> reg[p].phase, version |-> reg[p].out.version]
           r == [reg[p] EXCEPT !.out = NoOutcome, !.phase = "reconcile"]
<1>1. reg[p] \in Registers /\ pc[p] \notin Handless /\ reg[p].op \in Operations
  BY InHand DEF RecordCompletion, Handless, Registers
<1>2. row \in [phase : Phases \cup {"none"}, version : Nat]
  BY <1>1 DEF Registers, Outcomes
<1>3. completions' \in [Operations -> [phase : Phases \cup {"none"}, version : Nat]]
  <2>1. completions' \in {completions, [completions EXCEPT ![reg[p].op] = row]}
    BY DEF RecordCompletion
  <2>2. completions \in [Operations -> [phase : Phases \cup {"none"}, version : Nat]]
    BY DEF TypeInv, StoreTypes
  <2> HIDE DEF row
  <2> QED
    BY <1>1, <1>2, <2>1, <2>2
<1>4. StoreTypes' /\ UNCHANGED <<journal, commands>>
  BY <1>3 DEF RecordCompletion, TypeInv, StoreTypes, storeVars, boundVars
<1> SUFFICES Control'
  BY <1>4 DEF TypeInv
<1>5. CASE Goto(p, IF reg[p].driving THEN "driven" ELSE "reconciled", r)
  <2>1. NoOutcome \in Outcomes /\ "reconcile" \in Phases
    BY DEF NoOutcome, Outcomes, Statuses, Phases
  <2>2. /\ r \in Registers /\ r.at = reg[p].at /\ r.rows = reg[p].rows
        /\ r.ret = reg[p].ret /\ r.cont = reg[p].cont
    BY <1>1, <2>1 DEF Registers
  <2> HIDE DEF r
  <2> QED
    BY <1>1, <1>4, <1>5, <2>2, KeepTypes DEF Labels
<1>6. CASE Stop(p, "workflow_completion_conflict")
  BY <1>4, <1>6, HaltTypes DEF Results
<1> QED
  BY <1>5, <1>6 DEF RecordCompletion

LEMMA BlockEffectTypes ==
    ASSUME TypeInv, NEW p \in Procs, BlockEffect(p) PROVE TypeInv'
<1>1. StoreTypes' /\ UNCHANGED <<journal, commands>>
  BY DEF BlockEffect, TypeInv, StoreTypes, storeVars, effectVars, boundVars
<1>2. Free(reg[p]) /\ reg[p].at \in 1..Len(journal) /\ reg[p].op \in Operations
  BY InHand DEF BlockEffect, Handless, Registers
<1>3. EffectCause("intent", reg[p].op) \in Causes /\ "finish" \in Continuations
  BY <1>2, CheckpointParts DEF Continuations
<1>4. Control'
  BY <1>1, <1>2, <1>3, EnterReconciliationTypes DEF BlockEffect
<1> QED
  BY <1>1, <1>4 DEF TypeInv

LEMMA NextEffectTypes ==
    ASSUME TypeInv, NEW p \in Procs, NextEffect(p) PROVE TypeInv'
<1> DEFINE c == journal[reg[p].at]
<1>1. StoreTypes' /\ UNCHANGED <<journal, commands>>
  BY DEF NextEffect, TypeInv, StoreTypes, storeVars, effectVars, boundVars
<1> SUFFICES Control'
  BY <1>1 DEF TypeInv
<1>2. reg[p] \in Registers /\ Free(reg[p]) /\ c \in Checkpoints /\ pc[p] \notin Handless
  BY InHand DEF NextEffect, Handless
<1>3. CASE Goto(p, "intent", [reg[p] EXCEPT !.op = WORKFLOW_HANDOFF])
  <2> DEFINE r == [reg[p] EXCEPT !.op = WORKFLOW_HANDOFF]
  <2>1. /\ r \in Registers /\ r.at = reg[p].at /\ r.rows = reg[p].rows
        /\ r.ret = reg[p].ret /\ r.cont = reg[p].cont
    BY <1>2 DEF Registers, Operations
  <2> QED
    BY <1>1, <1>2, <1>3, <2>1, KeepTypes DEF Labels
<1>4. CASE Transition(p, reg[p], TICKET_HANDOFF_COMPLETE, TICKET_READY, TICKET_READY,
                      Cause("handoff"), c.pending, c.completed, "finish")
  <2>1. /\ TICKET_HANDOFF_COMPLETE \in Kinds /\ TICKET_READY \in WORKFLOW_STATES
        /\ Cause("handoff") \in Causes /\ c.pending \in SUBSET Operations
        /\ c.completed \in SUBSET Operations /\ "finish" \in Continuations
    BY <1>2, CheckpointParts DEF Continuations
  <2> HIDE DEF c
  <2> QED
    BY <1>1, <1>2, <1>4, <2>1, TransitionTypes
<1> QED
  BY <1>3, <1>4 DEF NextEffect

LEMMA FinishReconciliationTypes ==
    ASSUME TypeInv, NEW p \in Procs, FinishReconciliation(p) PROVE TypeInv'
<1> DEFINE resume == journal[reg[p].at].resume
<1>1. StoreTypes' /\ UNCHANGED <<journal, commands>>
  BY DEF FinishReconciliation, TypeInv, StoreTypes, storeVars, effectVars, boundVars
<1> SUFFICES Control'
  BY <1>1 DEF TypeInv
<1>2. Free(reg[p]) /\ Free(NoRegisters) /\ journal[reg[p].at] \in Checkpoints
  BY InHand DEF FinishReconciliation, Handless
<1>3. CASE Goto(p, "finish", NoRegisters)
  BY <1>1, <1>2, <1>3, MoveTypes DEF Labels, Handless
<1>4. CASE Transition(p, reg[p], RECONCILIATION_COMPLETE, resume, resume,
                      Cause("reconciliation"), {}, Completed, "dispatch")
  <2>1. /\ RECONCILIATION_COMPLETE \in Kinds /\ resume \in WORKFLOW_STATES
        /\ Cause("reconciliation") \in Causes /\ {} \in SUBSET Operations
        /\ Completed \in SUBSET Operations /\ "dispatch" \in Continuations
    BY <1>2, CheckpointParts DEF Continuations, Completed
  <2> HIDE DEF resume
  <2> QED
    BY <1>1, <1>2, <1>4, <2>1, TransitionTypes
<1> QED
  BY <1>3, <1>4 DEF FinishReconciliation

(* What an operator submits is a command, new or retried.                  *)
LEMMA SubmittedCommand ==
    ASSUME TypeInv, NEW p \in Procs, StartSubmit(p)
    PROVE  \E cmd \in Commands :
             LET r == [NoRegisters EXCEPT !.cmd = cmd] IN
             IF journal = <<>>
             THEN EnsureCheckpoint(p, r, FirstCheckpoint, "prime", "idle")
             ELSE Goto(p, "persist", [r EXCEPT !.at = Len(journal)])
<1> DEFINE fresh(type) == [id |-> Len(commands) + 1, type |-> type,
                           version |-> IF journal = <<>> THEN 0 ELSE Len(journal) - 1]
           again(type, i) == [commands[i] EXCEPT !.type = type]
           call(cmd) == LET r == [NoRegisters EXCEPT !.cmd = cmd] IN
              IF journal = <<>>
              THEN EnsureCheckpoint(p, r, FirstCheckpoint, "prime", "idle")
              ELSE Goto(p, "persist", [r EXCEPT !.at = Len(journal)])
<1>1. PICK type \in CommandTypes :
      \E cmd \in {fresh(type)} \cup {again(type, i) : i \in 1..Len(commands)} : call(cmd)
  BY DEF StartSubmit
<1>2. PICK cmd \in {fresh(type)} \cup {again(type, i) : i \in 1..Len(commands)} : call(cmd)
  BY <1>1
<1>3. Len(journal) \in Nat /\ Len(commands) \in Nat /\ type \in {PAUSE, RESUME, CANCEL}
  BY CommandAssumption DEF TypeInv, StoreTypes
<1>4. journal # <<>> => Len(journal) >= 1
  BY <1>3 DEF TypeInv, StoreTypes
<1>5. cmd \in Commands
  <2>1. fresh(type) \in Commands
    BY <1>3, <1>4 DEF Commands
  <2>2. \A i \in 1..Len(commands) : again(type, i) \in Commands
    <3>1. \A i \in 1..Len(commands) : commands[i] \in Commands
      BY <1>3 DEF TypeInv, StoreTypes
    <3> QED
      BY <1>3, <3>1 DEF Commands
  <2> QED
    BY <2>1, <2>2
<1> QED
  BY <1>2, <1>5

LEMMA StartSubmitTypes ==
    ASSUME TypeInv, NEW p \in Procs, StartSubmit(p) PROVE TypeInv'
<1>1. StoreTypes' /\ UNCHANGED <<journal, commands>>
  BY DEF StartSubmit, TypeInv, StoreTypes, storeVars, effectVars
<1> SUFFICES Control'
  BY <1>1 DEF TypeInv
<1> DEFINE r(cmd) == [NoRegisters EXCEPT !.cmd = cmd]
<1>2. PICK cmd \in Commands :
        IF journal = <<>>
        THEN EnsureCheckpoint(p, r(cmd), FirstCheckpoint, "prime", "idle")
        ELSE Goto(p, "persist", [r(cmd) EXCEPT !.at = Len(journal)])
  BY SubmittedCommand
<1>3. Len(journal) \in Nat /\ Len(commands) \in Nat
  BY DEF TypeInv, StoreTypes
<1>4. journal # <<>> => Len(journal) >= 1
  BY <1>3 DEF TypeInv, StoreTypes
<1>5. NoRegisters \in Registers /\ Free(NoRegisters)
  BY ConstantTypes, InHand
<1>6. Free(r(cmd))
  BY <1>5 DEF Free, Registers, Holds
<1> HIDE DEF r
<1>7. CASE EnsureCheckpoint(p, r(cmd), FirstCheckpoint, "prime", "idle")
  <2>1. "prime" \in Returns /\ "idle" \in Continuations
    BY DEF Returns, Continuations
  <2> QED
    BY <1>1, <1>6, <1>7, <2>1, ConstantTypes, EnsureCheckpointTypes
<1>8. CASE journal # <<>> /\ Goto(p, "persist", [r(cmd) EXCEPT !.at = Len(journal)])
  <2> DEFINE s == [r(cmd) EXCEPT !.at = Len(journal)]
  <2>1. /\ s \in Registers /\ s.at = Len(journal) /\ s.rows = r(cmd).rows
        /\ s.ret = r(cmd).ret /\ s.cont = r(cmd).cont
    BY <1>3, <1>6 DEF Free, Registers
  <2> HIDE DEF s
  <2>2. Free(s) /\ s.at \in 1..Len(journal)
    BY <1>3, <1>4, <1>6, <1>8, <2>1 DEF Free, Holds, Handless
  <2> QED
    BY <1>1, <1>8, <2>2, MoveTypes DEF Labels, s
<1> QED
  BY <1>2, <1>7, <1>8

LEMMA PrimeSubmitTypes ==
    ASSUME TypeInv, NEW p \in Procs, PrimeSubmit(p) PROVE TypeInv'
<1>1. StoreTypes' /\ UNCHANGED <<journal, commands>>
  BY DEF PrimeSubmit, TypeInv, StoreTypes, storeVars, effectVars, boundVars
<1> SUFFICES Control'
  BY <1>1 DEF TypeInv
<1>2. reg[p] \in Registers /\ pc[p] \notin Handless
  BY InHand DEF PrimeSubmit, Handless
<1>3. CASE Goto(p, "persist", reg[p])
  BY <1>1, <1>2, <1>3, KeepTypes DEF Labels
<1>4. CASE Stop(p, "workflow_journal_invalid")
  BY <1>1, <1>4, HaltTypes DEF Results
<1> QED
  BY <1>3, <1>4 DEF PrimeSubmit

LEMMA PersistCommandTypes ==
    ASSUME TypeInv, NEW p \in Procs, PersistCommand(p) PROVE TypeInv'
<1> DEFINE cmd == reg[p].cmd
<1>1. /\ reg[p] \in Registers /\ Free(reg[p]) /\ reg[p].at \in 1..Len(journal)
      /\ Len(commands) \in Nat /\ Len(journal) \in Nat
  BY InHand DEF PersistCommand, Handless
<1>2. /\ commands' \in Seq(Commands) /\ Len(commands) <= Len(commands')
      /\ Len(commands') \in Nat
  <2>1. commands' = commands \/ commands' = Append(commands, cmd)
    BY DEF PersistCommand
  <2>2. cmd \in Commands /\ commands \in Seq(Commands)
    BY <1>1 DEF Registers, TypeInv, StoreTypes
  <2> HIDE DEF cmd
  <2> QED
    BY <1>1, <2>1, <2>2
<1>3. StoreTypes' /\ UNCHANGED journal
  BY <1>2 DEF PersistCommand, TypeInv, StoreTypes, effectVars, boundVars
<1> SUFFICES Control'
  BY <1>3 DEF TypeInv
<1>4. CASE Goto(p, "apply", reg[p])
  <2>1. Holds("apply", reg[p], Len(journal'), Len(commands'))
    BY <1>1, <1>2, <1>3 DEF Holds, Free, Registers
  <2> QED
    BY <1>1, <1>2, <1>3, <1>4, <2>1, GotoTypes DEF TypeInv, Labels
<1>5. CASE \/ Stop(p, "workflow_command_conflict") \/ Stop(p, "workflow_version_conflict")
           \/ Stop(p, "workflow_transition_not_allowed")
  BY <1>1, <1>2, <1>3, <1>5, StopTypes DEF TypeInv, Results
<1> QED
  BY <1>4, <1>5 DEF PersistCommand

LEMMA ApplyCommandTypes ==
    ASSUME TypeInv, NEW p \in Procs, ApplyCommand(p) PROVE TypeInv'
<1>1. StoreTypes' /\ UNCHANGED <<journal, commands>>
  BY DEF ApplyCommand, TypeInv, StoreTypes, storeVars, effectVars, boundVars
<1> SUFFICES Control'
  BY <1>1 DEF TypeInv
<1>2. /\ reg[p] \in Registers /\ Free(reg[p]) /\ pc[p] \notin Handless
      /\ Len(journal) >= 1 /\ reg[p].cmd \in Commands
  BY InHand DEF ApplyCommand, Handless, Registers
<1>3. CASE Goto(p, "applied", reg[p])
  BY <1>1, <1>2, <1>3, KeepTypes DEF Labels
<1>4. CASE ApplyPersistedCommand(p, reg[p].cmd)
  BY <1>1, <1>2, <1>4, ApplyPersistedCommandTypes
<1> QED
  BY <1>3, <1>4 DEF ApplyCommand

LEMMA EnvironmentTypes ==
    ASSUME TypeInv, DeadlinePasses \/ (\E p \in Procs : Crash(p)) PROVE TypeInv'
<1>1. CASE DeadlinePasses
  BY <1>1 DEF DeadlinePasses, TypeInv, StoreTypes, Control, storeVars, effectVars, boundVars
<1>2. CASE \E p \in Procs : Crash(p)
  <2>1. PICK p \in Procs : Crash(p)
    BY <1>2
  <2>2. StoreTypes' /\ UNCHANGED <<journal, commands>>
    BY <2>1 DEF Crash, TypeInv, StoreTypes, storeVars, effectVars
  <2>3. Stop(p, "interrupted") /\ "interrupted" \in Results
    BY <2>1 DEF Crash, Results
  <2> QED
    BY <2>2, <2>3, HaltTypes DEF TypeInv
<1> QED
  BY <1>1, <1>2

LEMMA TypeInvInit == Init => TypeInv
<1> SUFFICES ASSUME Init PROVE TypeInv
  OBVIOUS
<1>1. StoreTypes
  <2>1. journal \in Seq(Checkpoints) /\ events \in Seq(EventRecords)
        /\ ticket \in Seq(Operations) /\ commands \in Seq(Commands)
    BY DEF Init
  <2>2. completions \in [Operations -> [phase : Phases \cup {"none"}, version : Nat]]
    BY DEF Init, NoCompletion
  <2> QED
    BY <2>1, <2>2 DEF Init, StoreTypes
<1>2. Len(journal) \in Nat /\ Len(commands) \in Nat
  BY <1>1 DEF StoreTypes
<1>3. /\ pc \in [Procs -> Labels] /\ reg \in [Procs -> Registers]
      /\ result \in [Procs -> Results]
  BY ConstantTypes DEF Init, Labels, Results
<1>4. \A p \in Procs : Holds(pc[p], reg[p], Len(journal), Len(commands))
  BY <1>2, ConstantTypes DEF Init
<1> QED
  BY <1>1, <1>3, <1>4 DEF TypeInv, Control

(* TypeInv is inductive.                                                   *)
LEMMA TypeInvNext == TypeInv /\ [Next]_vars => TypeInv'
<1> SUFFICES ASSUME TypeInv, [Next]_vars PROVE TypeInv'
  OBVIOUS
<1>1. CASE UNCHANGED vars
  BY <1>1 DEF vars, storeVars, effectVars, boundVars, TypeInv, StoreTypes, Control
<1>2. CASE DeadlinePasses \/ (\E p \in Procs : Crash(p))
  BY <1>2, EnvironmentTypes
<1>3. ASSUME NEW p \in Procs, StartSweep(p) \/ StartSubmit(p) PROVE TypeInv'
  BY <1>3, StartSweepTypes, StartSubmitTypes
<1>4. ASSUME NEW p \in Procs, JournalStep(p) PROVE TypeInv'
  BY <1>4, AppendCheckpointTypes, SyncCaseStateTypes, AppendWorkflowStateEventTypes
     DEF JournalStep
<1>5. ASSUME NEW p \in Procs, CommandStep(p) PROVE TypeInv'
  BY <1>5, RecoverPendingCommandTypes, CommandAppliedTypes, PrimeSubmitTypes,
     PersistCommandTypes, ApplyCommandTypes DEF CommandStep
<1>6. ASSUME NEW p \in Procs, SweepStep(p) PROVE TypeInv'
  BY <1>6, ActivateCaseTypes, RecoverWorkflowTypes, ReadPendingCommandsTypes,
     DispatchTypes, RecordSlaExpiryTypes, ExpireSlaTypes, FinishSweepTypes DEF SweepStep
<1>7. ASSUME NEW p \in Procs, EffectStep(p) PROVE TypeInv'
  BY <1>7, EnsureIntentTypes, MarkIntentTypes, ProcessIntentTypes,
     RecordObservationTypes, ExecuteIntentTypes, RecordCompletionTypes,
     BlockEffectTypes, MarkCompletionTypes, NextEffectTypes,
     FinishReconciliationTypes DEF EffectStep
<1> QED
  BY <1>1, <1>2, <1>3, <1>4, <1>5, <1>6, <1>7 DEF Next, Step

LEMMA TypeInvAlways == Spec => []TypeInv
BY TypeInvInit, TypeInvNext, PTL DEF Spec

(* Every table and register of durable_workflow.py holds records of its    *)
(* kind in every reachable state, for any number of racing processes.      *)
THEOREM TypeCorrect == Spec => []TypeOK
<1>1. TypeInv => TypeOK
  BY DEF TypeInv, StoreTypes, Control, TypeOK
<1> QED
  BY <1>1, TypeInvAlways, PTL

-----------------------------------------------------------------------------
(* The ticket effects of DurableWorkflow happen exactly once, in order,    *)
(* and are recorded truthfully, for every set of racing workers and        *)
(* operators and any number of crashes and timeouts; and they implement    *)
(* EffectOnce.                                                             *)
(*                                                                         *)
(* None of these statements is inductive: that a completion row is true    *)
(* depends on what the process that writes it has seen.  EffectInv adds    *)
(* what each process knows about its effect at each label (EffectHolds).   *)
(* What it knows can never become false, because the tables only grow      *)
(* (Grows): that is why no lock is needed between the transactions.        *)
(*                                                                         *)
(* The second half is about calls that follow one another (Serialized):    *)
(* the journal they leave is accepted by rebuild_workflow_projection, a    *)
(* cancelled workflow has nothing open, a resumed one goes on where it was *)
(* paused, a sweep leaves the Case in step, and an unknown outcome blocks  *)
(* the effect.  CallInv adds what the one process at work holds at each    *)
(* label: what it has read of the store is still so when it writes.        *)

(* The three shapes of the ticket, and the operation rows that go with     *)
(* each.                                                                   *)
TicketShape ==
    \/ ticket = <<>> /\ operations[FIND_OR_CREATE] = 0
                     /\ operations[WORKFLOW_HANDOFF] = 0
    \/ ticket = <<FIND_OR_CREATE>> /\ operations[FIND_OR_CREATE] = 1
                                   /\ operations[WORKFLOW_HANDOFF] = 0
    \/ ticket = <<FIND_OR_CREATE, WORKFLOW_HANDOFF>>
          /\ operations[FIND_OR_CREATE] = 1 /\ operations[WORKFLOW_HANDOFF] = 2

(* An effect is intended before it runs, known complete only with the      *)
(* version it produced, and the handoff is not even intended before        *)
(* find-or-create is known complete.                                       *)
EffectOrder ==
    /\ \A op \in Operations : operations[op] > 0 => op \in intents
    /\ \A op \in Completed : operations[op] > 0 /\ operations[op] = completions[op].version
    /\ WORKFLOW_HANDOFF \in intents => FIND_OR_CREATE \in Completed

(* A checkpoint that is true when the effects in done are complete.        *)
Truthful(c, done) ==
    /\ c.completed \subseteq done
    /\ c.kind = TICKET_HANDOFF_COMPLETE => done = Operations

WithIntent == {"mark", "process", "observe", "execute", "complete", "block",
               "driven", "next"}

(* What a process knows about its effect at a label (while it waits to     *)
(* append a checkpoint: at the label it will go on at), given the intents, *)
(* the operation rows and the completed effects.                           *)
EffectHolds(label, r, ints, ops, done) ==
    LET here == IF label = "append" THEN r.ret ELSE label IN
    /\ here = "intent" /\ r.op = WORKFLOW_HANDOFF => FIND_OR_CREATE \in done
    /\ here \in WithIntent => r.op \in ints
    /\ here = "observe" /\ r.out.status = "present" =>
          ops[r.op] > 0 /\ ops[r.op] = r.out.version
    /\ here = "complete" => ops[r.op] > 0 /\ ops[r.op] = r.out.version
    /\ here \in {"driven", "next"} => r.op \in done
    /\ Truthful(r.want, done)

KnowledgeHolds ==
    \A p \in Procs : EffectHolds(pc[p], reg[p], intents, operations, Completed)

EffectInv ==
    /\ TicketShape
    /\ EffectOrder
    /\ \A i \in 1..Len(journal) : Truthful(journal[i], Completed)
    /\ KnowledgeHolds

IInv == TypeInv /\ EffectInv

-----------------------------------------------------------------------------
(* Knowledge is stable.                                                    *)

coreVars == <<intents, ticket, operations, completions>>

Grows ==
    /\ intents \subseteq intents' /\ Completed \subseteq Completed'
    /\ \A op \in Operations : operations[op] > 0 => operations'[op] = operations[op]

LEMMA CompletedTypes == Completed \subseteq Operations
BY DEF Completed

LEMMA QuietGrows ==
    ASSUME UNCHANGED coreVars PROVE Grows /\ Completed' = Completed
BY DEF Grows, coreVars, Completed

LEMMA KnowledgeIsStable ==
    ASSUME Grows, Completed' \subseteq Operations, NEW label, NEW r \in Registers,
           EffectHolds(label, r, intents, operations, Completed)
    PROVE  EffectHolds(label, r, intents', operations', Completed')
<1>1. r.op \in Operations
  BY DEF Registers
<1>2. Truthful(r.want, Completed')
  BY DEF EffectHolds, Grows, Truthful
<1> QED
  BY <1>1, <1>2 DEF EffectHolds, Grows

LEMMA GotoKnowledge ==
    ASSUME TypeInv, KnowledgeHolds, Grows,
           NEW p \in Procs, NEW label, NEW r,
           EffectHolds(label, r, intents', operations', Completed'),
           Goto(p, label, r)
    PROVE  KnowledgeHolds'
<1> SUFFICES ASSUME NEW q \in Procs
             PROVE  EffectHolds(pc'[q], reg'[q], intents', operations', Completed')
  BY DEF KnowledgeHolds
<1>1. CASE q = p
  BY <1>1 DEF Goto, TypeInv, Control
<1>2. CASE q # p
  <2>1. pc'[q] = pc[q] /\ reg'[q] = reg[q] /\ reg[q] \in Registers
    BY <1>2 DEF Goto, TypeInv, Control
  <2>2. EffectHolds(pc[q], reg[q], intents, operations, Completed)
    BY DEF KnowledgeHolds
  <2>3. Completed' \subseteq Operations
    BY DEF Completed
  <2> QED
    BY <2>1, <2>2, <2>3, KnowledgeIsStable
<1> QED
  BY <1>1, <1>2

LEMMA IdleKnowledge ==
    ASSUME NEW ints, NEW ops, NEW done
    PROVE  /\ EffectHolds("idle", NoRegisters, ints, ops, done)
           /\ Truthful(NoCheckpoint, done) /\ Truthful(FirstCheckpoint, done)
           /\ Truthful(NoRegisters.want, done)
<1>1. Truthful(NoCheckpoint, done) /\ Truthful(FirstCheckpoint, done)
  BY DEF Truthful, NoCheckpoint, FirstCheckpoint, TICKET_HANDOFF_COMPLETE
<1>2. NoRegisters.want = NoCheckpoint
  BY DEF NoRegisters
<1> QED
  BY <1>1, <1>2 DEF EffectHolds, WithIntent

LEMMA StopKnowledge ==
    ASSUME TypeInv, KnowledgeHolds, Grows,
           NEW p \in Procs, NEW outcome, Stop(p, outcome)
    PROVE  KnowledgeHolds'
<1> SUFFICES ASSUME NEW q \in Procs
             PROVE  EffectHolds(pc'[q], reg'[q], intents', operations', Completed')
  BY DEF KnowledgeHolds
<1>1. CASE q = p
  <2>1. pc'[q] = "idle" /\ reg'[q] = NoRegisters
    BY <1>1 DEF Stop, TypeInv, Control
  <2> QED
    BY <2>1, IdleKnowledge
<1>2. CASE q # p
  <2>1. pc'[q] = pc[q] /\ reg'[q] = reg[q] /\ reg[q] \in Registers
    BY <1>2 DEF Stop, TypeInv, Control
  <2>2. EffectHolds(pc[q], reg[q], intents, operations, Completed)
    BY DEF KnowledgeHolds
  <2>3. Completed' \subseteq Operations
    BY DEF Completed
  <2> QED
    BY <2>1, <2>2, <2>3, KnowledgeIsStable
<1> QED
  BY <1>1, <1>2

(* At the other labels a process knows nothing about an effect.            *)
LEMMA NoKnowledge ==
    ASSUME NEW label, label \notin WithIntent \cup {"intent", "append"}, NEW r,
           NEW ints, NEW ops, NEW done, Truthful(r.want, done)
    PROVE  EffectHolds(label, r, ints, ops, done)
BY DEF EffectHolds, WithIntent

(* What the process that moves knows before the step.                      *)
LEMMA KnowledgeInHand ==
    ASSUME EffectInv, TypeInv, NEW p \in Procs
    PROVE  /\ EffectHolds(pc[p], reg[p], intents, operations, Completed)
           /\ Truthful(reg[p].want, Completed)
           /\ reg[p] \in Registers
           /\ pc[p] \notin Handless => Truthful(journal[reg[p].at], Completed)
<1>1. EffectHolds(pc[p], reg[p], intents, operations, Completed)
  BY DEF EffectInv, KnowledgeHolds
<1>2. Truthful(reg[p].want, Completed)
  BY <1>1 DEF EffectHolds
<1>3. reg[p] \in Registers
  BY InHand
<1>4. pc[p] \notin Handless => Truthful(journal[reg[p].at], Completed)
  BY InHand DEF EffectInv
<1> QED
  BY <1>1, <1>2, <1>3, <1>4

LEMMA EnsureCheckpointKnowledge ==
    ASSUME TypeInv, EffectInv, UNCHANGED coreVars,
           NEW p \in Procs, NEW r \in Registers, NEW want, Truthful(want, Completed),
           NEW ret \in Returns, NEW cont,
           EffectHolds(ret, r, intents, operations, Completed),
           EnsureCheckpoint(p, r, want, ret, cont)
    PROVE  KnowledgeHolds'
<1>1. /\ KnowledgeHolds /\ Grows
      /\ intents' = intents /\ operations' = operations /\ Completed' = Completed
  BY QuietGrows DEF EffectInv, coreVars
<1>2. ret # "append"
  BY DEF Returns
<1>3. CASE Stop(p, "workflow_checkpoint_effect_overlap")
           \/ Stop(p, "workflow_checkpoint_predecessor_invalid")
  BY <1>1, <1>3, StopKnowledge
<1>4. CASE Goto(p, ret, [r EXCEPT !.at = Len(journal), !.cont = cont])
  <2> DEFINE s == [r EXCEPT !.at = Len(journal), !.cont = cont]
  <2>1. s.op = r.op /\ s.out = r.out /\ s.want = r.want
    BY DEF Registers
  <2> HIDE DEF s
  <2>2. EffectHolds(ret, s, intents, operations, Completed)
    BY <1>2, <2>1 DEF EffectHolds
  <2> QED
    BY <1>1, <1>4, <2>2, GotoKnowledge DEF s
<1>5. CASE Goto(p, "append", [r EXCEPT !.base = Len(journal), !.want = want,
                                       !.ret = ret, !.cont = cont])
  <2> DEFINE s == [r EXCEPT !.base = Len(journal), !.want = want, !.ret = ret, !.cont = cont]
  <2>1. s.op = r.op /\ s.out = r.out /\ s.want = want /\ s.ret = ret
    BY DEF Registers
  <2> HIDE DEF s
  <2>2. EffectHolds("append", s, intents, operations, Completed)
    BY <1>2, <2>1 DEF EffectHolds
  <2> QED
    BY <1>1, <1>5, <2>2, GotoKnowledge DEF s
<1> QED
  BY <1>3, <1>4, <1>5 DEF EnsureCheckpoint

LEMMA TransitionKnowledge ==
    ASSUME TypeInv, EffectInv, UNCHANGED coreVars,
           NEW p \in Procs, NEW r \in Registers, Truthful(r.want, Completed),
           NEW kind, NEW next, NEW resume, NEW cause, NEW pending, NEW completed, NEW cont,
           completed \subseteq Completed,
           kind = TICKET_HANDOFF_COMPLETE => Completed = Operations,
           Transition(p, r, kind, next, resume, cause, pending, completed, cont)
    PROVE  KnowledgeHolds'
<1> DEFINE want == [state |-> next, resume |-> resume, pending |-> pending,
                    completed |-> completed, cause |-> cause, kind |-> kind]
<1>1. Truthful(want, Completed)
  BY DEF Truthful
<1>2. "sync" \in Returns /\ EffectHolds("sync", r, intents, operations, Completed)
  BY NoKnowledge DEF Returns, WithIntent
<1>3. CASE EnsureCheckpoint(p, r, want, "sync", cont)
  <2> HIDE DEF want
  <2> QED
    BY <1>1, <1>2, <1>3, EnsureCheckpointKnowledge
<1>4. CASE Stop(p, "workflow_transition_not_allowed")
  BY <1>4, QuietGrows, StopKnowledge DEF EffectInv
<1> QED
  BY <1>3, <1>4 DEF Transition

LEMMA EnterReconciliationKnowledge ==
    ASSUME TypeInv, EffectInv, UNCHANGED coreVars,
           NEW p \in Procs, NEW r \in Registers, Truthful(r.want, Completed),
           NEW cause, NEW cont \in Continuations,
           EnterReconciliation(p, r, cause, cont)
    PROVE  KnowledgeHolds'
<1>1. CASE Goto(p, cont, r)
  <2>1. cont \notin WithIntent \cup {"intent", "append"}
    BY DEF Continuations, WithIntent
  <2>2. Grows /\ Completed' = Completed /\ KnowledgeHolds
    BY QuietGrows DEF EffectInv
  <2>3. EffectHolds(cont, r, intents', operations', Completed')
    BY <2>1, <2>2, NoKnowledge
  <2> QED
    BY <1>1, <2>2, <2>3, GotoKnowledge
<1>2. CASE Transition(p, r, RECONCILIATION_REQUIRED, NEEDS_RECONCILIATION,
                      journal[r.at].state, cause, Unresolved, Completed, cont)
  <2>1. RECONCILIATION_REQUIRED # TICKET_HANDOFF_COMPLETE
    BY DEF RECONCILIATION_REQUIRED, TICKET_HANDOFF_COMPLETE
  <2> QED
    BY <1>2, <2>1, TransitionKnowledge
<1> QED
  BY <1>1, <1>2 DEF EnterReconciliation

LEMMA ApplyPersistedCommandKnowledge ==
    ASSUME TypeInv, EffectInv, UNCHANGED coreVars,
           NEW p \in Procs, pc[p] \notin Handless, NEW c \in Commands,
           ApplyPersistedCommand(p, c)
    PROVE  KnowledgeHolds'
<1> DEFINE r == [reg[p] EXCEPT !.at = Len(journal)]
           apply(kind, next, resume) ==
              Transition(p, r, kind, next, resume, CommandCause(c.id),
                         Latest.pending, Latest.completed, "applied")
<1>1. Len(journal) \in Nat /\ Len(journal) >= 1 /\ reg[p] \in Registers
  BY InHand
<1>2. r \in Registers /\ r.want = reg[p].want
  BY <1>1 DEF Registers
<1>3. Truthful(r.want, Completed)
  BY <1>2, KnowledgeInHand
<1>4. Latest.completed \subseteq Completed
  BY <1>1 DEF Latest, EffectInv, Truthful
<1>5. "applied" \in Continuations /\ "applied" \notin WithIntent \cup {"intent", "append"}
  BY DEF Continuations, WithIntent
<1>6. Grows /\ Completed' = Completed /\ KnowledgeHolds
  BY QuietGrows DEF EffectInv
<1>7. /\ PAUSE # TICKET_HANDOFF_COMPLETE /\ RESUME # TICKET_HANDOFF_COMPLETE
      /\ CANCEL # TICKET_HANDOFF_COMPLETE
      /\ PAUSE # RESUME /\ PAUSE # CANCEL /\ RESUME # CANCEL
  BY DEF PAUSE, RESUME, CANCEL, TICKET_HANDOFF_COMPLETE
<1> HIDE DEF r
<1>8. CASE Stop(p, "workflow_command_recovery_conflict")
  BY <1>6, <1>8, StopKnowledge
<1>9. CASE EnterReconciliation(p, r, CommandCause(c.id), "applied")
  BY <1>2, <1>3, <1>5, <1>9, EnterReconciliationKnowledge
<1>10. CASE Goto(p, "applied", r)
  <2>1. EffectHolds("applied", r, intents', operations', Completed')
    BY <1>3, <1>5, <1>6, NoKnowledge
  <2> QED
    BY <1>6, <1>10, <2>1, GotoKnowledge
<1>11. CASE \/ apply(PAUSE, PAUSED, Latest.state)
            \/ apply(RESUME, ResumeTarget(Latest), ResumeTarget(Latest))
            \/ apply(CANCEL, CANCELLED, CANCELLED)
  BY <1>2, <1>3, <1>4, <1>7, <1>11, TransitionKnowledge
<1>12. c.type = PAUSE \/ c.type = RESUME \/ c.type = CANCEL
  BY DEF Commands
<1> QED
  BY <1>7, <1>8, <1>9, <1>10, <1>11, <1>12 DEF ApplyPersistedCommand, r

-----------------------------------------------------------------------------
(* The steps that are quiet about the effects.                             *)

LEMMA QuietEffects ==
    ASSUME EffectInv, UNCHANGED coreVars, UNCHANGED journal, KnowledgeHolds'
    PROVE  EffectInv'
<1>1. TicketShape' /\ EffectOrder'
  BY DEF EffectInv, TicketShape, EffectOrder, coreVars, Completed
<1>2. (\A i \in 1..Len(journal) : Truthful(journal[i], Completed))'
  BY QuietGrows DEF EffectInv
<1> QED
  BY <1>1, <1>2 DEF EffectInv

(* Steps that only move a process to a label without knowledge.            *)
LEMMA MoveEffects ==
    ASSUME IInv, UNCHANGED coreVars, UNCHANGED journal,
           NEW p \in Procs, NEW label, label \notin WithIntent \cup {"intent", "append"},
           NEW r, Truthful(r.want, Completed), Goto(p, label, r)
    PROVE  EffectInv'
<1>1. Grows /\ Completed' = Completed /\ KnowledgeHolds
  BY QuietGrows DEF IInv, EffectInv
<1>2. EffectHolds(label, r, intents', operations', Completed')
  BY <1>1, NoKnowledge
<1>3. KnowledgeHolds'
  BY <1>1, <1>2, GotoKnowledge DEF IInv
<1> QED
  BY <1>3, QuietEffects DEF IInv

LEMMA HaltEffects ==
    ASSUME IInv, UNCHANGED coreVars, UNCHANGED journal,
           NEW p \in Procs, NEW outcome, Stop(p, outcome)
    PROVE  EffectInv'
BY QuietGrows, StopKnowledge, QuietEffects DEF IInv, EffectInv

LEMMA JournalStepEffects ==
    ASSUME IInv, NEW p \in Procs, JournalStep(p) PROVE EffectInv'
<1>1. UNCHANGED coreVars
  BY DEF JournalStep, AppendCheckpoint, AppendRow, SyncCaseState, ReadCaseState,
         AppendWorkflowStateEvent, AppendStateEvent,
         effectVars, coreVars
<1>2. /\ EffectHolds(pc[p], reg[p], intents, operations, Completed)
      /\ Truthful(reg[p].want, Completed) /\ reg[p] \in Registers
  BY KnowledgeInHand DEF IInv
<1>3. reg[p].cont \in Continuations
  BY InHand DEF IInv, Free, Holds
<1>4. reg[p].cont \notin WithIntent \cup {"intent", "append"}
      /\ "event" \notin WithIntent \cup {"intent", "append"}
  BY <1>3 DEF Continuations, WithIntent
<1>5. CASE AppendCheckpoint(p)
  <2> DEFINE r == [reg[p] EXCEPT !.at = Len(journal'), !.base = 0,
                                 !.want = NoRegisters.want, !.ret = "idle"]
  <2>1. Grows /\ Completed' = Completed /\ KnowledgeHolds
    BY <1>1, QuietGrows DEF IInv, EffectInv
  <2>2. r.op = reg[p].op /\ r.out = reg[p].out /\ r.want = NoCheckpoint
    BY <1>2 DEF NoRegisters, Registers
  <2>3. reg[p].ret # "append" /\ pc[p] = "append" /\ Goto(p, reg[p].ret, r)
    BY <1>5, InHand DEF IInv, Free, Holds, Returns, AppendCheckpoint, AppendRow
  <2> HIDE DEF r
  <2>4. EffectHolds(reg[p].ret, r, intents, operations, Completed)
    BY <1>2, <2>2, <2>3, IdleKnowledge DEF EffectHolds
  <2>5. intents' = intents /\ operations' = operations
    BY <1>1 DEF coreVars
  <2>6. KnowledgeHolds'
    BY <2>1, <2>3, <2>4, <2>5, GotoKnowledge DEF IInv
  <2>7. \A i \in 1..Len(journal') : Truthful(journal'[i], Completed)
    <3>1. CASE journal' = journal
      BY <3>1 DEF IInv, EffectInv
    <3>2. CASE journal' = Append(journal, reg[p].want)
      <4>1. Len(journal) \in Nat /\ journal \in Seq(Checkpoints) /\ reg[p].want \in Checkpoints
        BY <1>2 DEF IInv, TypeInv, StoreTypes, Registers
      <4>2. Len(journal') = Len(journal) + 1 /\ journal'[Len(journal) + 1] = reg[p].want
        BY <3>2, <4>1
      <4>3. \A i \in 1..Len(journal) : journal'[i] = journal[i]
        BY <3>2, <4>1
      <4> QED
        BY <1>2, <4>1, <4>2, <4>3 DEF IInv, EffectInv
    <3> QED
      BY <1>5, <3>1, <3>2 DEF AppendCheckpoint, AppendRow
  <2>8. TicketShape' /\ EffectOrder'
    BY <1>1 DEF IInv, EffectInv, TicketShape, EffectOrder, coreVars, Completed
  <2> QED
    BY <2>1, <2>6, <2>7, <2>8 DEF EffectInv
<1>6. CASE SyncCaseState(p)
  <2>1. UNCHANGED journal
    BY <1>6 DEF SyncCaseState, ReadCaseState, storeVars
  <2>2. [reg[p] EXCEPT !.cont = "idle"].want = reg[p].want
    BY <1>2 DEF Registers
  <2>3. ASSUME NEW from PROVE [reg[p] EXCEPT !.from = from].want = reg[p].want
    BY <1>2 DEF Registers
  <2>4. CASE Goto(p, reg[p].cont, [reg[p] EXCEPT !.cont = "idle"])
    BY <1>1, <1>2, <1>4, <2>1, <2>2, <2>4, MoveEffects
  <2>5. ASSUME NEW from, Goto(p, "event", [reg[p] EXCEPT !.from = from])
        PROVE  EffectInv'
    BY <1>1, <1>2, <1>4, <2>1, <2>3, <2>5, MoveEffects
  <2>6. CASE Stop(p, "workflow_transition_not_allowed")
    BY <1>1, <2>1, <2>6, HaltEffects
  <2> QED
    BY <1>6, <2>4, <2>5, <2>6 DEF SyncCaseState, ReadCaseState
<1>7. CASE AppendWorkflowStateEvent(p)
  <2> DEFINE r == [reg[p] EXCEPT !.cont = "idle", !.from = RECEIVED]
  <2>1. UNCHANGED journal
    BY <1>7 DEF AppendWorkflowStateEvent, AppendStateEvent
  <2>2. r.want = reg[p].want
    BY <1>2 DEF Registers
  <2>3. CASE Goto(p, reg[p].cont, r)
    BY <1>1, <1>2, <1>4, <2>1, <2>2, <2>3, MoveEffects
  <2>4. CASE \/ Stop(p, "workflow_event_conflict")
             \/ Stop(p, "workflow_event_predecessor_mismatch")
    BY <1>1, <2>1, <2>4, HaltEffects
  <2> QED
    BY <1>7, <2>3, <2>4 DEF AppendWorkflowStateEvent, AppendStateEvent
<1> QED
  BY <1>5, <1>6, <1>7 DEF JournalStep

LEMMA CommandStepEffects ==
    ASSUME IInv, NEW p \in Procs, CommandStep(p) PROVE EffectInv'
<1>1. UNCHANGED coreVars /\ UNCHANGED journal
  BY DEF CommandStep, RecoverPendingCommand, CommandApplied, PrimeSubmit, PersistCommand,
         ApplyCommand, storeVars, effectVars, coreVars
<1>2. Truthful(reg[p].want, Completed) /\ Truthful(NoRegisters.want, Completed)
      /\ reg[p] \in Registers
  BY KnowledgeInHand, IdleKnowledge DEF IInv
<1>3. pc[p] \notin Handless
  BY DEF CommandStep, RecoverPendingCommand, CommandApplied, PrimeSubmit, PersistCommand,
         ApplyCommand, Handless
<1>4. {"dispatch", "commands", "persist", "apply", "applied"}
         \cap (WithIntent \cup {"intent", "append"}) = {}
  BY DEF WithIntent
<1>5. ASSUME NEW label \in {"commands", "persist", "apply", "applied"}, Goto(p, label, reg[p])
      PROVE  EffectInv'
  BY <1>1, <1>2, <1>4, <1>5, MoveEffects
<1>6. CASE Goto(p, "commands", [reg[p] EXCEPT !.row = @ + 1])
  <2>1. [reg[p] EXCEPT !.row = @ + 1].want = reg[p].want
    BY <1>2 DEF Registers
  <2> QED
    BY <1>1, <1>2, <1>4, <1>6, <2>1, MoveEffects
<1>7. CASE Goto(p, "dispatch", [NoRegisters EXCEPT !.at = Len(journal)])
  <2>1. [NoRegisters EXCEPT !.at = Len(journal)].want = NoRegisters.want
    BY ConstantTypes DEF Registers
  <2> QED
    BY <1>1, <1>2, <1>4, <1>7, <2>1, MoveEffects
<1>8. ASSUME NEW outcome, Stop(p, outcome) PROVE EffectInv'
  BY <1>1, <1>8, HaltEffects
<1>9. ASSUME NEW c \in Commands, ApplyPersistedCommand(p, c) PROVE EffectInv'
  BY <1>1, <1>3, <1>9, ApplyPersistedCommandKnowledge, QuietEffects DEF IInv
<1>10. CASE RecoverPendingCommand(p)
  <2> DEFINE c == commands[reg[p].row]
  <2>1. CASE reg[p].row <= reg[p].rows /\ ApplyPersistedCommand(p, c)
    <3>1. /\ reg[p].row \in Nat /\ reg[p].rows \in Nat /\ reg[p].row >= 1
          /\ reg[p].rows <= Len(commands) /\ Len(commands) \in Nat
      BY <1>2, <1>10 DEF RecoverPendingCommand, IInv, TypeInv, StoreTypes, Control, Holds, Registers
    <3>2. c \in Commands
      BY <2>1, <3>1 DEF IInv, TypeInv, StoreTypes
    <3> QED
      BY <1>9, <2>1, <3>2
  <2>2. reg[p].row \in Nat /\ reg[p].rows \in Nat
    BY <1>2 DEF Registers
  <2> QED
    BY <1>6, <1>7, <1>10, <2>1, <2>2 DEF RecoverPendingCommand
<1>11. CASE CommandApplied(p) \/ PrimeSubmit(p) \/ PersistCommand(p)
  BY <1>5, <1>6, <1>8, <1>11 DEF CommandApplied, PrimeSubmit, PersistCommand
<1>12. CASE ApplyCommand(p)
  <2>1. reg[p].cmd \in Commands
    BY <1>2 DEF Registers
  <2> QED
    BY <1>5, <1>9, <1>12, <2>1 DEF ApplyCommand
<1> QED
  BY <1>10, <1>11, <1>12 DEF CommandStep

LEMMA StartEffects ==
    ASSUME IInv, NEW p \in Procs, StartSweep(p) \/ StartSubmit(p) \/ Crash(p)
    PROVE  EffectInv'
<1>1. UNCHANGED coreVars /\ UNCHANGED journal
  BY DEF StartSweep, StartSubmit, Crash, storeVars, effectVars, coreVars
<1>2. Grows /\ Completed' = Completed /\ KnowledgeHolds
      /\ intents' = intents /\ operations' = operations
  BY <1>1, QuietGrows DEF IInv, EffectInv, coreVars
<1>3. CASE StartSweep(p)
  <2>1. ASSUME NEW q \in Procs
        PROVE  EffectHolds(pc'[q], reg'[q], intents', operations', Completed')
    <3>1. EffectHolds(pc[q], reg[q], intents, operations, Completed)
          /\ Truthful(reg[q].want, Completed)
      BY KnowledgeInHand DEF IInv
    <3>2. reg'[q] = reg[q] /\ (pc'[q] = pc[q] \/ pc'[q] = "rebuild" \/ pc'[q] = "activate")
      BY <1>3 DEF StartSweep, IInv, TypeInv, Control
    <3>3. /\ "rebuild" \notin WithIntent \cup {"intent", "append"}
          /\ "activate" \notin WithIntent \cup {"intent", "append"}
      BY DEF WithIntent
    <3> QED
      BY <1>2, <3>1, <3>2, <3>3, NoKnowledge
  <2> QED
    BY <1>1, <2>1, QuietEffects DEF KnowledgeHolds, IInv
<1>4. CASE StartSubmit(p)
  <2> DEFINE r(cmd) == [NoRegisters EXCEPT !.cmd = cmd]
  <2>1. PICK cmd \in Commands :
          IF journal = <<>>
          THEN EnsureCheckpoint(p, r(cmd), FirstCheckpoint, "prime", "idle")
          ELSE Goto(p, "persist", [r(cmd) EXCEPT !.at = Len(journal)])
    BY <1>4, SubmittedCommand DEF IInv
  <2>2. r(cmd) \in Registers /\ r(cmd).want = NoRegisters.want
    BY ConstantTypes DEF Registers
  <2>3. [r(cmd) EXCEPT !.at = Len(journal)].want = NoRegisters.want
    BY <2>2 DEF Registers
  <2>4. Truthful(NoRegisters.want, Completed) /\ Truthful(FirstCheckpoint, Completed)
    BY IdleKnowledge
  <2>5. /\ "prime" \notin WithIntent \cup {"intent", "append"} /\ "prime" \in Returns
        /\ "persist" \notin WithIntent \cup {"intent", "append"}
    BY DEF WithIntent, Returns
  <2> HIDE DEF r
  <2>6. CASE EnsureCheckpoint(p, r(cmd), FirstCheckpoint, "prime", "idle")
    <3>1. EffectHolds("prime", r(cmd), intents, operations, Completed)
      BY <2>2, <2>4, <2>5, NoKnowledge
    <3>2. KnowledgeHolds'
      BY <1>1, <2>2, <2>4, <2>5, <2>6, <3>1, EnsureCheckpointKnowledge DEF IInv
    <3> QED
      BY <1>1, <3>2, QuietEffects DEF IInv
  <2>7. CASE Goto(p, "persist", [r(cmd) EXCEPT !.at = Len(journal)])
    BY <1>1, <2>3, <2>4, <2>5, <2>7, MoveEffects
  <2> QED
    BY <2>1, <2>6, <2>7
<1>5. CASE Crash(p)
  BY <1>1, <1>5, HaltEffects DEF Crash
<1> QED
  BY <1>3, <1>4, <1>5

LEMMA SweepStepEffects ==
    ASSUME IInv, NEW p \in Procs, SweepStep(p) PROVE EffectInv'
<1>1. UNCHANGED coreVars /\ UNCHANGED journal
  BY DEF SweepStep, ActivateCase, RecoverWorkflow, ReadPendingCommands, Dispatch,
         RecordSlaExpiry, ExpireSla, FinishSweep, storeVars, effectVars, coreVars
<1>2. Truthful(reg[p].want, Completed) /\ Truthful(NoRegisters.want, Completed)
      /\ Truthful(FirstCheckpoint, Completed) /\ reg[p] \in Registers
  BY KnowledgeInHand, IdleKnowledge DEF IInv
<1>3. {"rebuild", "sync", "commands", "sla", "expire", "reconciled", "finish"}
         \cap (WithIntent \cup {"intent", "append"}) = {}
  BY DEF WithIntent
<1>4. Grows /\ Completed' = Completed /\ KnowledgeHolds
      /\ intents' = intents /\ operations' = operations
  BY <1>1, QuietGrows DEF IInv, EffectInv, coreVars
<1>5. ASSUME NEW label \in {"rebuild", "sla", "expire", "reconciled"}, Goto(p, label, reg[p])
      PROVE  EffectInv'
  BY <1>1, <1>2, <1>3, <1>5, MoveEffects
<1>6. ASSUME NEW outcome, Stop(p, outcome) PROVE EffectInv'
  BY <1>1, <1>6, HaltEffects
<1>7. CASE ActivateCase(p) \/ RecordSlaExpiry(p) \/ FinishSweep(p)
  BY <1>5, <1>6, <1>7 DEF ActivateCase, RecordSlaExpiry, FinishSweep
<1>8. CASE RecoverWorkflow(p)
  <2>1. CASE EnsureCheckpoint(p, reg[p], FirstCheckpoint, "sync", "pending")
    <3>1. "sync" \in Returns /\ EffectHolds("sync", reg[p], intents, operations, Completed)
      BY <1>2, <1>3, NoKnowledge DEF Returns
    <3>2. KnowledgeHolds'
      BY <1>1, <1>2, <2>1, <3>1, EnsureCheckpointKnowledge DEF IInv
    <3> QED
      BY <1>1, <3>2, QuietEffects DEF IInv
  <2>2. CASE Goto(p, "sync", [reg[p] EXCEPT !.at = Len(journal), !.cont = "pending"])
    <3>1. [reg[p] EXCEPT !.at = Len(journal), !.cont = "pending"].want = reg[p].want
      BY <1>2 DEF Registers
    <3> QED
      BY <1>1, <1>2, <1>3, <2>2, <3>1, MoveEffects
  <2> QED
    BY <1>6, <1>8, <2>1, <2>2 DEF RecoverWorkflow
<1>9. CASE ReadPendingCommands(p)
  <2>1. [reg[p] EXCEPT !.row = 1, !.rows = Len(commands)].want = reg[p].want
    BY <1>2 DEF Registers
  <2>2. CASE Goto(p, "commands", [reg[p] EXCEPT !.row = 1, !.rows = Len(commands)])
    BY <1>1, <1>2, <1>3, <2>1, <2>2, MoveEffects
  <2> QED
    BY <1>6, <1>9, <2>2 DEF ReadPendingCommands
<1>10. CASE Dispatch(p)
  <2>1. CASE Goto(p, "finish", NoRegisters)
    BY <1>1, <1>2, <1>3, <2>1, MoveEffects
  <2>2. ASSUME NEW op \in Unresolved, Goto(p, "process", [reg[p] EXCEPT !.op = op])
        PROVE  EffectInv'
    <3> DEFINE r == [reg[p] EXCEPT !.op = op]
    <3>1. r.op = op /\ r.want = reg[p].want
      BY <1>2 DEF Registers
    <3>2. op \in intents
      BY DEF Unresolved
    <3> HIDE DEF r
    <3>3. EffectHolds("process", r, intents, operations, Completed)
      BY <1>2, <3>1, <3>2 DEF EffectHolds
    <3>4. KnowledgeHolds'
      BY <1>4, <2>2, <3>3, GotoKnowledge DEF IInv, r
    <3> QED
      BY <1>1, <3>4, QuietEffects DEF IInv
  <2>3. CASE Goto(p, "intent", [reg[p] EXCEPT !.op = FIND_OR_CREATE, !.driving = TRUE])
    <3> DEFINE r == [reg[p] EXCEPT !.op = FIND_OR_CREATE, !.driving = TRUE]
    <3>1. r.op = FIND_OR_CREATE /\ r.want = reg[p].want
      BY <1>2 DEF Registers
    <3> HIDE DEF r
    <3>2. EffectHolds("intent", r, intents, operations, Completed)
      BY <1>2, <3>1 DEF EffectHolds, WithIntent, FIND_OR_CREATE, WORKFLOW_HANDOFF
    <3>3. KnowledgeHolds'
      BY <1>4, <2>3, <3>2, GotoKnowledge DEF IInv, r
    <3> QED
      BY <1>1, <3>3, QuietEffects DEF IInv
  <2> QED
    BY <1>5, <1>10, <2>1, <2>2, <2>3 DEF Dispatch
<1>11. CASE ExpireSla(p)
  <2> DEFINE c == journal[reg[p].at]
  <2>1. c.completed \subseteq Completed
    BY <1>11, KnowledgeInHand DEF IInv, ExpireSla, Handless, Truthful
  <2>2. SLA_EXPIRED # TICKET_HANDOFF_COMPLETE
    BY DEF SLA_EXPIRED, TICKET_HANDOFF_COMPLETE
  <2>3. Transition(p, reg[p], SLA_EXPIRED, WAITING_FOR_OPERATOR, WAITING_FOR_OPERATOR,
                   Cause("sla"), c.pending, c.completed, "finish")
    BY <1>11 DEF ExpireSla
  <2> HIDE DEF c
  <2>4. KnowledgeHolds'
    BY <1>1, <1>2, <2>1, <2>2, <2>3, TransitionKnowledge DEF IInv
  <2> QED
    BY <1>1, <2>4, QuietEffects DEF IInv
<1> QED
  BY <1>7, <1>8, <1>9, <1>10, <1>11 DEF SweepStep

-----------------------------------------------------------------------------
(* The steps that drive an effect.                                         *)

LEMMA EnsureIntentEffects ==
    ASSUME IInv, NEW p \in Procs, EnsureIntent(p) PROVE EffectInv'
<1>1. /\ UNCHANGED <<journal, ticket, operations, completions>>
      /\ intents' = intents \cup {reg[p].op} /\ Goto(p, "mark", reg[p]) /\ pc[p] = "intent"
  BY DEF EnsureIntent, storeVars
<1>2. Grows /\ Completed' = Completed
  BY <1>1 DEF Grows, Completed
<1>3. /\ EffectHolds("intent", reg[p], intents, operations, Completed)
      /\ reg[p] \in Registers /\ KnowledgeHolds
  BY <1>1, KnowledgeInHand DEF IInv, EffectInv
<1>4. EffectHolds("mark", reg[p], intents', operations', Completed')
  BY <1>1, <1>2, <1>3 DEF EffectHolds, WithIntent
<1>5. KnowledgeHolds'
  BY <1>1, <1>2, <1>3, <1>4, GotoKnowledge DEF IInv
<1>6. TicketShape'
  BY <1>1 DEF IInv, EffectInv, TicketShape
<1>7. EffectOrder'
  <2>1. reg[p].op = WORKFLOW_HANDOFF => FIND_OR_CREATE \in Completed
    BY <1>3 DEF EffectHolds
  <2> QED
    BY <1>1, <1>2, <2>1 DEF IInv, EffectInv, EffectOrder
<1>8. (\A i \in 1..Len(journal) : Truthful(journal[i], Completed))'
  BY <1>1, <1>2 DEF IInv, EffectInv
<1> QED
  BY <1>5, <1>6, <1>7, <1>8 DEF EffectInv

LEMMA MarkEffects ==
    ASSUME IInv, NEW p \in Procs, MarkIntent(p) \/ MarkCompletion(p) PROVE EffectInv'
<1>1. UNCHANGED coreVars /\ UNCHANGED journal
  BY DEF MarkIntent, MarkCompletion, storeVars, effectVars, coreVars
<1>2. ASSUME NEW state, NEW cause PROVE Truthful(ProgressCheckpoint(state, cause), Completed)
  BY DEF Truthful, ProgressCheckpoint, TICKET_HANDOFF_COMPLETE
<1>3. /\ EffectHolds(pc[p], reg[p], intents, operations, Completed)
      /\ reg[p] \in Registers
  BY KnowledgeInHand DEF IInv
<1>4. "process" \in Returns /\ "next" \in Returns
  BY DEF Returns
<1>5. CASE MarkIntent(p)
  <2> DEFINE want == ProgressCheckpoint(journal[reg[p].at].state,
                                        EffectCause("intent", reg[p].op))
  <2>1. EffectHolds("process", reg[p], intents, operations, Completed)
    BY <1>3, <1>5 DEF MarkIntent, EffectHolds, WithIntent
  <2>2. EnsureCheckpoint(p, reg[p], want, "process", "idle") /\ Truthful(want, Completed)
    BY <1>2, <1>5 DEF MarkIntent
  <2> HIDE DEF want
  <2>3. KnowledgeHolds'
    BY <1>1, <1>3, <1>4, <2>1, <2>2, EnsureCheckpointKnowledge DEF IInv
  <2> QED
    BY <1>1, <2>3, QuietEffects DEF IInv
<1>6. CASE MarkCompletion(p)
  <2> DEFINE want == ProgressCheckpoint(journal[reg[p].at].state,
                                        EffectCause("completion", reg[p].op))
  <2>1. EffectHolds("next", reg[p], intents, operations, Completed)
    BY <1>3, <1>6 DEF MarkCompletion, EffectHolds, WithIntent
  <2>2. EnsureCheckpoint(p, reg[p], want, "next", "idle") /\ Truthful(want, Completed)
    BY <1>2, <1>6 DEF MarkCompletion
  <2> HIDE DEF want
  <2>3. KnowledgeHolds'
    BY <1>1, <1>3, <1>4, <2>1, <2>2, EnsureCheckpointKnowledge DEF IInv
  <2> QED
    BY <1>1, <2>3, QuietEffects DEF IInv
<1> QED
  BY <1>5, <1>6

(* What reconciliation finds present has run.                              *)
LEMMA ReconciledTruthful ==
    ASSUME StoreTypes, TicketShape, NEW op \in Operations, Reconciled(op).status = "present"
    PROVE  operations[op] > 0 /\ operations[op] = Reconciled(op).version
<1>1. operations[op] \in Nat
  BY DEF StoreTypes
<1>2. CASE operations[op] > 0
  BY <1>2 DEF Reconciled
<1>3. CASE operations[op] = 0
  <2>1. op = FIND_OR_CREATE => ticket = <<>>
    BY <1>3 DEF TicketShape
  <2>2. Reconciled(op).status \in {"absent", "conflict"}
    BY <1>3, <2>1 DEF Reconciled
  <2> QED
    BY <2>2
<1> QED
  BY <1>1, <1>2, <1>3

LEMMA ProcessIntentEffects ==
    ASSUME IInv, NEW p \in Procs, ProcessIntent(p) PROVE EffectInv'
<1>1. UNCHANGED coreVars /\ UNCHANGED journal /\ pc[p] = "process"
  BY DEF ProcessIntent, storeVars, effectVars, coreVars
<1>2. Grows /\ Completed' = Completed /\ KnowledgeHolds
      /\ intents' = intents /\ operations' = operations
  BY <1>1, QuietGrows DEF IInv, EffectInv, coreVars
<1>3. /\ EffectHolds("process", reg[p], intents, operations, Completed)
      /\ reg[p] \in Registers /\ reg[p].op \in Operations /\ reg[p].op \in intents
      /\ Truthful(reg[p].want, Completed)
  BY <1>1, KnowledgeInHand DEF IInv, EffectHolds, WithIntent, Registers
<1>4. ASSUME NEW label \in {"driven", "reconciled"}, reg[p].op \in Completed,
             Goto(p, label, reg[p])
      PROVE  EffectInv'
  <2>1. EffectHolds(label, reg[p], intents, operations, Completed)
    BY <1>3, <1>4 DEF EffectHolds, WithIntent
  <2>2. KnowledgeHolds'
    BY <1>2, <1>4, <2>1, GotoKnowledge DEF IInv
  <2> QED
    BY <1>1, <2>2, QuietEffects DEF IInv
<1>5. ASSUME NEW out, NEW phase,
             out.status = "present" =>
                operations[reg[p].op] > 0 /\ operations[reg[p].op] = out.version,
             Goto(p, "observe", [reg[p] EXCEPT !.out = out, !.phase = phase])
      PROVE  EffectInv'
  <2> DEFINE r == [reg[p] EXCEPT !.out = out, !.phase = phase]
  <2>1. r.op = reg[p].op /\ r.out = out /\ r.want = reg[p].want
    BY <1>3 DEF Registers
  <2> HIDE DEF r
  <2>2. EffectHolds("observe", r, intents, operations, Completed)
    BY <1>3, <1>5, <2>1 DEF EffectHolds, WithIntent
  <2>3. KnowledgeHolds'
    BY <1>2, <1>5, <2>2, GotoKnowledge DEF IInv, r
  <2> QED
    BY <1>1, <2>3, QuietEffects DEF IInv
<1>6. Reconciled(reg[p].op).status = "present" =>
         /\ operations[reg[p].op] > 0
         /\ operations[reg[p].op] = Reconciled(reg[p].op).version
  BY <1>3, ReconciledTruthful DEF IInv, TypeInv, EffectInv
<1>7. NoOutcome.status # "present"
  BY DEF NoOutcome
<1> QED
  BY <1>4, <1>5, <1>6, <1>7 DEF ProcessIntent

LEMMA RecordObservationEffects ==
    ASSUME IInv, NEW p \in Procs, RecordObservation(p) PROVE EffectInv'
<1>1. UNCHANGED coreVars /\ UNCHANGED journal /\ pc[p] = "observe"
      /\ Goto(p, AfterObservation(reg[p]), reg[p])
  BY DEF RecordObservation, storeVars, coreVars
<1>2. Grows /\ Completed' = Completed /\ KnowledgeHolds
      /\ intents' = intents /\ operations' = operations
  BY <1>1, QuietGrows DEF IInv, EffectInv, coreVars
<1>3. EffectHolds("observe", reg[p], intents, operations, Completed)
  BY <1>1, KnowledgeInHand DEF IInv
<1>4. EffectHolds(AfterObservation(reg[p]), reg[p], intents, operations, Completed)
  <2>1. CASE reg[p].out.status = "present"
    <3>1. AfterObservation(reg[p]) = "complete"
      BY <2>1 DEF AfterObservation
    <3> QED
      BY <1>3, <2>1, <3>1 DEF EffectHolds, WithIntent
  <2>2. CASE reg[p].out.status # "present"
    <3>1. AfterObservation(reg[p]) \in {"execute", "block", "finish"}
      BY <2>2 DEF AfterObservation
    <3> QED
      BY <1>3, <3>1 DEF EffectHolds, WithIntent
  <2> QED
    BY <2>1, <2>2
<1>5. KnowledgeHolds'
  BY <1>1, <1>2, <1>4, GotoKnowledge DEF IInv
<1> QED
  BY <1>1, <1>5, QuietEffects DEF IInv

LEMMA AppendSecond ==
    ASSUME NEW S, NEW a \in S, NEW b \in S
    PROVE  Append(<<a>>, b) = <<a, b>>
<1>1. <<a>> \in Seq(S) /\ Len(<<a>>) = 1 /\ <<a, b>> \in Seq(S)
  OBVIOUS
<1>2. Append(<<a>>, b) \in Seq(S) /\ Len(Append(<<a>>, b)) = 2
  BY <1>1
<1>3. \A i \in 1..2 : Append(<<a>>, b)[i] = <<a, b>>[i]
  BY <1>1
<1> QED
  BY <1>1, <1>2, <1>3, SeqEqual

(* _execute_intent runs an effect only if it has not run, and then in its  *)
(* place.                                                                  *)
LEMMA ExecuteIntentShape ==
    ASSUME IInv, NEW p \in Procs, ExecuteIntent(p)
    PROVE  /\ TicketShape'
           /\ operations' \in [Operations -> Nat]
           /\ \A op \in Operations : operations[op] > 0 => operations'[op] = operations[op]
           /\ \A op \in Operations : operations'[op] > 0 =>
                 operations[op] > 0 \/ op = reg[p].op
           /\ reg[p].op \in Operations
           /\ \E status, version :
                 /\ Goto(p, "observe", [reg[p] EXCEPT !.phase = "execute",
                              !.out = [status |-> status, version |-> version]])
                 /\ status = "present" =>
                       operations'[reg[p].op] > 0 /\ operations'[reg[p].op] = version
<1> DEFINE op == reg[p].op
           executed(status, version) ==
              Goto(p, "observe", [reg[p] EXCEPT !.phase = "execute",
                              !.out = [status |-> status, version |-> version]])
<1>1. op \in Operations /\ operations \in [Operations -> Nat] /\ TicketShape
      /\ operations[op] \in Nat
  BY KnowledgeInHand DEF IInv, EffectInv, TypeInv, StoreTypes, Registers
<1>2. FIND_OR_CREATE # WORKFLOW_HANDOFF /\ Operations = {FIND_OR_CREATE, WORKFLOW_HANDOFF}
  BY DEF Operations, FIND_OR_CREATE, WORKFLOW_HANDOFF
<1> DEFINE Outcome ==
              \E status, version :
                 /\ executed(status, version)
                 /\ status = "present" => operations'[op] > 0 /\ operations'[op] = version
           Goal == /\ TicketShape' /\ operations' \in [Operations -> Nat]
                   /\ \A o \in Operations : operations[o] > 0 => operations'[o] = operations[o]
                   /\ \A o \in Operations : operations'[o] > 0 => operations[o] > 0 \/ o = op
                   /\ op \in Operations /\ Outcome
<1> SUFFICES Goal
  OBVIOUS
<1> HIDE DEF executed
<1>3. CASE /\ UNCHANGED <<ticket, operations>>
           /\ \/ operations[op] > 0 /\ executed("present", operations[op])
              \/ executed("conflict", 0)
  <2>1. TicketShape'
    BY <1>1, <1>3 DEF TicketShape
  <2> QED
    BY <1>1, <1>3, <2>1
<1>4. CASE /\ operations[op] = 0 /\ op = FIND_OR_CREATE
           /\ ticket' = IF ticket = <<>> THEN <<op>> ELSE ticket
           /\ operations' = [operations EXCEPT ![op] = Len(ticket')]
           /\ executed("present", Len(ticket'))
  <2>1. ticket = <<>> /\ operations[WORKFLOW_HANDOFF] = 0
    BY <1>4 DEF TicketShape, EffectInv, IInv
  <2>2. ticket' = <<FIND_OR_CREATE>> /\ Len(ticket') = 1
    BY <1>4, <2>1
  <2>3. operations' = [operations EXCEPT ![op] = 1] /\ operations'[op] = 1
        /\ operations'[WORKFLOW_HANDOFF] = 0
    BY <1>1, <1>2, <1>4, <2>1, <2>2
  <2>4. TicketShape'
    BY <1>4, <2>2, <2>3 DEF TicketShape
  <2> QED
    BY <1>1, <1>4, <2>2, <2>3, <2>4
<1>5. CASE /\ operations[op] = 0 /\ op = WORKFLOW_HANDOFF /\ ticket # <<>>
           /\ ticket' = Append(ticket, op)
           /\ operations' = [operations EXCEPT ![op] = Len(ticket')]
           /\ executed("present", Len(ticket'))
  <2>1. ticket = <<FIND_OR_CREATE>> /\ operations[FIND_OR_CREATE] = 1
    BY <1>5 DEF TicketShape, EffectInv, IInv
  <2>2. ticket' = <<FIND_OR_CREATE, WORKFLOW_HANDOFF>> /\ Len(ticket') = 2
    BY <1>2, <1>5, <2>1, AppendSecond
  <2>3. operations' = [operations EXCEPT ![op] = 2] /\ operations'[op] = 2
        /\ operations'[FIND_OR_CREATE] = 1
    BY <1>1, <1>2, <1>5, <2>1, <2>2
  <2>4. TicketShape'
    BY <1>5, <2>2, <2>3 DEF TicketShape
  <2> QED
    BY <1>1, <1>5, <2>2, <2>3, <2>4
<1> QED
  BY <1>3, <1>4, <1>5 DEF ExecuteIntent, executed

LEMMA ExecuteIntentEffects ==
    ASSUME IInv, NEW p \in Procs, ExecuteIntent(p) PROVE EffectInv'
<1>1. UNCHANGED <<journal, intents, completions>> /\ pc[p] = "execute"
  BY DEF ExecuteIntent, storeVars
<1>2. Completed' = Completed /\ intents' = intents
  BY <1>1 DEF Completed
<1>3. Grows
  BY <1>2, ExecuteIntentShape DEF Grows
<1>4. /\ EffectHolds("execute", reg[p], intents, operations, Completed)
      /\ reg[p] \in Registers /\ reg[p].op \in intents /\ Truthful(reg[p].want, Completed)
      /\ KnowledgeHolds
  BY <1>1, KnowledgeInHand DEF IInv, EffectInv, EffectHolds, WithIntent
<1>5. PICK status, version :
         /\ Goto(p, "observe", [reg[p] EXCEPT !.phase = "execute",
                      !.out = [status |-> status, version |-> version]])
         /\ status = "present" =>
               operations'[reg[p].op] > 0 /\ operations'[reg[p].op] = version
  BY ExecuteIntentShape
<1> DEFINE out == [status |-> status, version |-> version]
           r == [reg[p] EXCEPT !.phase = "execute", !.out = out]
<1>6. out.status = status /\ out.version = version
  OBVIOUS
<1> HIDE DEF out
<1>7. r.op = reg[p].op /\ r.out = out /\ r.want = reg[p].want
  BY <1>4 DEF Registers
<1>8. Goto(p, "observe", r)
  BY <1>5 DEF out
<1> HIDE DEF r
<1>9. EffectHolds("observe", r, intents', operations', Completed')
  BY <1>2, <1>4, <1>5, <1>6, <1>7 DEF EffectHolds, WithIntent
<1>10. KnowledgeHolds'
  BY <1>3, <1>4, <1>8, <1>9, GotoKnowledge DEF IInv
<1>11. EffectOrder'
  <2>1. \A op \in Operations : operations'[op] > 0 => op \in intents'
    BY <1>2, <1>4, ExecuteIntentShape DEF IInv, EffectInv, EffectOrder
  <2>2. \A op \in Completed' : operations'[op] > 0 /\ operations'[op] = completions'[op].version
    BY <1>1, <1>2, ExecuteIntentShape, CompletedTypes DEF IInv, EffectInv, EffectOrder
  <2> QED
    BY <1>2, <2>1, <2>2 DEF IInv, EffectInv, EffectOrder
<1>12. (\A i \in 1..Len(journal) : Truthful(journal[i], Completed))'
  BY <1>1, <1>2 DEF IInv, EffectInv
<1> QED
  BY <1>10, <1>11, <1>12, ExecuteIntentShape DEF EffectInv

LEMMA RecordCompletionEffects ==
    ASSUME IInv, NEW p \in Procs, RecordCompletion(p)
    PROVE  /\ EffectInv'
           /\ Completed' = Completed \/ Completed' = Completed \cup {reg[p].op}
           /\ operations[reg[p].op] > 0 /\ reg[p].op \in Operations
<1> DEFINE op == reg[p].op
           row == [phase |-> reg[p].phase, version |-> reg[p].out.version]
           r == [reg[p] EXCEPT !.out = NoOutcome, !.phase = "reconcile"]
<1>1. UNCHANGED <<journal, intents, ticket, operations>> /\ pc[p] = "complete"
  BY DEF RecordCompletion, storeVars
<1>2. /\ EffectHolds("complete", reg[p], intents, operations, Completed)
      /\ reg[p] \in Registers /\ op \in Operations
      /\ Truthful(reg[p].want, Completed) /\ KnowledgeHolds
  BY <1>1, KnowledgeInHand DEF IInv, EffectInv, Registers
<1>3. op \in intents /\ operations[op] > 0 /\ operations[op] = reg[p].out.version
  BY <1>2 DEF EffectHolds, WithIntent
<1>4. CASE UNCHANGED completions /\ Stop(p, "workflow_completion_conflict")
  <2>1. UNCHANGED coreVars
    BY <1>1, <1>4 DEF coreVars
  <2>2. EffectInv'
    BY <1>1, <1>4, <2>1, HaltEffects
  <2> QED
    BY <1>2, <1>3, <2>1, <2>2, QuietGrows
<1>5. CASE /\ completions' = [completions EXCEPT ![op] = row]
           /\ Goto(p, IF reg[p].driving THEN "driven" ELSE "reconciled", r)
  <2>1. row.version = reg[p].out.version /\ row.phase = reg[p].phase /\ reg[p].phase # "none"
    BY <1>2 DEF Registers, Phases
  <2> HIDE DEF row
  <2>2. completions \in [Operations -> [phase : Phases \cup {"none"}, version : Nat]]
    BY DEF IInv, TypeInv, StoreTypes
  <2>3. /\ completions'[op] = row
        /\ \A o \in Operations : o # op => completions'[o] = completions[o]
    BY <1>2, <1>5, <2>2
  <2>4. Completed' = Completed \cup {op}
    BY <1>2, <2>1, <2>3 DEF Completed
  <2>5. Grows /\ Completed' \subseteq Operations
    BY <1>1, <2>4 DEF Grows, Completed
  <2>6. EffectOrder'
    <3>1. \A o \in Completed' :
             operations'[o] > 0 /\ operations'[o] = completions'[o].version
      BY <1>1, <1>3, <2>1, <2>3, <2>4, CompletedTypes DEF IInv, EffectInv, EffectOrder
    <3> QED
      BY <1>1, <2>4, <3>1 DEF IInv, EffectInv, EffectOrder
  <2>7. \A c : Truthful(c, Completed) => Truthful(c, Completed')
    BY <2>5 DEF Truthful, Grows
  <2>8. (\A i \in 1..Len(journal) : Truthful(journal[i], Completed))'
    BY <1>1, <2>7 DEF IInv, EffectInv
  <2>9. TicketShape'
    BY <1>1 DEF IInv, EffectInv, TicketShape
  <2>10. r.op = op /\ r.want = reg[p].want
    BY <1>2 DEF Registers
  <2> HIDE DEF r
  <2>11. /\ EffectHolds("driven", r, intents', operations', Completed')
         /\ EffectHolds("reconciled", r, intents', operations', Completed')
    BY <1>1, <1>2, <1>3, <2>4, <2>7, <2>10 DEF EffectHolds, WithIntent
  <2>12. KnowledgeHolds'
    BY <1>2, <1>5, <2>5, <2>11, GotoKnowledge DEF IInv
  <2> QED
    BY <1>2, <1>3, <2>4, <2>6, <2>8, <2>9, <2>12 DEF EffectInv
<1> QED
  BY <1>4, <1>5 DEF RecordCompletion

LEMMA BlockEffectEffects ==
    ASSUME IInv, NEW p \in Procs, BlockEffect(p) PROVE EffectInv'
<1>1. UNCHANGED coreVars /\ UNCHANGED journal
  BY DEF BlockEffect, storeVars, effectVars, coreVars
<1>2. Truthful(reg[p].want, Completed) /\ reg[p] \in Registers
  BY KnowledgeInHand DEF IInv
<1>3. "finish" \in Continuations
  BY DEF Continuations
<1>4. KnowledgeHolds'
  BY <1>1, <1>2, <1>3, EnterReconciliationKnowledge DEF IInv, BlockEffect
<1> QED
  BY <1>1, <1>4, QuietEffects DEF IInv

LEMMA NextEffectEffects ==
    ASSUME IInv, NEW p \in Procs, NextEffect(p) PROVE EffectInv'
<1> DEFINE c == journal[reg[p].at]
<1>1. UNCHANGED coreVars /\ UNCHANGED journal /\ pc[p] = "next"
  BY DEF NextEffect, storeVars, effectVars, coreVars
<1>2. Grows /\ Completed' = Completed /\ KnowledgeHolds
      /\ intents' = intents /\ operations' = operations
  BY <1>1, QuietGrows DEF IInv, EffectInv, coreVars
<1>3. /\ reg[p].op \in Completed /\ reg[p].op \in intents /\ reg[p] \in Registers
      /\ Truthful(reg[p].want, Completed) /\ Truthful(c, Completed)
  BY <1>1, KnowledgeInHand DEF IInv, EffectHolds, WithIntent, Handless
<1>4. CASE /\ reg[p].op = FIND_OR_CREATE
           /\ Goto(p, "intent", [reg[p] EXCEPT !.op = WORKFLOW_HANDOFF])
  <2> DEFINE r == [reg[p] EXCEPT !.op = WORKFLOW_HANDOFF]
  <2>1. r.want = reg[p].want
    BY <1>3 DEF Registers
  <2> HIDE DEF r
  <2>2. EffectHolds("intent", r, intents, operations, Completed)
    BY <1>3, <1>4, <2>1 DEF EffectHolds, WithIntent
  <2>3. KnowledgeHolds'
    BY <1>2, <1>4, <2>2, GotoKnowledge DEF IInv, r
  <2> QED
    BY <1>1, <2>3, QuietEffects DEF IInv
<1>5. CASE /\ reg[p].op = WORKFLOW_HANDOFF
           /\ Transition(p, reg[p], TICKET_HANDOFF_COMPLETE, TICKET_READY, TICKET_READY,
                         Cause("handoff"), c.pending, c.completed, "finish")
  <2>1. Completed = Operations
    <3>1. FIND_OR_CREATE \in Completed
      BY <1>3, <1>5 DEF IInv, EffectInv, EffectOrder
    <3> QED
      BY <1>3, <1>5, <3>1, CompletedTypes DEF Operations
  <2>2. c.completed \subseteq Completed
    BY <1>3 DEF Truthful
  <2> HIDE DEF c
  <2>3. KnowledgeHolds'
    BY <1>1, <1>3, <1>5, <2>1, <2>2, TransitionKnowledge DEF IInv
  <2> QED
    BY <1>1, <2>3, QuietEffects DEF IInv
<1> QED
  BY <1>4, <1>5 DEF NextEffect

LEMMA FinishReconciliationEffects ==
    ASSUME IInv, NEW p \in Procs, FinishReconciliation(p) PROVE EffectInv'
<1> DEFINE resume == journal[reg[p].at].resume
<1>1. UNCHANGED coreVars /\ UNCHANGED journal
  BY DEF FinishReconciliation, storeVars, effectVars, coreVars
<1>2. Truthful(reg[p].want, Completed) /\ Truthful(NoRegisters.want, Completed)
      /\ reg[p] \in Registers
  BY KnowledgeInHand, IdleKnowledge DEF IInv
<1>3. CASE Goto(p, "finish", NoRegisters)
  <2>1. "finish" \notin WithIntent \cup {"intent", "append"}
    BY DEF WithIntent
  <2> QED
    BY <1>1, <1>2, <1>3, <2>1, MoveEffects
<1>4. CASE Transition(p, reg[p], RECONCILIATION_COMPLETE, resume, resume,
                      Cause("reconciliation"), {}, Completed, "dispatch")
  <2>1. RECONCILIATION_COMPLETE # TICKET_HANDOFF_COMPLETE
    BY DEF RECONCILIATION_COMPLETE, TICKET_HANDOFF_COMPLETE
  <2> HIDE DEF resume
  <2>2. KnowledgeHolds'
    BY <1>1, <1>2, <1>4, <2>1, TransitionKnowledge DEF IInv
  <2> QED
    BY <1>1, <2>2, QuietEffects DEF IInv
<1> QED
  BY <1>3, <1>4 DEF FinishReconciliation

LEMMA EffectInvInit == Init => EffectInv
<1> SUFFICES ASSUME Init PROVE EffectInv
  OBVIOUS
<1>1. Completed = {}
  BY DEF Init, Completed, NoCompletion
<1>2. TicketShape
  BY DEF Init, TicketShape, Operations
<1>3. EffectOrder
  BY <1>1 DEF Init, EffectOrder
<1>4. KnowledgeHolds
  BY IdleKnowledge DEF Init, KnowledgeHolds
<1>5. \A i \in 1..Len(journal) : Truthful(journal[i], Completed)
  BY DEF Init
<1> QED
  BY <1>2, <1>3, <1>4, <1>5 DEF EffectInv

(* Relative to the types, EffectInv is inductive.                          *)
LEMMA EffectInvNext == IInv /\ [Next]_vars => EffectInv'
<1> SUFFICES ASSUME IInv, [Next]_vars PROVE EffectInv'
  OBVIOUS
<1>1. CASE UNCHANGED vars
  BY <1>1 DEF vars, storeVars, effectVars, IInv, EffectInv, TicketShape, EffectOrder,
              KnowledgeHolds, Completed
<1>2. CASE DeadlinePasses
  <2>1. UNCHANGED <<coreVars, journal, pc, reg>>
    BY <1>2 DEF DeadlinePasses, storeVars, effectVars, coreVars
  <2>2. KnowledgeHolds'
    BY <2>1 DEF IInv, EffectInv, KnowledgeHolds, coreVars, Completed
  <2> QED
    BY <2>1, <2>2, QuietEffects DEF IInv
<1>3. ASSUME NEW p \in Procs, StartSweep(p) \/ StartSubmit(p) \/ Crash(p)
      PROVE  EffectInv'
  BY <1>3, StartEffects
<1>4. ASSUME NEW p \in Procs, EffectStep(p) PROVE EffectInv'
  BY <1>4, EnsureIntentEffects, MarkEffects, ProcessIntentEffects,
     RecordObservationEffects, ExecuteIntentEffects, RecordCompletionEffects,
     BlockEffectEffects, NextEffectEffects, FinishReconciliationEffects DEF EffectStep
<1>5. ASSUME NEW p \in Procs, JournalStep(p) \/ CommandStep(p) \/ SweepStep(p)
      PROVE  EffectInv'
  BY <1>5, JournalStepEffects, CommandStepEffects, SweepStepEffects
<1> QED
  BY <1>1, <1>2, <1>3, <1>4, <1>5 DEF Next, Step

LEMMA IInvAlways == Spec => []IInv
<1>1. Init => IInv
  BY TypeInvInit, EffectInvInit DEF IInv
<1>2. IInv /\ [Next]_vars => IInv'
  BY TypeInvNext, EffectInvNext DEF IInv
<1> QED
  BY <1>1, <1>2, PTL DEF Spec

-----------------------------------------------------------------------------
(* The theorems.                                                           *)

(* However many workers and operators race, crash and retry, the fixture   *)
(* ticket gets at most one find-or-create and one handoff revision, in     *)
(* this order, each with its own operation row.                            *)
THEOREM TicketEffectsOnce == Spec => []TicketExactlyOnce
<1>1. IInv => TicketExactlyOnce
  <2> SUFFICES ASSUME IInv PROVE TicketExactlyOnce
    OBVIOUS
  <2>1. FIND_OR_CREATE # WORKFLOW_HANDOFF
    BY DEF FIND_OR_CREATE, WORKFLOW_HANDOFF
  <2>2. \A op \in Operations : \A v \in 1..Len(ticket) : ticket[v] = op <=> operations[op] = v
    <3>1. CASE ticket = <<>>
      BY <3>1
    <3>2. CASE /\ ticket = <<FIND_OR_CREATE>> /\ operations[FIND_OR_CREATE] = 1
               /\ operations[WORKFLOW_HANDOFF] = 0
      BY <2>1, <3>2 DEF Operations
    <3>3. CASE /\ ticket = <<FIND_OR_CREATE, WORKFLOW_HANDOFF>>
               /\ operations[FIND_OR_CREATE] = 1 /\ operations[WORKFLOW_HANDOFF] = 2
      BY <2>1, <3>3 DEF Operations
    <3> QED
      BY <3>1, <3>2, <3>3 DEF IInv, EffectInv, TicketShape
  <2> QED
    BY <2>2 DEF IInv, EffectInv, TicketShape, TicketExactlyOnce
<1> QED
  BY <1>1, IInvAlways, PTL

(* A completion row is true: its operation ran under a persisted intent    *)
(* and produced the version the row names, find-or-create first.           *)
THEOREM CompletionsTrue == Spec => []CompletionTruthful
<1>1. IInv => CompletionTruthful
  BY CompletedTypes DEF IInv, EffectInv, EffectOrder, CompletionTruthful
<1> QED
  BY <1>1, IInvAlways, PTL

(* No checkpoint of any process claims an effect complete that is not, and *)
(* TICKET_READY is entered only with both effects complete.                *)
THEOREM CheckpointsTrue == Spec => []CheckpointsTruthful
<1>1. IInv => CheckpointsTruthful
  BY DEF IInv, EffectInv, Truthful, CheckpointsTruthful
<1> QED
  BY <1>1, IInvAlways, PTL

(* The steps that are not EnsureIntent, ExecuteIntent or RecordCompletion  *)
(* leave the abstract effects alone.                                       *)
LEMMA QuietSteps ==
    ASSUME NEW p \in Procs,
           \/ StartSweep(p) \/ StartSubmit(p) \/ Crash(p) \/ DeadlinePasses
           \/ JournalStep(p) \/ CommandStep(p) \/ SweepStep(p)
           \/ MarkIntent(p) \/ ProcessIntent(p) \/ RecordObservation(p) \/ BlockEffect(p)
           \/ MarkCompletion(p) \/ NextEffect(p) \/ FinishReconciliation(p)
    PROVE  UNCHANGED coreVars
<1>1. CASE StartSweep(p) \/ StartSubmit(p) \/ Crash(p) \/ DeadlinePasses
  BY <1>1 DEF StartSweep, StartSubmit, Crash, DeadlinePasses, effectVars, coreVars
<1>2. CASE JournalStep(p)
  BY <1>2 DEF JournalStep, AppendCheckpoint, AppendRow, SyncCaseState, ReadCaseState,
         AppendWorkflowStateEvent, AppendStateEvent,
              effectVars, coreVars
<1>3. CASE CommandStep(p)
  BY <1>3 DEF CommandStep, RecoverPendingCommand, CommandApplied, PrimeSubmit,
              PersistCommand, ApplyCommand, effectVars, coreVars
<1>4. CASE SweepStep(p)
  BY <1>4 DEF SweepStep, ActivateCase, RecoverWorkflow, ReadPendingCommands, Dispatch,
              RecordSlaExpiry, ExpireSla, FinishSweep, effectVars, coreVars
<1>5. CASE \/ MarkIntent(p) \/ ProcessIntent(p) \/ RecordObservation(p) \/ BlockEffect(p)
           \/ MarkCompletion(p) \/ NextEffect(p) \/ FinishReconciliation(p)
  BY <1>5 DEF MarkIntent, ProcessIntent, RecordObservation, BlockEffect,
              MarkCompletion, NextEffect, FinishReconciliation, effectVars, coreVars
<1> QED
  BY <1>1, <1>2, <1>3, <1>4, <1>5

LEMMA EffectStepRefines ==
    ASSUME IInv, [Next]_vars PROVE [Effect!Next]_(Effect!effects)
<1>1. CASE UNCHANGED coreVars
  BY <1>1 DEF coreVars, Effect!effects, Executed, Completed
<1>2. ASSUME NEW p \in Procs, EnsureIntent(p)
      PROVE  [Effect!Next]_(Effect!effects)
  <2> DEFINE op == reg[p].op
  <2>1. /\ intents' = intents \cup {op} /\ UNCHANGED <<operations, completions>>
        /\ pc[p] = "intent"
    BY <1>2 DEF EnsureIntent
  <2>2. Executed' = Executed /\ Completed' = Completed
    BY <2>1 DEF Executed, Completed
  <2>3. op \in Operations /\ (op = WORKFLOW_HANDOFF => FIND_OR_CREATE \in Completed)
    BY <2>1, KnowledgeInHand DEF IInv, EffectHolds, Registers
  <2>4. EffectsBefore(op) \subseteq Completed
    BY <2>3 DEF EffectsBefore
  <2> HIDE DEF op
  <2>5. CASE op \in intents
    BY <2>1, <2>2, <2>5 DEF Effect!effects
  <2>6. CASE op \notin intents
    BY <2>1, <2>2, <2>3, <2>4, <2>6 DEF Effect!Next, Effect!Intend
  <2> QED
    BY <2>5, <2>6
<1>3. ASSUME NEW p \in Procs, ExecuteIntent(p)
      PROVE  [Effect!Next]_(Effect!effects)
  <2> DEFINE op == reg[p].op
  <2>1. UNCHANGED <<intents, completions>> /\ pc[p] = "execute"
    BY <1>3 DEF ExecuteIntent
  <2>2. Completed' = Completed
    BY <2>1 DEF Completed
  <2>3. op \in Operations /\ op \in intents
    BY <2>1, KnowledgeInHand DEF IInv, EffectHolds, WithIntent, Registers
  <2>4. Executed \subseteq Executed' /\ Executed' \subseteq Executed \cup {op}
    BY <1>3, ExecuteIntentShape DEF Executed
  <2> HIDE DEF op
  <2>5. CASE Executed' = Executed
    BY <2>1, <2>2, <2>5 DEF Effect!effects
  <2>6. CASE op \notin Executed /\ Executed' = Executed \cup {op}
    BY <2>1, <2>2, <2>3, <2>6 DEF Effect!Next, Effect!Execute
  <2> QED
    BY <2>4, <2>5, <2>6
<1>4. ASSUME NEW p \in Procs, RecordCompletion(p)
      PROVE  [Effect!Next]_(Effect!effects)
  <2> DEFINE op == reg[p].op
  <2>1. UNCHANGED <<intents, operations>>
    BY <1>4 DEF RecordCompletion
  <2>2. Executed' = Executed
    BY <2>1 DEF Executed
  <2>3. /\ op \in Operations /\ op \in Executed
        /\ Completed' = Completed \/ Completed' = Completed \cup {op}
    BY <1>4, RecordCompletionEffects DEF Executed
  <2> HIDE DEF op
  <2>4. CASE Completed' = Completed
    BY <2>1, <2>2, <2>4 DEF Effect!effects
  <2>5. CASE op \notin Completed /\ Completed' = Completed \cup {op}
    BY <2>1, <2>2, <2>3, <2>5 DEF Effect!Next, Effect!Complete
  <2> QED
    BY <2>3, <2>4, <2>5
<1>5. UNCHANGED vars => UNCHANGED coreVars
  BY DEF vars, effectVars, coreVars
<1>6. DeadlinePasses => UNCHANGED coreVars
  BY DEF DeadlinePasses, effectVars, coreVars
<1> QED
  BY <1>1, <1>2, <1>3, <1>4, <1>5, <1>6, QuietSteps DEF Next, Step, EffectStep

(* The workflow implements EffectOnce: under crashes, retries, timeouts    *)
(* and any number of racing processes, every ticket effect is intended,    *)
(* executed once and only then known complete, and the handoff is not      *)
(* intended before find-or-create is known complete.                       *)
THEOREM EffectsRefineEffectOnce == Spec => ImplementsEffectOnce
<1>1. Init => Effect!Init
  <2>1. Init => Completed = {} /\ Executed = {}
    BY DEF Init, Completed, Executed, NoCompletion
  <2> QED
    BY <2>1 DEF Init, Effect!Init
<1>2. IInv /\ [Next]_vars => [Effect!Next]_(Effect!effects)
  BY EffectStepRefines
<1> QED
  BY <1>1, <1>2, IInvAlways, PTL DEF Spec, ImplementsEffectOnce, Effect!Spec

-----------------------------------------------------------------------------
(* Calls that follow one another.  When no process starts while another is *)
(* at work, what a process has read of the store stays so until it writes. *)
(* Books says what holds of the tables after every transaction, InCall     *)
(* what the one process at work holds at its label.                        *)

OneAtATime == \A p, q \in Procs : pc[p] # "idle" /\ pc[q] # "idle" => p = q

(* The row of a command stands right after the version the command names.  *)
CommandAt(c, at) ==
    c.cause.by = "command" =>
        c.cause.id \in 1..Len(commands) /\ at = commands[c.cause.id].version + 2

(* A row whose effects are on record.                                      *)
Sound(c) ==
    /\ c.pending \cap c.completed = {}
    /\ c.pending \cup c.completed \subseteq intents /\ c.completed \subseteq Completed

Rows ==
    /\ journal # <<>> => journal[1] = FirstCheckpoint
    /\ \A i \in 2..Len(journal) : ValidSuccessor(journal[i-1], journal[i])
    /\ \A i \in 1..Len(journal) : Sound(journal[i]) /\ CommandAt(journal[i], i)
    /\ \A i \in 1..Len(commands) : commands[i].id = i

(* Each Case event is for a later checkpoint than the one before it; a     *)
(* checkpoint without a transition is written for a Case that is in step.  *)
EventsInOrder ==
    /\ \A i \in 1..Len(events) : events[i].at \in 1..Len(journal)
    /\ \A i, j \in 1..Len(events) : i < j => events[i].at < events[j].at
    /\ journal # <<>> /\ Latest.kind = "none" => CaseState = Latest.state

Books == Rows /\ EventsInOrder /\ EffectChainValid /\ CancelledIsResolved

(* A row that may follow the latest checkpoint.                            *)
Fits(c) ==
    IF journal = <<>> THEN c = FirstCheckpoint
    ELSE /\ ValidSuccessor(Latest, c) /\ Sound(c) /\ CommandAt(c, Len(journal) + 1)
         /\ c.kind = "none" => c.state = RECEIVED /\ CaseState = RECEIVED
         /\ c.kind \in {RESUME, RECONCILIATION_COMPLETE} => c.state = Latest.resume
         /\ c.state = CANCELLED => Unresolved = {}

Fresh == {"sync", "event", "dispatch", "sla", "expire", "intent", "mark", "process",
          "observe", "execute", "complete", "block", "driven", "next", "reconciled",
          "prime", "persist"}
Moving == {"append", "sync", "event"}
Effecting == {"process", "observe", "execute", "complete"}
Synced == {"pending", "commands", "dispatch", "finish", "sla", "expire", "intent", "mark",
           "block", "driven", "next", "reconciled"} \cup Effecting

Drives(label, r) ==
    \/ label \in {"intent", "mark", "block", "driven", "next"}
    \/ label \in Effecting /\ r.driving

InCall(p, label, r) ==
    /\ label = "append" =>
          /\ r.base = Len(journal) /\ Fits(r.want)
          /\ r.ret \in {"process", "next"} => journal # <<>> /\ r.want.kind = "none"
    /\ label \in Fresh => r.at = Len(journal)
    /\ label \in Synced \/ (label = "applied" /\ p \in Workers) => CaseState = Latest.state
    /\ Drives(label, r) => Latest.state = RECEIVED
    /\ label \in {"dispatch", "reconciled"} => ~r.driving
    /\ label \in Moving /\ r.cont = "dispatch" => ~r.driving
    /\ label \in {"sla", "expire"} => Latest.state # WAITING_FOR_OPERATOR
    /\ label = "complete" =>
          /\ r.out.status = "present"
          /\ [op |-> r.op, phase |-> r.phase, status |-> r.out.status,
              version |-> r.out.version] \in observations
    /\ (IF label = "append" THEN r.ret ELSE label) \in {"prime", "persist"} =>
          p \in Operators /\ r.cmd.id \in 1..(Len(commands) + 1)
    /\ label = "apply" =>
          p \in Operators /\ r.cmd.id \in 1..Len(commands) /\ commands[r.cmd.id] = r.cmd

CallInv == OneAtATime /\ Books /\ \A p \in Procs : InCall(p, pc[p], reg[p])

callVars == <<journal, events, intents, completions, observations, commands>>

-----------------------------------------------------------------------------
(* One process at a time.                                                  *)

(* Process p moves, and nobody else is at work before or after.            *)
AtWork(p) == pc[p] # "idle" \/ MayStart(p)

LEMMA OneAtATimeKept ==
    ASSUME Serialized, TypeInv, OneAtATime, NEW p \in Procs, AtWork(p),
           NEW label, pc' = [pc EXCEPT ![p] = label]
    PROVE  OneAtATime' /\ \A q \in Procs : q # p => pc'[q] = "idle"
<1>1. \A q \in Procs : q # p => pc[q] = "idle"
  BY DEF AtWork, MayStart, OneAtATime
<1>2. \A q \in Procs : q # p => pc'[q] = pc[q]
  BY DEF TypeInv, Control
<1> QED
  BY <1>1, <1>2 DEF OneAtATime

(* An idle process holds nothing.                                          *)
LEMMA IdleCall ==
    ASSUME NEW q, NEW r PROVE InCall(q, "idle", r) /\ InCall(q, "idle", r)'
BY DEF InCall, Fresh, Moving, Effecting, Synced, Drives

LEMMA StepCalls ==
    ASSUME Serialized, TypeInv, CallInv, Books', NEW p \in Procs, AtWork(p),
           NEW label, pc' = [pc EXCEPT ![p] = label], InCall(p, pc[p], reg[p])'
    PROVE  CallInv'
<1>1. OneAtATime' /\ \A q \in Procs : q # p => pc'[q] = "idle"
  BY OneAtATimeKept DEF CallInv
<1>2. ASSUME NEW q \in Procs PROVE InCall(q, pc[q], reg[q])'
  <2>1. CASE q = p
    BY <2>1
  <2>2. CASE q # p
    <3>1. pc'[q] = "idle"
      BY <1>1, <2>2
    <3> QED
      BY <3>1 DEF InCall, Fresh, Moving, Effecting, Synced, Drives
  <2> QED
    BY <2>1, <2>2
<1> QED
  BY <1>1, <1>2 DEF CallInv

LEMMA BooksKept ==
    ASSUME Books, UNCHANGED callVars
    PROVE  Books' /\ UNCHANGED <<Latest, CaseState, Completed, Unresolved>>
<1>1. UNCHANGED <<Latest, CaseState, Completed, Unresolved>>
  BY DEF callVars, Latest, CaseState, Completed, Unresolved
<1> QED
  BY <1>1 DEF Books, Rows, EventsInOrder, EffectChainValid, CancelledIsResolved, callVars,
              Sound, CommandAt, Completed

LEMMA QuietCalls ==
    ASSUME Serialized, TypeInv, CallInv, UNCHANGED callVars, NEW p \in Procs, AtWork(p),
           NEW label, NEW r, InCall(p, label, r), Goto(p, label, r)
    PROVE  CallInv'
<1>1. Books' /\ UNCHANGED <<Latest, CaseState, Completed, Unresolved>>
  BY BooksKept DEF CallInv
<1>2. pc' = [pc EXCEPT ![p] = label] /\ pc'[p] = label /\ reg'[p] = r
  BY DEF Goto, TypeInv, Control
<1>3. InCall(p, label, r)'
  BY <1>1 DEF InCall, Fits, Sound, CommandAt, callVars
<1>4. InCall(p, pc[p], reg[p])'
  BY <1>2, <1>3 DEF InCall
<1> QED
  BY <1>1, <1>2, <1>4, StepCalls

LEMMA StopCalls ==
    ASSUME Serialized, TypeInv, CallInv, UNCHANGED callVars, NEW p \in Procs, AtWork(p),
           NEW outcome, Stop(p, outcome)
    PROVE  CallInv'
<1>1. Books'
  BY BooksKept DEF CallInv
<1>2. pc' = [pc EXCEPT ![p] = "idle"] /\ pc'[p] = "idle"
  BY DEF Stop, TypeInv, Control
<1>3. InCall(p, pc[p], reg[p])'
  BY <1>2 DEF InCall, Fresh, Moving, Effecting, Synced, Drives
<1> QED
  BY <1>1, <1>2, <1>3, StepCalls

-----------------------------------------------------------------------------
(* What a row may be.                                                      *)

(* The kinds the table knows lead away from where they start, but for a    *)
(* deadline and a block, which the code asks for elsewhere.                *)
LEMMA AllowedMoves ==
    ASSUME NEW s, NEW kind \in WORKFLOW_TRANSITION_KINDS, NEW next, NEW resume, NEW unresolved,
           TransitionAllowed(s, kind, next, resume, unresolved),
           kind = SLA_EXPIRED => s # WAITING_FOR_OPERATOR,
           kind = RECONCILIATION_REQUIRED => s # NEEDS_RECONCILIATION
    PROVE  next # s
<1>1. s \in AllowedSources(kind, resume, unresolved) /\ next = TargetOf(kind, resume)
  BY DEF TransitionAllowed, AllowedTargets
<1> QED
  BY <1>1
  DEF AllowedSources, TargetOf, WORKFLOW_TRANSITION_KINDS, WORKFLOW_STATES, TERMINAL_STATES,
      PAUSABLE_STATES, RECEIVED, TICKET_READY, INVESTIGATING, RESPONSE_READY,
      AWAITING_APPROVAL, DELIVERING, DELIVERY_RECORDED, PAUSED, WAITING_FOR_OPERATOR,
      NEEDS_RECONCILIATION, CANCELLED, TICKET_HANDOFF_COMPLETE, INVESTIGATION_STARTED,
      RESPONSE_CANDIDATE_VERIFIED, POLICY_APPROVAL_ACTIVATED, APPROVAL_GRANTED,
      AUTHORIZATION_DENIED, DELIVERY_COMPLETE, PAUSE, RESUME, CANCEL, SLA_EXPIRED,
      RECONCILIATION_REQUIRED, RECONCILIATION_COMPLETE

LEMMA AppendCall ==
    ASSUME NEW p, NEW r, r.base = Len(journal), Fits(r.want),
           r.ret \in {"process", "next"} => journal # <<>> /\ r.want.kind = "none",
           r.ret = "prime" => p \in Operators /\ r.cmd.id \in 1..(Len(commands) + 1),
           r.ret # "persist", r.cont = "dispatch" => ~r.driving
    PROVE  InCall(p, "append", r)
<1>1. "append" \notin Fresh \cup Synced /\ ~Drives("append", r)
  BY DEF Fresh, Effecting, Synced, Drives
<1> QED
  BY <1>1 DEF InCall

LEMMA EnsureCheckpointCalls ==
    ASSUME Serialized, TypeInv, CallInv, UNCHANGED callVars, NEW p \in Procs, AtWork(p),
           NEW r \in Registers, NEW want \in Checkpoints, Fits(want),
           NEW ret \in Returns, NEW cont \in Continuations,
           ret \in {"process", "next"} => journal # <<>> /\ want.kind = "none",
           ret = "prime" => p \in Operators /\ r.cmd.id \in 1..(Len(commands) + 1),
           cont = "dispatch" => ~r.driving,
           EnsureCheckpoint(p, r, want, ret, cont)
    PROVE  CallInv'
<1>1. Len(journal) \in Nat /\ ret \in Labels /\ cont \in Labels
  BY DEF TypeInv, StoreTypes, Returns, Continuations, Labels
<1>2. CASE Stop(p, "workflow_checkpoint_effect_overlap")
           \/ Stop(p, "workflow_checkpoint_predecessor_invalid")
  BY <1>2, StopCalls
<1>3. CASE /\ Len(journal) > 0 /\ journal[Len(journal)] = want
           /\ Goto(p, ret, [r EXCEPT !.at = Len(journal), !.cont = cont])
  <2> DEFINE s == [r EXCEPT !.at = Len(journal), !.cont = cont]
  <2>1. s.at = Len(journal) /\ s.cont = cont /\ s.cmd = r.cmd /\ s.driving = r.driving
    BY DEF Registers
  <2>2. journal # <<>> /\ Latest = want
    BY <1>1, <1>3 DEF Latest
  <2>3. ret \in {"process", "next"} => CaseState = Latest.state /\ Latest.state = RECEIVED
    BY <2>2 DEF Fits
  <2> HIDE DEF s
  <2>4. InCall(p, ret, s)
    BY <2>1, <2>3 DEF InCall, Returns, Fresh, Moving, Effecting, Synced, Drives
  <2> QED
    BY <1>3, <2>4, QuietCalls DEF s
<1>4. CASE Goto(p, "append", [r EXCEPT !.base = Len(journal), !.want = want,
                                       !.ret = ret, !.cont = cont])
  <2> DEFINE s == [r EXCEPT !.base = Len(journal), !.want = want, !.ret = ret, !.cont = cont]
  <2>1. /\ s.base = Len(journal) /\ s.want = want /\ s.ret = ret /\ s.cont = cont
        /\ s.cmd = r.cmd /\ s.driving = r.driving /\ s.ret # "persist"
    BY DEF Registers, Returns
  <2> HIDE DEF s
  <2>2. InCall(p, "append", s)
    BY <2>1, AppendCall
  <2> QED
    BY <1>4, <2>2, QuietCalls DEF s
<1> QED
  BY <1>2, <1>3, <1>4 DEF EnsureCheckpoint

LEMMA TransitionCalls ==
    ASSUME Serialized, TypeInv, CallInv, UNCHANGED callVars, NEW p \in Procs, AtWork(p),
           journal # <<>>, NEW r \in Registers, r.at = Len(journal),
           NEW kind \in WORKFLOW_TRANSITION_KINDS, NEW next, NEW resume \in WORKFLOW_STATES,
           NEW cause \in Causes, NEW pending \in SUBSET Operations,
           NEW completed \in SUBSET Operations, NEW cont \in Continuations,
           Transition(p, r, kind, next, resume, cause, pending, completed, cont),
           kind = SLA_EXPIRED => Latest.state # WAITING_FOR_OPERATOR,
           kind = RECONCILIATION_REQUIRED => Latest.state # NEEDS_RECONCILIATION,
           kind \in {RESUME, RECONCILIATION_COMPLETE} => next = Latest.resume,
           next = CANCELLED => Unresolved = {},
           Latest.completed \subseteq completed, pending \cap completed = {},
           pending \cup completed \subseteq intents, completed \subseteq Completed,
           cause.by = "command" =>
               cause.id \in 1..Len(commands) /\ Len(journal) - 1 = commands[cause.id].version,
           cont = "dispatch" => ~r.driving
    PROVE  CallInv'
<1> DEFINE want == [state |-> next, resume |-> resume, pending |-> pending,
                    completed |-> completed, cause |-> cause, kind |-> kind]
<1>1. CASE Stop(p, "workflow_transition_not_allowed")
  BY <1>1, StopCalls
<1>2. CASE /\ TransitionAllowed(Latest.state, kind, next, resume, Latest.pending # {})
           /\ EnsureCheckpoint(p, r, want, "sync", cont)
  <2>1. next # Latest.state /\ next \in WORKFLOW_STATES /\ kind # "none"
    BY <1>2, AllowedMoves, AllowedStates DEF WORKFLOW_TRANSITION_KINDS,
       TICKET_HANDOFF_COMPLETE, INVESTIGATION_STARTED,
       RESPONSE_CANDIDATE_VERIFIED, POLICY_APPROVAL_ACTIVATED, APPROVAL_GRANTED,
       AUTHORIZATION_DENIED, DELIVERY_COMPLETE, PAUSE, RESUME, CANCEL, SLA_EXPIRED,
       RECONCILIATION_REQUIRED, RECONCILIATION_COMPLETE
  <2>2. want \in Checkpoints
    BY <2>1 DEF Checkpoints, Kinds
  <2>3. CommandAt(want, Len(journal) + 1)
    <3>1. Len(journal) \in Nat /\ commands \in Seq(Commands)
      BY DEF TypeInv, StoreTypes
    <3>2. \A i \in 1..Len(commands) : commands[i] \in Commands
      BY <3>1
    <3>3. \A i \in 1..Len(commands) : commands[i].version \in Nat
      BY <3>2 DEF Commands
    <3> QED
      BY <3>1, <3>3 DEF CommandAt
  <2>4. Fits(want)
    BY <1>2, <2>1, <2>3 DEF Fits, ValidSuccessor, Sound
  <2>5. "sync" \in Returns
    BY DEF Returns
  <2> HIDE DEF want
  <2> QED
    BY <1>2, <2>2, <2>4, <2>5, EnsureCheckpointCalls
<1> QED
  BY <1>1, <1>2 DEF Transition, Latest

(* What the store says of the effects.                                     *)
LEMMA OnRecord ==
    ASSUME IInv, CallInv
    PROVE  /\ Completed \subseteq intents /\ intents \subseteq Operations
           /\ Completed \subseteq Operations /\ Unresolved \subseteq Operations
           /\ Unresolved \cap Completed = {}
           /\ Len(journal) \in Nat
           /\ journal # <<>> => /\ Len(journal) > 0 /\ Latest \in Checkpoints /\ Sound(Latest)
<1>1. Completed \subseteq intents
  BY DEF IInv, EffectInv, EffectOrder, Completed
<1>2. intents \subseteq Operations /\ Completed \subseteq Operations
  BY DEF IInv, TypeInv, StoreTypes, Completed
<1>3. Len(journal) \in Nat /\ journal \in Seq(Checkpoints)
  BY DEF IInv, TypeInv, StoreTypes
<1>4. ASSUME journal # <<>>
      PROVE  Len(journal) > 0 /\ Latest \in Checkpoints /\ Sound(Latest)
  <2> HIDE DEF Checkpoints
  <2>1. Len(journal) > 0 /\ Len(journal) \in 1..Len(journal)
    BY <1>3, <1>4
  <2> QED
    BY <1>3, <2>1 DEF Latest, CallInv, Books, Rows
<1> QED
  BY <1>1, <1>2, <1>3, <1>4 DEF Unresolved

LEMMA EnterReconciliationCalls ==
    ASSUME Serialized, IInv, CallInv, UNCHANGED callVars, NEW p \in Procs, AtWork(p),
           journal # <<>>, NEW r \in Registers, r.at = Len(journal),
           NEW cause \in Causes, NEW cont \in {"applied", "finish"},
           p \in Workers \/ cont = "finish" => CaseState = Latest.state,
           cause.by = "command" =>
               cause.id \in 1..Len(commands) /\ Len(journal) - 1 = commands[cause.id].version,
           EnterReconciliation(p, r, cause, cont)
    PROVE  CallInv'
<1>1. CASE Goto(p, cont, r)
  <2>1. InCall(p, cont, r)
    BY DEF InCall, Fresh, Moving, Effecting, Synced, Drives
  <2> QED
    BY <1>1, <2>1, QuietCalls DEF IInv
<1>2. CASE /\ Latest.state # NEEDS_RECONCILIATION
           /\ Transition(p, r, RECONCILIATION_REQUIRED, NEEDS_RECONCILIATION,
                         Latest.state, cause, Unresolved, Completed, cont)
  <2>1. /\ RECONCILIATION_REQUIRED \in WORKFLOW_TRANSITION_KINDS
        /\ RECONCILIATION_REQUIRED # SLA_EXPIRED
        /\ RECONCILIATION_REQUIRED \notin {RESUME, RECONCILIATION_COMPLETE}
        /\ NEEDS_RECONCILIATION # CANCELLED
        /\ cont \in Continuations /\ cont # "dispatch"
    BY DEF WORKFLOW_TRANSITION_KINDS, RECONCILIATION_REQUIRED, SLA_EXPIRED, RESUME,
           RECONCILIATION_COMPLETE, NEEDS_RECONCILIATION, CANCELLED, Continuations
  <2>2. /\ Latest.state \in WORKFLOW_STATES /\ Latest.completed \subseteq Completed
        /\ Unresolved \in SUBSET Operations /\ Completed \in SUBSET Operations
        /\ Unresolved \cap Completed = {} /\ Unresolved \cup Completed \subseteq intents
    BY OnRecord DEF Checkpoints, Sound, Unresolved
  <2> QED
    BY <1>2, <2>1, <2>2, TransitionCalls DEF IInv
<1> QED
  BY <1>1, <1>2 DEF EnterReconciliation, Latest

(* _apply_persisted_command for a command that has no row yet.             *)
LEMMA ApplyPersistedCommandCalls ==
    ASSUME Serialized, IInv, CallInv, UNCHANGED callVars, NEW p \in Procs, AtWork(p),
           journal # <<>>, reg[p] \in Registers,
           p \in Workers => CaseState = Latest.state,
           NEW c \in Commands, c.id \in 1..Len(commands), commands[c.id] = c,
           ApplyPersistedCommand(p, c)
    PROVE  CallInv'
<1> DEFINE r == [reg[p] EXCEPT !.at = Len(journal)]
           apply(kind, next, resume) ==
              Transition(p, r, kind, next, resume, CommandCause(c.id),
                         Latest.pending, Latest.completed, "applied")
<1>1. Len(journal) \in Nat /\ Len(commands) \in Nat
  BY DEF IInv, TypeInv, StoreTypes
<1>2. r \in Registers /\ r.at = Len(journal)
  BY <1>1 DEF Registers
<1> HIDE DEF r
<1>3. CASE Stop(p, "workflow_command_recovery_conflict")
  BY <1>3, StopCalls DEF IInv
<1> SUFFICES ASSUME Len(journal) - 1 = c.version PROVE CallInv'
  BY <1>3 DEF ApplyPersistedCommand
<1>4. /\ CommandCause(c.id) \in Causes /\ "applied" \in Continuations
      /\ CommandCause(c.id).id = c.id
  BY DEF CommandCause, Causes, Commands, Continuations
<1>5. /\ Latest.state \in WORKFLOW_STATES /\ Latest.resume \in WORKFLOW_STATES
      /\ CANCELLED \in WORKFLOW_STATES
      /\ Latest.pending \in SUBSET Operations /\ Latest.completed \in SUBSET Operations
      /\ Latest.pending \cap Latest.completed = {}
      /\ Latest.pending \cup Latest.completed \subseteq intents
      /\ Latest.completed \subseteq Completed
  BY OnRecord DEF Checkpoints, Sound, WORKFLOW_STATES
<1>6. /\ {PAUSE, RESUME, CANCEL} \subseteq WORKFLOW_TRANSITION_KINDS \ {SLA_EXPIRED,
             RECONCILIATION_REQUIRED, RECONCILIATION_COMPLETE}
      /\ PAUSE # RESUME /\ PAUSE # CANCEL /\ RESUME # CANCEL
      /\ PAUSED # CANCELLED
  BY DEF WORKFLOW_TRANSITION_KINDS, PAUSE, RESUME, CANCEL, SLA_EXPIRED,
         RECONCILIATION_REQUIRED, RECONCILIATION_COMPLETE, PAUSED, CANCELLED
<1>7. ASSUME NEW kind \in {PAUSE, RESUME, CANCEL}, NEW next, NEW resume \in WORKFLOW_STATES,
             kind = RESUME => next = Latest.resume,
             next = CANCELLED => Unresolved = {},
             apply(kind, next, resume)
      PROVE  CallInv'
  BY <1>2, <1>4, <1>5, <1>6, <1>7, TransitionCalls DEF IInv
<1>8. CASE c.type = PAUSE
  <2>1. apply(PAUSE, PAUSED, Latest.state)
    BY <1>6, <1>8 DEF ApplyPersistedCommand, r
  <2> QED
    BY <1>5, <1>6, <1>7, <2>1
<1>9. CASE c.type = RESUME
  <2>1. apply(RESUME, Latest.resume, Latest.resume)
    BY <1>6, <1>9 DEF ApplyPersistedCommand, ResumeTarget, r
  <2>2. Latest.resume # CANCELLED \/ Stop(p, "workflow_transition_not_allowed")
    <3>1. CASE TransitionAllowed(Latest.state, RESUME, Latest.resume, Latest.resume,
                                 Latest.pending # {})
      BY <3>1, <1>6 DEF TransitionAllowed, AllowedTargets, AllowedSources, RESUME,
         TICKET_HANDOFF_COMPLETE, INVESTIGATION_STARTED, RESPONSE_CANDIDATE_VERIFIED,
         POLICY_APPROVAL_ACTIVATED, APPROVAL_GRANTED, AUTHORIZATION_DENIED,
         DELIVERY_COMPLETE, PAUSE
    <3>2. CASE ~TransitionAllowed(Latest.state, RESUME, Latest.resume, Latest.resume,
                                  Latest.pending # {})
      BY <1>2, <2>1, <3>2 DEF Transition, Latest
    <3> QED
      BY <3>1, <3>2
  <2> QED
    BY <1>5, <1>6, <1>7, <2>1, <2>2, StopCalls DEF IInv
<1>10. CASE c.type = CANCEL
  <2>1. CASE EnterReconciliation(p, r, CommandCause(c.id), "applied")
    <3>1. "applied" \in {"applied", "finish"} /\ "applied" # "finish"
      OBVIOUS
    <3> QED
      BY <1>2, <1>4, <2>1, <3>1, EnterReconciliationCalls
  <2>2. CASE Goto(p, "applied", r)
    <3>1. InCall(p, "applied", r)
      BY DEF InCall, Fresh, Moving, Effecting, Synced, Drives
    <3> QED
      BY <2>2, <3>1, QuietCalls DEF IInv
  <2>3. CASE Unresolved = {} /\ apply(CANCEL, CANCELLED, CANCELLED)
    BY <1>5, <1>6, <1>7, <2>3
  <2> QED
    BY <1>6, <1>10, <2>1, <2>2, <2>3 DEF ApplyPersistedCommand, r
<1> QED
  BY <1>8, <1>9, <1>10 DEF Commands

-----------------------------------------------------------------------------
(* The steps that leave the tables of callVars alone.                      *)

(* What the process that moves has in hand.                                *)
LEMMA CallInHand ==
    ASSUME IInv, CallInv, NEW p \in Procs
    PROVE  /\ InCall(p, pc[p], reg[p]) /\ reg[p] \in Registers /\ TypeInv
           /\ pc[p] # "idle" => AtWork(p)
           /\ pc[p] \notin Handless => journal # <<>> /\ Len(journal) >= 1
           /\ pc[p] \in Fresh => Latest = journal[reg[p].at] /\ reg[p].at = Len(journal)
<1>1. TypeInv /\ InCall(p, pc[p], reg[p])
  BY DEF IInv, CallInv
<1>2. reg[p] \in Registers /\ (pc[p] \notin Handless => Len(journal) >= 1)
  BY <1>1, InHand
<1>3. Len(journal) >= 1 => journal # <<>>
  OBVIOUS
<1>4. pc[p] \in Fresh => Latest = journal[reg[p].at] /\ reg[p].at = Len(journal)
  BY <1>1 DEF InCall, Latest
<1> QED
  BY <1>1, <1>2, <1>3, <1>4 DEF AtWork

(* At these labels a process only has to be in step.                       *)
LEMMA PlainCall ==
    ASSUME NEW p, NEW r,
           NEW label \in {"idle", "activate", "rebuild", "pending", "commands", "applied", "finish"},
           label \in {"idle", "activate", "rebuild"} \/ CaseState = Latest.state
    PROVE  InCall(p, label, r)
BY DEF InCall, Fresh, Moving, Effecting, Synced, Drives

LEMMA StartSweepCalls ==
    ASSUME Serialized, IInv, CallInv, NEW p \in Procs, StartSweep(p) PROVE CallInv'
<1>1. UNCHANGED callVars /\ AtWork(p) /\ TypeInv /\ Books
  BY DEF StartSweep, callVars, storeVars, effectVars, AtWork, IInv, CallInv
<1>2. PICK label \in {"activate", "rebuild"} : pc' = [pc EXCEPT ![p] = label]
  BY DEF StartSweep
<1>3. pc'[p] = label
  BY <1>1, <1>2 DEF TypeInv, Control
<1>4. InCall(p, pc[p], reg[p])'
  BY <1>3 DEF InCall, Fresh, Moving, Effecting, Synced, Drives
<1> QED
  BY <1>1, <1>2, <1>4, BooksKept, StepCalls

LEMMA ActivateCaseCalls ==
    ASSUME Serialized, IInv, CallInv, NEW p \in Procs, ActivateCase(p) PROVE CallInv'
<1>1. UNCHANGED callVars /\ pc[p] # "idle" /\ Goto(p, "rebuild", reg[p])
  BY DEF ActivateCase, callVars, effectVars
<1> QED
  BY <1>1, CallInHand, PlainCall, QuietCalls

LEMMA RecoverWorkflowCalls ==
    ASSUME Serialized, IInv, CallInv, NEW p \in Procs, RecoverWorkflow(p) PROVE CallInv'
<1>1. UNCHANGED callVars /\ AtWork(p) /\ TypeInv /\ reg[p] \in Registers
  BY CallInHand DEF RecoverWorkflow, callVars, storeVars, effectVars
<1>2. CASE Stop(p, "workflow_journal_invalid")
  BY <1>1, <1>2, StopCalls
<1>3. CASE journal = <<>> /\ EnsureCheckpoint(p, reg[p], FirstCheckpoint, "sync", "pending")
  <2>1. Fits(FirstCheckpoint) /\ FirstCheckpoint \in Checkpoints
    BY <1>3, ConstantTypes DEF Fits
  <2>2. "sync" \in Returns /\ "pending" \in Continuations
    BY DEF Returns, Continuations
  <2> QED
    BY <1>1, <1>3, <2>1, <2>2, EnsureCheckpointCalls
<1>4. CASE Goto(p, "sync", [reg[p] EXCEPT !.at = Len(journal), !.cont = "pending"])
  <2> DEFINE r == [reg[p] EXCEPT !.at = Len(journal), !.cont = "pending"]
  <2>1. r.at = Len(journal) /\ r.cont = "pending"
    BY <1>1 DEF Registers
  <2> HIDE DEF r
  <2>2. InCall(p, "sync", r)
    BY <2>1 DEF InCall, Fresh, Moving, Effecting, Synced, Drives
  <2> QED
    BY <1>1, <1>4, <2>2, QuietCalls DEF r
<1> QED
  BY <1>2, <1>3, <1>4 DEF RecoverWorkflow

LEMMA SyncCaseStateCalls ==
    ASSUME Serialized, IInv, CallInv, NEW p \in Procs, SyncCaseState(p) PROVE CallInv'
<1>1. /\ UNCHANGED callVars /\ AtWork(p) /\ TypeInv /\ reg[p] \in Registers
      /\ journal # <<>> /\ reg[p].at = Len(journal) /\ journal[reg[p].at] = Latest
      /\ reg[p].cont = "dispatch" => ~reg[p].driving
  BY CallInHand DEF SyncCaseState, ReadCaseState, callVars, storeVars, effectVars, Handless,
     Fresh, Moving, InCall
<1>2. reg[p].cont \in Continuations
  BY InHand, <1>1 DEF Free, Holds
<1>3. CASE /\ Latest.kind = "none" \/ CaseState = Latest.state
           /\ Goto(p, reg[p].cont, [reg[p] EXCEPT !.cont = "idle"])
  <2> DEFINE r == [reg[p] EXCEPT !.cont = "idle"]
  <2>1. r.at = Len(journal) /\ r.driving = reg[p].driving
    BY <1>1 DEF Registers
  <2>2. CaseState = Latest.state
    BY <1>1, <1>3 DEF CallInv, Books, EventsInOrder
  <2> HIDE DEF r
  <2>3. InCall(p, reg[p].cont, r)
    BY <1>1, <1>2, <2>1, <2>2
    DEF InCall, Fresh, Moving, Effecting, Synced, Drives, Continuations
  <2> QED
    BY <1>1, <1>3, <2>3, QuietCalls DEF r
<1>4. CASE \E from : Goto(p, "event", [reg[p] EXCEPT !.from = from])
  <2>1. PICK from : Goto(p, "event", [reg[p] EXCEPT !.from = from])
    BY <1>4
  <2> DEFINE r == [reg[p] EXCEPT !.from = from]
  <2>2. r.at = Len(journal) /\ r.driving = reg[p].driving /\ r.cont = reg[p].cont
    BY <1>1 DEF Registers
  <2> HIDE DEF r
  <2>3. InCall(p, "event", r)
    BY <1>1, <2>2 DEF InCall, Fresh, Moving, Effecting, Synced, Drives
  <2> QED
    BY <1>1, <2>1, <2>3, QuietCalls DEF r
<1>5. CASE Stop(p, "workflow_transition_not_allowed")
  BY <1>1, <1>5, StopCalls
<1> QED
  BY <1>1, <1>3, <1>4, <1>5 DEF SyncCaseState, ReadCaseState

LEMMA ReadPendingCommandsCalls ==
    ASSUME Serialized, IInv, CallInv, NEW p \in Procs, ReadPendingCommands(p) PROVE CallInv'
<1>1. /\ UNCHANGED callVars /\ AtWork(p) /\ TypeInv
      /\ CaseState = Latest.state
  BY CallInHand DEF ReadPendingCommands, callVars, storeVars, effectVars, InCall, Synced
<1>2. CASE Stop(p, "workflow_journal_invalid")
  BY <1>1, <1>2, StopCalls
<1>3. CASE Goto(p, "commands", [reg[p] EXCEPT !.row = 1, !.rows = Len(commands)])
  BY <1>1, <1>3, PlainCall, QuietCalls
<1> QED
  BY <1>2, <1>3 DEF ReadPendingCommands

LEMMA RecoverPendingCommandCalls ==
    ASSUME Serialized, IInv, CallInv, NEW p \in Procs, RecoverPendingCommand(p) PROVE CallInv'
<1>1. /\ UNCHANGED callVars /\ AtWork(p) /\ TypeInv /\ reg[p] \in Registers
      /\ CaseState = Latest.state /\ journal # <<>>
  BY CallInHand DEF RecoverPendingCommand, callVars, storeVars, effectVars, InCall, Synced,
     Handless
<1>2. CASE Goto(p, "dispatch", [NoRegisters EXCEPT !.at = Len(journal)])
  <2> DEFINE r == [NoRegisters EXCEPT !.at = Len(journal)]
  <2>1. r.at = Len(journal) /\ ~r.driving
    BY DEF NoRegisters
  <2> HIDE DEF r
  <2>2. InCall(p, "dispatch", r)
    BY <1>1, <2>1 DEF InCall, Fresh, Moving, Effecting, Synced, Drives
  <2> QED
    BY <1>1, <1>2, <2>2, QuietCalls DEF r
<1>3. CASE Goto(p, "commands", [reg[p] EXCEPT !.row = @ + 1])
  BY <1>1, <1>3, PlainCall, QuietCalls
<1>4. CASE /\ ~(reg[p].row > reg[p].rows)
           /\ ApplyPersistedCommand(p, commands[reg[p].row])
  <2>1. reg[p].row >= 1 /\ reg[p].rows <= Len(commands)
    BY <1>1 DEF RecoverPendingCommand, TypeInv, Control, Holds
  <2>2. Len(commands) \in Nat /\ commands \in Seq(Commands) /\ reg[p].row \in Nat
        /\ reg[p].rows \in Nat
    BY <1>1 DEF TypeInv, StoreTypes, Registers
  <2>3. reg[p].row \in 1..Len(commands)
    BY <1>4, <2>1, <2>2
  <2>4. commands[reg[p].row] \in Commands
    BY <2>2, <2>3
  <2>5. commands[reg[p].row].id = reg[p].row
    BY <2>3 DEF CallInv, Books, Rows
  <2> QED
    BY <1>1, <1>4, <2>3, <2>4, <2>5, ApplyPersistedCommandCalls
<1> QED
  BY <1>2, <1>3, <1>4 DEF RecoverPendingCommand

LEMMA CommandAppliedCalls ==
    ASSUME Serialized, IInv, CallInv, NEW p \in Procs, CommandApplied(p) PROVE CallInv'
<1>1. /\ UNCHANGED callVars /\ AtWork(p) /\ TypeInv
      /\ p \in Workers => CaseState = Latest.state
  BY CallInHand DEF CommandApplied, callVars, storeVars, effectVars, InCall
<1>2. CASE Stop(p, "workflow_journal_invalid") \/ Stop(p, "ok")
  BY <1>1, <1>2, StopCalls
<1>3. CASE p \notin Operators /\ Goto(p, "commands", [reg[p] EXCEPT !.row = @ + 1])
  BY <1>1, <1>3, PlainCall, QuietCalls DEF Procs
<1> QED
  BY <1>2, <1>3 DEF CommandApplied

LEMMA DispatchCalls ==
    ASSUME Serialized, IInv, CallInv, NEW p \in Procs, Dispatch(p) PROVE CallInv'
<1> DEFINE c == journal[reg[p].at]
<1>1. /\ UNCHANGED callVars /\ AtWork(p) /\ TypeInv /\ reg[p] \in Registers
      /\ CaseState = Latest.state /\ c = Latest /\ reg[p].at = Len(journal)
      /\ ~reg[p].driving
  BY CallInHand DEF Dispatch, callVars, storeVars, effectVars, InCall, Synced, Fresh
<1>2. CASE SlaDue(c) /\ Goto(p, "sla", reg[p])
  <2>1. Latest.state # WAITING_FOR_OPERATOR
    BY <1>1, <1>2 DEF SlaDue
  <2>2. InCall(p, "sla", reg[p])
    BY <1>1, <2>1 DEF InCall, Fresh, Moving, Effecting, Synced, Drives
  <2> QED
    BY <1>1, <1>2, <2>2, QuietCalls
<1>3. CASE \E op \in Unresolved : Goto(p, "process", [reg[p] EXCEPT !.op = op])
  <2>1. PICK op \in Unresolved : Goto(p, "process", [reg[p] EXCEPT !.op = op])
    BY <1>3
  <2> DEFINE r == [reg[p] EXCEPT !.op = op]
  <2>2. r.at = Len(journal) /\ ~r.driving
    BY <1>1 DEF Registers
  <2> HIDE DEF r
  <2>3. InCall(p, "process", r)
    BY <1>1, <2>2 DEF InCall, Fresh, Moving, Effecting, Synced, Drives
  <2> QED
    BY <1>1, <2>1, <2>3, QuietCalls DEF r
<1>4. CASE Goto(p, "reconciled", reg[p])
  <2>1. InCall(p, "reconciled", reg[p])
    BY <1>1 DEF InCall, Fresh, Moving, Effecting, Synced, Drives
  <2> QED
    BY <1>1, <1>4, <2>1, QuietCalls
<1>5. CASE /\ Runnable(c.state)
           /\ Goto(p, "intent", [reg[p] EXCEPT !.op = FIND_OR_CREATE, !.driving = TRUE])
  <2> DEFINE r == [reg[p] EXCEPT !.op = FIND_OR_CREATE, !.driving = TRUE]
  <2>1. r.at = Len(journal) /\ Latest.state = RECEIVED
    BY <1>1, <1>5 DEF Registers, Runnable
  <2> HIDE DEF r
  <2>2. InCall(p, "intent", r)
    BY <1>1, <2>1 DEF InCall, Fresh, Moving, Effecting, Synced, Drives
  <2> QED
    BY <1>1, <1>5, <2>2, QuietCalls DEF r
<1>6. CASE Goto(p, "finish", NoRegisters)
  BY <1>1, <1>6, PlainCall, QuietCalls
<1> QED
  BY <1>2, <1>3, <1>4, <1>5, <1>6 DEF Dispatch

LEMMA FinishSweepCalls ==
    ASSUME Serialized, IInv, CallInv, NEW p \in Procs, FinishSweep(p) PROVE CallInv'
<1>1. UNCHANGED callVars /\ AtWork(p) /\ TypeInv
  BY CallInHand DEF FinishSweep, callVars, storeVars, effectVars
<1> QED
  BY <1>1, StopCalls DEF FinishSweep

LEMMA RecordSlaExpiryCalls ==
    ASSUME Serialized, IInv, CallInv, NEW p \in Procs, RecordSlaExpiry(p) PROVE CallInv'
<1>1. /\ UNCHANGED callVars /\ AtWork(p) /\ TypeInv
      /\ CaseState = Latest.state /\ reg[p].at = Len(journal)
      /\ Latest.state # WAITING_FOR_OPERATOR
  BY CallInHand DEF RecordSlaExpiry, callVars, effectVars, InCall, Synced, Fresh
<1>2. CASE Goto(p, "expire", reg[p])
  <2>1. InCall(p, "expire", reg[p])
    BY <1>1 DEF InCall, Fresh, Moving, Effecting, Synced, Drives
  <2> QED
    BY <1>1, <1>2, <2>1, QuietCalls
<1>3. CASE Stop(p, "workflow_sla_conflict")
  BY <1>1, <1>3, StopCalls
<1> QED
  BY <1>2, <1>3 DEF RecordSlaExpiry

(* A transition that keeps the effects of the latest checkpoint.           *)
LEMMA KeepingCalls ==
    ASSUME Serialized, IInv, CallInv, UNCHANGED callVars, NEW p \in Procs, AtWork(p),
           journal # <<>>, NEW r \in Registers, r.at = Len(journal),
           NEW kind \in {SLA_EXPIRED, TICKET_HANDOFF_COMPLETE}, NEW next \in WORKFLOW_STATES \ {CANCELLED},
           NEW cause \in Causes, cause.by # "command",
           kind = SLA_EXPIRED => Latest.state # WAITING_FOR_OPERATOR,
           Transition(p, r, kind, next, next, cause, Latest.pending, Latest.completed, "finish")
    PROVE  CallInv'
<1>1. /\ Latest.pending \in SUBSET Operations /\ Latest.completed \in SUBSET Operations
      /\ Latest.pending \cap Latest.completed = {}
      /\ Latest.pending \cup Latest.completed \subseteq intents
      /\ Latest.completed \subseteq Completed
  BY OnRecord DEF Checkpoints, Sound
<1>2. /\ kind \in WORKFLOW_TRANSITION_KINDS /\ kind # RECONCILIATION_REQUIRED
      /\ kind \notin {RESUME, RECONCILIATION_COMPLETE}
      /\ "finish" \in Continuations /\ "finish" # "dispatch"
  BY DEF WORKFLOW_TRANSITION_KINDS, SLA_EXPIRED, TICKET_HANDOFF_COMPLETE,
         RECONCILIATION_REQUIRED, RESUME, RECONCILIATION_COMPLETE, Continuations
<1> QED
  BY <1>1, <1>2, TransitionCalls DEF IInv

LEMMA ExpireSlaCalls ==
    ASSUME Serialized, IInv, CallInv, NEW p \in Procs, ExpireSla(p) PROVE CallInv'
<1>1. /\ UNCHANGED callVars /\ AtWork(p) /\ TypeInv /\ reg[p] \in Registers
      /\ journal # <<>> /\ reg[p].at = Len(journal) /\ journal[reg[p].at] = Latest
      /\ Latest.state # WAITING_FOR_OPERATOR
  BY CallInHand DEF ExpireSla, callVars, storeVars, effectVars, InCall, Fresh, Handless
<1>2. /\ Cause("sla") \in Causes /\ Cause("sla").by # "command"
      /\ WAITING_FOR_OPERATOR \in WORKFLOW_STATES \ {CANCELLED}
  BY DEF Cause, Causes, WORKFLOW_STATES, WAITING_FOR_OPERATOR, CANCELLED
<1>3. Transition(p, reg[p], SLA_EXPIRED, WAITING_FOR_OPERATOR, WAITING_FOR_OPERATOR,
                 Cause("sla"), Latest.pending, Latest.completed, "finish")
  BY <1>1 DEF ExpireSla
<1> QED
  BY <1>1, <1>2, <1>3, KeepingCalls

(* The checkpoint of _drive_effect follows the latest one.                 *)
LEMMA ProgressFits ==
    ASSUME IInv, CallInv, journal # <<>>, Latest.state = RECEIVED, CaseState = Latest.state,
           NEW cause \in Causes, cause.by # "command"
    PROVE  /\ ProgressCheckpoint(RECEIVED, cause) \in Checkpoints
           /\ Fits(ProgressCheckpoint(RECEIVED, cause))
           /\ ProgressCheckpoint(RECEIVED, cause).kind = "none"
<1> DEFINE c == ProgressCheckpoint(RECEIVED, cause)
<1>1. /\ c.state = RECEIVED /\ c.resume = RECEIVED /\ c.kind = "none" /\ c.cause = cause
      /\ c.pending = Unresolved /\ c.completed = Completed
  BY DEF ProgressCheckpoint
<1>2. c \in Checkpoints
  BY OnRecord DEF ProgressCheckpoint, Checkpoints, Kinds, WORKFLOW_STATES
<1>3. "none" \notin {RESUME, RECONCILIATION_COMPLETE} /\ RECEIVED # CANCELLED
  BY DEF RESUME, RECONCILIATION_COMPLETE, RECEIVED, CANCELLED
<1> HIDE DEF c
<1>4. Sound(c) /\ ValidSuccessor(Latest, c)
  BY <1>1, OnRecord DEF Sound, ValidSuccessor, Unresolved
<1>5. CommandAt(c, Len(journal) + 1)
  BY <1>1 DEF CommandAt
<1>6. Fits(c)
  BY <1>1, <1>3, <1>4, <1>5 DEF Fits
<1> QED
  BY <1>1, <1>2, <1>6 DEF c

LEMMA MarkIntentCalls ==
    ASSUME Serialized, IInv, CallInv, NEW p \in Procs, MarkIntent(p) PROVE CallInv'
<1>1. /\ UNCHANGED callVars /\ AtWork(p) /\ TypeInv /\ reg[p] \in Registers
      /\ journal # <<>> /\ journal[reg[p].at] = Latest
      /\ CaseState = Latest.state /\ Latest.state = RECEIVED
  BY CallInHand DEF MarkIntent, callVars, storeVars, effectVars, InCall, Fresh, Synced, Drives,
     Handless
<1>2. EffectCause("intent", reg[p].op) \in Causes /\ EffectCause("intent", reg[p].op).by # "command"
  BY <1>1 DEF EffectCause, Causes, Registers
<1>3. "process" \in Returns /\ "idle" \in Continuations /\ "process" # "prime"
  BY DEF Returns, Continuations
<1>4. EnsureCheckpoint(p, reg[p], ProgressCheckpoint(RECEIVED, EffectCause("intent", reg[p].op)),
                       "process", "idle")
  BY <1>1 DEF MarkIntent
<1> QED
  BY <1>1, <1>2, <1>3, <1>4, ProgressFits, EnsureCheckpointCalls

LEMMA MarkCompletionCalls ==
    ASSUME Serialized, IInv, CallInv, NEW p \in Procs, MarkCompletion(p) PROVE CallInv'
<1>1. /\ UNCHANGED callVars /\ AtWork(p) /\ TypeInv /\ reg[p] \in Registers
      /\ journal # <<>> /\ journal[reg[p].at] = Latest
      /\ CaseState = Latest.state /\ Latest.state = RECEIVED
  BY CallInHand DEF MarkCompletion, callVars, storeVars, effectVars, InCall, Fresh, Synced, Drives,
     Handless
<1>2. /\ EffectCause("completion", reg[p].op) \in Causes
      /\ EffectCause("completion", reg[p].op).by # "command"
  BY <1>1 DEF EffectCause, Causes, Registers
<1>3. "next" \in Returns /\ "idle" \in Continuations /\ "next" # "prime"
  BY DEF Returns, Continuations
<1>4. EnsureCheckpoint(p, reg[p],
                       ProgressCheckpoint(RECEIVED, EffectCause("completion", reg[p].op)),
                       "next", "idle")
  BY <1>1 DEF MarkCompletion
<1> QED
  BY <1>1, <1>2, <1>3, <1>4, ProgressFits, EnsureCheckpointCalls

LEMMA ProcessIntentCalls ==
    ASSUME Serialized, IInv, CallInv, NEW p \in Procs, ProcessIntent(p) PROVE CallInv'
<1>1. /\ UNCHANGED callVars /\ AtWork(p) /\ TypeInv /\ reg[p] \in Registers
      /\ CaseState = Latest.state /\ reg[p].at = Len(journal)
      /\ reg[p].driving => Latest.state = RECEIVED
  BY CallInHand DEF ProcessIntent, callVars, storeVars, effectVars, InCall, Fresh, Synced,
     Effecting, Drives
<1>2. CASE Goto(p, IF reg[p].driving THEN "driven" ELSE "reconciled", reg[p])
  <2>1. InCall(p, IF reg[p].driving THEN "driven" ELSE "reconciled", reg[p])
    BY <1>1 DEF InCall, Fresh, Moving, Effecting, Synced, Drives
  <2> QED
    BY <1>1, <1>2, <2>1, QuietCalls
<1>3. CASE \E out, phase :
              Goto(p, "observe", [reg[p] EXCEPT !.out = out, !.phase = phase])
  <2>1. PICK out, phase : Goto(p, "observe", [reg[p] EXCEPT !.out = out, !.phase = phase])
    BY <1>3
  <2> DEFINE r == [reg[p] EXCEPT !.out = out, !.phase = phase]
  <2>2. r.at = Len(journal) /\ r.driving = reg[p].driving
    BY <1>1 DEF Registers
  <2> HIDE DEF r
  <2>3. InCall(p, "observe", r)
    BY <1>1, <2>2 DEF InCall, Fresh, Moving, Effecting, Synced, Drives
  <2> QED
    BY <1>1, <2>1, <2>3, QuietCalls DEF r
<1> QED
  BY <1>2, <1>3 DEF ProcessIntent

LEMMA ExecuteIntentCalls ==
    ASSUME Serialized, IInv, CallInv, NEW p \in Procs, ExecuteIntent(p) PROVE CallInv'
<1>1. /\ UNCHANGED callVars /\ AtWork(p) /\ TypeInv /\ reg[p] \in Registers
      /\ CaseState = Latest.state /\ reg[p].at = Len(journal)
      /\ reg[p].driving => Latest.state = RECEIVED
  BY CallInHand DEF ExecuteIntent, callVars, storeVars, InCall, Fresh, Synced,
     Effecting, Drives
<1>2. PICK out, phase : Goto(p, "observe", [reg[p] EXCEPT !.phase = phase, !.out = out])
  BY DEF ExecuteIntent
<1> DEFINE r == [reg[p] EXCEPT !.phase = phase, !.out = out]
<1>3. r.at = Len(journal) /\ r.driving = reg[p].driving
  BY <1>1 DEF Registers
<1> HIDE DEF r
<1>4. InCall(p, "observe", r)
  BY <1>1, <1>3 DEF InCall, Fresh, Moving, Effecting, Synced, Drives
<1> QED
  BY <1>1, <1>2, <1>4, QuietCalls DEF r

LEMMA BlockEffectCalls ==
    ASSUME Serialized, IInv, CallInv, NEW p \in Procs, BlockEffect(p) PROVE CallInv'
<1>1. /\ UNCHANGED callVars /\ AtWork(p) /\ reg[p] \in Registers /\ journal # <<>>
      /\ CaseState = Latest.state /\ reg[p].at = Len(journal)
  BY CallInHand DEF BlockEffect, callVars, storeVars, effectVars, InCall, Fresh, Synced, Handless
<1>2. EffectCause("intent", reg[p].op) \in Causes /\ EffectCause("intent", reg[p].op).by # "command"
  BY <1>1 DEF EffectCause, Causes, Registers
<1>3. EnterReconciliation(p, reg[p], EffectCause("intent", reg[p].op), "finish")
  BY DEF BlockEffect
<1> QED
  BY <1>1, <1>2, <1>3, EnterReconciliationCalls

LEMMA NextEffectCalls ==
    ASSUME Serialized, IInv, CallInv, NEW p \in Procs, NextEffect(p) PROVE CallInv'
<1>1. /\ UNCHANGED callVars /\ AtWork(p) /\ TypeInv /\ reg[p] \in Registers
      /\ journal # <<>> /\ reg[p].at = Len(journal) /\ journal[reg[p].at] = Latest
      /\ CaseState = Latest.state /\ Latest.state = RECEIVED
  BY CallInHand DEF NextEffect, callVars, storeVars, effectVars, InCall, Fresh, Synced, Drives,
     Handless
<1>2. CASE Goto(p, "intent", [reg[p] EXCEPT !.op = WORKFLOW_HANDOFF])
  <2> DEFINE r == [reg[p] EXCEPT !.op = WORKFLOW_HANDOFF]
  <2>1. r.at = Len(journal)
    BY <1>1 DEF Registers
  <2> HIDE DEF r
  <2>2. InCall(p, "intent", r)
    BY <1>1, <2>1 DEF InCall, Fresh, Moving, Effecting, Synced, Drives
  <2> QED
    BY <1>1, <1>2, <2>2, QuietCalls DEF r
<1>3. CASE Transition(p, reg[p], TICKET_HANDOFF_COMPLETE, TICKET_READY, TICKET_READY,
                      Cause("handoff"), Latest.pending, Latest.completed, "finish")
  <2>1. /\ Cause("handoff") \in Causes /\ Cause("handoff").by # "command"
        /\ TICKET_READY \in WORKFLOW_STATES \ {CANCELLED}
        /\ TICKET_HANDOFF_COMPLETE # SLA_EXPIRED
    BY DEF Cause, Causes, WORKFLOW_STATES, TICKET_READY, CANCELLED, TICKET_HANDOFF_COMPLETE,
           SLA_EXPIRED
  <2> QED
    BY <1>1, <1>3, <2>1, KeepingCalls
<1> QED
  BY <1>1, <1>2, <1>3 DEF NextEffect

LEMMA FinishReconciliationCalls ==
    ASSUME Serialized, IInv, CallInv, NEW p \in Procs, FinishReconciliation(p) PROVE CallInv'
<1>1. /\ UNCHANGED callVars /\ AtWork(p) /\ TypeInv /\ reg[p] \in Registers
      /\ journal # <<>> /\ reg[p].at = Len(journal) /\ journal[reg[p].at] = Latest
      /\ CaseState = Latest.state /\ ~reg[p].driving
  BY CallInHand DEF FinishReconciliation, callVars, storeVars, effectVars, InCall, Fresh, Synced,
     Handless
<1>2. CASE Goto(p, "finish", NoRegisters)
  BY <1>1, <1>2, PlainCall, QuietCalls
<1>3. CASE /\ Unresolved = {}
           /\ Transition(p, reg[p], RECONCILIATION_COMPLETE, Latest.resume, Latest.resume,
                         Cause("reconciliation"), {}, Completed, "dispatch")
  <2>1. /\ Cause("reconciliation") \in Causes /\ Cause("reconciliation").by # "command"
        /\ RECONCILIATION_COMPLETE \in WORKFLOW_TRANSITION_KINDS
        /\ RECONCILIATION_COMPLETE \notin {SLA_EXPIRED, RECONCILIATION_REQUIRED}
        /\ "dispatch" \in Continuations
    BY DEF Cause, Causes, WORKFLOW_TRANSITION_KINDS, RECONCILIATION_COMPLETE, SLA_EXPIRED,
           RECONCILIATION_REQUIRED, Continuations
  <2>2. /\ Latest.resume \in WORKFLOW_STATES /\ Latest.completed \subseteq Completed
        /\ {} \in SUBSET Operations /\ Completed \in SUBSET Operations
        /\ {} \cup Completed \subseteq intents /\ {} \cap Completed = {}
    BY <1>1, OnRecord DEF Checkpoints, Sound
  <2> QED
    BY <1>1, <1>3, <2>1, <2>2, TransitionCalls
<1> QED
  BY <1>1, <1>2, <1>3 DEF FinishReconciliation

LEMMA StartSubmitCalls ==
    ASSUME Serialized, IInv, CallInv, NEW p \in Procs, StartSubmit(p) PROVE CallInv'
<1>1. UNCHANGED callVars /\ AtWork(p) /\ TypeInv /\ p \in Operators
  BY DEF StartSubmit, callVars, storeVars, effectVars, AtWork, IInv
<1>2. Len(commands) \in Nat /\ commands \in Seq(Commands) /\ Len(journal) \in Nat
  BY <1>1 DEF TypeInv, StoreTypes
<1>3. PICK type \in CommandTypes :
      \E cmd \in {[id |-> Len(commands) + 1, type |-> type,
                   version |-> IF journal = <<>> THEN 0 ELSE Len(journal) - 1]}
                 \cup {[commands[i] EXCEPT !.type = type] : i \in 1..Len(commands)} :
          LET r == [NoRegisters EXCEPT !.cmd = cmd] IN
             IF journal = <<>>
             THEN EnsureCheckpoint(p, r, FirstCheckpoint, "prime", "idle")
             ELSE Goto(p, "persist", [r EXCEPT !.at = Len(journal)])
  BY DEF StartSubmit
<1>4. PICK cmd \in {[id |-> Len(commands) + 1, type |-> type,
                   version |-> IF journal = <<>> THEN 0 ELSE Len(journal) - 1]}
                 \cup {[commands[i] EXCEPT !.type = type] : i \in 1..Len(commands)} :
          LET r == [NoRegisters EXCEPT !.cmd = cmd] IN
             IF journal = <<>>
             THEN EnsureCheckpoint(p, r, FirstCheckpoint, "prime", "idle")
             ELSE Goto(p, "persist", [r EXCEPT !.at = Len(journal)])
  BY <1>3
<1>5. cmd \in Commands /\ cmd.id \in 1..(Len(commands) + 1)
  <2>0. type \in {PAUSE, RESUME, CANCEL}
    BY CommandAssumption
  <2>1. CASE cmd = [id |-> Len(commands) + 1, type |-> type,
                    version |-> IF journal = <<>> THEN 0 ELSE Len(journal) - 1]
    <3>1. journal = <<>> \/ Len(journal) - 1 \in Nat
      BY <1>1, <1>2 DEF TypeInv, StoreTypes
    <3> QED
      BY <1>2, <2>0, <2>1, <3>1 DEF Commands
  <2>2. ASSUME NEW i \in 1..Len(commands), cmd = [commands[i] EXCEPT !.type = type]
        PROVE  cmd \in Commands /\ cmd.id \in 1..(Len(commands) + 1)
    <3>1. commands[i] \in Commands
      BY <1>2
    <3>2. commands[i].id = i
      BY DEF CallInv, Books, Rows
    <3>3. cmd \in Commands /\ cmd.id = i
      BY <2>0, <2>2, <3>1, <3>2 DEF Commands
    <3> QED
      BY <1>2, <3>3
  <2> QED
    BY <1>4, <2>1, <2>2
<1> DEFINE r == [NoRegisters EXCEPT !.cmd = cmd]
<1>6. r \in Registers /\ r.cmd = cmd /\ r.cont = "idle"
  BY <1>5, ConstantTypes DEF Registers, NoRegisters
<1>7. CASE journal = <<>> /\ EnsureCheckpoint(p, r, FirstCheckpoint, "prime", "idle")
  <2>1. Fits(FirstCheckpoint) /\ FirstCheckpoint \in Checkpoints
    BY <1>7, ConstantTypes DEF Fits
  <2>2. "prime" \in Returns /\ "idle" \in Continuations
    BY DEF Returns, Continuations
  <2> HIDE DEF r
  <2> QED
    BY <1>1, <1>5, <1>6, <1>7, <2>1, <2>2, EnsureCheckpointCalls
<1>8. CASE Goto(p, "persist", [r EXCEPT !.at = Len(journal)])
  <2> DEFINE s == [r EXCEPT !.at = Len(journal)]
  <2>1. s.at = Len(journal) /\ s.cmd = cmd
    BY <1>6 DEF Registers
  <2> HIDE DEF s
  <2>2. InCall(p, "persist", s)
    BY <1>1, <1>5, <2>1 DEF InCall, Fresh, Moving, Effecting, Synced, Drives
  <2> QED
    BY <1>1, <1>8, <2>2, QuietCalls DEF s
<1> QED
  BY <1>4, <1>7, <1>8

LEMMA PrimeSubmitCalls ==
    ASSUME Serialized, IInv, CallInv, NEW p \in Procs, PrimeSubmit(p) PROVE CallInv'
<1>1. /\ UNCHANGED callVars /\ AtWork(p) /\ TypeInv /\ reg[p].at = Len(journal)
      /\ p \in Operators /\ reg[p].cmd.id \in 1..(Len(commands) + 1)
  BY CallInHand DEF PrimeSubmit, callVars, storeVars, effectVars, InCall, Fresh
<1>2. CASE Goto(p, "persist", reg[p])
  <2>1. InCall(p, "persist", reg[p])
    BY <1>1 DEF InCall, Fresh, Moving, Effecting, Synced, Drives
  <2> QED
    BY <1>1, <1>2, <2>1, QuietCalls
<1>3. CASE Stop(p, "workflow_journal_invalid")
  BY <1>1, <1>3, StopCalls
<1> QED
  BY <1>2, <1>3 DEF PrimeSubmit

LEMMA ApplyCommandCalls ==
    ASSUME Serialized, IInv, CallInv, NEW p \in Procs, ApplyCommand(p) PROVE CallInv'
<1>1. /\ UNCHANGED callVars /\ AtWork(p) /\ TypeInv /\ reg[p] \in Registers /\ journal # <<>>
      /\ p \in Operators /\ reg[p].cmd.id \in 1..Len(commands)
      /\ commands[reg[p].cmd.id] = reg[p].cmd
  BY CallInHand DEF ApplyCommand, callVars, storeVars, effectVars, InCall, Handless
<1>2. p \notin Workers /\ reg[p].cmd \in Commands
  BY <1>1, ProcessAssumption DEF Registers
<1>3. CASE Goto(p, "applied", reg[p])
  <2>1. InCall(p, "applied", reg[p])
    BY <1>2 DEF InCall, Fresh, Moving, Effecting, Synced, Drives
  <2> QED
    BY <1>1, <1>3, <2>1, QuietCalls
<1>4. CASE ApplyPersistedCommand(p, reg[p].cmd)
  BY <1>1, <1>2, <1>4, ApplyPersistedCommandCalls
<1> QED
  BY <1>3, <1>4 DEF ApplyCommand

-----------------------------------------------------------------------------
(* The steps that write.                                                   *)

LEMMA AppendCheckpointCalls ==
    ASSUME Serialized, IInv, CallInv, NEW p \in Procs, AppendCheckpoint(p) PROVE CallInv'
<1> DEFINE n == Len(journal)  w == reg[p].want
           r == [reg[p] EXCEPT !.at = Len(journal'), !.base = 0,
                               !.want = NoRegisters.want, !.ret = "idle"]
<1>1. /\ AtWork(p) /\ TypeInv /\ reg[p] \in Registers
      /\ reg[p].base = n /\ Fits(w)
      /\ reg[p].ret \in {"process", "next"} => journal # <<>> /\ w.kind = "none"
      /\ reg[p].cont = "dispatch" => ~reg[p].driving
      /\ reg[p].ret = "prime" => p \in Operators /\ reg[p].cmd.id \in 1..(Len(commands) + 1)
  BY CallInHand DEF AppendCheckpoint, AppendRow, InCall, Moving
<1>2. n \in Nat /\ journal \in Seq(Checkpoints) /\ w \in Checkpoints
  BY <1>1 DEF TypeInv, StoreTypes, Registers
<1>3. /\ journal' = Append(journal, w)
      /\ Goto(p, reg[p].ret, r)
      /\ UNCHANGED <<events, intents, completions, observations, commands>>
  BY <1>1, <1>2 DEF AppendCheckpoint, AppendRow, effectVars
<1>4. /\ Len(journal') = n + 1 /\ journal'[n + 1] = w
      /\ \A i \in 1..n : journal'[i] = journal[i]
  <2> HIDE DEF w
  <2> HIDE DEF Checkpoints
  <2> QED
    BY <1>2, <1>3
<1>5. Latest' = w /\ UNCHANGED <<CaseState, Completed, Unresolved>>
  BY <1>3, <1>4 DEF Latest, CaseState, Completed, Unresolved
<1>6. ~(journal' = <<>>) /\ (journal # <<>> => n > 0 /\ Latest = journal[n])
      /\ (journal = <<>> => n = 0 /\ w = FirstCheckpoint)
  BY <1>1, <1>2, <1>4 DEF Latest, Fits
<1> HIDE DEF n, w, r
<1>7. Sound(w) /\ CommandAt(w, n + 1)
  <2>1. CASE journal # <<>>
    BY <1>1, <2>1 DEF Fits, n
  <2>2. CASE journal = <<>>
    BY <1>6, <2>2 DEF Sound, CommandAt, FirstCheckpoint, Cause
  <2> QED
    BY <2>1, <2>2
<1>8. Rows'
  <2>1. journal'[1] = FirstCheckpoint
    <3>1. CASE journal = <<>>
      BY <1>4, <1>6, <3>1
    <3>2. CASE journal # <<>>
      BY <1>2, <1>4, <1>6, <3>2 DEF CallInv, Books, Rows
    <3> QED
      BY <3>1, <3>2
  <2>2. ASSUME NEW i \in 2..(n + 1) PROVE ValidSuccessor(journal'[i-1], journal'[i])
    <3>1. CASE i \in 2..n
      <4>1. i \in 1..n /\ i - 1 \in 1..n
        BY <1>2, <3>1
      <4>2. ValidSuccessor(journal[i-1], journal[i])
        BY <3>1 DEF CallInv, Books, Rows, n
      <4> QED
        BY <1>4, <4>1, <4>2
    <3>2. CASE i = n + 1
      <4>1. n \in 1..n /\ i - 1 = n
        BY <1>2, <3>2
      <4>2. journal # <<>>
        BY <1>6, <4>1
      <4>3. ValidSuccessor(Latest, w)
        BY <1>1, <4>2 DEF Fits
      <4> QED
        BY <1>4, <1>6, <3>2, <4>1, <4>2, <4>3
    <3> QED
      BY <1>2, <3>1, <3>2
  <2>3. ASSUME NEW i \in 1..(n + 1) PROVE (Sound(journal[i]) /\ CommandAt(journal[i], i))'
    <3>1. Sound(journal'[i]) /\ CommandAt(journal'[i], i)
      <4>1. CASE i \in 1..n
        BY <1>4, <4>1 DEF CallInv, Books, Rows, n
      <4>2. CASE i = n + 1
        BY <1>4, <1>7, <4>2
      <4> QED
        BY <1>2, <4>1, <4>2
    <3> QED
      BY <1>3, <1>5, <3>1 DEF Sound, CommandAt
  <2>4. \A i \in 1..Len(commands') : commands'[i].id = i
    BY <1>3 DEF CallInv, Books, Rows
  <2> QED
    BY <1>4, <2>1, <2>2, <2>3, <2>4 DEF Rows
<1>9. EventsInOrder'
  <2>1. \A i \in 1..Len(events) : events[i].at \in 1..(n + 1)
    BY <1>2 DEF CallInv, Books, EventsInOrder, n
  <2>2. ASSUME w.kind = "none" PROVE CaseState = w.state
    <3>1. CASE journal # <<>>
      BY <1>1, <2>2, <3>1 DEF Fits
    <3>2. CASE journal = <<>>
      <4>1. events \in Seq(EventRecords)
        BY <1>1 DEF TypeInv, StoreTypes
      <4>2. \A i \in 1..Len(events) : events[i].at \in 1..0
        BY <1>6, <3>2 DEF CallInv, Books, EventsInOrder, n
      <4>3. events = <<>>
        BY <4>1, <4>2
      <4> QED
        BY <1>6, <3>2, <4>3 DEF CaseState, FirstCheckpoint
    <3> QED
      BY <3>1, <3>2
  <2> QED
    BY <1>3, <1>4, <1>5, <2>1, <2>2 DEF CallInv, Books, EventsInOrder
<1>10. CancelledIsResolved'
  <2>1. ASSUME w.state = CANCELLED PROVE Unresolved = {}
    <3>1. journal # <<>>
      BY <1>6, <2>1 DEF FirstCheckpoint, RECEIVED, CANCELLED
    <3> QED
      BY <1>1, <2>1, <3>1 DEF Fits
  <2>2. Unresolved = {} => intents \subseteq Completed
    BY DEF Unresolved
  <2> QED
    BY <1>3, <1>5, <2>1, <2>2 DEF CancelledIsResolved
<1>11. Books'
  BY <1>3, <1>5, <1>8, <1>9, <1>10 DEF Books, CallInv, EffectChainValid
<1>12. pc' = [pc EXCEPT ![p] = reg[p].ret] /\ pc'[p] = reg[p].ret /\ reg'[p] = r
  BY <1>1, <1>3 DEF Goto, TypeInv, Control
<1>13. /\ r.at = n + 1 /\ r.cont = reg[p].cont /\ r.driving = reg[p].driving
       /\ r.cmd = reg[p].cmd
  BY <1>1, <1>4 DEF Registers, r
<1>14. reg[p].ret \in Returns
  BY <1>1, InHand DEF Free, Holds
<1>15. reg[p].ret \in {"process", "next"} => CaseState' = Latest'.state /\ Latest'.state = RECEIVED
  BY <1>1, <1>5 DEF Fits
<1>16. InCall(p, pc[p], reg[p])'
  BY <1>1, <1>3, <1>4, <1>12, <1>13, <1>14, <1>15
  DEF InCall, Returns, Fresh, Moving, Effecting, Synced, Drives
<1> QED
  BY <1>1, <1>11, <1>12, <1>16, StepCalls

LEMMA AppendWorkflowStateEventCalls ==
    ASSUME Serialized, IInv, CallInv, NEW p \in Procs, AppendWorkflowStateEvent(p)
    PROVE  CallInv'
<1> DEFINE e == [at |-> reg[p].at, from |-> reg[p].from, to |-> journal[reg[p].at].state]
           r == [reg[p] EXCEPT !.cont = "idle", !.from = RECEIVED]
           known == {i \in 1..Len(events) : events[i].at = e.at}
           n == Len(events)
<1>1. /\ AtWork(p) /\ TypeInv /\ reg[p] \in Registers /\ journal # <<>>
      /\ reg[p].at = Len(journal) /\ Latest = journal[reg[p].at]
      /\ reg[p].cont = "dispatch" => ~reg[p].driving
  BY CallInHand DEF AppendWorkflowStateEvent, AppendStateEvent, InCall, Moving, Fresh, Handless
<1>2. UNCHANGED <<journal, intents, completions, observations, commands>>
  BY DEF AppendWorkflowStateEvent, AppendStateEvent, effectVars
<1>3. /\ reg[p].cont \in Continuations /\ n \in Nat /\ Len(journal) \in Nat
      /\ events \in Seq(EventRecords) /\ Len(journal) >= 1
      /\ \A i \in 1..n : events[i].at \in 1..Len(journal)
      /\ \A i, j \in 1..n : i < j => events[i].at < events[j].at
  BY <1>1, InHand DEF Free, Holds, TypeInv, StoreTypes, CallInv, Books, EventsInOrder,
     AppendWorkflowStateEvent, AppendStateEvent, Handless
<1>4. e.to = Latest.state /\ e.at = Len(journal)
  BY <1>1
<1>5. r.at = Len(journal) /\ r.driving = reg[p].driving
  BY <1>1 DEF Registers
<1> HIDE DEF r, e
<1>6. ASSUME UNCHANGED events, NEW i \in known, events[i] = e, Goto(p, reg[p].cont, r)
      PROVE  CallInv'
  <2>1. i = n
    <3>1. CASE i < n
      <4>1. n \in 1..n /\ i \in 1..n
        BY <1>3
      <4>2. events[n].at \in 1..Len(journal) /\ events[i].at < events[n].at
        BY <1>3, <3>1, <4>1
      <4> QED
        BY <1>3, <1>4, <1>6, <4>2
    <3> QED
      BY <1>3, <3>1
  <2>2. CaseState = Latest.state
    BY <1>3, <1>4, <1>6, <2>1 DEF CaseState
  <2>3. InCall(p, reg[p].cont, r)
    BY <1>1, <1>3, <1>5, <2>2
    DEF InCall, Fresh, Moving, Effecting, Synced, Drives, Continuations
  <2> QED
    BY <1>1, <1>2, <1>6, <2>3, QuietCalls DEF callVars
<1>7. ASSUME UNCHANGED events,
             Stop(p, "workflow_event_conflict") \/ Stop(p, "workflow_event_predecessor_mismatch")
      PROVE  CallInv'
  BY <1>1, <1>2, <1>7, StopCalls DEF callVars
<1>8. ASSUME known = {}, events' = Append(events, e), Goto(p, reg[p].cont, r)
      PROVE  CallInv'
  <2>1. /\ Len(events') = n + 1 /\ events'[n + 1] = e
        /\ \A i \in 1..n : events'[i] = events[i]
    BY <1>3, <1>8
  <2>2. CaseState' = Latest.state /\ UNCHANGED <<Latest, Completed, Unresolved>>
    BY <1>2, <1>3, <1>4, <1>8, <2>1 DEF CaseState, Latest, Completed, Unresolved
  <2>3. ASSUME NEW i \in 1..n PROVE events[i].at < Len(journal) /\ events[i].at \in 1..Len(journal)
    <3>1. events[i].at # Len(journal)
      BY <1>4, <1>8
    <3> QED
      BY <1>3, <3>1
  <2>4. ASSUME NEW i \in 1..(n + 1) PROVE events'[i].at \in 1..Len(journal)
    BY <1>3, <1>4, <2>1, <2>3
  <2>5. ASSUME NEW i \in 1..(n + 1), NEW j \in 1..(n + 1), i < j
        PROVE  events'[i].at < events'[j].at
    <3>1. i \in 1..n
      BY <1>3, <2>5
    <3>2. CASE j \in 1..n
      BY <1>3, <2>1, <2>5, <3>1, <3>2
    <3>3. CASE j = n + 1
      BY <1>4, <2>1, <2>3, <3>1, <3>3
    <3> QED
      BY <1>3, <3>2, <3>3
  <2>6. EventsInOrder'
    BY <1>2, <2>1, <2>2, <2>4, <2>5 DEF EventsInOrder
  <2>7. Books'
    BY <1>2, <2>2, <2>6 DEF Books, CallInv, Rows, Sound, CommandAt, EffectChainValid,
       CancelledIsResolved
  <2>8. pc' = [pc EXCEPT ![p] = reg[p].cont] /\ pc'[p] = reg[p].cont /\ reg'[p] = r
    BY <1>1, <1>8 DEF Goto, TypeInv, Control
  <2>9. InCall(p, pc[p], reg[p])'
    BY <1>1, <1>2, <1>3, <1>5, <2>2, <2>8
    DEF InCall, Fresh, Moving, Effecting, Synced, Drives, Continuations
  <2> QED
    BY <1>1, <2>7, <2>8, <2>9, StepCalls
<1> QED
  BY <1>6, <1>7, <1>8 DEF AppendWorkflowStateEvent, AppendStateEvent, e, r

(* Effects that are recorded one by one leave the rows sound.              *)
LEMMA RowsStaySound ==
    ASSUME Rows, UNCHANGED <<journal, commands>>,
           intents \subseteq intents', Completed \subseteq Completed'
    PROVE  Rows'
<1>1. \A c : Sound(c) => (c.pending \cap c.completed = {}
             /\ c.pending \cup c.completed \subseteq intents' /\ c.completed \subseteq Completed')
  BY DEF Sound
<1> QED
  BY <1>1 DEF Rows, Sound, CommandAt

LEMMA EnsureIntentCalls ==
    ASSUME Serialized, IInv, CallInv, NEW p \in Procs, EnsureIntent(p) PROVE CallInv'
<1>1. /\ AtWork(p) /\ TypeInv /\ CaseState = Latest.state /\ Latest.state = RECEIVED
      /\ reg[p].at = Len(journal)
  BY CallInHand DEF EnsureIntent, InCall, Synced, Fresh, Drives
<1>2. /\ intents' = intents \cup {reg[p].op} /\ Goto(p, "mark", reg[p])
      /\ UNCHANGED <<journal, events, completions, observations, commands>>
  BY DEF EnsureIntent, storeVars
<1>3. UNCHANGED <<Latest, CaseState, Completed>>
  BY <1>2 DEF Latest, CaseState, Completed
<1>4. Books'
  <2>1. Rows'
    BY <1>2, <1>3, RowsStaySound DEF CallInv, Books
  <2>2. EventsInOrder' /\ EffectChainValid'
    BY <1>2, <1>3 DEF CallInv, Books, EventsInOrder, EffectChainValid
  <2>3. CancelledIsResolved'
    BY <1>1, <1>3 DEF CancelledIsResolved, RECEIVED, CANCELLED
  <2> QED
    BY <2>1, <2>2, <2>3 DEF Books
<1>5. pc' = [pc EXCEPT ![p] = "mark"] /\ pc'[p] = "mark" /\ reg'[p] = reg[p]
  BY <1>1, <1>2 DEF Goto, TypeInv, Control
<1>6. InCall(p, pc[p], reg[p])'
  BY <1>1, <1>2, <1>3, <1>5 DEF InCall, Fresh, Moving, Effecting, Synced, Drives
<1> QED
  BY <1>1, <1>4, <1>5, <1>6, StepCalls

LEMMA RecordObservationCalls ==
    ASSUME Serialized, IInv, CallInv, NEW p \in Procs, RecordObservation(p) PROVE CallInv'
<1> DEFINE o == [op |-> reg[p].op, phase |-> reg[p].phase, status |-> reg[p].out.status,
                 version |-> reg[p].out.version]
           label == AfterObservation(reg[p])
<1>1. /\ AtWork(p) /\ TypeInv /\ CaseState = Latest.state
      /\ reg[p].driving => Latest.state = RECEIVED
      /\ reg[p].at = Len(journal)
  BY CallInHand DEF RecordObservation, InCall, Synced, Effecting, Fresh, Drives
<1>2. /\ observations' = observations \cup {o} /\ Goto(p, label, reg[p])
      /\ UNCHANGED <<journal, events, intents, completions, commands>>
  BY DEF RecordObservation, storeVars
<1>3. UNCHANGED <<Latest, CaseState, Completed, Unresolved>>
  BY <1>2 DEF Latest, CaseState, Completed, Unresolved
<1>4. Books'
  BY <1>2, <1>3 DEF CallInv, Books, Rows, Sound, CommandAt, EventsInOrder, EffectChainValid,
     CancelledIsResolved
<1>5. /\ label \in {"complete", "execute", "block", "finish"}
      /\ label = "complete" => reg[p].out.status = "present"
      /\ label = "block" => reg[p].driving
  BY DEF AfterObservation
<1>6. o \in observations'
  BY <1>2
<1> HIDE DEF label
<1>7. pc' = [pc EXCEPT ![p] = label] /\ pc'[p] = label /\ reg'[p] = reg[p]
  BY <1>1, <1>2 DEF Goto, TypeInv, Control
<1>8. InCall(p, pc[p], reg[p])'
  BY <1>1, <1>2, <1>3, <1>5, <1>6, <1>7 DEF InCall, Fresh, Moving, Effecting, Synced, Drives
<1> QED
  BY <1>1, <1>4, <1>7, <1>8, StepCalls

LEMMA RecordCompletionCalls ==
    ASSUME Serialized, IInv, CallInv, NEW p \in Procs, RecordCompletion(p) PROVE CallInv'
<1> DEFINE op == reg[p].op
           row == [phase |-> reg[p].phase, version |-> reg[p].out.version]
           o == [op |-> reg[p].op, phase |-> reg[p].phase, status |-> reg[p].out.status,
                 version |-> reg[p].out.version]
           label == IF reg[p].driving THEN "driven" ELSE "reconciled"
           r == [reg[p] EXCEPT !.out = NoOutcome, !.phase = "reconcile"]
<1>1. /\ AtWork(p) /\ TypeInv /\ reg[p] \in Registers /\ CaseState = Latest.state
      /\ reg[p].driving => Latest.state = RECEIVED
      /\ reg[p].at = Len(journal)
      /\ reg[p].out.status = "present" /\ o \in observations
  BY CallInHand DEF RecordCompletion, InCall, Synced, Effecting, Fresh, Drives
<1>2. UNCHANGED <<journal, events, intents, observations, commands>>
  BY DEF RecordCompletion, storeVars
<1>3. op \in Operations /\ row.phase # "none"
  BY <1>1 DEF Registers, Phases
<1>4. ASSUME UNCHANGED completions, Stop(p, "workflow_completion_conflict")
      PROVE  CallInv'
  BY <1>1, <1>2, <1>4, StopCalls DEF callVars
<1>5. ASSUME completions[op] \in {NoCompletion, row},
             completions' = [completions EXCEPT ![op] = row],
             Goto(p, label, r)
      PROVE  CallInv'
  <2>1. UNCHANGED <<Latest, CaseState>>
    BY <1>2 DEF Latest, CaseState
  <2>2. completions'[op] = row /\ \A q \in Operations : q # op => completions'[q] = completions[q]
    BY <1>1, <1>3, <1>5 DEF TypeInv, StoreTypes
  <2>3. Completed \subseteq Completed' /\ Completed' = Completed \cup {op}
    BY <1>3, <2>2 DEF Completed
  <2>4. Rows'
    BY <1>2, <2>3, RowsStaySound DEF CallInv, Books
  <2>5. EventsInOrder' /\ CancelledIsResolved'
    BY <1>2, <2>1, <2>3 DEF CallInv, Books, EventsInOrder, CancelledIsResolved
  <2>6. EffectChainValid'
    <3>1. ASSUME NEW q \in Completed'
          PROVE  \E x \in observations : /\ x.op = q /\ x.status = "present"
                    /\ x.phase = completions'[q].phase /\ x.version = completions'[q].version
      <4>1. CASE q = op
        BY <1>1, <2>2, <4>1
      <4>2. CASE q # op
        <5>1. q \in Completed /\ completions'[q] = completions[q]
          BY <2>2, <2>3, <4>2 DEF Completed
        <5> QED
          BY <5>1 DEF CallInv, Books, EffectChainValid
      <4> QED
        BY <4>1, <4>2
    <3> QED
      BY <1>2, <3>1 DEF EffectChainValid
  <2>7. Books'
    BY <2>4, <2>5, <2>6 DEF Books
  <2>8. r.at = Len(journal) /\ r.driving = reg[p].driving
    BY <1>1 DEF Registers
  <2>9. pc' = [pc EXCEPT ![p] = label] /\ pc'[p] = label /\ reg'[p] = r
    BY <1>1, <1>5 DEF Goto, TypeInv, Control
  <2>10. label \in {"driven", "reconciled"} /\ (label = "driven" <=> r.driving)
    BY <1>1, <2>8 DEF Registers
  <2> HIDE DEF label, r
  <2>11. InCall(p, pc[p], reg[p])'
    BY <1>1, <1>2, <2>1, <2>8, <2>9, <2>10 DEF InCall, Fresh, Moving, Effecting, Synced, Drives
  <2> QED
    BY <1>1, <2>7, <2>9, <2>11, StepCalls
<1> QED
  BY <1>4, <1>5 DEF RecordCompletion

LEMMA PersistCommandCalls ==
    ASSUME Serialized, IInv, CallInv, NEW p \in Procs, PersistCommand(p) PROVE CallInv'
<1> DEFINE cmd == reg[p].cmd  m == Len(commands)
<1>1. /\ AtWork(p) /\ TypeInv /\ reg[p] \in Registers /\ p \in Operators
      /\ cmd.id \in 1..(m + 1)
  BY CallInHand DEF PersistCommand, InCall
<1>2. m \in Nat /\ commands \in Seq(Commands) /\ cmd \in Commands
  BY <1>1 DEF TypeInv, StoreTypes, Registers
<1>3. UNCHANGED <<journal, events, intents, completions, observations>>
  BY DEF PersistCommand, effectVars
<1>4. ASSUME UNCHANGED commands, cmd.id <= m, commands[cmd.id] = cmd, Goto(p, "apply", reg[p])
      PROVE  CallInv'
  <2>1. cmd.id \in 1..m
    BY <1>1, <1>2, <1>4
  <2>2. InCall(p, "apply", reg[p])
    BY <1>1, <1>4, <2>1 DEF InCall, Fresh, Moving, Effecting, Synced, Drives
  <2> QED
    BY <1>1, <1>3, <1>4, <2>2, QuietCalls DEF callVars
<1>5. ASSUME UNCHANGED commands, NEW outcome, Stop(p, outcome)
      PROVE  CallInv'
  BY <1>1, <1>3, <1>5, StopCalls DEF callVars
<1>6. ASSUME commands' = Append(commands, cmd), cmd.id > m, Goto(p, "apply", reg[p])
      PROVE  CallInv'
  <2>1. cmd.id = m + 1
    BY <1>1, <1>2, <1>6
  <2>2. /\ Len(commands') = m + 1 /\ commands'[m + 1] = cmd
        /\ \A i \in 1..m : commands'[i] = commands[i]
    <3> HIDE DEF cmd
    <3> HIDE DEF Commands
    <3> QED
      BY <1>2, <1>6
  <2>3. UNCHANGED <<Latest, CaseState, Completed, Unresolved>>
    BY <1>3 DEF Latest, CaseState, Completed, Unresolved
  <2>4. \A c : Sound(c) => Sound(c)'
    BY <1>3, <2>3 DEF Sound
  <2>5. \A i \in 1..Len(journal) : CommandAt(journal[i], i) => CommandAt(journal[i], i)'
    BY <1>2, <1>3, <2>2 DEF CommandAt
  <2>6. ASSUME NEW i \in 1..(m + 1) PROVE commands'[i].id = i
    <3>1. CASE i \in 1..m
      BY <2>2, <3>1 DEF CallInv, Books, Rows
    <3>2. CASE i = m + 1
      BY <2>1, <2>2, <3>2
    <3> QED
      BY <1>2, <3>1, <3>2
  <2>7. Rows'
    BY <1>3, <2>2, <2>4, <2>5, <2>6 DEF CallInv, Books, Rows, Sound, CommandAt
  <2>8. EventsInOrder' /\ EffectChainValid' /\ CancelledIsResolved'
    BY <1>3, <2>3 DEF CallInv, Books, EventsInOrder, EffectChainValid, CancelledIsResolved
  <2>9. Books'
    BY <2>7, <2>8 DEF Books
  <2>10. pc' = [pc EXCEPT ![p] = "apply"] /\ pc'[p] = "apply" /\ reg'[p] = reg[p]
    BY <1>1, <1>6 DEF Goto, TypeInv, Control
  <2>11. cmd.id \in 1..Len(commands') /\ commands'[cmd.id] = cmd
    BY <1>2, <2>1, <2>2
  <2>12. InCall(p, pc[p], reg[p])'
    BY <1>1, <2>10, <2>11 DEF InCall, Fresh, Moving, Effecting, Synced, Drives
  <2> QED
    BY <1>1, <2>9, <2>10, <2>12, StepCalls
<1> QED
  BY <1>4, <1>5, <1>6 DEF PersistCommand

-----------------------------------------------------------------------------
(* The invariant.                                                          *)

LEMMA CallsHoldInitially == Init => CallInv
<1> SUFFICES ASSUME Init PROVE CallInv
  OBVIOUS
<1>1. OneAtATime
  BY DEF Init, OneAtATime
<1>2. Completed = {}
  BY DEF Init, Completed, NoCompletion
<1>3. Books
  BY <1>2 DEF Init, Books, Rows, EventsInOrder, EffectChainValid, CancelledIsResolved
<1>4. ASSUME NEW p \in Procs PROVE InCall(p, pc[p], reg[p])
  BY PlainCall DEF Init
<1> QED
  BY <1>1, <1>3, <1>4 DEF CallInv

(* Nobody moves.                                                           *)
LEMMA RestingCalls ==
    ASSUME CallInv, UNCHANGED callVars, UNCHANGED <<pc, reg>> PROVE CallInv'
<1>1. Books' /\ UNCHANGED <<Latest, CaseState, Completed, Unresolved>>
  BY BooksKept DEF CallInv
<1>2. OneAtATime'
  BY DEF CallInv, OneAtATime
<1>3. ASSUME NEW p \in Procs PROVE InCall(p, pc[p], reg[p])'
  <2>1. InCall(p, pc[p], reg[p])
    BY DEF CallInv
  <2>2. \A c : Fits(c) => Fits(c)'
    BY <1>1 DEF Fits, Sound, CommandAt, callVars
  <2> QED
    BY <1>1, <2>1, <2>2 DEF InCall, Drives, callVars
<1> QED
  BY <1>1, <1>2, <1>3 DEF CallInv

LEMMA CallsNext ==
    ASSUME Serialized, IInv, CallInv, [Next]_vars PROVE CallInv'
<1>1. CASE UNCHANGED vars \/ DeadlinePasses
  BY <1>1, RestingCalls DEF vars, DeadlinePasses, storeVars, effectVars, callVars
<1>2. ASSUME NEW p \in Procs, StartSweep(p) \/ StartSubmit(p) PROVE CallInv'
  BY <1>2, StartSweepCalls, StartSubmitCalls
<1>3. ASSUME NEW p \in Procs, JournalStep(p) PROVE CallInv'
  BY <1>3, AppendCheckpointCalls, SyncCaseStateCalls, AppendWorkflowStateEventCalls
  DEF JournalStep
<1>4. ASSUME NEW p \in Procs, CommandStep(p) PROVE CallInv'
  BY <1>4, RecoverPendingCommandCalls, CommandAppliedCalls, PrimeSubmitCalls,
     PersistCommandCalls, ApplyCommandCalls DEF CommandStep
<1>5. ASSUME NEW p \in Procs, SweepStep(p) PROVE CallInv'
  BY <1>5, ActivateCaseCalls, RecoverWorkflowCalls, ReadPendingCommandsCalls, DispatchCalls,
     RecordSlaExpiryCalls, ExpireSlaCalls, FinishSweepCalls DEF SweepStep
<1>6. ASSUME NEW p \in Procs, EffectStep(p) PROVE CallInv'
  BY <1>6, EnsureIntentCalls, MarkIntentCalls, ProcessIntentCalls, RecordObservationCalls,
     ExecuteIntentCalls, RecordCompletionCalls, BlockEffectCalls, MarkCompletionCalls,
     NextEffectCalls, FinishReconciliationCalls DEF EffectStep
<1>7. ASSUME NEW p \in Procs, Crash(p) PROVE CallInv'
  <2>1. UNCHANGED callVars /\ AtWork(p) /\ TypeInv /\ Stop(p, "interrupted")
    BY <1>7 DEF Crash, callVars, storeVars, effectVars, AtWork, IInv
  <2> QED
    BY <2>1, StopCalls
<1> QED
  BY <1>1, <1>2, <1>3, <1>4, <1>5, <1>6, <1>7 DEF Next, Step

LEMMA CallInvAlways ==
    ASSUME Serialized PROVE Spec => []CallInv
<1>1. IInv /\ CallInv /\ [Next]_vars => CallInv'
  BY CallsNext
<1> QED
  BY <1>1, CallsHoldInitially, IInvAlways, PTL DEF Spec

-----------------------------------------------------------------------------
(* The theorems.                                                           *)

(* Where calls follow one another, no command, crash, timeout or deadline  *)
(* leaves a journal that rebuild_workflow_projection rejects; so no call   *)
(* ever stands in the way of recovery by what it stored.                   *)
THEOREM JournalAcceptsItself ==
    ASSUME Serialized PROVE Spec => []JournalStaysValid
<1>1. ASSUME IInv, CallInv PROVE JournalStaysValid
  <2>1. Rows /\ EffectChainValid /\ Len(journal) \in Nat
    BY <1>1, OnRecord DEF CallInv, Books
  <2>2. ASSUME journal # <<>> PROVE CheckpointsValid /\ EffectsOnRecord
    <3>1. Sound(Latest)
      BY <1>1, <2>2, OnRecord
    <3> QED
      BY <2>1, <2>2, <3>1 DEF Rows, CheckpointsValid, EffectsOnRecord, Sound
  <2>3. CommandsAppliedOnce
    <3> SUFFICES ASSUME NEW c \in 1..Len(commands),
                        NEW i \in 1..Len(journal), NEW j \in 1..Len(journal),
                        journal[i].cause = CommandCause(c), journal[j].cause = CommandCause(c)
                 PROVE  i = j
      BY DEF CommandsAppliedOnce
    <3>1. CommandAt(journal[i], i) /\ CommandAt(journal[j], j)
      BY <2>1 DEF Rows
    <3> QED
      BY <3>1 DEF CommandAt, CommandCause
  <2>4. TicketSourceValid
    <3> SUFFICES ASSUME NEW op \in Operations, operations[op] > 0
                 PROVE  /\ op \in intents /\ operations[op] \in 1..Len(ticket)
                        /\ ticket[operations[op]] = op
                        /\ op = FIND_OR_CREATE => operations[op] = 1
      BY DEF TicketSourceValid
    <3>1. op \in intents /\ TicketShape
      BY <1>1 DEF IInv, EffectInv, EffectOrder
    <3>2. op = FIND_OR_CREATE \/ op = WORKFLOW_HANDOFF
      BY DEF Operations
    <3> QED
      BY <3>1, <3>2 DEF TicketShape, FIND_OR_CREATE, WORKFLOW_HANDOFF
  <2> QED
    BY <2>1, <2>2, <2>3, <2>4 DEF JournalStaysValid, JournalValid
<1> QED
  BY <1>1, CallInvAlways, IInvAlways, PTL

(* Where calls follow one another, no Case is cancelled over an effect     *)
(* that was intended and is not known complete: _apply_persisted_command   *)
(* asks for reconciliation instead.                                        *)
THEOREM CancelledHasNothingOpen ==
    ASSUME Serialized PROVE Spec => []CancelledIsResolved
<1>1. CallInv => CancelledIsResolved
  BY DEF CallInv, Books
<1> QED
  BY <1>1, CallInvAlways, PTL

LEMMA OnlyAppended ==
    ASSUME [Next]_vars, journal' # journal
    PROVE  \E p \in Procs : AppendCheckpoint(p)
<1>1. CASE UNCHANGED vars \/ DeadlinePasses
  BY <1>1 DEF vars, DeadlinePasses, storeVars
<1>2. ASSUME NEW p \in Procs,
             StartSweep(p) \/ StartSubmit(p) \/ CommandStep(p) \/ Crash(p)
      PROVE  UNCHANGED journal
  BY <1>2 DEF StartSweep, StartSubmit, Crash, CommandStep, RecoverPendingCommand,
     CommandApplied, PrimeSubmit, PersistCommand, ApplyCommand, storeVars
<1>3. ASSUME NEW p \in Procs, SweepStep(p)
      PROVE  UNCHANGED journal
  BY <1>3 DEF SweepStep, ActivateCase, RecoverWorkflow, ReadPendingCommands, Dispatch,
     RecordSlaExpiry, ExpireSla, FinishSweep, storeVars
<1>4. ASSUME NEW p \in Procs, EffectStep(p)
      PROVE  UNCHANGED journal
  BY <1>4 DEF EffectStep, EnsureIntent, MarkIntent, ProcessIntent, RecordObservation,
     ExecuteIntent, RecordCompletion, BlockEffect, MarkCompletion, NextEffect,
     FinishReconciliation, storeVars
<1>5. ASSUME NEW p \in Procs, SyncCaseState(p) \/ AppendWorkflowStateEvent(p)
      PROVE  UNCHANGED journal
  BY <1>5 DEF SyncCaseState, AppendWorkflowStateEvent, AppendStateEvent, storeVars
<1> QED
  BY <1>1, <1>2, <1>3, <1>4, <1>5 DEF Next, Step, JournalStep

(* Nothing leads out of CANCELLED, and out of a pause or a block only what *)
(* goes on, ends or stops the workflow.                                    *)
LEMMA WaysOn ==
    ASSUME NEW s, NEW kind \in WORKFLOW_TRANSITION_KINDS, NEW next, NEW resume, NEW unresolved,
           TransitionAllowed(s, kind, next, resume, unresolved)
    PROVE  /\ s # CANCELLED
           /\ s \in {PAUSED, NEEDS_RECONCILIATION} =>
                 \/ kind \in {RESUME, RECONCILIATION_COMPLETE}
                 \/ next \in {CANCELLED, WAITING_FOR_OPERATOR, NEEDS_RECONCILIATION}
<1>1. s \in AllowedSources(kind, resume, unresolved) /\ next = TargetOf(kind, resume)
  BY DEF TransitionAllowed, AllowedTargets
<1> QED
  BY <1>1
  DEF AllowedSources, TargetOf, WORKFLOW_TRANSITION_KINDS, WORKFLOW_STATES, TERMINAL_STATES,
      PAUSABLE_STATES, RECEIVED, TICKET_READY, INVESTIGATING, RESPONSE_READY,
      AWAITING_APPROVAL, DELIVERING, DELIVERY_RECORDED, PAUSED, WAITING_FOR_OPERATOR,
      NEEDS_RECONCILIATION, CANCELLED, TICKET_HANDOFF_COMPLETE, INVESTIGATION_STARTED,
      RESPONSE_CANDIDATE_VERIFIED, POLICY_APPROVAL_ACTIVATED, APPROVAL_GRANTED,
      AUTHORIZATION_DENIED, DELIVERY_COMPLETE, PAUSE, RESUME, CANCEL, SLA_EXPIRED,
      RECONCILIATION_REQUIRED, RECONCILIATION_COMPLETE

(* Where calls follow one another, a resumed or reconciled workflow goes   *)
(* on in the state its pause or block has saved, and a cancelled one never *)
(* moves again, whatever sweeps and commands are run on it.                *)
THEOREM ContinuesAsSaved ==
    ASSUME Serialized PROVE Spec => ContinuesWhereSaved
<1> DEFINE Onward ==
              journal' # journal /\ journal # <<>> =>
                 /\ Latest.state # CANCELLED
                 /\ Latest.state \in {PAUSED, NEEDS_RECONCILIATION} =>
                       \/ Latest'.state = Latest.resume
                       \/ Latest'.state \in {CANCELLED, WAITING_FOR_OPERATOR, NEEDS_RECONCILIATION}
<1>1. ASSUME IInv, CallInv, [Next]_vars PROVE Onward
  <2> SUFFICES ASSUME journal' # journal, journal # <<>> PROVE Onward
    OBVIOUS
  <2>1. PICK p \in Procs : AppendCheckpoint(p)
    BY <1>1, OnlyAppended
  <2> DEFINE w == reg[p].want
  <2>2. reg[p] \in Registers /\ reg[p].base = Len(journal) /\ Fits(w)
    BY <1>1, <2>1, CallInHand DEF AppendCheckpoint, AppendRow, InCall
  <2>3. w \in Checkpoints /\ journal \in Seq(Checkpoints) /\ Len(journal) \in Nat
    BY <1>1, <2>2 DEF Registers, IInv, TypeInv, StoreTypes
  <2>4. journal' = Append(journal, w)
    BY <2>1, <2>2, <2>3 DEF AppendCheckpoint, AppendRow
  <2>5. Latest' = w
    <3> HIDE DEF w
    <3> HIDE DEF Checkpoints
    <3>1. Len(journal') = Len(journal) + 1 /\ journal'[Len(journal) + 1] = w
      BY <2>3, <2>4
    <3> QED
      BY <3>1 DEF Latest
  <2>6. ValidSuccessor(Latest, w)
    BY <2>2 DEF Fits
  <2>7. CASE w.kind = "none"
    <3>1. Latest.state = RECEIVED
      BY <2>2, <2>6, <2>7 DEF Fits, ValidSuccessor
    <3> QED
      BY <3>1 DEF RECEIVED, CANCELLED, PAUSED, NEEDS_RECONCILIATION
  <2>8. CASE w.kind # "none"
    <3>1. w.kind \in WORKFLOW_TRANSITION_KINDS
      BY <2>3, <2>8 DEF Checkpoints, Kinds
    <3>2. TransitionAllowed(Latest.state, w.kind, w.state, w.resume, Latest.pending # {})
      BY <2>6, <2>8 DEF ValidSuccessor
    <3>3. w.kind \in {RESUME, RECONCILIATION_COMPLETE} => w.state = Latest.resume
      BY <2>2 DEF Fits
    <3> QED
      BY <2>5, <3>1, <3>2, <3>3, WaysOn
  <2> QED
    BY <2>7, <2>8
<1>2. IInv /\ CallInv /\ [Next]_vars => [Onward]_vars
  BY <1>1
<1> QED
  BY <1>2, CallInvAlways, IInvAlways, PTL DEF Spec, ContinuesWhereSaved

(* Where calls follow one another, a sweep that ends well has brought the  *)
(* Case to the state of the workflow: recover_workflow finishes an         *)
(* interrupted event before it does anything else, or fails.               *)
THEOREM SweepsLeaveCaseInStep ==
    ASSUME Serialized PROVE Spec => SweepLeavesCaseInStep
<1>1. ASSUME CallInv, NEW w \in Workers, pc[w] = "finish" PROVE CaseState = Latest.state
  BY <1>1 DEF CallInv, InCall, Synced, Procs
<1> DEFINE Swept ==
              \A w \in Workers : pc[w] = "finish" /\ pc'[w] = "idle" /\ result'[w] = "ok"
                 => CaseState = Latest.state
<1>2. CallInv /\ [Next]_vars => [Swept]_vars
  BY <1>1
<1> QED
  BY <1>2, CallInvAlways, PTL DEF Spec, SweepLeavesCaseInStep

-----------------------------------------------------------------------------
(* What an effect is executed on.                                          *)

(* An answer in hand at "observe" and at "execute": only a look-up can say *)
(* absent, and the process that goes on to execute has put the answer on   *)
(* record.                                                                 *)
Looking == {"observe", "execute"}

LookedUp(label, r, rows) ==
    /\ label = "observe" /\ r.out.status = "absent" =>
          r.phase = "reconcile" /\ r.out.version = 0
    /\ label = "execute" =>
          /\ r.phase = "reconcile" /\ r.out.status = "absent"
          /\ [op |-> r.op, phase |-> "reconcile", status |-> "absent", version |-> 0] \in rows

LookInv == \A p \in Procs : LookedUp(pc[p], reg[p], observations)

(* Process p goes to a label where it holds no answer to act on.           *)
Elsewhere(p) ==
    \E label, r : /\ label \notin Looking
                  /\ pc' = [pc EXCEPT ![p] = label]
                  /\ reg' = [reg EXCEPT ![p] = r]

LEMMA ElsewhereLooks ==
    ASSUME TypeInv, LookInv, NEW p \in Procs, Elsewhere(p), UNCHANGED observations
    PROVE  LookInv'
<1>1. PICK label, r : /\ label \notin Looking
                      /\ pc' = [pc EXCEPT ![p] = label]
                      /\ reg' = [reg EXCEPT ![p] = r]
  BY DEF Elsewhere
<1> SUFFICES ASSUME NEW q \in Procs PROVE LookedUp(pc'[q], reg'[q], observations)
  BY DEF LookInv
<1>2. CASE q = p
  BY <1>1, <1>2 DEF LookedUp, Looking, TypeInv, Control
<1>3. CASE q # p
  BY <1>1, <1>3 DEF LookInv, TypeInv, Control
<1> QED
  BY <1>2, <1>3

LEMMA StopElsewhere ==
    ASSUME NEW p \in Procs, NEW outcome, Stop(p, outcome) PROVE Elsewhere(p)
BY DEF Stop, Elsewhere, Looking

LEMMA GotoElsewhere ==
    ASSUME NEW p \in Procs, NEW label, NEW r, label \notin Looking, Goto(p, label, r)
    PROVE  Elsewhere(p)
BY DEF Goto, Elsewhere

LEMMA EnsureCheckpointElsewhere ==
    ASSUME NEW p \in Procs, NEW r, NEW want, NEW ret, NEW cont, ret \notin Looking,
           EnsureCheckpoint(p, r, want, ret, cont)
    PROVE  Elsewhere(p)
<1>1. "append" \notin Looking
  BY DEF Looking
<1> QED
  BY <1>1, StopElsewhere, GotoElsewhere DEF EnsureCheckpoint

LEMMA TransitionElsewhere ==
    ASSUME NEW p \in Procs, NEW r, NEW kind, NEW next, NEW resume, NEW cause, NEW pending,
           NEW completed, NEW cont,
           Transition(p, r, kind, next, resume, cause, pending, completed, cont)
    PROVE  Elsewhere(p)
<1>1. "sync" \notin Looking
  BY DEF Looking
<1> QED
  BY <1>1, StopElsewhere, EnsureCheckpointElsewhere DEF Transition

LEMMA EnterReconciliationElsewhere ==
    ASSUME NEW p \in Procs, NEW r, NEW cause, NEW cont, cont \notin Looking,
           EnterReconciliation(p, r, cause, cont)
    PROVE  Elsewhere(p)
BY GotoElsewhere, TransitionElsewhere DEF EnterReconciliation

LEMMA ApplyPersistedCommandElsewhere ==
    ASSUME NEW p \in Procs, NEW c \in Commands, ApplyPersistedCommand(p, c)
    PROVE  Elsewhere(p)
<1>1. "applied" \notin Looking
  BY DEF Looking
<1>2. c.type = PAUSE \/ c.type = RESUME \/ c.type = CANCEL
  BY DEF Commands
<1> QED
  BY <1>1, <1>2, StopElsewhere, GotoElsewhere, TransitionElsewhere, EnterReconciliationElsewhere
  DEF ApplyPersistedCommand, PAUSE, RESUME, CANCEL

LEMMA JournalStepElsewhere ==
    ASSUME TypeInv, NEW p \in Procs, JournalStep(p)
    PROVE  Elsewhere(p) /\ UNCHANGED observations
<1>1. reg[p].ret \notin Looking /\ reg[p].cont \notin Looking /\ "event" \notin Looking
  BY DEF TypeInv, Control, Holds, Returns, Continuations, Looking
<1>2. UNCHANGED observations
  BY DEF JournalStep, AppendCheckpoint, SyncCaseState, AppendWorkflowStateEvent, effectVars
<1>3. CASE AppendCheckpoint(p)
  BY <1>2, <1>1, <1>3, GotoElsewhere DEF AppendCheckpoint, AppendRow
<1>4. CASE SyncCaseState(p)
  BY <1>2, <1>1, <1>4, GotoElsewhere, StopElsewhere DEF SyncCaseState, ReadCaseState
<1>5. CASE AppendWorkflowStateEvent(p)
  BY <1>2, <1>1, <1>5, GotoElsewhere, StopElsewhere DEF AppendWorkflowStateEvent, AppendStateEvent
<1> QED
  BY <1>2, <1>3, <1>4, <1>5 DEF JournalStep

LEMMA CommandStepElsewhere ==
    ASSUME TypeInv, NEW p \in Procs, CommandStep(p)
    PROVE  Elsewhere(p) /\ UNCHANGED observations
<1>1. /\ "commands" \notin Looking /\ "dispatch" \notin Looking /\ "applied" \notin Looking
      /\ "persist" \notin Looking /\ "apply" \notin Looking
  BY DEF Looking
<1>2. UNCHANGED observations
  BY DEF CommandStep, RecoverPendingCommand, CommandApplied, PrimeSubmit, PersistCommand,
         ApplyCommand, effectVars
<1>3. CASE RecoverPendingCommand(p)
  <2>1. CASE Goto(p, "dispatch", [NoRegisters EXCEPT !.at = Len(journal)])
             \/ Goto(p, "commands", [reg[p] EXCEPT !.row = @ + 1])
    BY <1>2, <1>1, <2>1, GotoElsewhere
  <2>2. CASE /\ ~(reg[p].row > reg[p].rows)
             /\ ApplyPersistedCommand(p, commands[reg[p].row])
    <3>1. reg[p] \in Registers /\ Holds("commands", reg[p], Len(journal), Len(commands))
          /\ commands \in Seq(Commands) /\ Len(commands) \in Nat
      BY <1>3 DEF RecoverPendingCommand, TypeInv, StoreTypes, Control
    <3>2. reg[p].row \in 1..Len(commands)
      BY <2>2, <3>1 DEF Holds, Registers
    <3>3. commands[reg[p].row] \in Commands
      BY <3>1, <3>2
    <3> QED
      BY <1>2, <2>2, <3>3, ApplyPersistedCommandElsewhere
  <2> QED
    BY <1>2, <1>3, <2>1, <2>2 DEF RecoverPendingCommand
<1>4. CASE CommandApplied(p) \/ PrimeSubmit(p) \/ PersistCommand(p)
  BY <1>2, <1>1, <1>4, GotoElsewhere, StopElsewhere DEF CommandApplied, PrimeSubmit, PersistCommand
<1>5. CASE ApplyCommand(p)
  <2>1. reg[p].cmd \in Commands
    BY DEF TypeInv, Control, Registers
  <2> QED
    BY <1>2, <1>1, <1>5, <2>1, GotoElsewhere, ApplyPersistedCommandElsewhere DEF ApplyCommand
<1> QED
  BY <1>2, <1>3, <1>4, <1>5 DEF CommandStep

LEMMA StartElsewhere ==
    ASSUME TypeInv, NEW p \in Procs, StartSweep(p) \/ StartSubmit(p) \/ Crash(p)
    PROVE  Elsewhere(p) /\ UNCHANGED observations
<1>1. "rebuild" \notin Looking /\ "activate" \notin Looking /\ "prime" \notin Looking
      /\ "persist" \notin Looking
  BY DEF Looking
<1>2. CASE StartSweep(p)
  <2>1. reg = [reg EXCEPT ![p] = reg[p]]
    BY DEF TypeInv, Control
  <2>2. \E label : label \notin Looking /\ pc' = [pc EXCEPT ![p] = label]
    BY <1>1, <1>2 DEF StartSweep
  <2> QED
    BY <1>2, <2>1, <2>2 DEF StartSweep, Elsewhere, effectVars
<1>3. CASE StartSubmit(p)
  BY <1>1, <1>3, GotoElsewhere, EnsureCheckpointElsewhere DEF StartSubmit, effectVars
<1>4. CASE Crash(p)
  BY <1>4, StopElsewhere DEF Crash, effectVars
<1> QED
  BY <1>2, <1>3, <1>4

LEMMA SweepStepElsewhere ==
    ASSUME TypeInv, NEW p \in Procs, SweepStep(p)
    PROVE  Elsewhere(p) /\ UNCHANGED observations
<1>1. /\ "rebuild" \notin Looking /\ "sync" \notin Looking /\ "pending" \notin Looking
      /\ "commands" \notin Looking /\ "sla" \notin Looking /\ "process" \notin Looking
      /\ "reconciled" \notin Looking /\ "intent" \notin Looking /\ "finish" \notin Looking
      /\ "expire" \notin Looking
  BY DEF Looking
<1>2. UNCHANGED observations
  BY DEF SweepStep, ActivateCase, RecoverWorkflow, ReadPendingCommands, Dispatch,
         RecordSlaExpiry, ExpireSla, FinishSweep, effectVars
<1>3. CASE ActivateCase(p) \/ ReadPendingCommands(p) \/ RecordSlaExpiry(p) \/ FinishSweep(p)
  BY <1>2, <1>1, <1>3, GotoElsewhere, StopElsewhere
  DEF ActivateCase, ReadPendingCommands, RecordSlaExpiry, FinishSweep
<1>4. CASE RecoverWorkflow(p)
  BY <1>2, <1>1, <1>4, GotoElsewhere, StopElsewhere, EnsureCheckpointElsewhere DEF RecoverWorkflow
<1>5. CASE Dispatch(p)
  BY <1>2, <1>1, <1>5, GotoElsewhere DEF Dispatch
<1>6. CASE ExpireSla(p)
  BY <1>2, <1>6, TransitionElsewhere DEF ExpireSla
<1> QED
  BY <1>2, <1>3, <1>4, <1>5, <1>6 DEF SweepStep

LEMMA QuietEffectElsewhere ==
    ASSUME NEW p \in Procs,
           \/ EnsureIntent(p) \/ MarkIntent(p) \/ RecordCompletion(p) \/ BlockEffect(p)
           \/ MarkCompletion(p) \/ NextEffect(p) \/ FinishReconciliation(p)
    PROVE  Elsewhere(p) /\ UNCHANGED observations
<1>1. /\ "mark" \notin Looking /\ "process" \notin Looking /\ "driven" \notin Looking
      /\ "reconciled" \notin Looking /\ "intent" \notin Looking /\ "finish" \notin Looking
      /\ "next" \notin Looking
  BY DEF Looking
<1>2. UNCHANGED observations
  BY DEF EnsureIntent, MarkIntent, RecordCompletion, BlockEffect, MarkCompletion, NextEffect,
         FinishReconciliation, effectVars
<1>3. CASE EnsureIntent(p) \/ RecordCompletion(p)
  BY <1>2, <1>1, <1>3, GotoElsewhere, StopElsewhere DEF EnsureIntent, RecordCompletion
<1>4. CASE MarkIntent(p) \/ MarkCompletion(p)
  BY <1>2, <1>1, <1>4, EnsureCheckpointElsewhere DEF MarkIntent, MarkCompletion
<1>5. CASE BlockEffect(p)
  BY <1>2, <1>1, <1>5, EnterReconciliationElsewhere DEF BlockEffect
<1>6. CASE NextEffect(p) \/ FinishReconciliation(p)
  BY <1>2, <1>1, <1>6, GotoElsewhere, TransitionElsewhere DEF NextEffect, FinishReconciliation
<1> QED
  BY <1>2, <1>3, <1>4, <1>5, <1>6

(* The steps that hold an answer.                                          *)
LEMMA LooksOn ==
    ASSUME TypeInv, LookInv, NEW p \in Procs, NEW label, NEW r, Goto(p, label, r),
           observations \subseteq observations', LookedUp(label, r, observations')
    PROVE  LookInv'
<1> SUFFICES ASSUME NEW q \in Procs PROVE LookedUp(pc'[q], reg'[q], observations')
  BY DEF LookInv
<1>1. CASE q = p
  BY <1>1 DEF Goto, TypeInv, Control
<1>2. CASE q # p
  <2>1. pc'[q] = pc[q] /\ reg'[q] = reg[q] /\ LookedUp(pc[q], reg[q], observations)
    BY <1>2 DEF Goto, TypeInv, Control, LookInv
  <2> QED
    BY <2>1 DEF LookedUp
<1> QED
  BY <1>1, <1>2

LEMMA ProcessIntentLooks ==
    ASSUME TypeInv, LookInv, NEW p \in Procs, ProcessIntent(p) PROVE LookInv'
<1>1. UNCHANGED observations /\ reg[p] \in Registers
  BY DEF ProcessIntent, effectVars, TypeInv, Control
<1>2. CASE Goto(p, IF reg[p].driving THEN "driven" ELSE "reconciled", reg[p])
  BY <1>1, <1>2, GotoElsewhere, ElsewhereLooks DEF Looking
<1>3. CASE Goto(p, "observe", [reg[p] EXCEPT !.out = Reconciled(reg[p].op), !.phase = "reconcile"])
  <2> DEFINE r == [reg[p] EXCEPT !.out = Reconciled(reg[p].op), !.phase = "reconcile"]
  <2>1. r.out = Reconciled(reg[p].op) /\ r.phase = "reconcile"
    BY <1>1 DEF Registers
  <2>2. Reconciled(reg[p].op).status = "absent" => Reconciled(reg[p].op).version = 0
    BY DEF Reconciled
  <2> HIDE DEF r
  <2>3. LookedUp("observe", r, observations)
    BY <2>1, <2>2 DEF LookedUp
  <2> QED
    BY <1>1, <1>3, <2>3, LooksOn DEF r
<1>4. CASE Goto(p, "observe", [reg[p] EXCEPT !.out = NoOutcome, !.phase = "reconcile-timeout"])
  <2> DEFINE r == [reg[p] EXCEPT !.out = NoOutcome, !.phase = "reconcile-timeout"]
  <2>1. r.out = NoOutcome /\ NoOutcome.status # "absent"
    BY <1>1 DEF Registers, NoOutcome
  <2> HIDE DEF r
  <2>2. LookedUp("observe", r, observations)
    BY <2>1 DEF LookedUp
  <2> QED
    BY <1>1, <1>4, <2>2, LooksOn DEF r
<1> QED
  BY <1>2, <1>3, <1>4 DEF ProcessIntent

LEMMA RecordObservationLooks ==
    ASSUME TypeInv, LookInv, NEW p \in Procs, RecordObservation(p) PROVE LookInv'
<1> DEFINE row == [op |-> reg[p].op, phase |-> reg[p].phase, status |-> reg[p].out.status,
                   version |-> reg[p].out.version]
           label == AfterObservation(reg[p])
<1>1. observations' = observations \cup {row} /\ Goto(p, label, reg[p]) /\ pc[p] = "observe"
  BY DEF RecordObservation
<1>2. LookedUp("observe", reg[p], observations)
  BY <1>1 DEF LookInv
<1>3. label # "observe" /\ (label = "execute" => reg[p].out.status = "absent")
  <2>1. CASE reg[p].out.status = "present"
    BY <2>1 DEF AfterObservation
  <2>2. CASE reg[p].out.status = "absent"
    BY <2>2 DEF AfterObservation
  <2>3. CASE reg[p].out.status \notin {"present", "absent"}
    BY <2>3 DEF AfterObservation
  <2> QED
    BY <2>1, <2>2, <2>3
<1>4. LookedUp(label, reg[p], observations')
  <2> HIDE DEF label
  <2> QED
    BY <1>1, <1>2, <1>3 DEF LookedUp
<1> QED
  BY <1>1, <1>4, LooksOn

LEMMA ExecuteIntentLooks ==
    ASSUME TypeInv, LookInv, NEW p \in Procs, ExecuteIntent(p) PROVE LookInv'
<1>1. UNCHANGED observations /\ reg[p] \in Registers
  BY DEF ExecuteIntent, TypeInv, Control
<1>2. PICK status, version :
         /\ status # "absent"
         /\ Goto(p, "observe", [reg[p] EXCEPT !.phase = "execute",
                        !.out = [status |-> status, version |-> version]])
  BY DEF ExecuteIntent
<1> DEFINE r == [reg[p] EXCEPT !.phase = "execute",
                        !.out = [status |-> status, version |-> version]]
<1>3. r.out.status # "absent"
  BY <1>1, <1>2 DEF Registers
<1> HIDE DEF r
<1>4. LookedUp("observe", r, observations)
  BY <1>3 DEF LookedUp
<1> QED
  BY <1>1, <1>2, <1>4, LooksOn DEF r

LEMMA LookInvNext ==
    ASSUME TypeInv, LookInv, [Next]_vars PROVE LookInv'
<1>1. CASE UNCHANGED vars \/ DeadlinePasses
  BY <1>1 DEF vars, DeadlinePasses, effectVars, LookInv
<1>2. ASSUME NEW p \in Procs, StartSweep(p) \/ StartSubmit(p) \/ Crash(p) PROVE LookInv'
  BY <1>2, StartElsewhere, ElsewhereLooks
<1>3. ASSUME NEW p \in Procs, JournalStep(p) \/ CommandStep(p) \/ SweepStep(p) PROVE LookInv'
  BY <1>3, JournalStepElsewhere, CommandStepElsewhere, SweepStepElsewhere, ElsewhereLooks
<1>4. ASSUME NEW p \in Procs, EffectStep(p) PROVE LookInv'
  BY <1>4, QuietEffectElsewhere, ElsewhereLooks, ProcessIntentLooks, RecordObservationLooks,
     ExecuteIntentLooks DEF EffectStep
<1> QED
  BY <1>1, <1>2, <1>3, <1>4 DEF Next, Step

LEMMA LookInvAlways == Spec => []LookInv
<1>1. Init => LookInv
  BY DEF Init, LookInv, LookedUp
<1> QED
  BY <1>1, LookInvNext, TypeInvAlways, PTL DEF Spec

(* Only _execute_intent writes an operation row, where the ticket is as an *)
(* answer "absent" says.                                                   *)
LEMMA ExecutedIsAbsent ==
    ASSUME IInv, NEW p \in Procs, ExecuteIntent(p), NEW op \in Operations,
           operations'[op] # operations[op]
    PROVE  op = reg[p].op /\ Reconciled(op).status = "absent"
<1>1. operations \in [Operations -> Nat] /\ TicketShape /\ reg[p].op \in Operations
  BY KnowledgeInHand DEF IInv, EffectInv, TypeInv, StoreTypes, Control, Registers
<1>2. op = reg[p].op /\ operations[op] = 0
  BY <1>1 DEF ExecuteIntent
<1>3. CASE op = FIND_OR_CREATE
  <2>1. ticket = <<>>
    BY <1>2, <1>3 DEF IInv, EffectInv, TicketShape
  <2> QED
    BY <1>2, <1>3, <2>1 DEF Reconciled
<1>4. CASE op = WORKFLOW_HANDOFF
  <2>1. ticket # <<>> /\ Len(ticket) = ExpectedHandoffVersion /\ op # FIND_OR_CREATE
    BY <1>1, <1>2, <1>4 DEF ExecuteIntent, FIND_OR_CREATE, WORKFLOW_HANDOFF
  <2>2. Len(ticket) > 0
    BY <1>1, <2>1 DEF TicketShape
  <2> QED
    BY <1>2, <2>1, <2>2 DEF Reconciled
<1> QED
  BY <1>2, <1>3, <1>4 DEF Operations

LEMMA OnlyKnownAbsent ==
    ASSUME IInv, LookInv, [Next]_vars PROVE ExecutesOnlyKnownAbsent
<1> SUFFICES ASSUME NEW op \in Operations, operations'[op] # operations[op]
             PROVE  KnownAbsent(op)
  BY DEF ExecutesOnlyKnownAbsent
<1>1. PICK p \in Procs : ExecuteIntent(p)
  <2>1. CASE UNCHANGED vars \/ DeadlinePasses
    BY <2>1 DEF vars, DeadlinePasses, effectVars
  <2>2. ASSUME NEW p \in Procs, StartSweep(p) \/ StartSubmit(p) \/ Step(p) \/ Crash(p)
        PROVE  ExecuteIntent(p)
    <3>1. CASE EnsureIntent(p) \/ RecordCompletion(p)
      BY <3>1 DEF EnsureIntent, RecordCompletion
    <3>2. UNCHANGED coreVars => FALSE
      BY DEF coreVars
    <3> QED
      BY <2>2, <3>1, <3>2, QuietSteps DEF Step, EffectStep
  <2> QED
    BY <2>1, <2>2 DEF Next
<1>2. LookedUp("execute", reg[p], observations)
  BY <1>1 DEF LookInv, ExecuteIntent
<1>3. op = reg[p].op /\ Reconciled(op).status = "absent"
  BY <1>1, ExecutedIsAbsent
<1> QED
  BY <1>2, <1>3 DEF LookedUp, KnownAbsent

-----------------------------------------------------------------------------
(* Where calls follow one another, a sweep that drives an effect from      *)
(* RECEIVED knows that it does, and every way to its end has left RECEIVED *)
(* before.                                                                 *)
Rest(label, r, state) ==
    /\ label = "finish" => ~Runnable(state)
    /\ label \in {"sync", "event"} /\ r.cont = "finish" => state # RECEIVED
    /\ label = "append" =>
          /\ r.cont = "finish" => r.want.state # RECEIVED /\ r.ret = "sync"
          /\ r.ret \in {"process", "next"} => r.driving
    /\ label \in {"intent", "mark", "block", "driven", "next"} => r.driving
    /\ label \in Effecting \cup {"reconciled"} => r.driving \/ state # RECEIVED

RestInv == \A p \in Procs : Rest(pc[p], reg[p], Latest.state)

LEMMA MoveRests ==
    ASSUME Serialized, IInv, CallInv, NEW p \in Procs, AtWork(p),
           NEW label, NEW r, Rest(label, r, Latest'.state), Goto(p, label, r)
    PROVE  RestInv'
<1>1. pc' = [pc EXCEPT ![p] = label] /\ pc'[p] = label /\ reg'[p] = r /\ TypeInv
  BY DEF Goto, IInv, TypeInv, Control
<1>2. \A q \in Procs : q # p => pc'[q] = "idle"
  BY <1>1, OneAtATimeKept DEF CallInv
<1> SUFFICES ASSUME NEW q \in Procs PROVE Rest(pc'[q], reg'[q], Latest'.state)
  BY DEF RestInv
<1>3. CASE q = p
  BY <1>1, <1>3 DEF Rest
<1>4. CASE q # p
  BY <1>2, <1>4 DEF Rest, Effecting
<1> QED
  BY <1>3, <1>4

LEMMA QuietRests ==
    ASSUME Serialized, IInv, CallInv, NEW p \in Procs, AtWork(p), UNCHANGED journal,
           NEW label, NEW r, Rest(label, r, Latest.state), Goto(p, label, r)
    PROVE  RestInv'
<1>1. Rest(label, r, Latest'.state)
  BY DEF Rest, Latest
<1> QED
  BY <1>1, MoveRests

LEMMA StopRests ==
    ASSUME Serialized, IInv, CallInv, NEW p \in Procs, AtWork(p), NEW outcome, Stop(p, outcome)
    PROVE  RestInv'
<1>1. pc' = [pc EXCEPT ![p] = "idle"] /\ pc'[p] = "idle" /\ TypeInv
  BY DEF Stop, IInv, TypeInv, Control
<1>2. \A q \in Procs : pc'[q] = "idle"
  BY <1>1, OneAtATimeKept DEF CallInv
<1> QED
  BY <1>2 DEF RestInv, Rest, Effecting

LEMMA EnsureCheckpointRests ==
    ASSUME Serialized, IInv, CallInv, NEW p \in Procs, AtWork(p), UNCHANGED journal,
           NEW r \in Registers, NEW want \in Checkpoints,
           NEW ret \in {"sync", "process", "next", "prime"}, NEW cont \in Continuations,
           cont = "finish" => want.state # RECEIVED /\ ret = "sync",
           ret \in {"process", "next"} => r.driving,
           EnsureCheckpoint(p, r, want, ret, cont)
    PROVE  RestInv'
<1> DEFINE prev == Len(journal)
<1>1. prev \in Nat
  BY DEF IInv, TypeInv, StoreTypes
<1>2. CASE Stop(p, "workflow_checkpoint_effect_overlap")
           \/ Stop(p, "workflow_checkpoint_predecessor_invalid")
  BY <1>2, StopRests
<1>3. CASE journal[prev] = want /\ Goto(p, ret, [r EXCEPT !.at = prev, !.cont = cont])
  <2> DEFINE s == [r EXCEPT !.at = prev, !.cont = cont]
  <2>1. s.cont = cont /\ s.driving = r.driving /\ Latest = want
    BY <1>3 DEF Registers, Latest
  <2> HIDE DEF s
  <2>2. Rest(ret, s, Latest.state)
    BY <2>1 DEF Rest, Effecting
  <2> QED
    BY <1>3, <2>2, QuietRests DEF s
<1>4. CASE Goto(p, "append", [r EXCEPT !.base = prev, !.want = want,
                                       !.ret = ret, !.cont = cont])
  <2> DEFINE s == [r EXCEPT !.base = prev, !.want = want, !.ret = ret, !.cont = cont]
  <2>1. s.cont = cont /\ s.driving = r.driving /\ s.want = want /\ s.ret = ret
    BY DEF Registers
  <2> HIDE DEF s
  <2>2. Rest("append", s, Latest.state)
    BY <2>1 DEF Rest, Effecting
  <2> QED
    BY <1>4, <2>2, QuietRests DEF s
<1> QED
  BY <1>2, <1>3, <1>4 DEF EnsureCheckpoint

LEMMA TransitionRests ==
    ASSUME Serialized, IInv, CallInv, NEW p \in Procs, AtWork(p), UNCHANGED journal,
           NEW r \in Registers, NEW kind \in Kinds, NEW next, NEW resume \in WORKFLOW_STATES,
           NEW cause \in Causes, NEW pending \in SUBSET Operations,
           NEW completed \in SUBSET Operations, NEW cont \in Continuations,
           cont = "finish" => next # RECEIVED,
           Transition(p, r, kind, next, resume, cause, pending, completed, cont)
    PROVE  RestInv'
<1> DEFINE want == [state |-> next, resume |-> resume, pending |-> pending,
                    completed |-> completed, cause |-> cause, kind |-> kind]
<1>1. CASE next \in WORKFLOW_STATES /\ EnsureCheckpoint(p, r, want, "sync", cont)
  <2>1. want \in Checkpoints /\ want.state = next
    BY <1>1 DEF Checkpoints
  <2> HIDE DEF want
  <2> QED
    BY <1>1, <2>1, EnsureCheckpointRests
<1>2. CASE Stop(p, "workflow_transition_not_allowed")
  BY <1>2, StopRests
<1> QED
  BY <1>1, <1>2, AllowedStates DEF Transition

LEMMA EnterReconciliationRests ==
    ASSUME Serialized, IInv, CallInv, NEW p \in Procs, AtWork(p), UNCHANGED journal,
           journal # <<>>, NEW r \in Registers, r.at = Len(journal),
           NEW cause \in Causes, NEW cont \in {"applied", "finish"},
           EnterReconciliation(p, r, cause, cont)
    PROVE  RestInv'
<1>1. /\ Latest \in Checkpoints /\ Unresolved \in SUBSET Operations
      /\ Completed \in SUBSET Operations /\ Latest = journal[r.at]
  BY OnRecord DEF Latest
<1>2. Latest.state \in WORKFLOW_STATES /\ RECONCILIATION_REQUIRED \in Kinds
      /\ NEEDS_RECONCILIATION # RECEIVED /\ cont \in Continuations
  BY <1>1 DEF Checkpoints, Kinds, WORKFLOW_TRANSITION_KINDS, NEEDS_RECONCILIATION, RECEIVED,
     Continuations
<1>3. CASE Latest.state = NEEDS_RECONCILIATION /\ Goto(p, cont, r)
  <2>1. Rest(cont, r, Latest.state)
    BY <1>2, <1>3 DEF Rest, Runnable, Effecting
  <2> QED
    BY <1>3, <2>1, QuietRests
<1>4. CASE Transition(p, r, RECONCILIATION_REQUIRED, NEEDS_RECONCILIATION, Latest.state, cause,
                      Unresolved, Completed, cont)
  BY <1>1, <1>2, <1>4, TransitionRests
<1> QED
  BY <1>1, <1>3, <1>4 DEF EnterReconciliation

LEMMA ApplyPersistedCommandRests ==
    ASSUME Serialized, IInv, CallInv, NEW p \in Procs, AtWork(p), UNCHANGED journal,
           journal # <<>>, NEW c \in Commands, ApplyPersistedCommand(p, c)
    PROVE  RestInv'
<1> DEFINE r == [reg[p] EXCEPT !.at = Len(journal)]
           apply(kind, next, resume) ==
              Transition(p, r, kind, next, resume, CommandCause(c.id),
                         Latest.pending, Latest.completed, "applied")
<1>1. Len(journal) \in Nat /\ reg[p] \in Registers
  BY DEF IInv, TypeInv, StoreTypes, Control
<1>2. r \in Registers /\ r.at = Len(journal)
  BY <1>1 DEF Registers
<1>3. /\ Latest.state \in WORKFLOW_STATES /\ ResumeTarget(Latest) \in WORKFLOW_STATES
      /\ Latest.pending \in SUBSET Operations /\ Latest.completed \in SUBSET Operations
  BY OnRecord DEF Checkpoints, ResumeTarget
<1>4. CommandCause(c.id) \in Causes /\ "applied" \in Continuations /\ "applied" # "finish"
      /\ CANCELLED \in WORKFLOW_STATES
  BY DEF CommandCause, Causes, Commands, Continuations, WORKFLOW_STATES
<1>5. PAUSE \in Kinds /\ RESUME \in Kinds /\ CANCEL \in Kinds
  BY DEF Kinds, WORKFLOW_TRANSITION_KINDS
<1> HIDE DEF r
<1>6. ASSUME NEW kind \in Kinds, NEW next, NEW resume \in WORKFLOW_STATES,
             apply(kind, next, resume)
      PROVE  RestInv'
  BY <1>2, <1>3, <1>4, <1>6, TransitionRests
<1>7. CASE EnterReconciliation(p, r, CommandCause(c.id), "applied")
  BY <1>2, <1>4, <1>7, EnterReconciliationRests
<1>8. CASE Goto(p, "applied", r)
  <2>1. Rest("applied", r, Latest.state)
    BY DEF Rest, Effecting
  <2> QED
    BY <1>8, <2>1, QuietRests
<1>9. CASE Stop(p, "workflow_command_recovery_conflict")
  BY <1>9, StopRests
<1>10. CASE \/ apply(PAUSE, PAUSED, Latest.state)
            \/ apply(RESUME, ResumeTarget(Latest), ResumeTarget(Latest))
            \/ apply(CANCEL, CANCELLED, CANCELLED)
  BY <1>3, <1>4, <1>5, <1>6, <1>10
<1>11. c.type = PAUSE \/ c.type = RESUME \/ c.type = CANCEL
  BY DEF Commands
<1> QED
  <2> HIDE DEF apply
  <2>1. CASE c.type = PAUSE
    BY <2>1, <1>9, <1>10 DEF ApplyPersistedCommand, r, apply, PAUSE, RESUME, CANCEL
  <2>2. CASE c.type = RESUME
    BY <2>2, <1>9, <1>10 DEF ApplyPersistedCommand, r, apply, PAUSE, RESUME, CANCEL
  <2>3. CASE c.type = CANCEL
    BY <2>3, <1>7, <1>8, <1>9, <1>10 DEF ApplyPersistedCommand, r, apply, PAUSE, RESUME, CANCEL
  <2> QED
    BY <1>11, <2>1, <2>2, <2>3

(* At these labels nothing is asked of a process.                          *)
LEMMA PlainRest ==
    ASSUME NEW r,
           NEW label \in {"idle", "activate", "rebuild", "pending", "commands", "applied",
                          "dispatch", "sla", "expire", "prime", "persist", "apply"}
    PROVE  Rest(label, r, Latest.state)
BY DEF Rest, Effecting

LEMMA AppendCheckpointRests ==
    ASSUME Serialized, IInv, CallInv, RestInv, NEW p \in Procs, AppendCheckpoint(p) PROVE RestInv'
<1> DEFINE s == [reg[p] EXCEPT !.at = Len(journal'), !.base = 0, !.want = NoRegisters.want,
                               !.ret = "idle"]
<1>1. /\ reg[p] \in Registers /\ AtWork(p) /\ reg[p].base = Len(journal)
      /\ Rest("append", reg[p], Latest.state) /\ Goto(p, reg[p].ret, s)
  BY CallInHand DEF AppendCheckpoint, AppendRow, InCall, RestInv
<1>2. reg[p].want \in Checkpoints /\ journal \in Seq(Checkpoints) /\ Len(journal) \in Nat
      /\ reg[p].ret \in Returns
  BY <1>1 DEF Registers, IInv, TypeInv, StoreTypes, Control, Holds
<1>3. journal' = Append(journal, reg[p].want)
  BY <1>1, <1>2 DEF AppendCheckpoint, AppendRow
<1>4. Latest' = reg[p].want
  <2> HIDE DEF Checkpoints
  <2>1. Len(journal') = Len(journal) + 1 /\ journal'[Len(journal) + 1] = reg[p].want
    BY <1>2, <1>3
  <2> QED
    BY <2>1 DEF Latest
<1>5. s.cont = reg[p].cont /\ s.driving = reg[p].driving
  BY <1>1 DEF Registers
<1> HIDE DEF s
<1>6. Rest(reg[p].ret, s, Latest'.state)
  <2>1. CASE reg[p].ret \in {"idle", "prime"}
    BY <2>1 DEF Rest, Effecting
  <2>2. CASE reg[p].ret = "sync"
    BY <1>1, <1>4, <1>5, <2>2 DEF Rest, Effecting, s
  <2>3. CASE reg[p].ret \in {"process", "next"}
    BY <1>1, <1>5, <2>3 DEF Rest, Effecting, s
  <2> QED
    BY <1>2, <2>1, <2>2, <2>3 DEF Returns
<1> QED
  BY <1>1, <1>6, MoveRests

LEMMA EventStepRests ==
    ASSUME Serialized, IInv, CallInv, RestInv, NEW p \in Procs,
           SyncCaseState(p) \/ AppendWorkflowStateEvent(p)
    PROVE  RestInv'
<1>1. /\ reg[p] \in Registers /\ AtWork(p) /\ UNCHANGED journal /\ Rest(pc[p], reg[p], Latest.state)
      /\ pc[p] \in {"sync", "event"}
  BY CallInHand DEF SyncCaseState, ReadCaseState, AppendWorkflowStateEvent, AppendStateEvent,
     storeVars, RestInv
<1>2. reg[p].cont \in Continuations
  BY DEF IInv, TypeInv, Control, Holds
<1>3. ASSUME NEW r, Goto(p, reg[p].cont, r) PROVE RestInv'
  <2>1. Rest(reg[p].cont, r, Latest.state)
    BY <1>1, <1>2 DEF Rest, Continuations, Effecting, Runnable
  <2> QED
    BY <1>1, <1>3, <2>1, QuietRests
<1>4. CASE SyncCaseState(p)
  <2>1. ASSUME NEW from, Goto(p, "event", [reg[p] EXCEPT !.from = from]) PROVE RestInv'
    <3> DEFINE r == [reg[p] EXCEPT !.from = from]
    <3>1. r.cont = reg[p].cont
      BY <1>1 DEF Registers
    <3> HIDE DEF r
    <3>2. Rest("event", r, Latest.state)
      BY <1>1, <3>1 DEF Rest, Effecting
    <3> QED
      BY <1>1, <2>1, <3>2, QuietRests DEF r
  <2> QED
    BY <1>1, <1>3, <1>4, <2>1, StopRests DEF SyncCaseState, ReadCaseState
<1>5. CASE AppendWorkflowStateEvent(p)
  BY <1>1, <1>3, <1>5, StopRests DEF AppendWorkflowStateEvent, AppendStateEvent
<1> QED
  BY <1>4, <1>5

LEMMA CommandStepRests ==
    ASSUME Serialized, IInv, CallInv, RestInv, NEW p \in Procs, CommandStep(p) PROVE RestInv'
<1>1. /\ reg[p] \in Registers /\ AtWork(p) /\ UNCHANGED journal /\ journal # <<>>
      /\ commands \in Seq(Commands) /\ Len(commands) \in Nat /\ reg[p].cmd \in Commands
  <2>1. /\ pc[p] \in {"commands", "applied", "prime", "persist", "apply"}
        /\ UNCHANGED journal
    BY DEF CommandStep, RecoverPendingCommand, CommandApplied, PrimeSubmit, PersistCommand,
           ApplyCommand, storeVars
  <2>2. reg[p] \in Registers /\ AtWork(p) /\ journal # <<>>
    BY <2>1, CallInHand DEF Handless
  <2>3. reg[p].cmd \in Commands
    BY <2>2 DEF Registers
  <2>4. commands \in Seq(Commands) /\ Len(commands) \in Nat
    BY DEF IInv, TypeInv, StoreTypes
  <2> QED
    BY <2>1, <2>2, <2>3, <2>4
<1>2. CASE RecoverPendingCommand(p)
  <2>1. CASE Goto(p, "dispatch", [NoRegisters EXCEPT !.at = Len(journal)])
             \/ Goto(p, "commands", [reg[p] EXCEPT !.row = @ + 1])
    BY <1>1, <2>1, PlainRest, QuietRests
  <2>2. CASE /\ ~(reg[p].row > reg[p].rows)
             /\ ApplyPersistedCommand(p, commands[reg[p].row])
    <3>1. Holds("commands", reg[p], Len(journal), Len(commands))
      BY <1>2 DEF RecoverPendingCommand, IInv, TypeInv, Control
    <3>2. reg[p].row \in 1..Len(commands)
      BY <1>1, <2>2, <3>1 DEF Holds, Registers
    <3>3. commands[reg[p].row] \in Commands
      BY <1>1, <3>2
    <3> QED
      BY <1>1, <2>2, <3>3, ApplyPersistedCommandRests
  <2> QED
    BY <1>2, <2>1, <2>2 DEF RecoverPendingCommand
<1>3. CASE CommandApplied(p) \/ PrimeSubmit(p) \/ PersistCommand(p)
  BY <1>1, <1>3, PlainRest, QuietRests, StopRests DEF CommandApplied, PrimeSubmit, PersistCommand
<1>4. CASE ApplyCommand(p)
  BY <1>1, <1>4, PlainRest, QuietRests, ApplyPersistedCommandRests DEF ApplyCommand
<1> QED
  BY <1>2, <1>3, <1>4 DEF CommandStep

LEMMA StartRests ==
    ASSUME Serialized, IInv, CallInv, RestInv, NEW p \in Procs,
           StartSweep(p) \/ StartSubmit(p) \/ Crash(p)
    PROVE  RestInv'
<1>1. AtWork(p) /\ UNCHANGED journal /\ TypeInv
  BY DEF StartSweep, StartSubmit, Crash, AtWork, storeVars, IInv
<1>2. CASE StartSweep(p)
  <2>2. pc' = [pc EXCEPT ![p] = IF activated THEN "rebuild" ELSE "activate"] /\ UNCHANGED reg
    BY <1>2 DEF StartSweep
  <2>3. \A q \in Procs : q # p => pc'[q] = "idle"
    BY <1>1, <2>2, OneAtATimeKept DEF CallInv
  <2>4. pc'[p] \in {"rebuild", "activate"}
    BY <1>1, <2>2 DEF TypeInv, Control
  <2>5. \A q \in Procs : pc'[q] \in {"idle", "rebuild", "activate"}
    BY <2>3, <2>4
  <2> QED
    BY <2>5 DEF RestInv, Rest, Effecting
<1>3. CASE StartSubmit(p)
  <2> DEFINE r(cmd) == [NoRegisters EXCEPT !.cmd = cmd]
  <2>1. PICK cmd \in Commands :
          IF journal = <<>>
          THEN EnsureCheckpoint(p, r(cmd), FirstCheckpoint, "prime", "idle")
          ELSE Goto(p, "persist", [r(cmd) EXCEPT !.at = Len(journal)])
    BY <1>1, <1>3, SubmittedCommand
  <2>2. r(cmd) \in Registers
    BY ConstantTypes DEF Registers
  <2>3. FirstCheckpoint \in Checkpoints /\ "idle" \in Continuations
    BY ConstantTypes DEF Continuations
  <2> HIDE DEF r
  <2> QED
    BY <1>1, <2>1, <2>2, <2>3, EnsureCheckpointRests, PlainRest, QuietRests
<1>4. CASE Crash(p)
  BY <1>1, <1>4, StopRests DEF Crash
<1> QED
  BY <1>2, <1>3, <1>4

LEMMA SweepStepRests ==
    ASSUME Serialized, IInv, CallInv, RestInv, NEW p \in Procs, SweepStep(p) PROVE RestInv'
<1>1. /\ reg[p] \in Registers /\ AtWork(p) /\ UNCHANGED journal
      /\ pc[p] \notin Handless => journal # <<>>
      /\ pc[p] \in Fresh => Latest = journal[reg[p].at] /\ reg[p].at = Len(journal)
  BY CallInHand DEF SweepStep, ActivateCase, RecoverWorkflow, ReadPendingCommands, Dispatch,
     RecordSlaExpiry, ExpireSla, FinishSweep, storeVars
<1>2. CASE ActivateCase(p) \/ ReadPendingCommands(p) \/ RecordSlaExpiry(p) \/ FinishSweep(p)
  BY <1>1, <1>2, PlainRest, QuietRests, StopRests
  DEF ActivateCase, ReadPendingCommands, RecordSlaExpiry, FinishSweep
<1>3. CASE RecoverWorkflow(p)
  <2>1. FirstCheckpoint \in Checkpoints /\ "pending" \in Continuations
    BY ConstantTypes DEF Continuations
  <2> DEFINE r == [reg[p] EXCEPT !.at = Len(journal), !.cont = "pending"]
  <2>2. r.cont = "pending"
    BY <1>1 DEF Registers
  <2> HIDE DEF r
  <2>3. Rest("sync", r, Latest.state)
    BY <2>2 DEF Rest, Effecting
  <2> QED
    BY <1>1, <1>3, <2>1, <2>3, QuietRests, StopRests, EnsureCheckpointRests DEF RecoverWorkflow, r
<1>4. CASE Dispatch(p)
  <2> DEFINE c == journal[reg[p].at]
  <2>1. c = Latest
    BY <1>1, <1>4 DEF Dispatch, Fresh
  <2>2. CASE Goto(p, "sla", reg[p])
    BY <1>1, <2>2, PlainRest, QuietRests
  <2>3. CASE /\ c.state = NEEDS_RECONCILIATION
             /\ \/ \E op : Goto(p, "process", [reg[p] EXCEPT !.op = op])
                \/ Goto(p, "reconciled", reg[p])
    <3>1. Latest.state # RECEIVED
      BY <2>1, <2>3 DEF NEEDS_RECONCILIATION, RECEIVED
    <3>2. \A r : Rest("process", r, Latest.state) /\ Rest("reconciled", r, Latest.state)
      BY <3>1 DEF Rest, Effecting
    <3> QED
      BY <1>1, <2>3, <3>2, QuietRests
  <2>4. CASE Goto(p, "intent", [reg[p] EXCEPT !.op = FIND_OR_CREATE, !.driving = TRUE])
    <3> DEFINE r == [reg[p] EXCEPT !.op = FIND_OR_CREATE, !.driving = TRUE]
    <3>1. r.driving
      BY <1>1 DEF Registers
    <3> HIDE DEF r
    <3>2. Rest("intent", r, Latest.state)
      BY <3>1 DEF Rest, Effecting
    <3> QED
      BY <1>1, <2>4, <3>2, QuietRests DEF r
  <2>5. CASE ~Runnable(c.state) /\ Goto(p, "finish", NoRegisters)
    <3>1. Rest("finish", NoRegisters, Latest.state)
      BY <2>1, <2>5 DEF Rest, Effecting
    <3> QED
      BY <1>1, <2>5, <3>1, QuietRests
  <2> QED
    BY <1>4, <2>2, <2>3, <2>4, <2>5 DEF Dispatch
<1>5. CASE ExpireSla(p)
  <2>1. /\ Latest.pending \in SUBSET Operations /\ Latest.completed \in SUBSET Operations
        /\ Latest = journal[reg[p].at]
    BY <1>1, <1>5, OnRecord DEF ExpireSla, Fresh, Handless, Checkpoints
  <2>2. /\ SLA_EXPIRED \in Kinds /\ WAITING_FOR_OPERATOR \in WORKFLOW_STATES
        /\ WAITING_FOR_OPERATOR # RECEIVED /\ Cause("sla") \in Causes /\ "finish" \in Continuations
    BY DEF Kinds, WORKFLOW_TRANSITION_KINDS, WORKFLOW_STATES, WAITING_FOR_OPERATOR, RECEIVED,
           Cause, Causes, Continuations
  <2>3. Transition(p, reg[p], SLA_EXPIRED, WAITING_FOR_OPERATOR, WAITING_FOR_OPERATOR,
                   Cause("sla"), Latest.pending, Latest.completed, "finish")
    BY <1>5, <2>1 DEF ExpireSla
  <2> QED
    BY <1>1, <2>1, <2>2, <2>3, TransitionRests
<1> QED
  BY <1>2, <1>3, <1>4, <1>5 DEF SweepStep

(* A step from one effect label to the next keeps what the process drives. *)
LEMMA DrivingRests ==
    ASSUME NEW r, NEW s, NEW label, s.driving = r.driving,
           Rest("process", r, Latest.state), label \in Effecting \cup {"reconciled"}
    PROVE  Rest(label, s, Latest.state)
BY DEF Rest, Effecting

LEMMA ProgressRests ==
    ASSUME NEW op \in Operations, NEW by \in {"intent", "completion"}, NEW s \in WORKFLOW_STATES,
           IInv, CallInv
    PROVE  ProgressCheckpoint(s, EffectCause(by, op)) \in Checkpoints
BY OnRecord DEF ProgressCheckpoint, EffectCause, Checkpoints, Causes, Kinds

LEMMA EffectStepRests ==
    ASSUME Serialized, IInv, CallInv, RestInv, NEW p \in Procs, EffectStep(p) PROVE RestInv'
<1>1. /\ reg[p] \in Registers /\ AtWork(p) /\ UNCHANGED journal /\ journal # <<>>
      /\ Latest = journal[reg[p].at] /\ reg[p].at = Len(journal) /\ Rest(pc[p], reg[p], Latest.state)
  BY CallInHand DEF EffectStep, EnsureIntent, MarkIntent, ProcessIntent, RecordObservation,
     ExecuteIntent, RecordCompletion, BlockEffect, MarkCompletion, NextEffect,
     FinishReconciliation, storeVars, Handless, Fresh, RestInv
<1>2. Latest \in Checkpoints /\ Latest.state \in WORKFLOW_STATES /\ reg[p].op \in Operations
      /\ "finish" \in Continuations /\ "idle" \in Continuations /\ "dispatch" \in Continuations
  BY <1>1, OnRecord DEF Checkpoints, Registers, Continuations
<1>3. CASE EnsureIntent(p)
  <2>1. Rest("mark", reg[p], Latest.state)
    BY <1>1, <1>3 DEF EnsureIntent, Rest, Effecting
  <2> QED
    BY <1>1, <1>3, <2>1, QuietRests DEF EnsureIntent
<1>4. CASE MarkIntent(p)
  <2>1. reg[p].driving
    BY <1>1, <1>4 DEF MarkIntent, Rest
  <2> QED
    BY <1>1, <1>2, <1>4, <2>1, ProgressRests, EnsureCheckpointRests DEF MarkIntent
<1>5. CASE MarkCompletion(p)
  <2>1. reg[p].driving
    BY <1>1, <1>5 DEF MarkCompletion, Rest
  <2> QED
    BY <1>1, <1>2, <1>5, <2>1, ProgressRests, EnsureCheckpointRests DEF MarkCompletion
<1>6. CASE ProcessIntent(p) \/ ExecuteIntent(p) \/ RecordCompletion(p)
  <2>1. Rest("process", reg[p], Latest.state)
    BY <1>1, <1>6 DEF ProcessIntent, ExecuteIntent, RecordCompletion, Rest, Effecting
  <2>2. ASSUME NEW label \in Effecting \cup {"reconciled"}, NEW out, NEW phase,
               Goto(p, label, [reg[p] EXCEPT !.out = out, !.phase = phase])
        PROVE  RestInv'
    <3> DEFINE s == [reg[p] EXCEPT !.out = out, !.phase = phase]
    <3>1. s.driving = reg[p].driving
      BY <1>1 DEF Registers
    <3> HIDE DEF s
    <3>2. Rest(label, s, Latest.state)
      BY <2>1, <3>1, DrivingRests
    <3> QED
      BY <1>1, <2>2, <3>2, QuietRests DEF s
  <2>3. ASSUME NEW out, NEW phase, reg[p].driving,
               Goto(p, "driven", [reg[p] EXCEPT !.out = out, !.phase = phase])
        PROVE  RestInv'
    <3> DEFINE s == [reg[p] EXCEPT !.out = out, !.phase = phase]
    <3>1. s.driving = reg[p].driving
      BY <1>1 DEF Registers
    <3> HIDE DEF s
    <3>2. Rest("driven", s, Latest.state)
      BY <2>3, <3>1 DEF Rest, Effecting
    <3> QED
      BY <1>1, <2>3, <3>2, QuietRests DEF s
  <2>4. "observe" \in Effecting \cup {"reconciled"} /\ "reconciled" \in Effecting \cup {"reconciled"}
    BY DEF Effecting
  <2>5. CASE ProcessIntent(p)
    <3>1. CASE Goto(p, IF reg[p].driving THEN "driven" ELSE "reconciled", reg[p])
      <4>1. Rest(IF reg[p].driving THEN "driven" ELSE "reconciled", reg[p], Latest.state)
        BY <2>1 DEF Rest, Effecting
      <4> QED
        BY <1>1, <3>1, <4>1, QuietRests
    <3> QED
      BY <2>2, <2>4, <2>5, <3>1 DEF ProcessIntent
  <2>6. CASE ExecuteIntent(p)
    <3>1. PICK out, phase : Goto(p, "observe", [reg[p] EXCEPT !.phase = phase, !.out = out])
      BY <2>6 DEF ExecuteIntent
    <3>2. [reg[p] EXCEPT !.phase = phase, !.out = out] = [reg[p] EXCEPT !.out = out, !.phase = phase]
      BY <1>1 DEF Registers
    <3> QED
      BY <2>2, <2>4, <3>1, <3>2
  <2>7. CASE RecordCompletion(p)
    <3>1. CASE Goto(p, IF reg[p].driving THEN "driven" ELSE "reconciled",
                    [reg[p] EXCEPT !.out = NoOutcome, !.phase = "reconcile"])
      <4>1. CASE reg[p].driving
        BY <2>3, <3>1, <4>1
      <4>2. CASE ~reg[p].driving
        BY <2>2, <2>4, <3>1, <4>2
      <4> QED
        BY <4>1, <4>2
    <3> QED
      BY <1>1, <2>7, <3>1, StopRests DEF RecordCompletion
  <2> QED
    BY <1>6, <2>5, <2>6, <2>7
<1>7. CASE RecordObservation(p)
  <2>1. Rest("process", reg[p], Latest.state)
    BY <1>1, <1>7 DEF RecordObservation, Rest, Effecting
  <2>2. AfterObservation(reg[p]) \in
            {"complete", "execute"} \cup (IF reg[p].driving THEN {"block"} ELSE {"finish"})
    <3>1. CASE reg[p].out.status = "present"
      BY <3>1 DEF AfterObservation
    <3>2. CASE reg[p].out.status = "absent"
      BY <3>2 DEF AfterObservation
    <3>3. CASE reg[p].out.status \notin {"present", "absent"}
      BY <3>3 DEF AfterObservation
    <3> QED
      BY <3>1, <3>2, <3>3
  <2>3. Rest(AfterObservation(reg[p]), reg[p], Latest.state)
    BY <2>1, <2>2 DEF Rest, Effecting, Runnable
  <2> QED
    BY <1>1, <1>7, <2>3, QuietRests DEF RecordObservation
<1>8. CASE BlockEffect(p)
  <2>1. EffectCause("intent", reg[p].op) \in Causes
    BY <1>2 DEF EffectCause, Causes
  <2> QED
    BY <1>1, <1>8, <2>1, EnterReconciliationRests DEF BlockEffect
<1>9. CASE NextEffect(p)
  <2>1. CASE Goto(p, "intent", [reg[p] EXCEPT !.op = WORKFLOW_HANDOFF])
    <3> DEFINE s == [reg[p] EXCEPT !.op = WORKFLOW_HANDOFF]
    <3>1. s.driving = reg[p].driving
      BY <1>1 DEF Registers
    <3> HIDE DEF s
    <3>2. Rest("intent", s, Latest.state)
      BY <1>1, <1>9, <3>1 DEF NextEffect, Rest, Effecting
    <3> QED
      BY <1>1, <2>1, <3>2, QuietRests DEF s
  <2>2. CASE Transition(p, reg[p], TICKET_HANDOFF_COMPLETE, TICKET_READY, TICKET_READY,
                        Cause("handoff"), Latest.pending, Latest.completed, "finish")
    <3>1. /\ TICKET_HANDOFF_COMPLETE \in Kinds /\ TICKET_READY \in WORKFLOW_STATES
          /\ TICKET_READY # RECEIVED /\ Cause("handoff") \in Causes
      BY DEF Kinds, WORKFLOW_TRANSITION_KINDS, WORKFLOW_STATES, TICKET_READY, RECEIVED,
             Cause, Causes
    <3>2. Latest.pending \in SUBSET Operations /\ Latest.completed \in SUBSET Operations
      BY <1>2 DEF Checkpoints
    <3> QED
      BY <1>1, <1>2, <2>2, <3>1, <3>2, TransitionRests
  <2> QED
    BY <1>1, <1>9, <2>1, <2>2 DEF NextEffect
<1>10. CASE FinishReconciliation(p)
  <2>1. CASE Goto(p, "finish", NoRegisters)
    <3>1. Rest("reconciled", reg[p], Latest.state) /\ ~reg[p].driving
      BY <1>1, <1>10, CallInHand DEF FinishReconciliation, InCall
    <3>2. Rest("finish", NoRegisters, Latest.state)
      BY <3>1 DEF Rest, Effecting, Runnable
    <3> QED
      BY <1>1, <2>1, <3>2, QuietRests
  <2>2. CASE Transition(p, reg[p], RECONCILIATION_COMPLETE, Latest.resume, Latest.resume,
                        Cause("reconciliation"), {}, Completed, "dispatch")
    <3>1. /\ RECONCILIATION_COMPLETE \in Kinds /\ Cause("reconciliation") \in Causes
          /\ Latest.resume \in WORKFLOW_STATES /\ {} \in SUBSET Operations
          /\ Completed \in SUBSET Operations
      BY <1>2 DEF Kinds, WORKFLOW_TRANSITION_KINDS, Cause, Causes, Checkpoints, Completed
    <3> QED
      BY <1>1, <1>2, <2>2, <3>1, TransitionRests
  <2> QED
    BY <1>1, <1>10, <2>1, <2>2 DEF FinishReconciliation
<1> QED
  BY <1>3, <1>4, <1>5, <1>6, <1>7, <1>8, <1>9, <1>10 DEF EffectStep

LEMMA RestInvNext ==
    ASSUME Serialized, IInv, CallInv, RestInv, [Next]_vars PROVE RestInv'
<1>1. CASE UNCHANGED vars \/ DeadlinePasses
  BY <1>1 DEF vars, DeadlinePasses, storeVars, RestInv, Rest, Latest
<1>2. ASSUME NEW p \in Procs, StartSweep(p) \/ StartSubmit(p) \/ Step(p) \/ Crash(p)
      PROVE  RestInv'
  BY <1>2, StartRests, AppendCheckpointRests, EventStepRests, CommandStepRests, SweepStepRests,
     EffectStepRests DEF Step, JournalStep
<1> QED
  BY <1>1, <1>2 DEF Next

(* Where calls follow one another, an effect runs only on an absence that  *)
(* the process has looked up, has put on record and still finds, and a     *)
(* sweep that ends well has driven the effects to their end or has blocked *)
(* the workflow: _process_intent and _drive_effect after any answer, any   *)
(* timeout and any crash.                                                  *)
THEOREM UnknownOutcomesBlock ==
    ASSUME Serialized PROVE Spec => UnknownOutcomeBlocks
<1>1. Init => RestInv
  BY DEF Init, RestInv, Rest, Effecting
<1>2. IInv /\ CallInv /\ RestInv /\ [Next]_vars => RestInv'
  BY RestInvNext
<1>3. ASSUME RestInv PROVE NoSweepLeavesRunnable
  BY <1>3 DEF RestInv, Rest, NoSweepLeavesRunnable, Procs
<1>4. IInv /\ LookInv /\ RestInv /\ [Next]_vars
         => [ExecutesOnlyKnownAbsent /\ NoSweepLeavesRunnable]_vars
  BY <1>3, OnlyKnownAbsent
<1> QED
  BY <1>1, <1>2, <1>4, IInvAlways, CallInvAlways, LookInvAlways, PTL DEF Spec, UnknownOutcomeBlocks
=============================================================================
