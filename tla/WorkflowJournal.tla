--------------------------- MODULE WorkflowJournal ---------------------------
(***************************************************************************)
(* The checkpoint journal of one workflow and the Case events that follow  *)
(* it, as the handlers of SQLiteDurableWorkflow share them                 *)
(* (weflow_control_kernel/durable_workflow.py, ledger.py).  A transition   *)
(* is four steps: build the row on the checkpoint just read, append it in  *)
(* a transaction, read the Case state, append the Case event in another    *)
(* transaction.  A process may stop, or be overtaken, between any two.     *)
(* The operators say what happens to the journal and to the process; the   *)
(* module that uses them says what stays unchanged.                        *)
(***************************************************************************)
EXTENDS WorkflowState, Naturals, Sequences

CONSTANT NoRegisters   \* what a process holds between calls
VARIABLES
    journal,       \* workflow_checkpoints, in checkpoint_sequence order
    events,        \* workflow-originated business_events of the Case
    pc,            \* where each process is, "idle" between calls
    reg,           \* the values each process holds between transactions
    result         \* how the last call of each process ended

Latest    == journal[Len(journal)]
CaseState == IF events = <<>> THEN RECEIVED ELSE events[Len(events)].to

(* _validate_workflow_source on two neighbouring checkpoints: nothing      *)
(* complete is forgotten, and a new state is reached by an allowed step.   *)
ValidSuccessor(prev, next) ==
    /\ prev.completed \subseteq next.completed
    /\ \/ /\ next.state = prev.state
          /\ next.kind = "none"
          /\ next.resume = next.state
       \/ /\ next.state # prev.state
          /\ next.kind # "none"
          /\ TransitionAllowed(prev.state, next.kind, next.state, next.resume,
                               prev.pending # {})

-----------------------------------------------------------------------------
Goto(p, label, r) ==
    /\ pc' = [pc EXCEPT ![p] = label]
    /\ reg' = [reg EXCEPT ![p] = r]
    /\ UNCHANGED result

Stop(p, outcome) ==
    /\ pc' = [pc EXCEPT ![p] = "idle"]
    /\ reg' = [reg EXCEPT ![p] = NoRegisters]
    /\ result' = [result EXCEPT ![p] = outcome]

(* _ensure_checkpoint up to its transaction: the predecessor is read, an   *)
(* identical predecessor is reused, otherwise the row is built for the     *)
(* sequence after it.  ret is where the process goes on with the result.   *)
EnsureCheckpoint(p, r, want, ret, cont) ==
    LET prev == Len(journal)
        first == want.state = RECEIVED /\ want.resume = RECEIVED /\ want.kind = "none" IN
    IF want.pending \cap want.completed # {}
    THEN Stop(p, "workflow_checkpoint_effect_overlap")
    ELSE IF prev > 0 /\ journal[prev] = want
    THEN Goto(p, ret, [r EXCEPT !.at = prev, !.cont = cont])
    ELSE IF prev = 0 /\ ~first
    THEN Stop(p, "workflow_checkpoint_predecessor_invalid")
    ELSE Goto(p, "append", [r EXCEPT !.base = prev, !.want = want,
                                     !.ret = ret, !.cont = cont])

(* The transaction of _ensure_checkpoint.  When the sequence number was    *)
(* taken meanwhile, the caller gets the latest checkpoint instead.         *)
AppendRow(p) ==
    /\ pc[p] = "append"
    /\ journal' = IF Len(journal) > reg[p].base THEN journal
                  ELSE Append(journal, reg[p].want)
    /\ Goto(p, reg[p].ret, [reg[p] EXCEPT !.at = Len(journal'), !.base = 0,
                                          !.want = NoRegisters.want, !.ret = "idle"])
    /\ UNCHANGED events

(* _transition: validate against the checkpoint in hand, ensure the        *)
(* checkpoint, then bring the Case state along.                            *)
Transition(p, r, kind, next, resume, cause, pending, completed, cont) ==
    LET current == journal[r.at] IN
    IF TransitionAllowed(current.state, kind, next, resume, current.pending # {})
    THEN EnsureCheckpoint(p, r, [state |-> next, resume |-> resume, pending |-> pending,
                                 completed |-> completed, cause |-> cause, kind |-> kind],
                          "sync", cont)
    ELSE Stop(p, "workflow_transition_not_allowed")

(* _sync_case_state up to the ledger call.  The predecessor is the last    *)
(* checkpoint but one of the whole journal, not the one before reg.at.     *)
ReadCaseState(p) ==
    /\ pc[p] = "sync"
    /\ LET c == journal[reg[p].at]
           from == journal[Len(journal) - 1].state IN
       IF c.kind = "none" \/ CaseState = c.state
       THEN Goto(p, reg[p].cont, [reg[p] EXCEPT !.cont = "idle"])
       ELSE IF TransitionAllowed(from, c.kind, c.state, c.resume, FALSE)
       THEN Goto(p, "event", [reg[p] EXCEPT !.from = from])
       ELSE Stop(p, "workflow_transition_not_allowed")

(* SQLiteCaseLedger._append_workflow_state_event: the event and the Case   *)
(* projection change together.                                             *)
AppendStateEvent(p) ==
    /\ pc[p] = "event"
    /\ LET e == [at |-> reg[p].at, from |-> reg[p].from, to |-> journal[reg[p].at].state]
           known == {i \in 1..Len(events) : events[i].at = e.at} IN
       \/ /\ known # {}
          /\ UNCHANGED events
          /\ IF \A i \in known : events[i] = e
             THEN Goto(p, reg[p].cont, [reg[p] EXCEPT !.cont = "idle", !.from = RECEIVED])
             ELSE Stop(p, "workflow_event_conflict")
       \/ /\ known = {} /\ CaseState # e.from
          /\ UNCHANGED events
          /\ Stop(p, "workflow_event_predecessor_mismatch")
       \/ /\ known = {} /\ CaseState = e.from
          /\ events' = Append(events, e)
          /\ Goto(p, reg[p].cont, [reg[p] EXCEPT !.cont = "idle", !.from = RECEIVED])
    /\ UNCHANGED journal
=============================================================================
