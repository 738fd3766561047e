------------------------------- MODULE QQModel -------------------------------
(***************************************************************************)
(* The model-assisted QQ workflow (weflow_control_kernel/qq_model.py,      *)
(* weflow_agent_runtime/qq_model.py, weflow_control_worker/                *)
(* qq_model_runner.py).  The handler's workflow of QQHandler gains one     *)
(* private command: WF-ASSIST lets a bounded agent read the required       *)
(* evidence and propose a candidate.  Every provider call is bracketed by  *)
(* an intent and an observation, and usage is written in snapshots, so     *)
(* that a run which was cut off is picked up when its message is delivered *)
(* again.                                                                  *)
(*                                                                         *)
(* An assist is named by its message.  Tool t is the t-th one the task     *)
(* requires.  Of the usage only provider calls and tool reads are counted; *)
(* that tokens, cost or time run out is a choice.  Ways to stop safely     *)
(* differ only in their wording.  Left out: the private preview's record   *)
(* (written, never read), the limits on actions and on repeated actions    *)
(* (the call limit and the order of the tools stop the run first), and the *)
(* reports.  The issue passes the content checks of compile_context.       *)
(***************************************************************************)
EXTENDS QQHandler

CONSTANTS
    Required,       \* how many tools the task requires, and may read
    CallLimit,      \* provider_call_limit of the Case budget
    RetryLimit      \* retry_limit

ASSUME ModelAssumption ==
    Required \in Nat \ {0} /\ CallLimit \in Nat \ {0} /\ RetryLimit \in Nat

VARIABLES
    assist,         \* requests, contexts and outcomes, by message
    turn,           \* invocation intents and observations, by assist and turn
    action,         \* normalized actions
    evidence,       \* the tools whose results are stored, in order
    budgets,        \* qq_model_budget_snapshots in the order of writing
    bound,          \* candidate bindings and their lifecycle, by candidate
    calls,          \* outside: how often the provider was called for a turn
    agent           \* the runtime's local state, by runner

assistVars == <<assist, turn, action, evidence, budgets, calls>>
handlerVars == <<caseVars, replyVars, notice, sendVars, envVars>>
modelVars == <<vars, assistVars, bound, agent>>

Tools == 1..Required
Turns == 1..CallLimit
NoAction == <<"none", 0>>
Proposals == {<<"read", t>> : t \in Tools} \cup {<<"stop", 0>>, <<"candidate", 0>>}

NoAssist  == [version |-> 0, context |-> FALSE, outcome |-> "none"]
NoBudget  == [assist |-> 0, seq |-> 0, calls |-> 0, tools |-> 0]
NotBound  == [assist |-> 0, budget |-> NoBudget, life |-> "none"]
NoAgent   == [calls |-> 0, tools |-> 0, seen |-> <<>>, retries |-> 0, out |-> "none",
              did |-> NoAction]

ToolsOf(s) == {s[i] : i \in DOMAIN s}

-----------------------------------------------------------------------------
(* Usage.                                                                  *)

(* The record of _budget: what an assist has used, under a number.         *)
Usage(m, seq, used) == [assist |-> m, seq |-> seq, calls |-> used.calls, tools |-> used.tools]

(* append_budget: the first snapshot of an assist under a number stands.   *)
Snapshot(m, seq, used) ==
    budgets' = IF \E i \in DOMAIN budgets : budgets[i].assist = m /\ budgets[i].seq = seq
               THEN budgets ELSE Append(budgets, Usage(m, seq, used))

IsLatest(i) ==
    \A j \in DOMAIN budgets :
       budgets[j].assist = budgets[i].assist => budgets[j].seq <= budgets[i].seq

(* latest_budget                                                           *)
LatestBudget(m) ==
    LET rows == {i \in DOMAIN budgets : budgets[i].assist = m /\ IsLatest(i)} IN
    IF rows = {} THEN NoBudget ELSE budgets[CHOOSE i \in rows : TRUE]

(* Mutant: the other assist's first snapshot is taken for its latest.      *)
PriorUsageAtStart(m) ==
    LET rows == {i \in DOMAIN budgets :
                    /\ budgets[i].assist # m
                    /\ \A j \in DOMAIN budgets :
                          budgets[j].assist = budgets[i].assist => budgets[i].seq <= budgets[j].seq} IN
    IF rows = {} THEN NoBudget ELSE budgets[CHOOSE i \in rows : \A j \in rows : j <= i]

(* prior_case_budget_usage: the latest snapshot of another assist, of the  *)
(* one written last.                                                       *)
PriorUsage(m) ==
    LET rows == {i \in DOMAIN budgets : budgets[i].assist # m /\ IsLatest(i)} IN
    IF rows = {} THEN NoBudget ELSE budgets[CHOOSE i \in rows : \A j \in rows : j <= i]

-----------------------------------------------------------------------------
(* QQModelHandlerWorkflowService.handle_private_event                      *)

(* The agent takes its local state with it; nothing else moves.            *)
Keep(r) == agent' = [agent EXCEPT ![r] = NoAgent]

(* A draft is authorized before anything else is asked, so that a draft    *)
(* that is delivered again is refused and not answered again.              *)
ReceiveManual(r, m) ==
    /\ inbox[m].cmd # "assist"
    /\ IF pc[r] = "receive" /\ inbox[m].cmd = "draft" /\ ~Authorized(inbox[m].version)
       THEN Await(r) /\ UNCHANGED handlerVars
       ELSE ReceivePrivate(r, m)
    /\ UNCHANGED <<assistVars, bound, agent>>

ReceiveAssist(r, m) ==
    /\ pc[r] = "receive" /\ inbox[m].cmd = "assist"
    /\ LET known == command[m]
           regs  == [reg[r] EXCEPT !.msg = m, !.src = m, !.kind = "draft-preview"] IN
       IF ~BindingActive THEN Await(r) /\ UNCHANGED artifact
       ELSE IF known # NoCommand
       THEN Reading(r, Needed(known.kind, known.body),
                    Goto(r, "execute", [regs EXCEPT !.key = known.key, !.body = known.body]))
       ELSE Goto(r, "request", regs) /\ UNCHANGED artifact
    /\ UNCHANGED <<case, decision, movedBy, replyVars, notice, sendVars, envVars,
                   assistVars, bound, agent>>

(* create_assist_request: a known request is returned without asking for   *)
(* the version or the state of the Case again.                             *)
CreateAssistRequest(r) ==
    /\ pc[r] = "request"
    /\ LET m == reg[r].msg IN
       IF assist[m] # NoAssist THEN Goto(r, "resume", reg[r]) /\ UNCHANGED <<case, assist>>
       ELSE IF Authorized(inbox[m].version) /\ case.status = "ACCEPTED"
                  /\ <<"issue", 0>> \notin passed
       THEN /\ assist' = [assist EXCEPT ![m].version = inbox[m].version]
            /\ case' = [case EXCEPT !.status = "ASSIST_REQUESTED"]
            /\ Goto(r, "context", reg[r])
       ELSE Refused(r) /\ UNCHANGED <<case, assist>>
    /\ UNCHANGED <<artifact, decision, movedBy, replyVars, notice, sendVars, envVars, turn,
                   action, evidence, budgets, calls, bound, agent>>

(* current_model_binding                                                   *)
CurrentBinding ==
    LET live == {v \in Candidates : bound[v].life = "CURRENT"} IN
    IF live = {} THEN 0 ELSE CHOOSE v \in live : \A u \in live : u <= v

(* Mutant: the candidate the Case is at is taken for the assist's.         *)
CandidateOfCase(m) == case.candidate

(* candidate_binding_for_request                                           *)
CandidateOf(m) ==
    IF CurrentBinding # 0 /\ bound[CurrentBinding].assist = m THEN CurrentBinding ELSE 0

(* _recover_persisted_assist: what is settled is told again, under the     *)
(* version the Case has now; the rest is run again.                        *)
RecoverPersistedAssist(r) ==
    /\ pc[r] = "resume"
    /\ LET m    == reg[r].msg
           v    == CandidateOf(m)
           body == [NoBody EXCEPT !.version = case.version, !.candidate = v] IN
       CASE assist[m].outcome = "none" /\ v = 0 ->
              Goto(r, "context", reg[r]) /\ UNCHANGED artifact
         [] assist[m].outcome = "response_ready" /\ v = 0 ->
              Refused(r) /\ UNCHANGED artifact
         [] OTHER -> Reading(r, {v} \ {0}, Goto(r, "intent", [reg[r] EXCEPT !.body = body]))
    /\ UNCHANGED <<case, decision, movedBy, replyVars, notice, sendVars, envVars, assistVars,
                   bound, agent>>

(* compile_context up to its transaction: an issue that cannot be read     *)
(* stops the assist, a context on record is taken over.                    *)
CompileContext(r) ==
    /\ pc[r] = "context"
    /\ LET expired == <<"issue", 0>> \in passed IN
       /\ artifact' = IF expired THEN AllDeleted ELSE artifact
       /\ Goto(r, IF expired \/ artifact[0] # "reachable" THEN "stop"
                  ELSE IF assist[reg[r].msg].context THEN "start" ELSE "compile", reg[r])
    /\ UNCHANGED <<case, decision, movedBy, replyVars, notice, sendVars, envVars, assistVars,
                   bound, agent>>

(* Its transaction: a context recorded since then stands, but the Case is  *)
(* put under investigation again.                                          *)
RecordContext(r) ==
    /\ pc[r] = "compile"
    /\ assist' = [assist EXCEPT ![reg[r].msg].context = TRUE]
    /\ case' = [case EXCEPT !.status = "INVESTIGATING"]
    /\ Goto(r, "start", reg[r])
    /\ UNCHANGED <<artifact, decision, movedBy, replyVars, notice, sendVars, envVars, turn,
                   action, evidence, budgets, calls, bound, agent>>

-----------------------------------------------------------------------------
(* BoundedQQModelAssistRuntime                                             *)

Local(r, label, state) ==
    /\ Goto(r, label, reg[r])
    /\ agent' = [agent EXCEPT ![r] = state]
    /\ UNCHANGED <<handlerVars, bound, assist>>

Stopping(r, state) == Local(r, "finish", [state EXCEPT !.out = "stopped"])

(* run up to its loop; safe_stop starts from the same usage.               *)
StartAssist(r) ==
    /\ pc[r] \in {"start", "stop"}
    /\ LET m    == reg[r].msg
           used == PriorUsage(m)
           mine == [NoAgent EXCEPT !.calls = used.calls, !.tools = used.tools] IN
       IF pc[r] = "stop" THEN Stopping(r, mine) /\ UNCHANGED budgets
       ELSE /\ Snapshot(m, 0, used)
            /\ Local(r, "turn", [mine EXCEPT !.seen = evidence[m],
                                             !.tools = @ + Len(evidence[m])])
    /\ UNCHANGED <<turn, action, evidence, calls>>

Read(state, t) == [state EXCEPT !.seen = Append(@, t), !.tools = @ + 1]

(* _tool_exchange and append_tool_result: the result is stored.            *)
Exchanged(m, t) == [evidence EXCEPT ![m] = Append(@, t)]

(* The record of _invocation: a turn is intended, later it is observed.    *)
WithTurn(m, n, status) == [turn EXCEPT ![m][n] = status]

(* A turn on record: what was done is taken over, a tool that was asked    *)
(* for is read if it was not, and anything else stops the assist.          *)
RecoverTurn(r) ==
    LET m    == reg[r].msg
        n    == agent[r].calls + 1
        mine == [agent[r] EXCEPT !.calls = n]
        did  == action[m][n] IN
    /\ n \in Turns /\ turn[m][n] # "none"
    /\ IF turn[m][n] = "completed" /\ did[1] = "read"
       THEN IF did[2] \in ToolsOf(mine.seen)
            THEN Local(r, "turn", mine) /\ UNCHANGED evidence
            ELSE /\ Local(r, "turn", Read(mine, did[2]))
                 /\ evidence' = Exchanged(m, did[2])
       ELSE Stopping(r, mine) /\ UNCHANGED evidence
    /\ UNCHANGED budgets

(* A new turn, unless the calls or the rest of the budget are used up.     *)
ReserveTurn(r) ==
    LET m == reg[r].msg
        n == agent[r].calls + 1 IN
    /\ n \in Turns => turn[m][n] = "none"
    /\ \/ Stopping(r, agent[r]) /\ UNCHANGED budgets
       \/ /\ n \in Turns
          /\ Snapshot(m, 2 * agent[r].calls + 1, agent[r])
          /\ Local(r, "invoke", agent[r])
    /\ UNCHANGED evidence

(* Mutant: a turn whose call was never observed is called again.           *)
RunTurnAgain(r) ==
    /\ pc[r] = "turn"
    /\ \/ /\ agent[r].calls + 1 \in Turns /\ turn[reg[r].msg][agent[r].calls + 1] = "intent"
          /\ Local(r, "call", agent[r]) /\ UNCHANGED <<evidence, budgets>>
       \/ RecoverTurn(r) \/ ReserveTurn(r)
    /\ UNCHANGED <<turn, action, calls>>

(* Mutant: a call that was never observed is not charged.                  *)
RunTurnUncharged(r) ==
    /\ pc[r] = "turn"
    /\ \/ /\ agent[r].calls + 1 \in Turns /\ turn[reg[r].msg][agent[r].calls + 1] = "intent"
          /\ Stopping(r, agent[r]) /\ UNCHANGED <<evidence, budgets>>
       \/ RecoverTurn(r) \/ ReserveTurn(r)
    /\ UNCHANGED <<turn, action, calls>>

RunTurn(r) ==
    /\ pc[r] = "turn"
    /\ RecoverTurn(r) \/ ReserveTurn(r)
    /\ UNCHANGED <<turn, action, calls>>

(* append_invocation_evidence: an intent that is there already is another  *)
(* one, and a conflict.                                                    *)
AppendIntent(r) ==
    /\ pc[r] = "invoke"
    /\ LET m == reg[r].msg
           n == agent[r].calls + 1 IN
       IF turn[m][n] = "none"
       THEN turn' = WithTurn(m, n, "intent") /\ Local(r, "call", agent[r])
       ELSE Refused(r) /\ Keep(r) /\ UNCHANGED <<turn, handlerVars, bound, assist>>
    /\ UNCHANGED <<action, evidence, budgets, calls>>

(* provider.propose: an action, something unusable, an error worth a       *)
(* retry, or no answer.                                                    *)
Propose(r) ==
    /\ pc[r] = "call"
    /\ LET m == reg[r].msg
           n == agent[r].calls + 1
           mine == [agent[r] EXCEPT !.calls = n] IN
       /\ calls' = [calls EXCEPT ![m][n] = @ + 1]
       /\ \/ \E a \in Proposals \cup {NoAction} :
                Local(r, "observe", [mine EXCEPT !.out = "completed", !.did = a])
          \/ \E out \in {"retryable", "failed"} : Local(r, "observe", [mine EXCEPT !.out = out])
    /\ UNCHANGED <<turn, action, evidence, budgets>>

(* append_invocation_evidence of the observation, and what it decides.     *)
AppendObservation(r) ==
    /\ pc[r] = "observe"
    /\ LET m == reg[r].msg
           mine == agent[r] IN
       /\ turn' = WithTurn(m, mine.calls, mine.out)
       /\ CASE mine.out = "retryable" /\ mine.retries < RetryLimit ->
                 Local(r, "turn", [mine EXCEPT !.retries = @ + 1])
            [] mine.out = "completed" /\ mine.did # NoAction -> Local(r, "act", mine)
            [] OTHER -> Stopping(r, mine)
    /\ UNCHANGED <<action, evidence, budgets, calls>>

(* The tools are read one by one in their order, each once, and within the *)
(* limit of the Case.                                                      *)
Readable(state, t) ==
    /\ state.tools < Required
    /\ t \notin ToolsOf(state.seen)
    /\ t = Len(state.seen) + 1

(* Mutant: a candidate names what was read, however little.                *)
GroundedOnSome(state) == Len(state.seen) \in 0..Required

(* A candidate names what was read, which is all of the evidence.          *)
Grounded(state) == Len(state.seen) = Required

(* append_action, and where the action leads.                              *)
AppendAction(r) ==
    /\ pc[r] = "act"
    /\ LET m    == reg[r].msg
           mine == agent[r] IN
       /\ action' = [action EXCEPT ![m][mine.calls] = mine.did]
       /\ CASE mine.did[1] = "read" /\ Readable(mine, mine.did[2]) ->
                 Local(r, "checkpoint", mine)
            [] mine.did[1] = "candidate" /\ Grounded(mine) ->
                 Local(r, "finish", [mine EXCEPT !.out = "response_ready"])
            [] OTHER -> Stopping(r, mine)
    /\ UNCHANGED <<turn, evidence, budgets, calls>>

Checkpoint(r) ==
    /\ pc[r] = "checkpoint"
    /\ Snapshot(reg[r].msg, 2 * agent[r].calls, agent[r])
    /\ Local(r, "tool", agent[r])
    /\ UNCHANGED <<turn, action, evidence, calls>>

(* _tool_exchange and append_tool_result; a tool that timed out stops, and *)
(* one whose source does not validate stops with nothing stored.           *)
ReadTool(r) ==
    /\ pc[r] = "tool"
    /\ LET t == agent[r].did[2]
           mine == Read(agent[r], t) IN
       \/ /\ evidence' = Exchanged(reg[r].msg, t)
          /\ Local(r, "turn", mine) \/ Stopping(r, mine)
       \/ Stopping(r, agent[r]) /\ UNCHANGED evidence
    /\ UNCHANGED <<turn, action, budgets, calls>>

(* _finish                                                                 *)
Finish(r) ==
    /\ pc[r] = "finish"
    /\ Snapshot(reg[r].msg, 2 * agent[r].calls + 2, agent[r])
    /\ Local(r, IF agent[r].out = "response_ready" THEN "candidate" ELSE "outcome", agent[r])
    /\ UNCHANGED <<turn, action, evidence, calls>>

-----------------------------------------------------------------------------
(* What becomes of the result.                                             *)

Replaced == [v \in Candidates |->
    IF v = case.candidate /\ bound[v].life = "CURRENT"
    THEN [bound[v] EXCEPT !.life = "INVALIDATED"] ELSE bound[v]]

(* create_model_candidate: the candidate of create_candidate_and_request,  *)
(* its binding and the state of the Case in one transaction.               *)
CreateModelCandidate(r) ==
    /\ pc[r] = "candidate"
    /\ LET m == reg[r].msg
           v == case.version + 1
           used == Usage(m, 2 * agent[r].calls + 2, agent[r]) IN
       IF Authorized(assist[m].version) /\ <<"issue", 0>> \notin passed
       THEN /\ case.version < MaxVersion
            /\ case' = [version |-> v, status |-> "RESPONSE_READY", candidate |-> v]
            /\ artifact' = WithCandidate(v)
            /\ movedBy' = [movedBy EXCEPT ![v] = m]
            /\ bound' = [Replaced EXCEPT ![v] = [assist |-> m, budget |-> used,
                                                 life |-> "CURRENT"]]
            /\ Goto(r, "respond", [reg[r] EXCEPT !.body.candidate = v])
       ELSE Refused(r) /\ UNCHANGED <<case, artifact, movedBy, bound>>
    /\ Keep(r)
    /\ UNCHANGED <<decision, replyVars, notice, sendVars, envVars, assistVars>>

(* create_outcome of an assist that stopped: the Case is open for the      *)
(* handler again, whatever it was before.                                  *)
CreateStoppedOutcome(r) ==
    /\ pc[r] = "outcome"
    /\ LET m == reg[r].msg
           v == case.version + 1 IN
       IF assist[m].outcome # "none" THEN UNCHANGED <<assist, case, movedBy>>
       ELSE /\ case.version < MaxVersion
            /\ assist' = [assist EXCEPT ![m].outcome = "stopped"]
            /\ case' = [case EXCEPT !.version = v, !.status = "ACCEPTED"]
            /\ movedBy' = [movedBy EXCEPT ![v] = m]
    /\ Goto(r, "respond", reg[r])
    /\ Keep(r)
    /\ UNCHANGED <<artifact, decision, replyVars, notice, sendVars, envVars, turn, action,
                   evidence, budgets, calls, bound>>

Unsettled(r) == inbox[reg[r].msg].cmd = "assist" /\ assist[reg[r].msg].outcome = "none"

(* create_outcome of an assist with a candidate, once its preview has an   *)
(* intent.                                                                 *)
CreateReadyOutcome(r) ==
    /\ pc[r] = "record" /\ Unsettled(r)
    /\ assist' = [assist EXCEPT ![reg[r].msg].outcome = "response_ready"]
    /\ UNCHANGED <<handlerVars, pc, reg, turn, action, evidence, budgets, calls, bound, agent>>

(* create_candidate_and_request of the model's journal: the candidate of a *)
(* draft invalidates the model's.                                          *)
DraftCandidate(r) ==
    /\ CreateCandidateAndRequest(r)
    /\ bound' = IF case' = case THEN bound ELSE Replaced
    /\ UNCHANGED <<assistVars, agent>>

-----------------------------------------------------------------------------
(* handle_group_approval and execute_final_response                        *)

(* Mutant: the candidate may be anyone's.                                  *)
ModelApprovalOfAny(m) == case.candidate = m.request

(* assert_model_approval_current                                           *)
ModelApprovalCurrent(m) ==
    LET v == m.request IN
    /\ bound[v].assist # 0
    /\ CurrentBinding = v
    /\ m.version = v
    /\ bound[v].budget = LatestBudget(bound[v].assist)
    /\ case.candidate = v /\ case.status = "RESPONSE_READY"

AssertModelApproval(r, m) ==
    /\ pc[r] = "receive"
    /\ IF ModelApprovalCurrent(inbox[m]) THEN Goto(r, "approve", [reg[r] EXCEPT !.msg = m])
                                         ELSE Await(r)
    /\ UNCHANGED <<handlerVars, assistVars, bound, agent>>

ApproveModelRequest(r) ==
    /\ pc[r] = "approve"
    /\ ApproveRequest(r, reg[r].msg)
    /\ UNCHANGED <<assistVars, bound, agent>>

(* mark_final_model_content_deleted                                        *)
ContentDeleted ==
    IF CurrentBinding = 0 THEN bound ELSE [bound EXCEPT ![CurrentBinding].life = "DELETED"]

(* execute_final_response: also a reply that was accepted before has the   *)
(* model's candidate marked as deleted.                                    *)
ExecuteModelReply(r) ==
    /\ ExecutePassiveReply(r)
    /\ LET k == reg[r].key IN
       bound' = IF /\ pc'[r] = "idle" /\ k.kind = "final" /\ HasResult(k)
                   /\ ResultOf(k) \in Accepted
                THEN ContentDeleted ELSE bound
    /\ UNCHANGED <<assistVars, agent>>

(* delete_artifacts, then the mark; nothing reads in between.              *)
DeleteModelContent(r) ==
    /\ DeleteArtifacts(r)
    /\ bound' = ContentDeleted
    /\ UNCHANGED <<assistVars, agent>>

-----------------------------------------------------------------------------
ModelInit ==
    /\ Init
    /\ assist = [m \in Messages |-> NoAssist]
    /\ turn = [m \in Messages |-> [n \in Turns |-> "none"]]
    /\ action = [m \in Messages |-> [n \in Turns |-> NoAction]]
    /\ evidence = [m \in Messages |-> <<>>]
    /\ budgets = <<>>
    /\ bound = [v \in Candidates |-> NotBound]
    /\ calls = [m \in Messages |-> [n \in Turns |-> 0]]
    /\ agent = [r \in Runners |-> NoAgent]

AgentStep(r) ==
    StartAssist(r) \/ RunTurn(r) \/ AppendIntent(r) \/ Propose(r) \/ AppendObservation(r)
      \/ AppendAction(r) \/ Checkpoint(r) \/ ReadTool(r) \/ Finish(r)

AssistStep(r) ==
    CreateAssistRequest(r) \/ RecoverPersistedAssist(r) \/ CompileContext(r) \/ RecordContext(r)
      \/ AgentStep(r) \/ CreateModelCandidate(r) \/ CreateStoppedOutcome(r) \/ CreateReadyOutcome(r)

(* The steps that are the handler workflow's own.                          *)
ManualStep(r) ==
    /\ \/ StartRun(r) \/ NoticeStep(r) \/ TransitionSimpleCommand(r) \/ Respond(r)
       \/ pc[r] = "record" /\ ~Unsettled(r) /\ RecordCommandOnce(r)
       \/ FinalDeliveryIntent(r)
       \/ CreatePassiveIntent(r) \/ Send(r) \/ RecordPassiveResult(r)
    /\ UNCHANGED <<assistVars, bound, agent>>

ModelCrash(r) == Crash(r) /\ Keep(r) /\ UNCHANGED <<assistVars, bound>>

ModelNext ==
    \/ \E r \in Runners :
          \/ ManualStep(r) \/ AssistStep(r) \/ DraftCandidate(r) \/ ApproveModelRequest(r)
          \/ ExecuteModelReply(r) \/ DeleteModelContent(r) \/ ModelCrash(r)
          \/ \E m \in PrivateMessages : ReceiveManual(r, m) \/ ReceiveAssist(r, m)
          \/ \E m \in GroupMessages : AssertModelApproval(r, m)
    \/ Environment /\ UNCHANGED <<assistVars, bound, agent>>

ModelSpec == ModelInit /\ [][ModelNext]_modelVars

-----------------------------------------------------------------------------
(* However often an assist's message is delivered and wherever its runs    *)
(* were cut off, the provider is called at most once for a turn of it.     *)
TurnsCalledOnce == \A m \in Messages : \A n \in Turns : calls[m][n] <= 1

CallsOf(m) == Cardinality({n \in Turns : calls[m][n] > 0})

(* The assist itself moved the Case on from where it was requested and     *)
(* never again, its issue could be read to the end, and no turn of it was  *)
(* retried.                                                                *)
Undisturbed(m) ==
    /\ <<"issue", 0>> \notin passed
    /\ \A v \in Candidates : movedBy[v] = m <=> v = assist[m].version + 1
    /\ \A n \in Turns : turn[m][n] # "retryable"

(* The usage an assist is settled with counts every call that was made for *)
(* it, also one whose answer was lost with its runner.                     *)
CallsAccounted ==
    \A m \in Messages :
       assist[m].outcome # "none" /\ Undisturbed(m) => CallsOf(m) <= LatestBudget(m).calls

(* All assists of the Case together are within its provider_call_limit,    *)
(* though each run counts on from snapshots it read before its own calls:  *)
(* a run that was cut off after a retried turn is the one exception, as    *)
(* its assist is then settled at the retried turn.                         *)
CaseBudgetKept ==
    crashes = 0 \/ (\A m \in Messages : \A n \in Turns : turn[m][n] # "retryable") =>
       Cardinality({call \in Messages \X Turns : calls[call[1]][call[2]] > 0}) <= CallLimit

(* A final reply is a candidate that an assist made on all of the required *)
(* evidence, each tool read once; a draft is never sent by this workflow.  *)
FinalIsGrounded ==
    \A v \in FinalShown :
       /\ bound[v].assist # 0
       /\ ToolsOf(evidence[bound[v].assist]) = Tools
       /\ Len(evidence[bound[v].assist]) = Required

(* A preview that QQ shows for an assist shows that assist's own candidate *)
(* or says that it stopped, and it did.                                    *)
PreviewsTruthful ==
    \A s \in shown : s.kind = "draft-preview" /\ inbox[s.src].cmd = "assist" =>
       IF s.body.candidate # 0 THEN bound[s.body.candidate].assist = s.src
                               ELSE assist[s.src].outcome = "stopped"

(* An assist that is run or settled for a version the Case no longer has   *)
(* leaves the Case alone.                                                  *)
StaleAssistLeavesCase ==
    [][\A r \in Runners :
          pc[r] \in {"compile", "outcome"} /\ case' # case
             => case.version = assist[reg[r].msg].version]_modelVars
=============================================================================
