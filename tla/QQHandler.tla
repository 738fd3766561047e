------------------------------ MODULE QQHandler ------------------------------
(***************************************************************************)
(* The QQ human handler (weflow_control_kernel/qq_handler.py and           *)
(* qq_handler_service.py, weflow_control_worker/qq_handler_runner.py and   *)
(* qq_handler_adapter.py): a runner turns a customer's group message into  *)
(* a Case, notifies the bound handler once, takes the handler's private    *)
(* commands and group approvals, and sends the approved candidate as the   *)
(* final reply.                                                            *)
(*                                                                         *)
(* A runner is one execution of run_live_handler_case.  Several may run    *)
(* over one store; every transaction is one action, and what was read      *)
(* before it may be stale.  Messages are delivered to any runner, in any   *)
(* order, again and again, or never.                                       *)
(*                                                                         *)
(* One Case and one binding are modelled.  Message 0 is the customer's,    *)
(* the others are numbered as the handler writes them.  A candidate, its   *)
(* artifact and its approval request are named by the workflow version     *)
(* that create_candidate_and_request gave them; artifact 0 is the issue.   *)
(* Readable text is what it was made from.  Messages of other people are   *)
(* refused before they change anything; the event cursors are written and  *)
(* never asked, and the reports of a run are left out.  A candidate is     *)
(* kept longer than any deadline it is used under, so only the issue may   *)
(* expire.                                                                 *)
(***************************************************************************)
EXTENDS Naturals, Sequences, FiniteSets

CONSTANTS
    Runners,        \* executions of the handler command
    Commands,       \* the private commands the handler uses
    MaxMessages,    \* bound: messages the handler writes
    MaxVersion,     \* bound: workflow versions of the Case
    Lapses,         \* the kinds of deadlines that may pass
    MaxPassed,      \* bound: deadlines that pass, the revocation included
    Nudging,        \* whether a failed notification is made up for in the group
    MayRevoke,      \* whether the operator revokes the binding
    MaxFailures,    \* bound: sends that QQ refuses or leaves unanswered
    MaxCrashes,     \* bound: runner crashes
    MaxMishaps      \* bound: all of these together

ASSUME HandlerAssumption ==
    /\ MaxMessages \in Nat /\ MaxVersion \in Nat \ {0} /\ MaxPassed \in Nat
    /\ MaxFailures \in Nat /\ MaxCrashes \in Nat /\ MaxMishaps \in Nat /\ MayRevoke \in BOOLEAN
    /\ Nudging \in BOOLEAN
    /\ Lapses \subseteq {"issue", "binding", "stage1", "window", "request"}
    /\ Commands \subseteq {"pull", "accept", "draft", "reject", "assist"}

VARIABLES
    case,           \* the row of qq_handler_cases, or NoCase
    artifact,       \* qq_handler_artifact_content: what is left of each body
    decision,       \* qq_handler_approval_decisions: source message by candidate
    command,        \* qq_handler_commands: the response recorded for a message
    notice,         \* the notification's intent and attempt
    intents,        \* qq_handler_passive_intents
    results,        \* qq_handler_passive_results
    revoked,        \* HANDLER_BINDING_REVOKED and the locators it clears
    (* the world outside *)
    inbox,          \* what the handler has written
    shown,          \* the replies that QQ shows
    notifications,  \* how often the active notification was sent
    passed,         \* the deadlines that have passed
    failures, crashes,
    movedBy,        \* history: the message that made each version
    (* the runners *)
    pc, reg

caseVars  == <<case, artifact, decision, movedBy>>
replyVars == <<command, intents, results>>
sendVars  == <<shown, notifications, failures>>
envVars   == <<inbox, passed, revoked, crashes>>
vars == <<caseVars, replyVars, notice, sendVars, envVars, pc, reg>>

Candidates == 2..MaxVersion
Messages   == 1..MaxMessages
Terminal   == {"REJECTED", "FINAL_ACCEPTED", "TERMINAL"}
Private    == {"pull", "accept", "draft-preview", "reject"}
Group      == {"group-nudge", "final"}
Accepted   == {"accepted", "duplicate"}
Failing    == {"rejected", "unknown"}    \* _provider_outcome, wordings left out

NoCase    == [version |-> 0, status |-> "none", candidate |-> 0]
NoBody    == [status |-> "none", version |-> 0, candidate |-> 0]
NoKey     == [src |-> 0, kind |-> "none", version |-> 0]
NoCommand == [kind |-> "none", body |-> NoBody, key |-> NoKey]
NoRegisters ==
    [msg |-> 0, src |-> 0, kind |-> "none", body |-> NoBody, key |-> NoKey, out |-> "none",
     accepted |-> {}]

(* Deadlines that have passed and a revocation, and all that went wrong.   *)
Lapsed  == Cardinality(passed) + (IF revoked THEN 1 ELSE 0)
Mishaps == Lapsed + failures + crashes
MayLapse == Lapsed < MaxPassed /\ Mishaps < MaxMishaps
MayFail  == failures < MaxFailures /\ Mishaps < MaxMishaps

-----------------------------------------------------------------------------
(* Control of one runner.                                                  *)

Goto(r, label, regs) ==
    /\ pc' = [pc EXCEPT ![r] = label]
    /\ reg' = [reg EXCEPT ![r] = regs]

Leave(r) == Goto(r, "idle", NoRegisters)

(* The runner waits for the next event; its transport remembers what was   *)
(* accepted.                                                               *)
Await(r) == Goto(r, "receive", [NoRegisters EXCEPT !.accepted = reg[r].accepted])

(* A refused message is only counted; before the loop it ends the run.     *)
Refused(r) == IF reg[r].msg = 0 THEN Leave(r) ELSE Await(r)

-----------------------------------------------------------------------------
(* The binding and the private bodies.                                     *)

(* active_binding and private_locator                                      *)
BindingActive == ~revoked /\ <<"binding", 0>> \notin passed

(* _binding_group_from_stage1                                              *)
GroupActive == <<"stage1", 0>> \notin passed

(* delete_artifacts                                                        *)
AllDeleted ==
    [a \in DOMAIN artifact |-> IF artifact[a] = "none" THEN "none" ELSE "deleted"]

(* artifact_content with delete_expired_artifacts: an expired body takes   *)
(* all bodies of the Case with it, an unreachable one refuses the message. *)
Reading(r, wanted, then) ==
    IF 0 \in wanted /\ <<"issue", 0>> \in passed
    THEN artifact' = AllDeleted /\ Refused(r)
    ELSE /\ UNCHANGED artifact
         /\ IF \E a \in wanted : artifact[a] # "reachable" THEN Refused(r) ELSE then

(* The bodies _content_for_metadata needs for a response.                  *)
Needed(kind, body) ==
    CASE kind = "pull" -> {0}
      [] kind = "draft-preview" -> {body.candidate} \ {0}
      [] OTHER -> {}

-----------------------------------------------------------------------------
(* run_live_handler_case up to its loop: intake, notification, nudge.      *)

(* What the command of a run asks first: the group is resolved from its    *)
(* pairing and the binding is looked up.                                   *)
Activated == GroupActive /\ BindingActive

(* The service checks the binding when it is built, and never again.       *)
StartRun(r) ==
    /\ pc[r] = "idle" /\ Activated
    /\ Goto(r, "intake", NoRegisters)
    /\ UNCHANGED <<caseVars, replyVars, notice, sendVars, envVars>>

(* The customer's message arrives; accept_live_stage1_intake finds or      *)
(* makes its Case, create_issue_artifact the handler's view of it.         *)
CreateIssueArtifact(r) ==
    /\ pc[r] = "intake"
    /\ IF case = NoCase
       THEN /\ case' = [version |-> 1, status |-> "READY", candidate |-> 0]
            /\ artifact' = [artifact EXCEPT ![0] = "reachable"]
       ELSE UNCHANGED <<case, artifact>>
    /\ Goto(r, "notify", reg[r])
    /\ UNCHANGED <<decision, movedBy, replyVars, notice, sendVars, envVars>>

CreateNotificationIntent(r) ==
    /\ pc[r] = "notify"
    /\ notice' = IF notice = "none" THEN "intended" ELSE notice
    /\ Goto(r, "attempt", reg[r])
    /\ UNCHANGED <<caseVars, replyVars, sendVars, envVars>>

(* Whatever was not accepted is followed by the nudge in the group, or     *)
(* ends the run of the model workflow.                                     *)
AfterNotice(r, status) ==
    IF status = "accepted" THEN Await(r)
    ELSE IF ~Nudging THEN Leave(r)
    ELSE Goto(r, "intent", [reg[r] EXCEPT !.kind = "group-nudge", !.out = "none"])

(* Mutant: a started attempt without a result is sent again.               *)
StartAttemptAgain(r) ==
    /\ pc[r] = "attempt" /\ BindingActive
    /\ IF notice \in {"intended", "started"}
       THEN notice' = "started" /\ Goto(r, "notifying", reg[r])
       ELSE UNCHANGED notice /\ AfterNotice(r, notice)
    /\ UNCHANGED <<caseVars, replyVars, sendVars, envVars>>

(* execute_notification up to the send: an attempt that was started before *)
(* is never repeated, without a result it counts as unknown.               *)
StartAttempt(r) ==
    /\ pc[r] = "attempt"
    /\ IF ~BindingActive THEN Leave(r) /\ UNCHANGED notice
       ELSE CASE notice = "intended" -> notice' = "started" /\ Goto(r, "notifying", reg[r])
              [] notice = "started"  -> notice' = "unknown" /\ AfterNotice(r, "unknown")
              [] OTHER               -> UNCHANGED notice /\ AfterNotice(r, notice)
    /\ UNCHANGED <<caseVars, replyVars, sendVars, envVars>>

(* notify_c2c: QQ accepts, refuses, or does not answer.                    *)
NotifyC2c(r) ==
    /\ pc[r] = "notifying"
    /\ notifications' = notifications + 1
    /\ \/ UNCHANGED failures /\ Goto(r, "noting", [reg[r] EXCEPT !.out = "accepted"])
       \/ /\ MayFail /\ failures' = failures + 1
          /\ \E out \in Failing : Goto(r, "noting", [reg[r] EXCEPT !.out = out])
    /\ UNCHANGED <<caseVars, replyVars, notice, shown, envVars>>

(* The first result of the attempt stands; the runner goes by its own.     *)
RecordNotification(r) ==
    /\ pc[r] = "noting"
    /\ notice' = IF notice = "started" THEN reg[r].out ELSE notice
    /\ AfterNotice(r, reg[r].out)
    /\ UNCHANGED <<caseVars, replyVars, sendVars, envVars>>

-----------------------------------------------------------------------------
(* QQHandlerWorkflowService.handle_private_event                           *)

PrivateMessages == {m \in DOMAIN inbox : inbox[m].cmd # "approve"}
GroupMessages   == {m \in DOMAIN inbox : inbox[m].cmd = "approve"}

(* _private_event, _stored_command, and the issue that must be readable:   *)
(* a recorded command is answered again as it was, any other is applied.   *)
ReceivePrivate(r, m) ==
    /\ pc[r] = "receive"
    /\ LET known == command[m]
           regs  == [reg[r] EXCEPT !.msg = m, !.src = m] IN
       IF ~BindingActive THEN Await(r) /\ UNCHANGED artifact
       ELSE IF known # NoCommand
       THEN Reading(r, Needed(known.kind, known.body),
                    Goto(r, "execute", [regs EXCEPT !.kind = known.kind, !.key = known.key,
                                                    !.body = known.body]))
       ELSE Reading(r, {0}, Goto(r, "apply", regs))
    /\ UNCHANGED <<case, decision, movedBy, replyVars, notice, sendVars, envVars>>

(* Mutant: the expected version is not compared.                           *)
AuthorizeAnyVersion(version) == case.status \notin Terminal

(* _authorize_case_row                                                     *)
Authorized(version) ==
    /\ case.version = version
    /\ case.status \notin Terminal

Scheduled(a) == IF artifact[a] = "reachable" THEN "scheduled" ELSE artifact[a]

(* The bodies once candidate v has taken the place of the current one.     *)
WithCandidate(v) ==
    [a \in DOMAIN artifact |->
        CASE a = v -> "reachable"
          [] a = case.candidate /\ a # 0 -> Scheduled(a)
          [] OTHER -> artifact[a]]

(* create_candidate_and_request: the candidate it replaces loses its body  *)
(* and, as the current one is another, its approval request.               *)
CreateCandidateAndRequest(r) ==
    /\ pc[r] = "apply" /\ inbox[reg[r].msg].cmd = "draft"
    /\ LET v == case.version + 1 IN
       IF Authorized(inbox[reg[r].msg].version) /\ <<"issue", 0>> \notin passed
       THEN /\ case' = [version |-> v, status |-> "DRAFTED", candidate |-> v]
            /\ artifact' = WithCandidate(v)
            /\ movedBy' = [movedBy EXCEPT ![v] = reg[r].msg]
            /\ Goto(r, "respond", [reg[r] EXCEPT !.kind = "draft-preview", !.body.candidate = v])
       ELSE Refused(r) /\ UNCHANGED <<case, artifact, movedBy>>
    /\ UNCHANGED <<decision, replyVars, notice, sendVars, envVars>>

(* transition_simple_command: pull changes nothing, accept and reject make *)
(* a new version, reject puts every body out of reach.                     *)
TransitionSimpleCommand(r) ==
    /\ pc[r] = "apply" /\ inbox[reg[r].msg].cmd \in {"pull", "accept", "reject"}
    /\ LET cmd == inbox[reg[r].msg].cmd
           v   == IF cmd = "pull" THEN case.version ELSE case.version + 1 IN
       IF Authorized(inbox[reg[r].msg].version)
       THEN /\ case' = [case EXCEPT !.version = v,
                          !.status = CASE cmd = "accept" -> "ACCEPTED"
                                       [] cmd = "reject" -> "REJECTED"
                                       [] OTHER -> @]
            /\ artifact' = IF cmd = "reject" THEN [a \in DOMAIN artifact |-> Scheduled(a)]
                                             ELSE artifact
            /\ movedBy' = IF cmd = "pull" THEN movedBy
                                          ELSE [movedBy EXCEPT ![v] = reg[r].msg]
            /\ Goto(r, "respond", [reg[r] EXCEPT !.kind = cmd])
       ELSE Refused(r) /\ UNCHANGED <<case, artifact, movedBy>>
    /\ UNCHANGED <<decision, replyVars, notice, sendVars, envVars>>

(* The response is made from the Case as it is read after the transition.  *)
ResponseBody(kind, candidate) ==
    CASE kind = "pull"          -> [NoBody EXCEPT !.status = case.status]
      [] kind = "accept"        -> [NoBody EXCEPT !.version = case.version]
      [] kind = "draft-preview" -> [NoBody EXCEPT !.version = case.version,
                                                  !.candidate = candidate]
      [] OTHER                  -> NoBody

(* case_projection and _content_for_metadata                               *)
Respond(r) ==
    /\ pc[r] = "respond"
    /\ LET body == ResponseBody(reg[r].kind, reg[r].body.candidate) IN
       Reading(r, Needed(reg[r].kind, body), Goto(r, "intent", [reg[r] EXCEPT !.body = body]))
    /\ UNCHANGED <<case, decision, movedBy, replyVars, notice, sendVars, envVars>>

(* record_command_once: the first response recorded for a message stands.  *)
RecordCommandOnce(r) ==
    /\ pc[r] = "record"
    /\ LET m    == reg[r].msg
           mine == [kind |-> reg[r].kind, body |-> reg[r].body, key |-> reg[r].key]
           kept == IF command[m] = NoCommand THEN mine ELSE command[m] IN
       /\ command' = [command EXCEPT ![m] = kept]
       /\ Reading(r, Needed(kept.kind, kept.body),
                  Goto(r, "execute", [reg[r] EXCEPT !.kind = kept.kind, !.body = kept.body,
                                                    !.key = kept.key]))
    /\ UNCHANGED <<case, decision, movedBy, intents, results, notice, sendVars, envVars>>

-----------------------------------------------------------------------------
(* QQHandlerWorkflowService.handle_group_approval                          *)

RequestOpen(v) == <<"request", v>> \notin passed

(* The conditions of approve_request.  The binding is the one the service  *)
(* was built with; whether it is still active is not asked.                *)
Approvable(m) ==
    /\ Authorized(m.version)
    /\ case.candidate = m.request /\ m.request = m.version
    /\ RequestOpen(m.request)

(* approve_request: one decision per request, the first.                   *)
ApproveRequest(r, m) ==
    /\ LET v == inbox[m].request IN
       IF GroupActive /\ Approvable(inbox[m])
       THEN /\ decision' = [decision EXCEPT ![v] = IF @ = 0 THEN m ELSE @]
            /\ case' = IF decision[v] = 0 THEN [case EXCEPT !.status = "APPROVED"] ELSE case
            /\ Goto(r, "final", [reg[r] EXCEPT !.msg = m, !.body.candidate = v])
       ELSE Await(r) /\ UNCHANGED <<decision, case>>
    /\ UNCHANGED <<artifact, movedBy, replyVars, notice, sendVars, envVars>>

(* final_delivery_intent up to create_passive_intent.                      *)
FinalDeliveryIntent(r) ==
    /\ pc[r] = "final"
    /\ LET v == reg[r].body.candidate IN
       IF case.status = "APPROVED" /\ case.candidate = v /\ case.version = v /\ RequestOpen(v)
       THEN Reading(r, {v}, Goto(r, "intent", [reg[r] EXCEPT !.src = decision[v],
                                                             !.kind = "final"]))
       ELSE Refused(r) /\ UNCHANGED artifact
    /\ UNCHANGED <<case, decision, movedBy, replyVars, notice, sendVars, envVars>>

-----------------------------------------------------------------------------
(* Passive replies.                                                        *)

IntentOf(k)   == CHOOSE i \in intents : i.key = k
HasResult(k)  == \E x \in results : x.key = k
ResultOf(k)   == (CHOOSE x \in results : x.key = k).status

(* create_passive_intent: one intent per source, kind and version of the   *)
(* Case; an existing one is returned as it is.                             *)
CreatePassiveIntent(r) ==
    /\ pc[r] = "intent"
    /\ LET k == [src |-> reg[r].src, kind |-> reg[r].kind, version |-> case.version] IN
       /\ intents' = IF \E i \in intents : i.key = k THEN intents
                     ELSE intents \cup {[key |-> k, body |-> reg[r].body]}
       /\ Goto(r, IF reg[r].kind \in Private THEN "record" ELSE "execute",
               [reg[r] EXCEPT !.key = k])
    /\ UNCHANGED <<caseVars, command, results, notice, sendVars, envVars>>

Answered(r) == IF reg[r].kind = "final" THEN Leave(r) ELSE Await(r)

(* execute_passive_reply up to the send.                                   *)
ExecutePassiveReply(r) ==
    /\ pc[r] = "execute"
    /\ LET k == reg[r].key IN
       IF IntentOf(k).body # reg[r].body THEN Refused(r)
       ELSE IF <<"window", k.src>> \in passed
       THEN Goto(r, "result", [reg[r] EXCEPT !.out = "expired_window"])
       ELSE IF HasResult(k) THEN Answered(r)
       ELSE IF ~(IF k.kind \in Group THEN GroupActive ELSE BindingActive) THEN Refused(r)
       ELSE IF <<k.src, k.kind>> \in reg[r].accepted
       THEN Goto(r, "result", [reg[r] EXCEPT !.out = "duplicate"])
       ELSE Goto(r, "send", reg[r])
    /\ UNCHANGED <<caseVars, replyVars, notice, sendVars, envVars>>

(* passive_c2c_reply, passive_group_reply and group_nudge with             *)
(* _provider_outcome.  QQ shows one reply per source message and reply     *)
(* number, says "duplicate" from then on, refuses late replies, and may    *)
(* refuse or leave unanswered what it did or did not show.                 *)
Send(r) ==
    /\ pc[r] = "send"
    /\ LET k == reg[r].key
           reply == [src |-> k.src, kind |-> k.kind, body |-> reg[r].body]
           seen == \E s \in shown : s.src = k.src /\ s.kind = k.kind
           late == <<"window", k.src>> \in passed
           answer(out) == Goto(r, "result", [reg[r] EXCEPT !.out = out])
           taken(out) == Goto(r, "result", [reg[r] EXCEPT !.out = out,
                                              !.accepted = @ \cup {<<k.src, k.kind>>}])
           fails == MayFail /\ failures' = failures + 1 IN
       \/ seen /\ taken("duplicate") /\ UNCHANGED <<shown, failures>>
       \/ /\ ~seen /\ ~late /\ taken("accepted")
          /\ shown' = shown \cup {reply} /\ UNCHANGED failures
       \/ ~seen /\ late /\ answer("expired_window") /\ UNCHANGED <<shown, failures>>
       \/ ~seen /\ ~late /\ fails /\ answer("unknown") /\ shown' = shown \cup {reply}
       \/ fails /\ UNCHANGED shown /\ \E out \in Failing : answer(out)
    /\ UNCHANGED <<caseVars, replyVars, notice, notifications, envVars>>

(* Mutant: a reply that was not answered counts as accepted.               *)
RecordTrusting(r) ==
    /\ pc[r] = "result"
    /\ LET k == reg[r].key IN
       /\ results' = IF HasResult(k) THEN results
                     ELSE results \cup {[key |-> k,
                            status |-> IF reg[r].out = "unknown" THEN "accepted" ELSE reg[r].out]}
       /\ case' = IF k.kind = "final" THEN [case EXCEPT !.status = "FINAL_ACCEPTED"] ELSE case
       /\ IF k.kind = "final" THEN Goto(r, "delete", reg[r]) ELSE Answered(r)
    /\ UNCHANGED <<artifact, decision, movedBy, command, intents, notice, sendVars, envVars>>

(* Mutant: an accepted final reply leaves the bodies where they are.       *)
RecordKeepingBodies(r) ==
    /\ pc[r] = "result"
    /\ LET k == reg[r].key IN
       /\ results' = IF HasResult(k) THEN results
                     ELSE results \cup {[key |-> k, status |-> reg[r].out]}
       /\ case' = IF k.kind = "final" /\ reg[r].out \in Accepted
                  THEN [case EXCEPT !.status = "FINAL_ACCEPTED"] ELSE case
       /\ Answered(r)
    /\ UNCHANGED <<artifact, decision, movedBy, command, intents, notice, sendVars, envVars>>

(* _record_passive_result: the first result stands, the Case is final by   *)
(* the runner's own result, and the bodies go by the one that stands.      *)
RecordPassiveResult(r) ==
    /\ pc[r] = "result"
    /\ LET k    == reg[r].key
           kept == IF HasResult(k) THEN ResultOf(k) ELSE reg[r].out IN
       /\ results' = results \cup {[key |-> k, status |-> kept]}
       /\ case' = IF k.kind = "final" /\ reg[r].out \in Accepted
                  THEN [case EXCEPT !.status = "FINAL_ACCEPTED"] ELSE case
       /\ IF k.kind = "final" /\ kept \in Accepted THEN Goto(r, "delete", reg[r])
                                                   ELSE Answered(r)
    /\ UNCHANGED <<artifact, decision, movedBy, command, intents, notice, sendVars, envVars>>

DeleteArtifacts(r) ==
    /\ pc[r] = "delete"
    /\ artifact' = AllDeleted
    /\ Answered(r)
    /\ UNCHANGED <<case, decision, movedBy, replyVars, notice, sendVars, envVars>>

-----------------------------------------------------------------------------
(* The handler, the operator and the clock.                                *)

(* Previews that QQ shows: what the handler may approve.                   *)
Previews == {s.body : s \in {x \in shown : x.kind = "draft-preview" /\ x.body.candidate # 0}}

(* The handler writes a command for the version it knows, the current one; *)
(* it may be another by the time the command is read.                      *)
Post(cmd, v, request) ==
    /\ Len(inbox) < MaxMessages
    /\ inbox' = Append(inbox, [cmd |-> cmd, version |-> v, request |-> request])
    /\ UNCHANGED <<caseVars, replyVars, notice, sendVars, passed, revoked, crashes, pc, reg>>

PostPrivate(cmd) ==
    /\ case # NoCase /\ (cmd = "pull" \/ case.version < MaxVersion)
    /\ Post(cmd, case.version, 0)

PostApproval == \E p \in Previews : Post("approve", p.version, p.candidate)

(* revoke_handler_binding                                                  *)
RevokeHandlerBinding ==
    /\ MayRevoke /\ BindingActive /\ MayLapse
    /\ revoked' = TRUE
    /\ UNCHANGED <<caseVars, replyVars, notice, sendVars, inbox, passed, crashes, pc, reg>>

(* The reply windows, the request of the current candidate, the issue, the *)
(* binding and the paired group run out.                                   *)
Deadlines ==
    {<<"issue", 0>>, <<"binding", 0>>, <<"stage1", 0>>}
      \cup {<<"window", m>> : m \in 0..Len(inbox)}
      \cup {<<"request", v>> : v \in {case.candidate} \ {0}}

Pass(d) ==
    /\ case # NoCase /\ d[1] \in Lapses /\ d \notin passed /\ MayLapse
    /\ passed' = passed \cup {d}
    /\ UNCHANGED <<caseVars, replyVars, notice, sendVars, inbox, revoked, crashes, pc, reg>>

(* A runner stops between two transactions: it crashes, or its gateway     *)
(* fails, which it does not survive.                                       *)
Crash(r) ==
    /\ pc[r] # "idle" /\ crashes < MaxCrashes /\ Mishaps < MaxMishaps
    /\ crashes' = crashes + 1
    /\ Leave(r)
    /\ UNCHANGED <<caseVars, replyVars, notice, sendVars, inbox, passed, revoked>>

-----------------------------------------------------------------------------
Init ==
    /\ case = NoCase
    /\ artifact = [a \in {0} \cup Candidates |-> "none"]
    /\ decision = [v \in Candidates |-> 0]
    /\ command = [m \in Messages |-> NoCommand]
    /\ notice = "none" /\ intents = {} /\ results = {} /\ revoked = FALSE
    /\ inbox = <<>> /\ shown = {} /\ notifications = 0 /\ passed = {}
    /\ failures = 0 /\ crashes = 0
    /\ movedBy = [v \in Candidates |-> 0]
    /\ pc = [r \in Runners |-> "idle"]
    /\ reg = [r \in Runners |-> NoRegisters]

NoticeStep(r) ==
    CreateIssueArtifact(r) \/ CreateNotificationIntent(r) \/ StartAttempt(r) \/ NotifyC2c(r)
      \/ RecordNotification(r)

CommandStep(r) ==
    CreateCandidateAndRequest(r) \/ TransitionSimpleCommand(r) \/ Respond(r)
      \/ RecordCommandOnce(r) \/ FinalDeliveryIntent(r)

ReplyStep(r) ==
    CreatePassiveIntent(r) \/ ExecutePassiveReply(r) \/ Send(r) \/ RecordPassiveResult(r)
      \/ DeleteArtifacts(r)

Step(r) == NoticeStep(r) \/ CommandStep(r) \/ ReplyStep(r)

Environment ==
    \/ \E cmd \in Commands : PostPrivate(cmd)
    \/ PostApproval
    \/ RevokeHandlerBinding
    \/ \E d \in Deadlines : Pass(d)

Next ==
    \/ \E r \in Runners :
          \/ StartRun(r) \/ Step(r) \/ Crash(r)
          \/ \E m \in PrivateMessages : ReceivePrivate(r, m)
          \/ \E m \in GroupMessages : pc[r] = "receive" /\ ApproveRequest(r, m)
    \/ Environment

Spec == Init /\ [][Next]_vars

-----------------------------------------------------------------------------
FinalShown == {s.body.candidate : s \in {x \in shown : x.kind = "final"}}
FinalTaken ==
    {IntentOf(x.key).body.candidate :
        x \in {y \in results : y.key.kind = "final" /\ y.status \in Accepted}}

(* The active notification is sent at most once, by whatever runners and   *)
(* whatever happened to the runner that started it.                        *)
NotifiedOnce == notifications <= 1

(* The message m has moved the Case, and to the candidate that a preview   *)
(* shows.                                                                  *)
Moved(m, kind, body) ==
    \E v \in Candidates : movedBy[v] = m /\ (kind = "draft-preview" => body.candidate = v)

(* A message moves the Case at most once, however often it is delivered    *)
(* and to whom; and a response that says it did, recorded or shown, is     *)
(* true and previews the candidate this very message made.                 *)
CommandsTruthful ==
    /\ \A u, v \in Candidates : u # v /\ movedBy[u] = movedBy[v] => movedBy[u] = 0
    /\ \A m \in Messages : command[m].kind \in {"accept", "reject", "draft-preview"} =>
          Moved(m, command[m].kind, command[m].body)
    /\ \A s \in shown : s.kind \in {"accept", "reject", "draft-preview"} =>
          Moved(s.src, s.kind, s.body)

NoEffect(v) == {}

FinalReply == INSTANCE EffectOnce WITH
    Effects <- Candidates, Requires <- NoEffect,
    intended <- {v \in Candidates : decision[v] # 0},
    executed <- FinalShown, completed <- FinalTaken

(* A final reply is shown only for a candidate with a decision, once, and  *)
(* counts as accepted only when QQ shows it.                               *)
ImplementsFinalOnce == FinalReply!Spec

(* When the final reply is on record as accepted and the runner that       *)
(* recorded it has gone on, no private body of the Case is left; a crash   *)
(* right before the deletion is not made good.                             *)
AcceptedContentIsDeleted ==
    FinalTaken # {} /\ crashes = 0 /\ (\A r \in Runners : pc[r] # "delete")
       => \A a \in DOMAIN artifact : artifact[a] \in {"none", "deleted"}
=============================================================================
