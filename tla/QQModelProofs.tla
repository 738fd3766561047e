---------------------------- MODULE QQModelProofs ----------------------------
(***************************************************************************)
(* The model-assisted workflow.  That the provider is called once for a    *)
(* turn holds for any number of runners (CallInv).  The rest is about one  *)
(* runner at a time (Solo): what it has read of its Case stays so until it *)
(* writes, but any number of its assists may have been cut off at any      *)
(* place and are resumed in any order.  What it tells (TellInv), what its  *)
(* candidates are made of (ReadInv), and what is charged to an assist: the *)
(* store's view of its requests (RequestInv), its snapshots (RowInv), and  *)
(* what a run has counted at every place it may be cut off (ChargeInv).    *)
(***************************************************************************)
EXTENDS QQModel, TLAPS, FiniteSetTheorems

Preparing == {"request", "resume"}
Looping   == {"turn", "invoke", "call", "observe", "act", "checkpoint", "tool"}
Running   == {"context", "compile", "start", "stop", "finish", "candidate", "outcome"} \cup Looping
Assisting == Preparing \cup Running
Telling   == {"respond", "intent", "record", "execute", "send", "result"}
Keyed     == {"record", "execute", "send", "result"}
Labels    == {"idle", "intake", "notify", "attempt", "notifying", "noting", "receive", "apply",
              "approve", "final", "delete"} \cup Telling \cup Assisting
Sources   == {0} \cup Messages
Drafts    == {0} \cup Candidates
Observed  == {"completed", "retryable", "failed"}
Kinds     == {"none"} \cup Private \cup Group
Outs      == {"none", "expired_window"} \cup Accepted \cup Failing
Outcomes  == {"none", "stopped", "response_ready"}
Lives     == {"none", "CURRENT", "INVALIDATED", "DELETED"}
Contents  == {"none", "reachable", "scheduled", "deleted"}
Statuses  == {"none", "READY", "DRAFTED", "ACCEPTED", "APPROVED", "REJECTED", "FINAL_ACCEPTED",
              "ASSIST_REQUESTED", "INVESTIGATING", "RESPONSE_READY"}

Bodies == [status : Statuses, version : Nat, candidate : Drafts]
Keys   == [src : Sources, kind : Kinds, version : Nat]
Mails  == [cmd : {"pull", "accept", "draft", "reject", "assist", "approve"},
           version : Nat, request : Drafts]
Registers ==
    [msg : Sources, src : Sources, kind : Kinds, body : Bodies, key : Keys, out : Outs,
     accepted : SUBSET (Sources \X Kinds)]
Actions == Proposals \cup {NoAction}
Agents ==
    [calls : Nat, tools : Nat, seen : Seq(Tools), retries : Nat, out : Outcomes \cup Observed,
     did : Actions]
Used == [assist : Sources, seq : Nat, calls : Nat, tools : Nat]

-----------------------------------------------------------------------------
(* Types.                                                                  *)

StoreTypes ==
    /\ case \in [version : Nat, status : Statuses, candidate : Drafts]
    /\ case = NoCase \/ case.version >= 1
    /\ artifact \in [{0} \cup Candidates -> Contents]
    /\ decision \in [Candidates -> Sources]
    /\ movedBy \in [Candidates -> Sources]
    /\ command \in [Messages -> [kind : Kinds, body : Bodies, key : Keys]]
    /\ shown \subseteq [src : Sources, kind : Kinds, body : Bodies]
    /\ inbox \in Seq(Mails) /\ Len(inbox) <= MaxMessages

AssistTypes ==
    /\ assist \in [Messages -> [version : Nat, context : BOOLEAN, outcome : Outcomes]]
    /\ turn \in [Messages -> [Turns -> {"none", "intent"} \cup Observed]]
    /\ action \in [Messages -> [Turns -> Actions]]
    /\ evidence \in [Messages -> Seq(Tools)]
    /\ budgets \in Seq(Used)
    /\ bound \in [Candidates -> [assist : Sources, budget : Used, life : Lives]]
    /\ calls \in [Messages -> [Turns -> Nat]]

RunnerTypes ==
    /\ pc \in [Runners -> Labels] /\ reg \in [Runners -> Registers]
    /\ agent \in [Runners -> Agents]

(* What is written for a version is written for one the Case had, and a    *)
(* recorded response tells of its own message.                             *)
MailTypes ==
    /\ \A m \in 1..Len(inbox) :
          /\ inbox[m].cmd # "approve" => inbox[m].version >= 1
          /\ inbox[m].cmd \notin {"pull", "approve"} => inbox[m].version < MaxVersion
          /\ inbox[m].cmd = "approve" => inbox[m].request \in Candidates
    /\ \A m \in Messages : command[m] # NoCommand =>
          /\ m \in 1..Len(inbox) /\ command[m].kind \in Private
          /\ command[m].key.src = m /\ command[m].key.kind = command[m].kind
          /\ inbox[m].cmd = "assist" => command[m].kind = "draft-preview"

IsAssist(m) == m \in 1..Len(inbox) /\ inbox[m].cmd = "assist"

(* The message in hand, and the turn that is about to be called or was.    *)
InHand(r) ==
    /\ pc[r] \notin {"idle", "intake"} => case.version >= 1
    /\ pc[r] \in Assisting => reg[r].body.candidate = 0
    /\ pc[r] \in {"apply", "respond", "record"} \cup Assisting
          \/ (pc[r] \in Telling /\ reg[r].kind \in Private) =>
             reg[r].msg \in 1..Len(inbox) /\ reg[r].src = reg[r].msg
    /\ pc[r] \in Assisting \/ (pc[r] \in Telling /\ reg[r].kind \in Private /\ IsAssist(reg[r].msg))
          => IsAssist(reg[r].msg) /\ reg[r].kind = "draft-preview"
    /\ pc[r] \in {"respond", "record"} => reg[r].kind \in Private
    /\ pc[r] \in Keyed => reg[r].key.src = reg[r].src /\ reg[r].key.kind = reg[r].kind
    /\ pc[r] = "apply" => inbox[reg[r].msg].cmd \notin {"assist", "approve"}
    /\ pc[r] = "approve" => reg[r].msg \in 1..Len(inbox) /\ inbox[reg[r].msg].cmd = "approve"
    /\ pc[r] = "receive" => reg[r].body.candidate = 0
    /\ pc[r] \in {"invoke", "call"} => agent[r].calls + 1 \in Turns
    /\ pc[r] \in {"observe", "act", "checkpoint", "tool"} => agent[r].calls \in Turns
    /\ pc[r] = "observe" => agent[r].out \in Observed
    /\ pc[r] \in {"checkpoint", "tool"} => agent[r].did[2] \in Tools
    /\ pc[r] \in {"final"} \cup Telling /\ reg[r].kind = "final" =>
          reg[r].body.candidate \in Candidates

StoreInv   == StoreTypes /\ AssistTypes /\ MailTypes
ModelTypes == StoreInv /\ RunnerTypes /\ \A r \in Runners : InHand(r)


LEMMA ModelTypesInit == ModelInit => ModelTypes
<1> SUFFICES ASSUME ModelInit PROVE ModelTypes
    OBVIOUS
<1> USE DEF ModelInit, Init
<1>1. StoreTypes
    BY HandlerAssumption
    DEF StoreTypes, NoCase, Drafts, Sources, Candidates, Messages, NoCommand, NoBody, NoKey,
        Bodies, Keys, Mails, Statuses, Contents, Kinds
<1>2. AssistTypes
    BY DEF AssistTypes, NoAssist, NoAction, Actions, NotBound, NoBudget, Used, Sources, Outcomes, Lives
<1>3. MailTypes
    BY DEF MailTypes
<1>4. RunnerTypes
    BY DEF RunnerTypes, Labels, NoRegisters, NoBody, NoKey, Registers, Sources, Bodies, Keys,
           Drafts, Kinds, Outs, Statuses, NoAgent, Agents, Actions, Outcomes
<1>5. \A r \in Runners : InHand(r)
    BY DEF InHand, NoRegisters, Telling, Keyed, Assisting, Preparing, Running, Looping
<1> QED
    BY <1>1, <1>2, <1>3, <1>4, <1>5 DEF ModelTypes, StoreInv

-----------------------------------------------------------------------------
(* Steps of one runner.                                                    *)

LEMMA GotoIs ==
    ASSUME RunnerTypes, NEW r \in Runners, NEW label \in Labels, NEW regs \in Registers,
           Goto(r, label, regs)
    PROVE  /\ pc' \in [Runners -> Labels] /\ reg' \in [Runners -> Registers]
           /\ pc'[r] = label /\ reg'[r] = regs
           /\ \A q \in Runners : q # r => pc'[q] = pc[q] /\ reg'[q] = reg[q]
BY DEF RunnerTypes, Goto

LEMMA NoRegistersType == NoRegisters \in Registers /\ NoRegisters.body.candidate = 0
BY DEF NoRegisters, NoBody, NoKey, Registers, Sources, Bodies, Keys, Drafts, Kinds, Outs, Statuses

LEMMA NoAgentType == NoAgent \in Agents
BY DEF NoAgent, Agents, Actions, Outcomes

LEMMA ModelFacts ==
    ASSUME ModelTypes, NEW r \in Runners
    PROVE  /\ StoreInv /\ StoreTypes /\ AssistTypes /\ MailTypes /\ RunnerTypes /\ InHand(r)
           /\ reg[r] \in Registers /\ pc[r] \in Labels /\ agent[r] \in Agents
BY DEF ModelTypes, StoreInv, RunnerTypes

(* The runner alone may change what it keeps of an assist.                 *)
Alone(r) ==
    /\ agent' \in [Runners -> Agents]
    /\ \A q \in Runners : q # r => agent'[q] = agent[q]

LEMMA AgentAlone ==
    ASSUME RunnerTypes, NEW r \in Runners, UNCHANGED agent \/ Keep(r)
    PROVE  Alone(r)
BY NoAgentType DEF Alone, Keep, RunnerTypes

(* It waits for the next event or is gone.                                 *)
Rests(r) ==
    \E label \in {"idle", "receive"}, regs \in Registers :
        /\ Goto(r, label, regs) /\ regs.body.candidate = 0
        /\ regs.accepted \subseteq reg[r].accepted

LEMMA Resting ==
    ASSUME RunnerTypes, NEW r \in Runners,
           Refused(r) \/ Await(r) \/ Leave(r) \/ Answered(r)
    PROVE  Rests(r)
<1>1. reg[r] \in Registers /\ reg[r].accepted \in SUBSET (Sources \X Kinds)
    BY DEF RunnerTypes, Registers
<1> DEFINE regs == [NoRegisters EXCEPT !.accepted = reg[r].accepted]
<1>2. regs \in Registers /\ regs.accepted = reg[r].accepted /\ regs.body.candidate = 0
    BY <1>1, NoRegistersType DEF Registers
<1>3. Await(r) \/ Leave(r)
    BY DEF Refused, Answered
<1>4. NoRegisters.accepted \subseteq reg[r].accepted
    BY DEF NoRegisters
<1> QED
    BY <1>2, <1>3, <1>4, NoRegistersType DEF Rests, Await, Leave

(* What the others rely on stays.                                          *)
Mild == inbox' = inbox /\ case'.version >= case.version

LEMMA OthersInHand ==
    ASSUME StoreTypes, Mild, StoreTypes', NEW q \in Runners, InHand(q),
           pc'[q] = pc[q], reg'[q] = reg[q], agent'[q] = agent[q]
    PROVE  InHand(q)'
<1>1. case.version \in Nat /\ case'.version \in Nat
    BY DEF StoreTypes
<1>2. \A m : IsAssist(m)' <=> IsAssist(m)
    BY DEF IsAssist, Mild
<1> QED
    BY <1>1, <1>2 DEF InHand, Mild

LEMMA RunnerStep ==
    ASSUME ModelTypes, StoreInv', Mild, NEW r \in Runners, NEW label \in Labels,
           NEW regs \in Registers, Goto(r, label, regs), Alone(r), InHand(r)'
    PROVE  ModelTypes'
<1>1. RunnerTypes'
    BY GotoIs DEF Alone, RunnerTypes, ModelTypes
<1>2. \A q \in Runners : q # r =>
        pc'[q] = pc[q] /\ reg'[q] = reg[q] /\ agent'[q] = agent[q]
    BY GotoIs DEF Alone, ModelTypes
<1>3. StoreTypes /\ StoreTypes' /\ \A q \in Runners : InHand(q)
    BY DEF ModelTypes, StoreInv
<1>4. \A q \in Runners : InHand(q)'
    BY <1>2, <1>3, OthersInHand
<1> QED
    BY <1>1, <1>4 DEF ModelTypes

LEMMA RestStep ==
    ASSUME ModelTypes, StoreInv', Mild, NEW r \in Runners, pc[r] \notin {"idle", "intake"}, Rests(r), Alone(r)
    PROVE  ModelTypes'
<1>1. PICK label \in {"idle", "receive"}, regs \in Registers :
        Goto(r, label, regs) /\ regs.body.candidate = 0
    BY DEF Rests
<1>2. label \in Labels
    BY DEF Labels
<1>3. pc'[r] = label /\ reg'[r] = regs
    BY <1>1, <1>2, GotoIs, ModelFacts
<1>4. case'.version >= 1
    BY ModelFacts DEF InHand, Mild, StoreInv, StoreTypes
<1>5. InHand(r)'
    BY <1>1, <1>3, <1>4
    DEF InHand, Telling, Keyed, Assisting, Preparing, Running, Looping
<1> QED
    BY <1>1, <1>2, <1>5, RunnerStep

(* Only bodies may go, and the model's candidate be marked so.             *)
Quiet ==
    /\ UNCHANGED <<case, decision, movedBy, command, shown, inbox, assistVars>>
    /\ artifact' = artifact \/ artifact' = AllDeleted
    /\ bound' = bound \/ bound' = ContentDeleted

LEMMA QuietStore ==
    ASSUME StoreInv, Quiet
    PROVE  StoreInv' /\ Mild
<1>1. artifact' \in [{0} \cup Candidates -> Contents]
    BY DEF Quiet, AllDeleted, StoreInv, StoreTypes, Contents
<1>2. StoreTypes'
    BY <1>1 DEF StoreInv, StoreTypes, Quiet
<1>3. bound' \in [Candidates -> [assist : Sources, budget : Used, life : Lives]]
  <2>1. bound \in [Candidates -> [assist : Sources, budget : Used, life : Lives]]
      BY DEF StoreInv, AssistTypes
  <2>2. ASSUME NEW c, bound' = [bound EXCEPT ![c].life = "DELETED"]
        PROVE  bound' \in [Candidates -> [assist : Sources, budget : Used, life : Lives]]
      BY <2>1, <2>2 DEF Lives
  <2> QED
      BY <2>1, <2>2 DEF Quiet, ContentDeleted
<1>4. AssistTypes'
    BY <1>3 DEF StoreInv, AssistTypes, Quiet, assistVars
<1>5. MailTypes'
    BY DEF StoreInv, MailTypes, Quiet
<1>6. Mild
    BY DEF Mild, Quiet, StoreInv, StoreTypes
<1> QED
    BY <1>2, <1>4, <1>5, <1>6 DEF StoreInv

LEMMA QuietStep ==
    ASSUME ModelTypes, Quiet, NEW r \in Runners, NEW label \in Labels, NEW regs \in Registers,
           Goto(r, label, regs), Alone(r), InHand(r)'
    PROVE  ModelTypes'
BY QuietStore, ModelFacts, RunnerStep

LEMMA QuietRest ==
    ASSUME ModelTypes, Quiet, NEW r \in Runners, pc[r] \notin {"idle", "intake"}, Rests(r),
           Alone(r)
    PROVE  ModelTypes'
BY QuietStore, ModelFacts, RestStep

-----------------------------------------------------------------------------
(* Intake and notification.                                                *)

LEMMA StartRunTypes ==
    ASSUME ModelTypes, NEW r \in Runners, StartRun(r), UNCHANGED <<assistVars, bound, agent>>
    PROVE  ModelTypes'
<1>1. Quiet /\ Goto(r, "intake", NoRegisters)
    BY DEF StartRun, Quiet, caseVars, replyVars, sendVars, envVars
<1>2. "intake" \in Labels
    BY DEF Labels
<1>3. pc'[r] = "intake"
    BY <1>1, <1>2, GotoIs, ModelFacts, NoRegistersType
<1>4. InHand(r)'
    BY <1>3 DEF InHand, Telling, Keyed, Assisting, Preparing, Running, Looping
<1> QED
    BY <1>1, <1>2, <1>4, QuietStep, AgentAlone, ModelFacts, NoRegistersType

LEMMA CreateIssueArtifactTypes ==
    ASSUME ModelTypes, NEW r \in Runners, CreateIssueArtifact(r),
           UNCHANGED <<assistVars, bound, agent>>
    PROVE  ModelTypes'
<1> USE ModelFacts
<1>1. /\ UNCHANGED <<decision, movedBy, command, shown, inbox>> /\ Goto(r, "notify", reg[r])
      /\ \/ case = NoCase /\ case' = [version |-> 1, status |-> "READY", candidate |-> 0]
            /\ artifact' = [artifact EXCEPT ![0] = "reachable"]
         \/ case # NoCase /\ UNCHANGED <<case, artifact>>
    BY DEF CreateIssueArtifact, replyVars, sendVars, envVars
<1>2. artifact' \in [{0} \cup Candidates -> Contents]
    BY <1>1 DEF StoreTypes, Contents
<1>3. case' \in [version : Nat, status : Statuses, candidate : Drafts] /\ case'.version >= 1
    BY <1>1 DEF StoreTypes, Statuses, Drafts
<1>4. StoreInv' /\ Mild
    BY <1>1, <1>2, <1>3 DEF StoreInv, StoreTypes, AssistTypes, assistVars, MailTypes, Mild, NoCase
<1>5. "notify" \in Labels
    BY DEF Labels
<1>6. pc'[r] = "notify"
    BY <1>1, <1>5, GotoIs
<1>7. InHand(r)'
    BY <1>3, <1>6 DEF InHand, Telling, Keyed, Assisting, Preparing, Running, Looping
<1> QED
    BY <1>1, <1>4, <1>5, <1>7, RunnerStep, AgentAlone

LEMMA CreateNotificationIntentTypes ==
    ASSUME ModelTypes, NEW r \in Runners, CreateNotificationIntent(r),
           UNCHANGED <<assistVars, bound, agent>>
    PROVE  ModelTypes'
<1> USE ModelFacts
<1>1. Quiet /\ pc[r] = "notify" /\ Goto(r, "attempt", reg[r])
    BY DEF CreateNotificationIntent, Quiet, caseVars, replyVars, sendVars, envVars
<1>2. "attempt" \in Labels
    BY DEF Labels
<1>3. pc'[r] = "attempt"
    BY <1>1, <1>2, GotoIs
<1>4. InHand(r)'
    BY <1>1, <1>3 DEF InHand, Telling, Keyed, Assisting, Preparing, Running, Looping, Quiet
<1> QED
    BY <1>1, <1>2, <1>4, QuietStep, AgentAlone

LEMMA AfterNoticeTypes ==
    ASSUME ModelTypes, Quiet, NEW r \in Runners, pc[r] \notin {"idle", "intake"}, Alone(r),
           NEW status, AfterNotice(r, status)
    PROVE  ModelTypes'
<1> USE ModelFacts
<1>1. CASE Await(r) \/ Leave(r)
    BY <1>1, Resting, QuietRest
<1>2. CASE ~(Await(r) \/ Leave(r))
  <2> DEFINE regs == [reg[r] EXCEPT !.kind = "group-nudge", !.out = "none"]
  <2>1. Goto(r, "intent", regs)
      BY <1>2 DEF AfterNotice
  <2>2. "intent" \in Labels /\ regs \in Registers /\ regs.kind = "group-nudge"
      BY DEF Labels, Telling, Registers, Kinds, Group, Outs
  <2>3. pc'[r] = "intent" /\ reg'[r] = regs
      BY <2>1, <2>2, GotoIs
  <2> HIDE DEF regs
  <2>4. InHand(r)'
      BY <2>2, <2>3
      DEF InHand, Telling, Keyed, Assisting, Preparing, Running, Looping, Private, Quiet
  <2> QED
      BY <2>1, <2>2, <2>4, QuietStep
<1> QED
    BY <1>1, <1>2

LEMMA StartAttemptTypes ==
    ASSUME ModelTypes, NEW r \in Runners, StartAttempt(r), UNCHANGED <<assistVars, bound, agent>>
    PROVE  ModelTypes'
<1> USE ModelFacts
<1>1. Quiet /\ pc[r] = "attempt" /\ Alone(r)
    BY AgentAlone DEF StartAttempt, Quiet, caseVars, replyVars, sendVars, envVars
<1>2. CASE Goto(r, "notifying", reg[r])
  <2>1. "notifying" \in Labels
      BY DEF Labels
  <2>2. pc'[r] = "notifying"
      BY <1>2, <2>1, GotoIs
  <2>3. InHand(r)'
      BY <1>1, <2>2 DEF InHand, Telling, Keyed, Assisting, Preparing, Running, Looping, Quiet
  <2> QED
      BY <1>1, <1>2, <2>1, <2>3, QuietStep
<1>3. CASE Leave(r) \/ AfterNotice(r, "unknown") \/ AfterNotice(r, notice)
    BY <1>1, <1>3, AfterNoticeTypes, Resting, QuietRest
<1> QED
    BY <1>2, <1>3 DEF StartAttempt

LEMMA NotifyC2cTypes ==
    ASSUME ModelTypes, NEW r \in Runners, NotifyC2c(r), UNCHANGED <<assistVars, bound, agent>>
    PROVE  ModelTypes'
<1> USE ModelFacts
<1>1. PICK out \in {"accepted"} \cup Failing : Goto(r, "noting", [reg[r] EXCEPT !.out = out])
    BY DEF NotifyC2c
<1>2. Quiet /\ pc[r] = "notifying" /\ Alone(r)
    BY AgentAlone DEF NotifyC2c, Quiet, caseVars, replyVars, envVars
<1>3. "noting" \in Labels /\ [reg[r] EXCEPT !.out = out] \in Registers
    BY DEF Labels, Registers, Outs, Accepted
<1>4. pc'[r] = "noting"
    BY <1>1, <1>3, GotoIs
<1>5. InHand(r)'
    BY <1>2, <1>4 DEF InHand, Telling, Keyed, Assisting, Preparing, Running, Looping, Quiet
<1> QED
    BY <1>1, <1>2, <1>3, <1>5, QuietStep

LEMMA RecordNotificationTypes ==
    ASSUME ModelTypes, NEW r \in Runners, RecordNotification(r),
           UNCHANGED <<assistVars, bound, agent>>
    PROVE  ModelTypes'
<1>1. Quiet /\ pc[r] = "noting"
    BY DEF RecordNotification, Quiet, caseVars, replyVars, sendVars, envVars
<1> QED
    BY <1>1, AgentAlone, ModelFacts, AfterNoticeTypes DEF RecordNotification

-----------------------------------------------------------------------------
(* Commands, approvals and replies that leave the store as it is.          *)

LEMMA MailFacts ==
    ASSUME ModelTypes, NEW m \in DOMAIN inbox
    PROVE  /\ m \in 1..Len(inbox) /\ m \in Messages /\ m \in Sources /\ inbox[m] \in Mails
           /\ inbox[m].version \in Nat /\ inbox[m].request \in Drafts
<1>1. inbox \in Seq(Mails) /\ Len(inbox) <= MaxMessages /\ MaxMessages \in Nat
    BY HandlerAssumption DEF ModelTypes, StoreInv, StoreTypes
<1>2. DOMAIN inbox = 1..Len(inbox) /\ Len(inbox) \in Nat
    BY <1>1
<1>3. inbox[m] \in Mails
    BY <1>1, <1>2
<1>4. inbox[m].version \in Nat /\ inbox[m].request \in Drafts
    BY <1>3 DEF Mails
<1> QED
    BY <1>1, <1>2, <1>3, <1>4 DEF Messages, Sources

LEMMA InboxDomain == StoreTypes => DOMAIN inbox = 1..Len(inbox)
BY DEF StoreTypes

LEMMA ReceivePrivateTypes ==
    ASSUME ModelTypes, NEW r \in Runners, NEW m \in PrivateMessages, inbox[m].cmd # "assist",
           ReceivePrivate(r, m), UNCHANGED <<assistVars, bound, agent>>
    PROVE  ModelTypes'
<1> USE ModelFacts
<1> DEFINE known == command[m]
           regs  == [reg[r] EXCEPT !.msg = m, !.src = m]
           again == [regs EXCEPT !.kind = known.kind, !.key = known.key, !.body = known.body]
<1>1. Quiet /\ Alone(r) /\ pc[r] = "receive"
    BY AgentAlone DEF ReceivePrivate, Reading, Quiet, replyVars, sendVars, envVars
<1>2. m \in 1..Len(inbox) /\ m \in Messages /\ m \in Sources /\ inbox[m].cmd # "approve"
    BY MailFacts DEF PrivateMessages
<1>3. /\ regs \in Registers /\ regs.msg = m /\ regs.src = m
      /\ known.kind \in Kinds /\ known.key \in Keys /\ known.body \in Bodies
    BY <1>2 DEF Registers, StoreTypes
<1>4. CASE Refused(r) \/ Await(r)
    BY <1>1, <1>4, Resting, QuietRest
<1>5. CASE Goto(r, "apply", regs)
  <2>1. "apply" \in Labels
      BY DEF Labels
  <2>2. pc'[r] = "apply" /\ reg'[r] = regs
      BY <1>3, <1>5, <2>1, GotoIs
  <2> HIDE DEF regs
  <2>3. InHand(r)'
      BY <1>1, <1>2, <1>3, <2>2
      DEF InHand, Telling, Keyed, Assisting, Preparing, Running, Looping, Quiet
  <2> QED
      BY <1>1, <1>3, <1>5, <2>1, <2>3, QuietStep
<1>6. CASE known # NoCommand /\ Goto(r, "execute", again)
  <2>1. "execute" \in Labels
      BY DEF Labels, Telling
  <2>2. /\ again \in Registers /\ again.msg = m /\ again.src = m
        /\ again.kind = known.kind /\ again.key = known.key
      BY <1>3 DEF Registers
  <2>3. pc'[r] = "execute" /\ reg'[r] = again
      BY <1>6, <2>1, <2>2, GotoIs
  <2>4. known.kind \in Private /\ known.key.src = m /\ known.key.kind = known.kind
      BY <1>2, <1>6 DEF MailTypes
  <2> HIDE DEF again, known
  <2>5. InHand(r)'
      BY <1>1, <1>2, <2>2, <2>3, <2>4
      DEF InHand, Telling, Keyed, Assisting, Preparing, Running, Looping, Quiet, Private, IsAssist
  <2> QED
      BY <1>1, <1>6, <2>1, <2>2, <2>5, QuietStep
<1>7. Refused(r) \/ Await(r) \/ Goto(r, "apply", regs)
        \/ (known # NoCommand /\ Goto(r, "execute", again))
    BY DEF ReceivePrivate, Reading
<1> QED
    BY <1>4, <1>5, <1>6, <1>7

LEMMA ReceiveManualTypes ==
    ASSUME ModelTypes, NEW r \in Runners, NEW m \in PrivateMessages, ReceiveManual(r, m)
    PROVE  ModelTypes'
<1>1. CASE ReceivePrivate(r, m)
    BY <1>1, ReceivePrivateTypes DEF ReceiveManual
<1>2. CASE pc[r] = "receive" /\ Await(r) /\ UNCHANGED handlerVars
  <2>1. Quiet /\ Alone(r)
      BY <1>2, AgentAlone, ModelFacts
      DEF ReceiveManual, Quiet, handlerVars, caseVars, replyVars, sendVars, envVars
  <2> QED
      BY <1>2, <2>1, ModelFacts, Resting, QuietRest
<1> QED
    BY <1>1, <1>2 DEF ReceiveManual

LEMMA ReceiveAssistTypes ==
    ASSUME ModelTypes, NEW r \in Runners, NEW m \in PrivateMessages, ReceiveAssist(r, m)
    PROVE  ModelTypes'
<1> USE ModelFacts
<1> DEFINE known == command[m]
           regs  == [reg[r] EXCEPT !.msg = m, !.src = m, !.kind = "draft-preview"]
           again == [regs EXCEPT !.key = known.key, !.body = known.body]
<1>1. Quiet /\ Alone(r) /\ pc[r] = "receive" /\ inbox[m].cmd = "assist"
    BY AgentAlone DEF ReceiveAssist, Reading, Quiet, replyVars, sendVars, envVars
<1>2. m \in 1..Len(inbox) /\ m \in Messages /\ m \in Sources /\ IsAssist(m)
    BY <1>1, MailFacts DEF PrivateMessages, IsAssist
<1>3. /\ regs \in Registers /\ regs.msg = m /\ regs.src = m /\ regs.kind = "draft-preview"
      /\ regs.body = reg[r].body
      /\ known.kind \in Kinds /\ known.key \in Keys /\ known.body \in Bodies
    BY <1>2 DEF Registers, StoreTypes, Kinds, Private
<1>4. CASE Refused(r) \/ Await(r)
    BY <1>1, <1>4, Resting, QuietRest
<1>5. CASE Goto(r, "request", regs)
  <2>1. "request" \in Labels
      BY DEF Labels, Assisting, Preparing
  <2>2. pc'[r] = "request" /\ reg'[r] = regs
      BY <1>3, <1>5, <2>1, GotoIs
  <2> HIDE DEF regs
  <2>3. InHand(r)'
      BY <1>1, <1>2, <1>3, <2>2 DEF InHand, Telling, Keyed, Quiet, IsAssist
  <2> QED
      BY <1>1, <1>3, <1>5, <2>1, <2>3, QuietStep
<1>6. CASE known # NoCommand /\ Goto(r, "execute", again)
  <2>1. "execute" \in Labels
      BY DEF Labels, Telling
  <2>2. /\ again \in Registers /\ again.msg = m /\ again.src = m
        /\ again.kind = "draft-preview" /\ again.key = known.key
      BY <1>3 DEF Registers
  <2>3. pc'[r] = "execute" /\ reg'[r] = again
      BY <1>6, <2>1, <2>2, GotoIs
  <2>4. known.key.src = m /\ known.key.kind = "draft-preview"
      BY <1>1, <1>2, <1>6 DEF MailTypes
  <2> HIDE DEF again, known
  <2>5. InHand(r)'
      BY <1>1, <1>2, <2>2, <2>3, <2>4
      DEF InHand, Telling, Keyed, Assisting, Preparing, Running, Looping, Quiet, IsAssist
  <2> QED
      BY <1>1, <1>6, <2>1, <2>2, <2>5, QuietStep
<1>7. Refused(r) \/ Await(r) \/ Goto(r, "request", regs)
        \/ (known # NoCommand /\ Goto(r, "execute", again))
    BY DEF ReceiveAssist, Reading
<1> QED
    BY <1>4, <1>5, <1>6, <1>7

LEMMA RespondTypes ==
    ASSUME ModelTypes, NEW r \in Runners, Respond(r), UNCHANGED <<assistVars, bound, agent>>
    PROVE  ModelTypes'
<1> USE ModelFacts
<1> DEFINE body == ResponseBody(reg[r].kind, reg[r].body.candidate)
           regs == [reg[r] EXCEPT !.body = body]
<1>1. Quiet /\ Alone(r) /\ pc[r] = "respond"
    BY AgentAlone DEF Respond, Reading, Quiet, replyVars, sendVars, envVars
<1>2. body \in Bodies
    BY DEF ResponseBody, NoBody, Bodies, Registers, StoreTypes, Statuses, Drafts
<1>3. /\ regs \in Registers /\ regs.msg = reg[r].msg /\ regs.src = reg[r].src
      /\ regs.kind = reg[r].kind
    BY <1>2 DEF Registers
<1>4. CASE Goto(r, "intent", regs)
  <2>1. "intent" \in Labels
      BY DEF Labels, Telling
  <2>2. pc'[r] = "intent" /\ reg'[r] = regs
      BY <1>3, <1>4, <2>1, GotoIs
  <2> HIDE DEF regs, body
  <2>3. InHand(r)'
      BY <1>1, <1>3, <2>2
      DEF InHand, Telling, Keyed, Assisting, Preparing, Running, Looping, Quiet, Private, IsAssist
  <2> QED
      BY <1>1, <1>3, <1>4, <2>1, <2>3, QuietStep
<1>5. Refused(r) \/ Goto(r, "intent", regs)
    BY DEF Respond, Reading
<1> QED
    BY <1>1, <1>4, <1>5, Resting, QuietRest

LEMMA FinalDeliveryIntentTypes ==
    ASSUME ModelTypes, NEW r \in Runners, FinalDeliveryIntent(r),
           UNCHANGED <<assistVars, bound, agent>>
    PROVE  ModelTypes'
<1> USE ModelFacts
<1> DEFINE v    == reg[r].body.candidate
           regs == [reg[r] EXCEPT !.src = decision[v], !.kind = "final"]
<1>1. Quiet /\ Alone(r) /\ pc[r] = "final"
    BY AgentAlone DEF FinalDeliveryIntent, Reading, Quiet, replyVars, sendVars, envVars
<1>2. CASE Goto(r, "intent", regs) /\ case.candidate = v /\ case.version = v
  <2>1. v \in Candidates
      BY <1>1, <1>2, HandlerAssumption DEF InHand, StoreTypes, Drafts, Candidates
  <2>2. /\ regs \in Registers /\ regs.body.candidate = v /\ regs.kind = "final"
        /\ "intent" \in Labels
      BY <2>1 DEF Registers, StoreTypes, Kinds, Group, Labels, Telling
  <2>3. pc'[r] = "intent" /\ reg'[r] = regs
      BY <1>2, <2>2, GotoIs
  <2> HIDE DEF regs, v
  <2>4. InHand(r)'
      BY <1>1, <2>1, <2>2, <2>3
      DEF InHand, Telling, Keyed, Assisting, Preparing, Running, Looping, Quiet, Private
  <2> QED
      BY <1>1, <1>2, <2>2, <2>4, QuietStep
<1>3. Refused(r) \/ (Goto(r, "intent", regs) /\ case.candidate = v /\ case.version = v)
    BY DEF FinalDeliveryIntent, Reading
<1> QED
    BY <1>1, <1>2, <1>3, Resting, QuietRest

LEMMA CreatePassiveIntentTypes ==
    ASSUME ModelTypes, NEW r \in Runners, CreatePassiveIntent(r),
           UNCHANGED <<assistVars, bound, agent>>
    PROVE  ModelTypes'
<1> USE ModelFacts
<1> DEFINE k     == [src |-> reg[r].src, kind |-> reg[r].kind, version |-> case.version]
           regs  == [reg[r] EXCEPT !.key = k]
           label == IF reg[r].kind \in Private THEN "record" ELSE "execute"
<1>1. Quiet /\ Alone(r) /\ pc[r] = "intent" /\ Goto(r, label, regs)
    BY AgentAlone DEF CreatePassiveIntent, Quiet, caseVars, sendVars, envVars
<1>2. k \in Keys /\ k.src = reg[r].src /\ k.kind = reg[r].kind
    BY DEF Keys, Registers, StoreTypes
<1>3. /\ regs \in Registers /\ regs.key = k /\ regs.msg = reg[r].msg /\ regs.src = reg[r].src
      /\ regs.kind = reg[r].kind /\ regs.body = reg[r].body
    BY <1>2 DEF Registers
<1>4. label \in Labels /\ label \in {"record", "execute"}
      /\ (label = "record" => reg[r].kind \in Private)
    BY DEF Labels, Telling
<1> HIDE DEF k, regs, label
<1>5. pc'[r] = label /\ reg'[r] = regs
    BY <1>1, <1>3, <1>4, GotoIs
<1>6. InHand(r)'
    BY <1>1, <1>2, <1>3, <1>4, <1>5
    DEF InHand, Telling, Keyed, Assisting, Preparing, Running, Looping, Quiet, IsAssist
<1> QED
    BY <1>1, <1>3, <1>4, <1>6, QuietStep

LEMMA ExecutePassiveReplyTypes ==
    ASSUME ModelTypes, NEW r \in Runners, ExecuteModelReply(r)
    PROVE  ModelTypes'
<1> USE ModelFacts
<1>1. Quiet /\ Alone(r) /\ pc[r] = "execute"
    BY AgentAlone
    DEF ExecuteModelReply, ExecutePassiveReply, Quiet, caseVars, replyVars, sendVars, envVars
<1>2. ASSUME NEW label \in {"send", "result"}, NEW regs \in Registers, Goto(r, label, regs),
             regs.msg = reg[r].msg, regs.src = reg[r].src, regs.kind = reg[r].kind,
             regs.body = reg[r].body, regs.key = reg[r].key
      PROVE  ModelTypes'
  <2>1. label \in Labels
      BY DEF Labels, Telling
  <2>2. pc'[r] = label /\ reg'[r] = regs
      BY <1>2, <2>1, GotoIs
  <2>3. InHand(r)'
      BY <1>1, <1>2, <2>2
      DEF InHand, Telling, Keyed, Assisting, Preparing, Running, Looping, Quiet, IsAssist
  <2> QED
      BY <1>1, <1>2, <2>1, <2>3, QuietStep
<1>3. CASE Goto(r, "send", reg[r])
    BY <1>2, <1>3
<1>4. ASSUME NEW out \in {"expired_window", "duplicate"},
             Goto(r, "result", [reg[r] EXCEPT !.out = out])
      PROVE  ModelTypes'
  <2> DEFINE regs == [reg[r] EXCEPT !.out = out]
  <2>1. /\ regs \in Registers /\ regs.msg = reg[r].msg /\ regs.src = reg[r].src
        /\ regs.kind = reg[r].kind /\ regs.key = reg[r].key /\ regs.body = reg[r].body
      BY DEF Registers, Outs, Accepted
  <2> QED
      BY <1>2, <1>4, <2>1
<1>5. CASE Refused(r) \/ Answered(r)
    BY <1>1, <1>5, Resting, QuietRest
<1> QED
    BY <1>3, <1>4, <1>5 DEF ExecuteModelReply, ExecutePassiveReply

LEMMA DeleteModelContentTypes ==
    ASSUME ModelTypes, NEW r \in Runners, DeleteModelContent(r)
    PROVE  ModelTypes'
<1>1. Quiet /\ Alone(r) /\ pc[r] = "delete" /\ Answered(r)
    BY AgentAlone, ModelFacts
    DEF DeleteModelContent, DeleteArtifacts, Quiet, replyVars, sendVars, envVars
<1> QED
    BY <1>1, ModelFacts, Resting, QuietRest

LEMMA ModelCrashTypes ==
    ASSUME ModelTypes, NEW r \in Runners, ModelCrash(r)
    PROVE  ModelTypes'
<1> USE ModelFacts
<1>1. Quiet /\ Alone(r) /\ Leave(r)
    BY AgentAlone DEF ModelCrash, Crash, Quiet, caseVars, replyVars, sendVars
<1>2. pc'[r] = "idle" /\ "idle" \in Labels
    BY <1>1, GotoIs, NoRegistersType DEF Leave, Labels
<1>3. InHand(r)'
    BY <1>2 DEF InHand, Telling, Keyed, Assisting, Preparing, Running, Looping
<1> QED
    BY <1>1, <1>2, <1>3, NoRegistersType, QuietStep DEF Leave

LEMMA AssertModelApprovalTypes ==
    ASSUME ModelTypes, NEW r \in Runners, NEW m \in GroupMessages, AssertModelApproval(r, m)
    PROVE  ModelTypes'
<1> USE ModelFacts
<1>1. Quiet /\ Alone(r) /\ pc[r] = "receive"
    BY AgentAlone
    DEF AssertModelApproval, Quiet, handlerVars, caseVars, replyVars, sendVars, envVars
<1>2. m \in 1..Len(inbox) /\ m \in Sources /\ inbox[m].cmd = "approve"
    BY MailFacts DEF GroupMessages
<1>3. CASE Goto(r, "approve", [reg[r] EXCEPT !.msg = m])
  <2> DEFINE regs == [reg[r] EXCEPT !.msg = m]
  <2>1. regs \in Registers /\ regs.msg = m /\ "approve" \in Labels
      BY <1>2 DEF Registers, Labels
  <2>2. pc'[r] = "approve" /\ reg'[r] = regs
      BY <1>3, <2>1, GotoIs
  <2> HIDE DEF regs
  <2>3. InHand(r)'
      BY <1>1, <1>2, <2>1, <2>2
      DEF InHand, Telling, Keyed, Assisting, Preparing, Running, Looping, Quiet
  <2> QED
      BY <1>1, <1>3, <2>1, <2>3, QuietStep DEF regs
<1> QED
    BY <1>1, <1>3, Resting, QuietRest DEF AssertModelApproval

-----------------------------------------------------------------------------
(* Commands, approvals and replies that write.                             *)

(* Nothing of an assist is written.                                        *)
LEMMA AssistKept ==
    ASSUME AssistTypes, UNCHANGED assistVars,
           bound' \in [Candidates -> [assist : Sources, budget : Used, life : Lives]]
    PROVE  AssistTypes'
BY DEF AssistTypes, assistVars

LEMMA BoundKept ==
    AssistTypes /\ UNCHANGED bound =>
       bound' \in [Candidates -> [assist : Sources, budget : Used, life : Lives]]
BY DEF AssistTypes

LEMMA ReplacedType ==
    AssistTypes => Replaced \in [Candidates -> [assist : Sources, budget : Used, life : Lives]]
BY DEF AssistTypes, Replaced, Lives

LEMMA CandidateTypes ==
    ASSUME StoreTypes, NEW v \in Candidates
    PROVE  WithCandidate(v) \in [{0} \cup Candidates -> Contents]
BY DEF WithCandidate, Scheduled, StoreTypes, Contents

LEMMA TransitionSimpleCommandTypes ==
    ASSUME ModelTypes, NEW r \in Runners, TransitionSimpleCommand(r),
           UNCHANGED <<assistVars, bound, agent>>
    PROVE  ModelTypes'
<1> USE ModelFacts
<1> DEFINE m    == reg[r].msg
           cmd  == inbox[m].cmd
           v    == IF cmd = "pull" THEN case.version ELSE case.version + 1
           regs == [reg[r] EXCEPT !.kind = cmd]
<1>1. /\ pc[r] = "apply" /\ cmd \in {"pull", "accept", "reject"} /\ Alone(r)
      /\ UNCHANGED <<decision, command, shown, inbox, bound, assistVars>>
    BY AgentAlone DEF TransitionSimpleCommand, replyVars, sendVars, envVars
<1>2. m \in 1..Len(inbox) /\ m \in DOMAIN inbox /\ m \in Messages /\ m \in Sources
      /\ reg[r].src = m
  <2>1. m \in 1..Len(inbox) /\ m \in DOMAIN inbox /\ reg[r].src = m
      BY <1>1, InboxDomain DEF InHand
  <2> QED
      BY <2>1, MailFacts
<1>3. CASE Refused(r) /\ UNCHANGED <<case, artifact, movedBy>>
  <2>1. Quiet
      BY <1>1, <1>3 DEF Quiet
  <2> QED
      BY <1>1, <1>3, <2>1, Resting, QuietRest
<1>4. CASE /\ Authorized(inbox[m].version)
           /\ case' = [case EXCEPT !.version = v,
                          !.status = CASE cmd = "accept" -> "ACCEPTED"
                                       [] cmd = "reject" -> "REJECTED"
                                       [] OTHER -> @]
           /\ artifact' = IF cmd = "reject" THEN [a \in DOMAIN artifact |-> Scheduled(a)]
                                            ELSE artifact
           /\ movedBy' = IF cmd = "pull" THEN movedBy ELSE [movedBy EXCEPT ![v] = m]
           /\ Goto(r, "respond", regs)
  <2>1. case.version >= 1 /\ v \in Nat /\ v >= case.version /\ v >= 1
      BY <1>1 DEF InHand, StoreTypes
  <2>2. /\ case' \in [version : Nat, status : Statuses, candidate : Drafts]
        /\ case'.version = v
      BY <1>1, <1>4, <2>1 DEF StoreTypes, Statuses
  <2>3. artifact' \in [{0} \cup Candidates -> Contents]
      BY <1>4 DEF StoreTypes, Scheduled, Contents
  <2>4. movedBy' \in [Candidates -> Sources]
      BY <1>2, <1>4 DEF StoreTypes
  <2>5. StoreTypes' /\ Mild
      BY <1>1, <2>1, <2>2, <2>3, <2>4 DEF StoreTypes, Mild
  <2>6. StoreInv'
      BY <1>1, <2>5, AssistKept, BoundKept DEF StoreInv, MailTypes
  <2>7. /\ regs \in Registers /\ regs.kind = cmd /\ regs.msg = m /\ regs.src = m
        /\ "respond" \in Labels
      BY <1>1, <1>2 DEF Registers, Kinds, Private, Labels, Telling
  <2>8. pc'[r] = "respond" /\ reg'[r] = regs
      BY <1>4, <2>7, GotoIs
  <2> HIDE DEF regs, v
  <2>9. InHand(r)'
      BY <1>1, <1>2, <2>1, <2>2, <2>7, <2>8
      DEF InHand, Telling, Keyed, Assisting, Preparing, Running, Looping, Private, IsAssist
  <2> QED
      BY <1>1, <1>4, <2>5, <2>6, <2>7, <2>9, RunnerStep
<1> QED
    BY <1>3, <1>4 DEF TransitionSimpleCommand

LEMMA DraftCandidateTypes ==
    ASSUME ModelTypes, NEW r \in Runners, DraftCandidate(r)
    PROVE  ModelTypes'
<1> USE ModelFacts
<1> DEFINE m    == reg[r].msg
           v    == case.version + 1
           regs == [reg[r] EXCEPT !.kind = "draft-preview", !.body.candidate = v]
<1>1. /\ pc[r] = "apply" /\ inbox[m].cmd = "draft" /\ Alone(r)
      /\ UNCHANGED <<decision, command, shown, inbox, assistVars>>
      /\ bound' = IF case' = case THEN bound ELSE Replaced
    BY AgentAlone DEF DraftCandidate, CreateCandidateAndRequest, replyVars, sendVars, envVars
<1>2. m \in 1..Len(inbox) /\ m \in DOMAIN inbox /\ m \in Messages /\ m \in Sources
      /\ reg[r].src = m
  <2>1. m \in 1..Len(inbox) /\ m \in DOMAIN inbox /\ reg[r].src = m
      BY <1>1, InboxDomain DEF InHand
  <2> QED
      BY <2>1, MailFacts
<1>3. CASE Refused(r) /\ UNCHANGED <<case, artifact, movedBy>>
  <2>1. Quiet
      BY <1>1, <1>3 DEF Quiet
  <2> QED
      BY <1>1, <1>3, <2>1, Resting, QuietRest
<1>4. CASE /\ Authorized(inbox[m].version)
           /\ case' = [version |-> v, status |-> "DRAFTED", candidate |-> v]
           /\ artifact' = WithCandidate(v)
           /\ movedBy' = [movedBy EXCEPT ![v] = m]
           /\ Goto(r, "respond", regs)
  <2>1. case.version >= 1 /\ case.version < MaxVersion /\ case.version \in Nat
      BY <1>1, <1>2, <1>4 DEF InHand, StoreTypes, MailTypes, Authorized
  <2>2. v \in Candidates /\ v \in Nat
      BY <2>1, HandlerAssumption DEF Candidates
  <2>3. /\ case' \in [version : Nat, status : Statuses, candidate : Drafts]
        /\ case'.version = v
      BY <1>4, <2>2 DEF Statuses, Drafts
  <2>4. movedBy' \in [Candidates -> Sources]
      BY <1>2, <1>4 DEF StoreTypes
  <2>5. StoreTypes' /\ Mild
    <3>1. artifact' \in [{0} \cup Candidates -> Contents]
        BY <1>4, <2>2, CandidateTypes
    <3>2. case'.version >= 1 /\ Mild
        BY <1>1, <2>1, <2>3 DEF Mild
    <3> QED
        BY <1>1, <2>3, <2>4, <3>1, <3>2 DEF StoreTypes
  <2>6. StoreInv'
      BY <1>1, <2>5, AssistKept, BoundKept, ReplacedType DEF StoreInv, MailTypes
  <2>7. /\ regs \in Registers /\ regs.kind = "draft-preview" /\ regs.msg = m /\ regs.src = m
        /\ "respond" \in Labels
      BY <1>2, <2>2 DEF Registers, Kinds, Private, Labels, Telling, Bodies, Drafts
  <2>8. pc'[r] = "respond" /\ reg'[r] = regs
      BY <1>4, <2>7, GotoIs
  <2> HIDE DEF regs, v
  <2>9. InHand(r)'
      BY <1>1, <1>2, <2>1, <2>3, <2>5, <2>7, <2>8
      DEF InHand, Telling, Keyed, Assisting, Preparing, Running, Looping, Private, IsAssist, Mild
  <2> QED
      BY <1>1, <1>4, <2>5, <2>6, <2>7, <2>9, RunnerStep
<1> QED
    BY <1>3, <1>4 DEF DraftCandidate, CreateCandidateAndRequest

LEMMA RecordCommandOnceTypes ==
    ASSUME ModelTypes, NEW r \in Runners, RecordCommandOnce(r), UNCHANGED <<assistVars, bound, agent>>
    PROVE  ModelTypes'
<1> USE ModelFacts
<1> DEFINE m    == reg[r].msg
           mine == [kind |-> reg[r].kind, body |-> reg[r].body, key |-> reg[r].key]
           kept == IF command[m] = NoCommand THEN mine ELSE command[m]
           regs == [reg[r] EXCEPT !.kind = kept.kind, !.body = kept.body, !.key = kept.key]
<1>1. /\ pc[r] = "record" /\ Alone(r)
      /\ UNCHANGED <<case, decision, movedBy, shown, inbox, assistVars, bound>>
      /\ artifact' = artifact \/ artifact' = AllDeleted
      /\ command' = [command EXCEPT ![m] = kept]
    BY AgentAlone DEF RecordCommandOnce, Reading, sendVars, envVars
<1>2. /\ m \in 1..Len(inbox) /\ m \in DOMAIN inbox /\ m \in Messages /\ m \in Sources
      /\ reg[r].src = m /\ reg[r].kind \in Private
      /\ reg[r].key.src = m /\ reg[r].key.kind = reg[r].kind
      /\ inbox[m].cmd = "assist" => reg[r].kind = "draft-preview"
  <2>1. m \in 1..Len(inbox) /\ m \in DOMAIN inbox /\ reg[r].src = m
      BY <1>1, InboxDomain DEF InHand
  <2>2. m \in Messages /\ m \in Sources
      BY <2>1, MailFacts
  <2> QED
      BY <1>1, <2>1, <2>2 DEF InHand, Keyed, Telling, IsAssist
<1>3. /\ kept \in [kind : Kinds, body : Bodies, key : Keys] /\ kept.kind \in Private
      /\ kept.key.src = m /\ kept.key.kind = kept.kind
      /\ inbox[m].cmd = "assist" => kept.kind = "draft-preview"
  <2>1. CASE command[m] = NoCommand
    <3>1. mine \in [kind : Kinds, body : Bodies, key : Keys]
        BY DEF Registers
    <3> QED
        BY <1>2, <2>1, <3>1
  <2>2. CASE command[m] # NoCommand
      BY <1>2, <2>2 DEF StoreTypes, MailTypes
  <2> QED
      BY <2>1, <2>2
<1>4. /\ regs \in Registers /\ regs.msg = m /\ regs.src = m /\ regs.kind = kept.kind
      /\ regs.key = kept.key /\ "execute" \in Labels
    BY <1>2, <1>3 DEF Registers, Labels, Telling
<1> HIDE DEF kept, regs
<1>5. artifact' \in [{0} \cup Candidates -> Contents]
    BY <1>1 DEF AllDeleted, StoreTypes, Contents
<1>6. command' \in [Messages -> [kind : Kinds, body : Bodies, key : Keys]]
    BY <1>1, <1>3 DEF StoreTypes
<1>7. StoreTypes' /\ Mild
    BY <1>1, <1>5, <1>6 DEF StoreTypes, Mild
<1>8. MailTypes'
  <2>1. \A n \in Messages : command'[n] = IF n = m THEN kept ELSE command[n]
      BY <1>1, <1>2 DEF StoreTypes
  <2> QED
      BY <1>1, <1>2, <1>3, <2>1 DEF MailTypes
<1>9. StoreInv'
    BY <1>1, <1>7, <1>8, AssistKept, BoundKept DEF StoreInv
<1>10. CASE Refused(r)
    BY <1>1, <1>7, <1>9, <1>10, Resting, RestStep
<1>11. CASE Goto(r, "execute", regs)
  <2>1. pc'[r] = "execute" /\ reg'[r] = regs
      BY <1>4, <1>11, GotoIs
  <2>2. InHand(r)'
      BY <1>1, <1>2, <1>3, <1>4, <2>1
      DEF InHand, Telling, Keyed, Assisting, Preparing, Running, Looping, Private, IsAssist
  <2> QED
      BY <1>1, <1>4, <1>7, <1>9, <1>11, <2>2, RunnerStep
<1>12. Refused(r) \/ Goto(r, "execute", regs)
    BY DEF RecordCommandOnce, Reading, kept, regs
<1> QED
    BY <1>10, <1>11, <1>12

LEMMA ApproveModelRequestTypes ==
    ASSUME ModelTypes, NEW r \in Runners, ApproveModelRequest(r)
    PROVE  ModelTypes'
<1> USE ModelFacts
<1> DEFINE m    == reg[r].msg
           v    == inbox[m].request
           regs == [reg[r] EXCEPT !.msg = m, !.body.candidate = v]
<1>1. /\ pc[r] = "approve" /\ Alone(r)
      /\ UNCHANGED <<artifact, movedBy, command, shown, inbox, assistVars, bound>>
    BY AgentAlone DEF ApproveModelRequest, ApproveRequest, replyVars, sendVars, envVars
<1>2. m \in 1..Len(inbox) /\ m \in DOMAIN inbox /\ m \in Messages /\ m \in Sources
      /\ v \in Candidates
  <2>1. m \in 1..Len(inbox) /\ m \in DOMAIN inbox /\ inbox[m].cmd = "approve"
      BY <1>1, InboxDomain DEF InHand
  <2> QED
      BY <2>1, MailFacts DEF MailTypes
<1>3. CASE Await(r) /\ UNCHANGED <<decision, case>>
  <2>1. Quiet
      BY <1>1, <1>3 DEF Quiet
  <2> QED
      BY <1>1, <1>3, <2>1, Resting, QuietRest
<1>4. CASE /\ decision' = [decision EXCEPT ![v] = IF @ = 0 THEN m ELSE @]
           /\ case' = IF decision[v] = 0 THEN [case EXCEPT !.status = "APPROVED"] ELSE case
           /\ Goto(r, "final", regs)
  <2>1. /\ case' \in [version : Nat, status : Statuses, candidate : Drafts]
        /\ case'.version = case.version
      BY <1>4 DEF StoreTypes, Statuses
  <2>2. decision' \in [Candidates -> Sources]
      BY <1>2, <1>4 DEF StoreTypes
  <2>3. case.version >= 1 /\ case.version \in Nat
      BY <1>1 DEF InHand, StoreTypes
  <2>4. StoreTypes' /\ Mild
    <3>1. case'.version >= 1 /\ Mild
        BY <1>1, <2>1, <2>3 DEF Mild
    <3> QED
        BY <1>1, <2>1, <2>2, <3>1 DEF StoreTypes
  <2>5. StoreInv'
      BY <1>1, <2>4, AssistKept, BoundKept DEF StoreInv, MailTypes
  <2>6. /\ regs \in Registers /\ regs.body.candidate = v /\ "final" \in Labels
      BY <1>2 DEF Registers, Labels, Bodies, Drafts
  <2>7. pc'[r] = "final" /\ reg'[r] = regs
      BY <1>4, <2>6, GotoIs
  <2> HIDE DEF regs, v
  <2>8. InHand(r)'
      BY <1>2, <2>1, <2>3, <2>6, <2>7
      DEF InHand, Telling, Keyed, Assisting, Preparing, Running, Looping
  <2> QED
      BY <1>1, <1>4, <2>4, <2>5, <2>6, <2>8, RunnerStep
<1> QED
    BY <1>3, <1>4 DEF ApproveModelRequest, ApproveRequest

LEMMA SendTypes ==
    ASSUME ModelTypes, NEW r \in Runners, Send(r), UNCHANGED <<assistVars, bound, agent>>
    PROVE  ModelTypes'
<1> USE ModelFacts
<1> DEFINE k     == reg[r].key
           reply == [src |-> k.src, kind |-> k.kind, body |-> reg[r].body]
<1>1. /\ UNCHANGED <<case, artifact, decision, movedBy, command, inbox, assistVars, bound>>
      /\ pc[r] = "send" /\ (shown' = shown \/ shown' = shown \cup {reply}) /\ Alone(r)
    BY AgentAlone DEF Send, caseVars, replyVars, envVars
<1>2. reply \in [src : Sources, kind : Kinds, body : Bodies]
    BY DEF Registers, Keys
<1>3. StoreTypes' /\ Mild
  <2>1. case.version \in Nat /\ case'.version = case.version
      BY <1>1 DEF StoreTypes
  <2>2. Mild
      BY <1>1, <2>1 DEF Mild
  <2> HIDE DEF reply
  <2>3. shown' \subseteq [src : Sources, kind : Kinds, body : Bodies]
      BY <1>1, <1>2 DEF StoreTypes
  <2> QED
      BY <1>1, <2>2, <2>3 DEF StoreTypes
<1>4. StoreInv'
    BY <1>1, <1>3, AssistKept, BoundKept DEF StoreInv, MailTypes
<1>5. ASSUME NEW regs \in Registers, Goto(r, "result", regs),
             regs.msg = reg[r].msg, regs.src = reg[r].src, regs.kind = reg[r].kind,
             regs.body = reg[r].body, regs.key = reg[r].key
      PROVE  ModelTypes'
  <2>1. "result" \in Labels
      BY DEF Labels, Telling
  <2>2. pc'[r] = "result" /\ reg'[r] = regs
      BY <1>5, <2>1, GotoIs
  <2>3. InHand(r)'
      BY <1>1, <1>5, <2>2
      DEF InHand, Telling, Keyed, Assisting, Preparing, Running, Looping, IsAssist
  <2> QED
      BY <1>1, <1>3, <1>4, <1>5, <2>1, <2>3, RunnerStep
<1>6. ASSUME NEW out \in Outs, Goto(r, "result", [reg[r] EXCEPT !.out = out])
      PROVE  ModelTypes'
  <2> DEFINE regs == [reg[r] EXCEPT !.out = out]
  <2>1. /\ regs \in Registers /\ regs.msg = reg[r].msg /\ regs.src = reg[r].src
        /\ regs.kind = reg[r].kind /\ regs.key = reg[r].key /\ regs.body = reg[r].body
      BY DEF Registers
  <2> QED
      BY <1>5, <1>6, <2>1
<1>7. ASSUME NEW out \in Outs,
             Goto(r, "result", [reg[r] EXCEPT !.out = out, !.accepted = @ \cup {<<k.src, k.kind>>}])
      PROVE  ModelTypes'
  <2> DEFINE regs == [reg[r] EXCEPT !.out = out, !.accepted = @ \cup {<<k.src, k.kind>>}]
  <2>0. <<k.src, k.kind>> \in Sources \X Kinds /\ reg[r].accepted \in SUBSET (Sources \X Kinds)
      BY DEF Registers, Keys
  <2>1. /\ regs \in Registers /\ regs.msg = reg[r].msg /\ regs.src = reg[r].src
        /\ regs.kind = reg[r].kind /\ regs.key = reg[r].key /\ regs.body = reg[r].body
      BY <2>0 DEF Registers
  <2> QED
      BY <1>5, <1>7, <2>1
<1>8. {"duplicate", "accepted", "expired_window", "unknown"} \cup Failing \subseteq Outs
    BY DEF Outs, Accepted, Failing
<1> QED
    BY <1>6, <1>7, <1>8 DEF Send

LEMMA RecordPassiveResultTypes ==
    ASSUME ModelTypes, NEW r \in Runners, RecordPassiveResult(r),
           UNCHANGED <<assistVars, bound, agent>>
    PROVE  ModelTypes'
<1> USE ModelFacts
<1>1. /\ UNCHANGED <<artifact, decision, movedBy, command, shown, inbox, assistVars, bound>>
      /\ pc[r] = "result" /\ Alone(r)
      /\ case' = [case EXCEPT !.status = "FINAL_ACCEPTED"] \/ case' = case
    BY AgentAlone DEF RecordPassiveResult, sendVars, envVars
<1>2. /\ case' \in [version : Nat, status : Statuses, candidate : Drafts]
      /\ case'.version = case.version
    BY <1>1 DEF StoreTypes, Statuses
<1>3. case.version >= 1 /\ case.version \in Nat
    BY <1>1 DEF InHand, StoreTypes
<1>4. StoreTypes' /\ Mild
  <2>1. case'.version >= 1 /\ Mild
      BY <1>1, <1>2, <1>3 DEF Mild
  <2> QED
      BY <1>1, <1>2, <2>1 DEF StoreTypes
<1>5. StoreInv'
    BY <1>1, <1>4, AssistKept, BoundKept DEF StoreInv, MailTypes
<1>6. CASE Goto(r, "delete", reg[r])
  <2>1. "delete" \in Labels
      BY DEF Labels
  <2>2. pc'[r] = "delete" /\ reg'[r] = reg[r]
      BY <1>6, <2>1, GotoIs
  <2>3. InHand(r)'
      BY <1>2, <1>3, <2>2 DEF InHand, Telling, Keyed, Assisting, Preparing, Running, Looping
  <2> QED
      BY <1>1, <1>4, <1>5, <1>6, <2>1, <2>3, RunnerStep
<1>7. CASE Answered(r)
    BY <1>1, <1>4, <1>5, <1>7, Resting, RestStep
<1> QED
    BY <1>6, <1>7 DEF RecordPassiveResult

LEMMA EnvironmentTypes ==
    ASSUME ModelTypes, Environment, UNCHANGED <<assistVars, bound, agent>>
    PROVE  ModelTypes'
<1>0. StoreTypes /\ AssistTypes /\ MailTypes /\ RunnerTypes
    BY DEF ModelTypes, StoreInv
<1>1. UNCHANGED <<case, artifact, decision, movedBy, command, shown, pc, reg>>
    BY DEF Environment, PostPrivate, PostApproval, Post, RevokeHandlerBinding, Pass, caseVars,
           replyVars, sendVars
<1>2. CASE UNCHANGED inbox
  <2>1. StoreInv'
      BY <1>0, <1>1, <1>2, AssistKept, BoundKept DEF StoreInv, StoreTypes, MailTypes
  <2> QED
      BY <1>0, <1>1, <1>2, <2>1 DEF ModelTypes, RunnerTypes, InHand, IsAssist
<1>3. ASSUME NEW mail \in Mails, Len(inbox) < MaxMessages, inbox' = Append(inbox, mail),
             mail.cmd # "approve" => mail.version >= 1,
             mail.cmd \notin {"pull", "approve"} => mail.version < MaxVersion,
             mail.cmd = "approve" => mail.request \in Candidates
      PROVE  ModelTypes'
  <2>1. /\ inbox' \in Seq(Mails) /\ Len(inbox') = Len(inbox) + 1 /\ Len(inbox) \in Nat
        /\ \A m \in 1..Len(inbox) : inbox'[m] = inbox[m]
        /\ inbox'[Len(inbox')] = mail
      BY <1>0, <1>3 DEF StoreTypes
  <2>2. Len(inbox') <= MaxMessages
      BY <1>3, <2>1, HandlerAssumption
  <2>3. \A m \in 1..Len(inbox') : m \in 1..Len(inbox) \/ m = Len(inbox')
      BY <2>1
  <2>4. MailTypes'
    <3>1. \A m \in 1..Len(inbox') :
            /\ inbox'[m].cmd # "approve" => inbox'[m].version >= 1
            /\ inbox'[m].cmd \notin {"pull", "approve"} => inbox'[m].version < MaxVersion
            /\ inbox'[m].cmd = "approve" => inbox'[m].request \in Candidates
        BY <1>0, <1>3, <2>1, <2>3 DEF MailTypes
    <3>2. \A m \in 1..Len(inbox) : m \in 1..Len(inbox')
        BY <2>1
    <3> QED
        BY <1>0, <1>1, <2>1, <3>1, <3>2 DEF MailTypes
  <2>5. StoreInv'
      BY <1>0, <1>1, <2>1, <2>2, <2>4, AssistKept, BoundKept DEF StoreInv, StoreTypes
  <2>6. ASSUME NEW r \in Runners PROVE InHand(r)'
    <3>1. InHand(r)
        BY DEF ModelTypes
    <3>2. \A m \in 1..Len(inbox) : m \in 1..Len(inbox')
        BY <2>1
    <3>3. pc'[r] = pc[r] /\ reg'[r] = reg[r] /\ agent'[r] = agent[r] /\ case' = case
        BY <1>1
    <3>4. pc[r] \in {"apply", "respond", "record"} \cup Assisting
             \/ (pc[r] \in Telling /\ reg[r].kind \in Private) => reg[r].msg \in 1..Len(inbox)
        BY <3>1 DEF InHand
    <3> QED
        BY <2>1, <3>1, <3>2, <3>3, <3>4 DEF InHand, IsAssist, Telling
  <2> QED
      BY <1>0, <1>1, <2>5, <2>6 DEF ModelTypes, RunnerTypes
<1>4. ASSUME NEW cmd \in Commands, PostPrivate(cmd) PROVE ModelTypes'
  <2> DEFINE mail == [cmd |-> cmd, version |-> case.version, request |-> 0]
  <2>1. mail \in Mails /\ mail.cmd = cmd /\ mail.version = case.version /\ cmd # "approve"
      BY <1>0, HandlerAssumption DEF Mails, StoreTypes, Drafts
  <2>2. case.version >= 1
      BY <1>0, <1>4 DEF PostPrivate, StoreTypes
  <2> QED
      BY <1>3, <1>4, <2>1, <2>2 DEF PostPrivate, Post
<1>5. ASSUME PostApproval PROVE ModelTypes'
  <2>1. PICK p \in Previews : Post("approve", p.version, p.candidate)
      BY <1>5 DEF PostApproval
  <2>2. p \in Bodies /\ p.candidate \in Candidates
      BY <1>0 DEF Previews, StoreTypes, Bodies, Drafts
  <2> DEFINE mail == [cmd |-> "approve", version |-> p.version, request |-> p.candidate]
  <2>3. mail \in Mails /\ mail.cmd = "approve" /\ mail.request \in Candidates
      BY <2>2 DEF Mails, Bodies, Drafts
  <2> QED
      BY <1>3, <2>1, <2>3 DEF Post
<1> QED
    BY <1>2, <1>4, <1>5 DEF Environment, RevokeHandlerBinding, Pass

-----------------------------------------------------------------------------
(* The steps of an assist.                                                 *)

LEMMA HandFacts ==
    ASSUME ModelTypes, NEW r \in Runners, pc[r] \in Assisting
    PROVE  /\ reg[r].msg \in Messages /\ reg[r].msg \in Sources /\ IsAssist(reg[r].msg)
           /\ reg[r].src = reg[r].msg /\ reg[r].kind = "draft-preview"
           /\ reg[r].body.candidate = 0 /\ case.version >= 1
<1>1. /\ IsAssist(reg[r].msg) /\ reg[r].src = reg[r].msg /\ reg[r].kind = "draft-preview"
      /\ reg[r].body.candidate = 0 /\ case.version >= 1
    BY ModelFacts DEF InHand, Assisting, Preparing, Running, Looping
<1>2. reg[r].msg \in DOMAIN inbox
    BY <1>1, ModelFacts, InboxDomain DEF IsAssist
<1> QED
    BY <1>1, <1>2, MailFacts

(* From one label of the assist to another.                                *)
AssistLabel(label, state) ==
    /\ label \in Assisting
    /\ label \in {"invoke", "call"} => state.calls + 1 \in Turns
    /\ label \in {"observe", "act", "checkpoint", "tool"} => state.calls \in Turns
    /\ label = "observe" => state.out \in Observed
    /\ label \in {"checkpoint", "tool"} => state.did[2] \in Tools

LEMMA AssistStepTypes ==
    ASSUME ModelTypes, StoreInv', Mild, NEW r \in Runners, pc[r] \in Assisting, NEW label,
           Goto(r, label, reg[r]), Alone(r), AssistLabel(label, agent'[r])
    PROVE  ModelTypes'
<1>1. label \in Labels
    BY DEF AssistLabel, Labels
<1>2. pc'[r] = label /\ reg'[r] = reg[r]
    BY <1>1, GotoIs, ModelFacts
<1>3. case'.version >= 1
    BY HandFacts DEF Mild, StoreInv, StoreTypes, ModelTypes
<1>4. InHand(r)'
    BY <1>2, <1>3, HandFacts
    DEF InHand, AssistLabel, Assisting, Preparing, Running, Looping, Telling, Keyed, IsAssist, Mild
<1> QED
    BY <1>1, <1>4, ModelFacts, RunnerStep

LEMMA LocalTypes ==
    ASSUME ModelTypes, NEW r \in Runners, pc[r] \in Assisting, NEW label, NEW state \in Agents,
           Local(r, label, state), AssistLabel(label, state), AssistTypes'
    PROVE  ModelTypes'
<1>1. UNCHANGED <<case, artifact, decision, movedBy, command, shown, inbox>>
    BY DEF Local, handlerVars, caseVars, replyVars, sendVars, envVars
<1>2. StoreInv' /\ Mild
    BY <1>1 DEF StoreInv, StoreTypes, MailTypes, Mild, ModelTypes
<1>3. Goto(r, label, reg[r]) /\ Alone(r) /\ agent'[r] = state
    BY DEF Local, Alone, ModelTypes, RunnerTypes
<1> QED
    BY <1>2, <1>3, AssistStepTypes

LEMMA StoppingTypes ==
    ASSUME ModelTypes, NEW r \in Runners, pc[r] \in Assisting, NEW state \in Agents,
           Stopping(r, state), AssistTypes'
    PROVE  ModelTypes'
<1>1. [state EXCEPT !.out = "stopped"] \in Agents
    BY DEF Agents, Outcomes
<1>2. AssistLabel("finish", [state EXCEPT !.out = "stopped"])
    BY DEF AssistLabel, Assisting, Running
<1> QED
    BY <1>1, <1>2, LocalTypes DEF Stopping

LEMMA SnapshotTypes ==
    ASSUME AssistTypes, NEW m \in Messages, NEW seq \in Nat, NEW used,
           used.calls \in Nat, used.tools \in Nat, Snapshot(m, seq, used)
    PROVE  budgets' \in Seq(Used)
<1>1. Usage(m, seq, used) \in Used
    BY DEF Usage, Used, Sources
<1> QED
    BY <1>1 DEF AssistTypes, Snapshot

LEMMA CreateAssistRequestTypes ==
    ASSUME ModelTypes, NEW r \in Runners, CreateAssistRequest(r)
    PROVE  ModelTypes'
<1> USE ModelFacts
<1> DEFINE m == reg[r].msg
<1>1. /\ pc[r] = "request" /\ pc[r] \in Assisting /\ Alone(r)
      /\ UNCHANGED <<artifact, decision, movedBy, command, shown, inbox, agent>>
      /\ UNCHANGED <<turn, action, evidence, budgets, calls, bound>>
    BY AgentAlone
    DEF CreateAssistRequest, replyVars, sendVars, envVars, Assisting, Preparing
<1>2. m \in Messages /\ IsAssist(m)
    BY <1>1, HandFacts
<1>3. CASE Refused(r) /\ UNCHANGED <<case, assist>>
  <2>1. Quiet
      BY <1>1, <1>3 DEF Quiet, assistVars
  <2> QED
      BY <1>1, <1>3, <2>1, Resting, QuietRest
<1>4. CASE Goto(r, "resume", reg[r]) /\ UNCHANGED <<case, assist>>
  <2>1. StoreInv' /\ Mild
      BY <1>1, <1>4, QuietStore DEF Quiet, assistVars
  <2>2. AssistLabel("resume", agent'[r])
      BY DEF AssistLabel, Assisting, Preparing
  <2> QED
      BY <1>1, <1>4, <2>1, <2>2, AssistStepTypes
<1>5. CASE /\ assist' = [assist EXCEPT ![m].version = inbox[m].version]
           /\ case' = [case EXCEPT !.status = "ASSIST_REQUESTED"]
           /\ Goto(r, "context", reg[r])
  <2>1. inbox[m].version \in Nat
      BY <1>2, MailFacts, InboxDomain DEF IsAssist
  <2>2. assist' \in [Messages -> [version : Nat, context : BOOLEAN, outcome : Outcomes]]
      BY <1>2, <1>5, <2>1 DEF AssistTypes
  <2>3. AssistTypes'
      BY <1>1, <2>2 DEF AssistTypes
  <2>4. /\ case' \in [version : Nat, status : Statuses, candidate : Drafts]
        /\ case'.version = case.version /\ case.version >= 1 /\ case.version \in Nat
      BY <1>1, <1>5, HandFacts DEF StoreTypes, Statuses
  <2>5. Mild
      BY <1>1, <2>4 DEF Mild
  <2>6. StoreInv'
      BY <1>1, <2>3, <2>4 DEF StoreInv, StoreTypes, MailTypes
  <2>7. AssistLabel("context", agent'[r])
      BY DEF AssistLabel, Assisting, Running
  <2> QED
      BY <1>1, <1>5, <2>5, <2>6, <2>7, AssistStepTypes
<1> QED
    BY <1>3, <1>4, <1>5 DEF CreateAssistRequest

(* A non-empty set of numbers up to n has a greatest one.                  *)
LEMMA HasGreatest ==
    ASSUME NEW n \in Nat, NEW S, S \subseteq 0..n, S # {}
    PROVE  \E v \in S : \A u \in S : u <= v
<1> DEFINE Less  == StrictSubsetOrdering(S)
           Fin   == FiniteSubsetsOf(S)
           Bad   == {U \in Fin : U # {} /\ ~\E v \in U : \A u \in U : u <= v}
<1>1. IsFiniteSet(S) /\ \A v \in S : v \in Nat
  <2>1. 0 \in Int /\ n \in Int
      OBVIOUS
  <2>2. IsFiniteSet(0..n)
      BY <2>1, FS_Interval
  <2>3. IsFiniteSet(S)
      BY <2>2, FS_Subset
  <2> QED
      BY <2>3
<1>2. Fin = SUBSET S /\ IsWellFoundedOn(Less, Fin)
    BY <1>1, FS_FiniteSubsetsOfFinite, FS_StrictSubsetOrderingWellFounded
<1>3. SUFFICES ASSUME Bad # {} PROVE FALSE
  <2>1. S \in Fin
      BY <1>2
  <2> QED
      BY <2>1, <1>3
<1>4. Bad \subseteq Fin
    OBVIOUS
<1> HIDE DEF Less, Fin, Bad
<1>5. PICK U \in Bad : \A V \in Bad : <<V, U>> \notin Less
    BY <1>2, <1>3, <1>4, WFMin
<1>6. U \subseteq S /\ U # {} /\ ~\E v \in U : \A u \in U : u <= v
    BY <1>2, <1>5 DEF Bad
<1>7. PICK x \in U : TRUE
    BY <1>6
<1> DEFINE V == U \ {x}
<1>8. <<V, U>> \in Less
    BY <1>6, <1>7 DEF Less, StrictSubsetOrdering
<1>9. V \notin Bad /\ V \in Fin
    BY <1>2, <1>5, <1>6, <1>8
<1>10. V = {} \/ \E v \in V : \A u \in V : u <= v
    BY <1>9 DEF Bad
<1> QED
    BY <1>1, <1>6, <1>7, <1>10

(* The binding that stands is one of a candidate that is current.          *)
LEMMA CurrentIsLive ==
    ASSUME CurrentBinding # 0
    PROVE  CurrentBinding \in Candidates /\ bound[CurrentBinding].life = "CURRENT"
<1> DEFINE live == {v \in Candidates : bound[v].life = "CURRENT"}
<1>1. live # {} /\ live \subseteq Candidates
    BY DEF CurrentBinding
<1> HIDE DEF live
<1>2. \E v \in live : \A u \in live : u <= v
  <2>1. MaxVersion \in Nat /\ live \subseteq 0..MaxVersion
      BY <1>1, HandlerAssumption DEF Candidates
  <2> QED
      BY <1>1, <2>1, HasGreatest
<1>3. CurrentBinding \in live
  <2>1. CurrentBinding = CHOOSE v \in live : \A u \in live : u <= v
      BY <1>1 DEF CurrentBinding, live
  <2> QED
      BY <1>2, <2>1
<1> QED
    BY <1>3 DEF live

LEMMA CandidateOfType ==
    ASSUME NEW m
    PROVE  /\ CandidateOf(m) \in Drafts
           /\ CandidateOf(m) # 0 => bound[CandidateOf(m)].assist = m
                                      /\ bound[CandidateOf(m)].life = "CURRENT"
BY CurrentIsLive DEF CandidateOf, Drafts

LEMMA RecoverPersistedAssistTypes ==
    ASSUME ModelTypes, NEW r \in Runners, RecoverPersistedAssist(r)
    PROVE  ModelTypes'
<1> USE ModelFacts
<1> DEFINE m    == reg[r].msg
           v    == CandidateOf(m)
           body == [NoBody EXCEPT !.version = case.version, !.candidate = v]
           regs == [reg[r] EXCEPT !.body = body]
<1>1. Quiet /\ pc[r] = "resume" /\ pc[r] \in Assisting /\ Alone(r)
    BY AgentAlone
    DEF RecoverPersistedAssist, Reading, Quiet, replyVars, sendVars, envVars, Assisting, Preparing
<1>2. CASE Goto(r, "context", reg[r])
  <2>1. AssistLabel("context", agent'[r])
      BY DEF AssistLabel, Assisting, Running
  <2> QED
      BY <1>1, <1>2, <2>1, QuietStore, AssistStepTypes
<1>3. CASE Goto(r, "intent", regs)
  <2>1. body \in Bodies
      BY CandidateOfType DEF NoBody, Bodies, Statuses, StoreTypes
  <2>2. /\ regs \in Registers /\ regs.msg = m /\ regs.src = m /\ regs.kind = "draft-preview"
        /\ "intent" \in Labels
      BY <1>1, <2>1, HandFacts DEF Registers, Labels, Telling
  <2>3. pc'[r] = "intent" /\ reg'[r] = regs
      BY <1>3, <2>2, GotoIs
  <2> HIDE DEF regs
  <2>4. InHand(r)'
      BY <1>1, <2>2, <2>3, HandFacts
      DEF InHand, Telling, Keyed, Assisting, Preparing, Running, Looping, IsAssist, Quiet
  <2> QED
      BY <1>1, <1>3, <2>2, <2>4, QuietStep
<1>4. Refused(r) \/ Goto(r, "context", reg[r]) \/ Goto(r, "intent", regs)
    BY DEF RecoverPersistedAssist, Reading
<1> QED
    BY <1>1, <1>2, <1>3, <1>4, Resting, QuietRest

LEMMA CompileContextTypes ==
    ASSUME ModelTypes, NEW r \in Runners, CompileContext(r)
    PROVE  ModelTypes'
<1> USE ModelFacts
<1>1. Quiet /\ pc[r] = "context" /\ pc[r] \in Assisting /\ Alone(r)
    BY AgentAlone
    DEF CompileContext, Quiet, replyVars, sendVars, envVars, Assisting, Running
<1>2. PICK label \in {"stop", "start", "compile"} : Goto(r, label, reg[r])
    BY DEF CompileContext
<1>3. AssistLabel(label, agent'[r])
    BY DEF AssistLabel, Assisting, Running
<1> QED
    BY <1>1, <1>2, <1>3, QuietStore, AssistStepTypes

LEMMA RecordContextTypes ==
    ASSUME ModelTypes, NEW r \in Runners, RecordContext(r)
    PROVE  ModelTypes'
<1> USE ModelFacts
<1> DEFINE m == reg[r].msg
<1>1. /\ pc[r] = "compile" /\ pc[r] \in Assisting /\ Alone(r)
      /\ UNCHANGED <<artifact, decision, movedBy, command, shown, inbox>>
      /\ UNCHANGED <<turn, action, evidence, budgets, calls, bound>>
      /\ case' = [case EXCEPT !.status = "INVESTIGATING"]
      /\ assist' = [assist EXCEPT ![m].context = TRUE]
      /\ Goto(r, "start", reg[r])
    BY AgentAlone
    DEF RecordContext, replyVars, sendVars, envVars, Assisting, Running
<1>2. m \in Messages /\ case.version >= 1 /\ case.version \in Nat
    BY <1>1, HandFacts DEF StoreTypes
<1>3. /\ case' \in [version : Nat, status : Statuses, candidate : Drafts]
      /\ case'.version = case.version
    BY <1>1 DEF StoreTypes, Statuses
<1>4. Mild /\ case'.version >= 1
    BY <1>1, <1>2, <1>3 DEF Mild
<1>5. AssistTypes'
  <2>1. assist' \in [Messages -> [version : Nat, context : BOOLEAN, outcome : Outcomes]]
    <3>1. assist \in [Messages -> [version : Nat, context : BOOLEAN, outcome : Outcomes]]
        BY DEF AssistTypes
    <3>2. [assist[m] EXCEPT !.context = TRUE] \in [version : Nat, context : BOOLEAN, outcome : Outcomes]
        BY <1>2, <3>1
    <3> QED
        BY <1>1, <1>2, <3>1, <3>2
  <2> QED
      BY <1>1, <2>1 DEF AssistTypes
<1>6. StoreInv'
    BY <1>1, <1>3, <1>4, <1>5 DEF StoreInv, StoreTypes, MailTypes
<1>7. AssistLabel("start", agent'[r])
    BY DEF AssistLabel, Assisting, Running
<1> QED
    BY <1>1, <1>4, <1>6, <1>7, AssistStepTypes

LEMMA PriorUsageType ==
    ASSUME AssistTypes, NEW m
    PROVE  PriorUsage(m).calls \in Nat /\ PriorUsage(m).tools \in Nat
<1> DEFINE rows == {i \in DOMAIN budgets : budgets[i].assist # m /\ IsLatest(i)}
<1>1. ASSUME rows = {} PROVE PriorUsage(m) = NoBudget
    BY <1>1 DEF PriorUsage
<1>2. ASSUME rows # {} PROVE PriorUsage(m) \in Used
  <2>1. rows \subseteq DOMAIN budgets /\ DOMAIN budgets = 1..Len(budgets) /\ Len(budgets) \in Nat
      BY DEF AssistTypes
  <2>2. PriorUsage(m) = budgets[CHOOSE i \in rows : \A j \in rows : j <= i]
      BY <1>2 DEF PriorUsage
  <2> HIDE DEF rows
  <2>3. \E i \in rows : \A j \in rows : j <= i
    <3>1. rows \subseteq 0..Len(budgets) /\ rows # {} /\ Len(budgets) \in Nat
        BY <1>2, <2>1 DEF rows
    <3> QED
        BY <3>1, HasGreatest
  <2>4. (CHOOSE i \in rows : \A j \in rows : j <= i) \in rows
      BY <2>3
  <2> QED
      BY <2>1, <2>2, <2>4 DEF AssistTypes
<1> QED
    BY <1>1, <1>2 DEF NoBudget, Used

LEMMA StartAssistTypes ==
    ASSUME ModelTypes, NEW r \in Runners, StartAssist(r)
    PROVE  ModelTypes'
<1> USE ModelFacts
<1> DEFINE m    == reg[r].msg
           used == PriorUsage(m)
           mine == [NoAgent EXCEPT !.calls = used.calls, !.tools = used.tools]
           next == [mine EXCEPT !.seen = evidence[m], !.tools = @ + Len(evidence[m])]
<1>1. pc[r] \in Assisting /\ UNCHANGED <<turn, action, evidence, calls>>
    BY DEF StartAssist, Assisting, Running
<1>2. m \in Messages /\ used.calls \in Nat /\ used.tools \in Nat
    BY <1>1, HandFacts, PriorUsageType
<1>3. mine \in Agents /\ mine.tools = used.tools
    BY <1>2, NoAgentType DEF Agents
<1>4. CASE Stopping(r, mine) /\ UNCHANGED budgets
  <2>1. AssistTypes'
      BY <1>1, <1>4 DEF AssistTypes, Stopping, Local
  <2> QED
      BY <1>1, <1>3, <1>4, <2>1, StoppingTypes
<1>5. CASE Snapshot(m, 0, used) /\ Local(r, "turn", next)
  <2>1. next \in Agents
    <3>1. evidence[m] \in Seq(Tools) /\ Len(evidence[m]) \in Nat
        BY <1>2 DEF AssistTypes
    <3>2. mine.tools + Len(evidence[m]) \in Nat
        BY <1>2, <1>3, <3>1
    <3> HIDE DEF mine
    <3> QED
        BY <1>3, <3>1, <3>2 DEF Agents
  <2>2. budgets' \in Seq(Used)
      BY <1>2, <1>5, SnapshotTypes
  <2>3. AssistTypes'
      BY <1>1, <1>5, <2>2 DEF AssistTypes, Local
  <2>4. AssistLabel("turn", next)
      BY DEF AssistLabel, Assisting, Running, Looping
  <2> QED
      BY <1>1, <1>5, <2>1, <2>3, <2>4, LocalTypes
<1> QED
    BY <1>4, <1>5 DEF StartAssist

LEMMA ExchangedType ==
    ASSUME AssistTypes, NEW m \in Messages, NEW t \in Tools
    PROVE  Exchanged(m, t) \in [Messages -> Seq(Tools)]
<1>1. evidence \in [Messages -> Seq(Tools)] /\ Append(evidence[m], t) \in Seq(Tools)
    BY DEF AssistTypes
<1> QED
    BY <1>1 DEF Exchanged

LEMMA ReadType ==
    ASSUME NEW state \in Agents, NEW t \in Tools
    PROVE  Read(state, t) \in Agents /\ Read(state, t).seen = Append(state.seen, t)
<1>1. Append(state.seen, t) \in Seq(Tools) /\ state.tools + 1 \in Nat
    BY DEF Agents
<1> QED
    BY <1>1 DEF Read, Agents

(* An action that asks for a tool asks for one of the task's.              *)
LEMMA ActionTool ==
    ASSUME NEW a \in Actions, a[1] = "read"
    PROVE  a[2] \in Tools
BY DEF Actions, Proposals, NoAction

LEMMA RunTurnTypes ==
    ASSUME ModelTypes, NEW r \in Runners, RunTurn(r)
    PROVE  ModelTypes'
<1> USE ModelFacts
<1> DEFINE m    == reg[r].msg
           n    == agent[r].calls + 1
           mine == [agent[r] EXCEPT !.calls = n]
           did  == action[m][n]
<1>1. /\ pc[r] = "turn" /\ pc[r] \in Assisting /\ UNCHANGED <<turn, action, calls>>
    BY DEF RunTurn, Assisting, Running, Looping
<1>2. m \in Messages /\ n \in Nat /\ mine \in Agents /\ agent[r].calls \in Nat
      /\ agent[r].tools \in Nat
    BY <1>1, HandFacts DEF Agents
<1>3. ASSUME NEW state \in Agents, Local(r, "turn", state), UNCHANGED budgets,
             evidence' \in [Messages -> Seq(Tools)]
      PROVE  ModelTypes'
  <2>1. AssistTypes'
      BY <1>1, <1>3 DEF AssistTypes, Local
  <2>2. AssistLabel("turn", state)
      BY DEF AssistLabel, Assisting, Running, Looping
  <2> QED
      BY <1>1, <1>3, <2>1, <2>2, LocalTypes
<1>4. ASSUME NEW state \in Agents, Stopping(r, state), UNCHANGED <<budgets, evidence>>
      PROVE  ModelTypes'
  <2>1. AssistTypes'
      BY <1>1, <1>4 DEF AssistTypes, Stopping, Local
  <2> QED
      BY <1>1, <1>4, <2>1, StoppingTypes
<1>5. CASE RecoverTurn(r)
  <2>1. UNCHANGED budgets /\ n \in Turns
      BY <1>5 DEF RecoverTurn
  <2>2. did \in Actions
      BY <1>2, <2>1 DEF AssistTypes
  <2>3. CASE Local(r, "turn", mine) /\ UNCHANGED evidence
      BY <1>2, <1>3, <2>1, <2>3 DEF AssistTypes
  <2>4. CASE did[1] = "read" /\ Local(r, "turn", Read(mine, did[2])) /\ evidence' = Exchanged(m, did[2])
    <3>1. did[2] \in Tools
        BY <2>2, <2>4, ActionTool
    <3> QED
        BY <1>2, <1>3, <2>1, <2>4, <3>1, ReadType, ExchangedType
  <2>5. CASE Stopping(r, mine) /\ UNCHANGED evidence
      BY <1>2, <1>4, <2>1, <2>5
  <2> QED
      BY <1>5, <2>3, <2>4, <2>5 DEF RecoverTurn
<1>6. CASE ReserveTurn(r)
  <2>1. CASE Stopping(r, agent[r]) /\ UNCHANGED budgets
      BY <1>4, <1>6, <2>1 DEF ReserveTurn
  <2>2. CASE /\ n \in Turns /\ Snapshot(m, 2 * agent[r].calls + 1, agent[r])
             /\ Local(r, "invoke", agent[r])
    <3>1. budgets' \in Seq(Used)
      <4>1. 2 * agent[r].calls + 1 \in Nat
          BY <1>2
      <4> QED
          BY <1>2, <2>2, <4>1, SnapshotTypes
    <3>2. AssistTypes'
        BY <1>1, <1>6, <2>2, <3>1 DEF AssistTypes, Local, ReserveTurn
    <3>3. AssistLabel("invoke", agent[r])
        BY <2>2 DEF AssistLabel, Assisting, Running, Looping
    <3> QED
        BY <1>1, <2>2, <3>2, <3>3, LocalTypes
  <2> QED
      BY <1>6, <2>1, <2>2 DEF ReserveTurn
<1> QED
    BY <1>5, <1>6 DEF RunTurn

LEMMA WithTurnType ==
    ASSUME AssistTypes, NEW m \in Messages, NEW n \in Turns,
           NEW status \in {"none", "intent"} \cup Observed
    PROVE  WithTurn(m, n, status) \in [Messages -> [Turns -> {"none", "intent"} \cup Observed]]
BY DEF AssistTypes, WithTurn

LEMMA AppendIntentTypes ==
    ASSUME ModelTypes, NEW r \in Runners, AppendIntent(r)
    PROVE  ModelTypes'
<1> USE ModelFacts
<1> DEFINE m == reg[r].msg
           n == agent[r].calls + 1
<1>1. /\ pc[r] = "invoke" /\ pc[r] \in Assisting /\ UNCHANGED <<action, evidence, budgets, calls>>
    BY DEF AppendIntent, Assisting, Running, Looping
<1>2. m \in Messages /\ n \in Turns
    BY <1>1, HandFacts DEF InHand
<1>3. CASE turn' = WithTurn(m, n, "intent") /\ Local(r, "call", agent[r])
  <2>1. AssistTypes'
      BY <1>1, <1>2, <1>3, WithTurnType DEF AssistTypes, Local
  <2>2. AssistLabel("call", agent[r])
      BY <1>2 DEF AssistLabel, Assisting, Running, Looping
  <2> QED
      BY <1>1, <1>3, <2>1, <2>2, LocalTypes
<1>4. CASE Refused(r) /\ Keep(r) /\ UNCHANGED <<turn, handlerVars, bound, assist>>
  <2>1. Quiet /\ Alone(r)
      BY <1>1, <1>4, AgentAlone
      DEF Quiet, assistVars, handlerVars, caseVars, replyVars, sendVars, envVars
  <2> QED
      BY <1>1, <1>4, <2>1, Resting, QuietRest
<1> QED
    BY <1>3, <1>4 DEF AppendIntent

LEMMA ProposeTypes ==
    ASSUME ModelTypes, NEW r \in Runners, Propose(r)
    PROVE  ModelTypes'
<1> USE ModelFacts
<1> DEFINE m    == reg[r].msg
           n    == agent[r].calls + 1
           mine == [agent[r] EXCEPT !.calls = n]
<1>1. /\ pc[r] = "call" /\ pc[r] \in Assisting /\ UNCHANGED <<turn, action, evidence, budgets>>
      /\ calls' = [calls EXCEPT ![m][n] = @ + 1]
    BY DEF Propose, Assisting, Running, Looping
<1>2. m \in Messages /\ n \in Turns /\ n \in Nat
    BY <1>1, HandFacts DEF InHand, Agents
<1>3. PICK out \in Observed, did \in Actions :
        Local(r, "observe", [mine EXCEPT !.out = out, !.did = did])
  <2>1. CASE \E a \in Proposals \cup {NoAction} :
               Local(r, "observe", [mine EXCEPT !.out = "completed", !.did = a])
      BY <2>1 DEF Observed, Actions
  <2>2. ASSUME NEW out \in {"retryable", "failed"}, Local(r, "observe", [mine EXCEPT !.out = out])
        PROVE  \E o \in Observed, did \in Actions :
                  Local(r, "observe", [mine EXCEPT !.out = o, !.did = did])
    <3>1. agent[r].did \in Actions /\ out \in Observed
        BY DEF Agents, Observed
    <3>2. [mine EXCEPT !.out = out, !.did = agent[r].did] = [mine EXCEPT !.out = out]
        BY DEF Agents
    <3>3. Local(r, "observe", [mine EXCEPT !.out = out, !.did = agent[r].did])
        BY <2>2, <3>2
    <3> QED
        BY <3>1, <3>3
  <2> QED
      BY <2>1, <2>2 DEF Propose
<1> DEFINE state == [mine EXCEPT !.out = out, !.did = did]
<1>4. state \in Agents /\ state.calls = n /\ state.out = out
    BY <1>2 DEF Agents
<1>5. calls' \in [Messages -> [Turns -> Nat]]
    BY <1>1, <1>2 DEF AssistTypes
<1>6. AssistTypes'
    BY <1>1, <1>3, <1>5 DEF AssistTypes, Local
<1> HIDE DEF state
<1>7. AssistLabel("observe", state)
    BY <1>2, <1>4 DEF AssistLabel, Assisting, Running, Looping
<1> QED
    BY <1>1, <1>3, <1>4, <1>6, <1>7, LocalTypes DEF state

LEMMA AppendObservationTypes ==
    ASSUME ModelTypes, NEW r \in Runners, AppendObservation(r)
    PROVE  ModelTypes'
<1> USE ModelFacts
<1> DEFINE m    == reg[r].msg
           mine == agent[r]
<1>1. /\ pc[r] = "observe" /\ pc[r] \in Assisting
      /\ turn' = WithTurn(m, mine.calls, mine.out)
      /\ UNCHANGED <<action, evidence, budgets, calls>>
    BY DEF AppendObservation, Assisting, Running, Looping
<1>2. m \in Messages /\ mine.calls \in Turns /\ mine.out \in Observed
    BY <1>1, HandFacts DEF InHand
<1>3. turn' \in [Messages -> [Turns -> {"none", "intent"} \cup Observed]]
    BY <1>1, <1>2, WithTurnType
<1>4. UNCHANGED <<assist, bound>> => AssistTypes'
    BY <1>1, <1>3 DEF AssistTypes
<1>5. CASE Local(r, "turn", [mine EXCEPT !.retries = @ + 1])
  <2>1. [mine EXCEPT !.retries = @ + 1] \in Agents
      BY DEF Agents
  <2>2. AssistLabel("turn", [mine EXCEPT !.retries = @ + 1])
      BY DEF AssistLabel, Assisting, Running, Looping
  <2> QED
      BY <1>1, <1>4, <1>5, <2>1, <2>2, LocalTypes DEF Local
<1>6. CASE Local(r, "act", mine)
  <2>1. AssistLabel("act", mine)
      BY <1>2 DEF AssistLabel, Assisting, Running, Looping
  <2> QED
      BY <1>1, <1>4, <1>6, <2>1, LocalTypes DEF Local
<1>7. CASE Stopping(r, mine)
    BY <1>1, <1>4, <1>7, StoppingTypes DEF Stopping, Local
<1> QED
    BY <1>5, <1>6, <1>7 DEF AppendObservation

LEMMA AppendActionTypes ==
    ASSUME ModelTypes, NEW r \in Runners, AppendAction(r)
    PROVE  ModelTypes'
<1> USE ModelFacts
<1> DEFINE m    == reg[r].msg
           mine == agent[r]
<1>1. /\ pc[r] = "act" /\ pc[r] \in Assisting
      /\ action' = [action EXCEPT ![m][mine.calls] = mine.did]
      /\ UNCHANGED <<turn, evidence, budgets, calls>>
    BY DEF AppendAction, Assisting, Running, Looping
<1>2. m \in Messages /\ mine.calls \in Turns /\ mine.did \in Actions
    BY <1>1, HandFacts DEF InHand, Agents
<1>3. action' \in [Messages -> [Turns -> Actions]]
    BY <1>1, <1>2 DEF AssistTypes
<1>4. UNCHANGED <<assist, bound>> => AssistTypes'
    BY <1>1, <1>3 DEF AssistTypes
<1>5. CASE mine.did[1] = "read" /\ Local(r, "checkpoint", mine)
  <2>1. mine.did[2] \in Tools
      BY <1>2, <1>5, ActionTool
  <2>2. AssistLabel("checkpoint", mine)
      BY <1>2, <2>1 DEF AssistLabel, Assisting, Running, Looping
  <2> QED
      BY <1>1, <1>4, <1>5, <2>2, LocalTypes DEF Local
<1>6. CASE Local(r, "finish", [mine EXCEPT !.out = "response_ready"])
  <2>1. [mine EXCEPT !.out = "response_ready"] \in Agents
      BY DEF Agents, Outcomes
  <2>2. AssistLabel("finish", [mine EXCEPT !.out = "response_ready"])
      BY DEF AssistLabel, Assisting, Running
  <2> QED
      BY <1>1, <1>4, <1>6, <2>1, <2>2, LocalTypes DEF Local
<1>7. CASE Stopping(r, mine)
    BY <1>1, <1>4, <1>7, StoppingTypes DEF Stopping, Local
<1> QED
    BY <1>5, <1>6, <1>7 DEF AppendAction

LEMMA CheckpointTypes ==
    ASSUME ModelTypes, NEW r \in Runners, Checkpoint(r)
    PROVE  ModelTypes'
<1> USE ModelFacts
<1>1. /\ pc[r] = "checkpoint" /\ pc[r] \in Assisting
      /\ Snapshot(reg[r].msg, 2 * agent[r].calls, agent[r]) /\ Local(r, "tool", agent[r])
      /\ UNCHANGED <<turn, action, evidence, calls>>
    BY DEF Checkpoint, Assisting, Running, Looping
<1>2. reg[r].msg \in Messages /\ agent[r].calls \in Nat /\ agent[r].tools \in Nat
    BY <1>1, HandFacts DEF Agents
<1>3. budgets' \in Seq(Used)
  <2>1. 2 * agent[r].calls \in Nat /\ 2 * agent[r].calls + 2 \in Nat
      BY <1>2
  <2> QED
      BY <1>1, <1>2, <2>1, SnapshotTypes
<1>4. AssistTypes'
    BY <1>1, <1>3 DEF AssistTypes, Local
<1>5. AssistLabel("tool", agent[r])
    BY <1>1 DEF AssistLabel, Assisting, Running, Looping, InHand
<1> QED
    BY <1>1, <1>4, <1>5, LocalTypes

LEMMA ReadToolTypes ==
    ASSUME ModelTypes, NEW r \in Runners, ReadTool(r)
    PROVE  ModelTypes'
<1> USE ModelFacts
<1> DEFINE m    == reg[r].msg
           t    == agent[r].did[2]
           mine == Read(agent[r], t)
<1>1. /\ pc[r] = "tool" /\ pc[r] \in Assisting /\ UNCHANGED <<turn, action, budgets, calls>>
      /\ \/ evidence' = Exchanged(m, t) /\ (Local(r, "turn", mine) \/ Stopping(r, mine))
         \/ Stopping(r, agent[r]) /\ UNCHANGED evidence
    BY DEF ReadTool, Assisting, Running, Looping
<1>2. m \in Messages /\ t \in Tools
    BY <1>1, HandFacts DEF InHand
<1>3. AssistTypes'
  <2>1. evidence' \in [Messages -> Seq(Tools)]
      BY <1>1, <1>2, ExchangedType DEF AssistTypes
  <2> QED
      BY <1>1, <2>1 DEF AssistTypes, Local, Stopping
<1>4. mine \in Agents /\ AssistLabel("turn", mine)
    BY <1>2, ReadType DEF AssistLabel, Assisting, Running, Looping
<1> QED
    BY <1>1, <1>3, <1>4, LocalTypes, StoppingTypes

LEMMA FinishTypes ==
    ASSUME ModelTypes, NEW r \in Runners, Finish(r)
    PROVE  ModelTypes'
<1> USE ModelFacts
<1> DEFINE label == IF agent[r].out = "response_ready" THEN "candidate" ELSE "outcome"
<1>1. /\ pc[r] = "finish" /\ pc[r] \in Assisting
      /\ Snapshot(reg[r].msg, 2 * agent[r].calls + 2, agent[r]) /\ Local(r, label, agent[r])
      /\ UNCHANGED <<turn, action, evidence, calls>>
    BY DEF Finish, Assisting, Running
<1>2. reg[r].msg \in Messages /\ agent[r].calls \in Nat /\ agent[r].tools \in Nat
    BY <1>1, HandFacts DEF Agents
<1>3. budgets' \in Seq(Used)
  <2>1. 2 * agent[r].calls \in Nat /\ 2 * agent[r].calls + 2 \in Nat
      BY <1>2
  <2> QED
      BY <1>1, <1>2, <2>1, SnapshotTypes
<1>4. AssistTypes'
    BY <1>1, <1>3 DEF AssistTypes, Local
<1>5. AssistLabel(label, agent[r])
    BY DEF AssistLabel, Assisting, Running, Looping
<1> QED
    BY <1>1, <1>4, <1>5, LocalTypes

LEMMA CreateModelCandidateTypes ==
    ASSUME ModelTypes, NEW r \in Runners, CreateModelCandidate(r)
    PROVE  ModelTypes'
<1> USE ModelFacts
<1> DEFINE m    == reg[r].msg
           v    == case.version + 1
           used == Usage(m, 2 * agent[r].calls + 2, agent[r])
           regs == [reg[r] EXCEPT !.body.candidate = v]
<1>1. /\ pc[r] = "candidate" /\ pc[r] \in Assisting /\ Alone(r)
      /\ UNCHANGED <<decision, command, shown, inbox, assistVars>>
    BY AgentAlone DEF CreateModelCandidate, replyVars, sendVars, envVars, Assisting, Running
<1>2. m \in Messages /\ m \in Sources /\ case.version >= 1 /\ case.version \in Nat
      /\ reg[r].src = m /\ reg[r].kind = "draft-preview" /\ IsAssist(m)
    BY <1>1, HandFacts DEF StoreTypes
<1>3. CASE Refused(r) /\ UNCHANGED <<case, artifact, movedBy, bound>>
  <2>1. Quiet
      BY <1>1, <1>3 DEF Quiet
  <2> QED
      BY <1>1, <1>3, <2>1, Resting, QuietRest
<1>4. CASE /\ case.version < MaxVersion
           /\ case' = [version |-> v, status |-> "RESPONSE_READY", candidate |-> v]
           /\ artifact' = WithCandidate(v)
           /\ movedBy' = [movedBy EXCEPT ![v] = m]
           /\ bound' = [Replaced EXCEPT ![v] = [assist |-> m, budget |-> used, life |-> "CURRENT"]]
           /\ Goto(r, "respond", regs)
  <2>1. v \in Candidates /\ v \in Nat
      BY <1>2, <1>4, HandlerAssumption DEF Candidates
  <2>2. /\ case' \in [version : Nat, status : Statuses, candidate : Drafts]
        /\ case'.version = v
      BY <1>4, <2>1 DEF Statuses, Drafts
  <2>3. movedBy' \in [Candidates -> Sources]
      BY <1>2, <1>4 DEF StoreTypes
  <2>4. artifact' \in [{0} \cup Candidates -> Contents]
      BY <1>4, <2>1, CandidateTypes
  <2>5. case'.version >= 1 /\ Mild
      BY <1>1, <1>2, <2>2 DEF Mild
  <2>6. bound' \in [Candidates -> [assist : Sources, budget : Used, life : Lives]]
    <3>1. used \in Used
      <4>1. agent[r].calls \in Nat /\ agent[r].tools \in Nat
          BY DEF Agents
      <4>2. 2 * agent[r].calls + 2 \in Nat
          BY <4>1
      <4> QED
          BY <1>2, <4>1, <4>2 DEF Usage, Used
    <3>2. [assist |-> m, budget |-> used, life |-> "CURRENT"]
             \in [assist : Sources, budget : Used, life : Lives]
        BY <1>2, <3>1 DEF Lives
    <3> HIDE DEF used
    <3> QED
        BY <1>4, <2>1, <3>2, ReplacedType
  <2>7. StoreInv'
    <3>1. StoreTypes'
        BY <1>1, <2>2, <2>3, <2>4, <2>5 DEF StoreTypes
    <3> QED
        BY <1>1, <2>6, <3>1, AssistKept DEF StoreInv, MailTypes
  <2>8. /\ regs \in Registers /\ regs.kind = "draft-preview" /\ regs.msg = m /\ regs.src = m
        /\ "respond" \in Labels
      BY <1>2, <2>1 DEF Registers, Labels, Telling, Bodies, Drafts
  <2>9. pc'[r] = "respond" /\ reg'[r] = regs
      BY <1>4, <2>8, GotoIs
  <2> HIDE DEF regs, v
  <2>10. InHand(r)'
      BY <1>1, <1>2, <2>5, <2>8, <2>9
      DEF InHand, Telling, Keyed, Assisting, Preparing, Running, Looping, Private, IsAssist
  <2> QED
      BY <1>1, <1>4, <2>5, <2>7, <2>8, <2>10, RunnerStep
<1> QED
    BY <1>3, <1>4 DEF CreateModelCandidate

LEMMA CreateStoppedOutcomeTypes ==
    ASSUME ModelTypes, NEW r \in Runners, CreateStoppedOutcome(r)
    PROVE  ModelTypes'
<1> USE ModelFacts
<1> DEFINE m == reg[r].msg
           v == case.version + 1
<1>1. /\ pc[r] = "outcome" /\ pc[r] \in Assisting /\ Alone(r) /\ Goto(r, "respond", reg[r])
      /\ UNCHANGED <<artifact, decision, command, shown, inbox>>
      /\ UNCHANGED <<turn, action, evidence, budgets, calls, bound>>
    BY AgentAlone DEF CreateStoppedOutcome, replyVars, sendVars, envVars, Assisting, Running
<1>2. m \in Messages /\ m \in Sources /\ case.version >= 1 /\ case.version \in Nat
      /\ reg[r].src = m /\ reg[r].kind = "draft-preview" /\ IsAssist(m)
    BY <1>1, HandFacts DEF StoreTypes
<1>3. /\ case' \in [version : Nat, status : Statuses, candidate : Drafts]
      /\ case'.version >= 1 /\ case'.version >= case.version
      /\ movedBy' \in [Candidates -> Sources]
      /\ assist' \in [Messages -> [version : Nat, context : BOOLEAN, outcome : Outcomes]]
  <2>1. CASE UNCHANGED <<assist, case, movedBy>>
      BY <1>2, <2>1 DEF StoreTypes, AssistTypes
  <2>2. CASE /\ assist' = [assist EXCEPT ![m].outcome = "stopped"]
             /\ case' = [case EXCEPT !.version = v, !.status = "ACCEPTED"]
             /\ movedBy' = [movedBy EXCEPT ![v] = m]
    <3>1. case' \in [version : Nat, status : Statuses, candidate : Drafts] /\ case'.version = v
      <4>1. v \in Nat /\ "ACCEPTED" \in Statuses
          BY <1>2 DEF Statuses
      <4>2. case \in [version : Nat, status : Statuses, candidate : Drafts]
          BY DEF StoreTypes
      <4> QED
          BY <2>2, <4>1, <4>2
    <3>2. movedBy' \in [Candidates -> Sources]
        BY <1>2, <2>2 DEF StoreTypes
    <3>3. assist' \in [Messages -> [version : Nat, context : BOOLEAN, outcome : Outcomes]]
        BY <1>2, <2>2 DEF AssistTypes, Outcomes
    <3> QED
        BY <1>2, <3>1, <3>2, <3>3
  <2> QED
      BY <2>1, <2>2 DEF CreateStoppedOutcome
<1>4. StoreInv' /\ Mild
    BY <1>1, <1>3 DEF StoreInv, StoreTypes, AssistTypes, MailTypes, Mild
<1>5. "respond" \in Labels
    BY DEF Labels, Telling
<1>6. pc'[r] = "respond" /\ reg'[r] = reg[r]
    BY <1>1, <1>5, GotoIs
<1>7. InHand(r)'
    BY <1>1, <1>2, <1>3, <1>6
    DEF InHand, Telling, Keyed, Assisting, Preparing, Running, Looping, Private, IsAssist
<1> QED
    BY <1>1, <1>4, <1>5, <1>7, RunnerStep

LEMMA CreateReadyOutcomeTypes ==
    ASSUME ModelTypes, NEW r \in Runners, CreateReadyOutcome(r)
    PROVE  ModelTypes'
<1> USE ModelFacts
<1> DEFINE m == reg[r].msg
<1>1. /\ assist' = [assist EXCEPT ![m].outcome = "response_ready"] /\ pc[r] = "record"
      /\ UNCHANGED <<case, artifact, decision, movedBy, command, shown, inbox, pc, reg, agent>>
      /\ UNCHANGED <<turn, action, evidence, budgets, calls, bound>>
    BY DEF CreateReadyOutcome, handlerVars, caseVars, replyVars, sendVars, envVars
<1>2. assist' \in [Messages -> [version : Nat, context : BOOLEAN, outcome : Outcomes]]
    BY <1>1 DEF AssistTypes, Outcomes
<1>3. AssistTypes'
    BY <1>1, <1>2 DEF AssistTypes
<1>4. StoreInv' /\ RunnerTypes'
    BY <1>1, <1>3 DEF StoreInv, StoreTypes, MailTypes, RunnerTypes
<1>5. \A q \in Runners : InHand(q)'
    BY <1>1 DEF ModelTypes, InHand, IsAssist
<1> QED
    BY <1>4, <1>5 DEF ModelTypes

LEMMA ModelTypesNext == ModelTypes /\ [ModelNext]_modelVars => ModelTypes'
<1> SUFFICES ASSUME ModelTypes, [ModelNext]_modelVars PROVE ModelTypes'
    OBVIOUS
<1>1. CASE UNCHANGED modelVars
    BY <1>1
    DEF modelVars, vars, caseVars, replyVars, sendVars, envVars, assistVars, ModelTypes,
        StoreInv, StoreTypes, AssistTypes, MailTypes, RunnerTypes, InHand, IsAssist
<1>2. CASE Environment /\ UNCHANGED <<assistVars, bound, agent>>
    BY <1>2, EnvironmentTypes
<1>3. ASSUME NEW r \in Runners, ManualStep(r) PROVE ModelTypes'
    BY <1>3, StartRunTypes, CreateIssueArtifactTypes, CreateNotificationIntentTypes,
       StartAttemptTypes, NotifyC2cTypes, RecordNotificationTypes,
       TransitionSimpleCommandTypes, RespondTypes, RecordCommandOnceTypes,
       FinalDeliveryIntentTypes, CreatePassiveIntentTypes, SendTypes, RecordPassiveResultTypes
    DEF ManualStep, NoticeStep
<1>4. ASSUME NEW r \in Runners, AgentStep(r) PROVE ModelTypes'
    BY <1>4, StartAssistTypes, RunTurnTypes, AppendIntentTypes, ProposeTypes,
       AppendObservationTypes, AppendActionTypes, CheckpointTypes, ReadToolTypes, FinishTypes
    DEF AgentStep
<1>5. ASSUME NEW r \in Runners, AssistStep(r) PROVE ModelTypes'
    BY <1>4, <1>5, CreateAssistRequestTypes, RecoverPersistedAssistTypes, CompileContextTypes,
       RecordContextTypes, CreateModelCandidateTypes, CreateStoppedOutcomeTypes, CreateReadyOutcomeTypes
    DEF AssistStep
<1> QED
    BY <1>1, <1>2, <1>3, <1>5, DraftCandidateTypes, ApproveModelRequestTypes,
       ExecutePassiveReplyTypes, DeleteModelContentTypes, ModelCrashTypes, ReceiveManualTypes,
       ReceiveAssistTypes, AssertModelApprovalTypes
    DEF ModelNext

LEMMA ModelTypesAlways == ModelSpec => []ModelTypes
BY ModelTypesInit, ModelTypesNext, PTL DEF ModelSpec

-----------------------------------------------------------------------------
(* A turn is called once.                                                  *)

(* Whoever is about to call is the only one, and nobody did before; where  *)
(* an answer is to be observed there was a call.                           *)
CallInv ==
    /\ \A m \in Messages : \A n \in Turns :
          calls[m][n] <= 1 /\ (turn[m][n] = "none" => calls[m][n] = 0)
    /\ \A r \in Runners : pc[r] = "call" =>
          turn[reg[r].msg][agent[r].calls + 1] = "intent"
            /\ calls[reg[r].msg][agent[r].calls + 1] = 0
    /\ \A r \in Runners : pc[r] = "observe" => calls[reg[r].msg][agent[r].calls] = 1
    /\ \A r, s \in Runners :
          pc[r] = "call" /\ pc[s] = "call" /\ reg[r].msg = reg[s].msg
            /\ agent[r].calls = agent[s].calls => r = s

(* The runner goes somewhere among these labels, the others stay.          *)
Goes(r, labels) ==
    /\ pc'[r] \in labels
    /\ \A q \in Runners : q # r => pc'[q] = pc[q] /\ reg'[q] = reg[q]

Elsewhere == Labels \ {"call", "observe"}

LEMMA GotoGoes ==
    ASSUME RunnerTypes, NEW r \in Runners, NEW label, NEW regs, Goto(r, label, regs)
    PROVE  pc'[r] = label /\ reg'[r] = regs /\ \A labels : label \in labels => Goes(r, labels)
BY DEF RunnerTypes, Goto, Goes

LEMMA RestGoes ==
    ASSUME RunnerTypes, NEW r \in Runners,
           Refused(r) \/ Await(r) \/ Leave(r) \/ Answered(r)
    PROVE  Goes(r, {"idle", "receive"})
<1>1. \E label \in {"idle", "receive"} : \E regs : Goto(r, label, regs)
    BY DEF Refused, Answered, Await, Leave
<1> QED
    BY <1>1, GotoGoes

(* The steps of the handler workflow, those the model's journal joins      *)
(* included.                                                               *)
HandlerStep(r) ==
    \/ ManualStep(r) \/ DraftCandidate(r) \/ ApproveModelRequest(r)
    \/ ExecuteModelReply(r) \/ DeleteModelContent(r)
    \/ \E m \in PrivateMessages : ReceiveManual(r, m)
    \/ \E m \in GroupMessages : AssertModelApproval(r, m)

Plain == Labels \ Assisting

LEMMA AfterNoticeGoes ==
    ASSUME RunnerTypes, NEW r \in Runners, NEW status, AfterNotice(r, status)
    PROVE  Goes(r, {"idle", "receive", "intent"})
<1>1. CASE Await(r) \/ Leave(r)
    BY <1>1, RestGoes DEF Goes
<1>2. CASE ~(Await(r) \/ Leave(r))
    BY <1>2, GotoGoes DEF AfterNotice
<1> QED
    BY <1>1, <1>2

LEMMA ManualGoes ==
    ASSUME RunnerTypes, NEW r \in Runners, ManualStep(r)
    PROVE  Goes(r, Plain) /\ pc[r] \in Plain
<1> USE DEF Plain, Labels, Telling, Assisting, Preparing, Running, Looping
<1>1. ASSUME NEW label \in Plain, NEW regs, Goto(r, label, regs) PROVE Goes(r, Plain)
    BY <1>1, GotoGoes
<1>2. ASSUME Refused(r) \/ Await(r) \/ Leave(r) \/ Answered(r) PROVE Goes(r, Plain)
    BY <1>2, RestGoes DEF Goes
<1>3. ASSUME NEW status, AfterNotice(r, status) PROVE Goes(r, Plain)
    BY <1>3, AfterNoticeGoes DEF Goes
<1>4. CASE StartRun(r) \/ CreateIssueArtifact(r) \/ CreateNotificationIntent(r)
    BY <1>1, <1>4 DEF StartRun, CreateIssueArtifact, CreateNotificationIntent
<1>5. CASE StartAttempt(r) \/ RecordNotification(r)
    BY <1>1, <1>2, <1>3, <1>5 DEF StartAttempt, RecordNotification
<1>6. CASE NotifyC2c(r)
    BY <1>1, <1>6 DEF NotifyC2c
<1>7. CASE TransitionSimpleCommand(r) \/ Respond(r) \/ RecordCommandOnce(r) \/ FinalDeliveryIntent(r)
    BY <1>1, <1>2, <1>7
    DEF TransitionSimpleCommand, Respond, RecordCommandOnce, FinalDeliveryIntent, Reading
<1>8. CASE CreatePassiveIntent(r) \/ RecordPassiveResult(r)
    BY <1>1, <1>2, <1>8 DEF CreatePassiveIntent, RecordPassiveResult
<1>9. CASE Send(r)
    BY <1>1, <1>9 DEF Send
<1> QED
    BY <1>4, <1>5, <1>6, <1>7, <1>8, <1>9 DEF ManualStep, NoticeStep

LEMMA HandlerGoes ==
    ASSUME RunnerTypes, NEW r \in Runners, HandlerStep(r)
    PROVE  Goes(r, Plain) /\ pc[r] \in Plain /\ UNCHANGED <<assistVars, agent>>
<1> USE DEF Plain, Labels, Telling, Assisting, Preparing, Running, Looping
<1>1. ASSUME NEW label \in Plain, NEW regs, Goto(r, label, regs) PROVE Goes(r, Plain)
    BY <1>1, GotoGoes
<1>2. ASSUME Refused(r) \/ Await(r) \/ Leave(r) \/ Answered(r) PROVE Goes(r, Plain)
    BY <1>2, RestGoes DEF Goes
<1>3. CASE ManualStep(r)
    BY <1>3, ManualGoes DEF ManualStep
<1>4. CASE DraftCandidate(r)
    BY <1>1, <1>2, <1>4 DEF DraftCandidate, CreateCandidateAndRequest
<1>5. CASE ApproveModelRequest(r)
    BY <1>1, <1>2, <1>5 DEF ApproveModelRequest, ApproveRequest
<1>6. CASE ExecuteModelReply(r)
    BY <1>1, <1>2, <1>6 DEF ExecuteModelReply, ExecutePassiveReply
<1>7. CASE DeleteModelContent(r)
    BY <1>1, <1>2, <1>7 DEF DeleteModelContent, DeleteArtifacts
<1>8. ASSUME NEW m \in PrivateMessages, ReceiveManual(r, m)
      PROVE  Goes(r, Plain) /\ pc[r] \in Plain /\ UNCHANGED <<assistVars, agent>>
    BY <1>1, <1>2, <1>8 DEF ReceiveManual, ReceivePrivate, Reading
<1>9. ASSUME NEW m \in GroupMessages, AssertModelApproval(r, m)
      PROVE  Goes(r, Plain) /\ pc[r] \in Plain /\ UNCHANGED <<assistVars, agent>>
    BY <1>1, <1>2, <1>9 DEF AssertModelApproval
<1> QED
    BY <1>3, <1>4, <1>5, <1>6, <1>7, <1>8, <1>9 DEF HandlerStep

LEMMA ReceiveAssistGoes ==
    ASSUME RunnerTypes, NEW r \in Runners, NEW m \in PrivateMessages, ReceiveAssist(r, m)
    PROVE  /\ Goes(r, Plain \cup {"request"}) /\ pc[r] = "receive"
           /\ UNCHANGED <<assistVars, agent, bound>>
           /\ Goes(r, {"idle", "receive", "execute", "request"})
<1> USE DEF Plain, Labels, Telling, Assisting, Preparing, Running, Looping
<1>1. ASSUME NEW label \in {"execute", "request"}, NEW regs, Goto(r, label, regs)
      PROVE  Goes(r, {"idle", "receive", "execute", "request"})
    BY <1>1, GotoGoes
<1>2. ASSUME Refused(r) \/ Await(r) PROVE Goes(r, {"idle", "receive", "execute", "request"})
    BY <1>2, RestGoes DEF Goes
<1>3. Goes(r, {"idle", "receive", "execute", "request"})
    BY <1>1, <1>2 DEF ReceiveAssist, Reading
<1> QED
    BY <1>3 DEF ReceiveAssist, Goes

(* The steps of an assist that neither call nor write down a turn.         *)
LEMMA AssistGoes ==
    ASSUME RunnerTypes, NEW r \in Runners,
           \/ CreateAssistRequest(r) \/ RecoverPersistedAssist(r) \/ CompileContext(r)
           \/ RecordContext(r) \/ StartAssist(r) \/ RunTurn(r) \/ AppendAction(r) \/ Checkpoint(r)
           \/ ReadTool(r) \/ Finish(r) \/ CreateModelCandidate(r) \/ CreateStoppedOutcome(r)
    PROVE  Goes(r, Elsewhere) /\ UNCHANGED <<turn, calls>>
<1> USE DEF Elsewhere, Labels, Telling, Assisting, Preparing, Running, Looping
<1>1. ASSUME NEW label \in Elsewhere, NEW regs, Goto(r, label, regs) PROVE Goes(r, Elsewhere)
    BY <1>1, GotoGoes
<1>2. ASSUME Refused(r) PROVE Goes(r, Elsewhere)
    BY <1>2, RestGoes DEF Goes
<1>3. CASE CreateAssistRequest(r)
    BY <1>1, <1>2, <1>3 DEF CreateAssistRequest
<1>4. CASE RecoverPersistedAssist(r)
    BY <1>1, <1>2, <1>4 DEF RecoverPersistedAssist, Reading, assistVars
<1>5. CASE CompileContext(r) \/ RecordContext(r)
    BY <1>1, <1>5 DEF CompileContext, RecordContext, assistVars
<1>6. CASE StartAssist(r)
    BY <1>1, <1>6 DEF StartAssist, Stopping, Local
<1>7. CASE RunTurn(r)
    BY <1>1, <1>7 DEF RunTurn, RecoverTurn, ReserveTurn, Stopping, Local
<1>8. CASE AppendAction(r)
    BY <1>1, <1>8 DEF AppendAction, Stopping, Local
<1>9. CASE Checkpoint(r) \/ ReadTool(r)
    BY <1>1, <1>9 DEF Checkpoint, ReadTool, Stopping, Local
<1>10. CASE Finish(r)
    BY <1>1, <1>10 DEF Finish, Local
<1>11. CASE CreateModelCandidate(r)
    BY <1>1, <1>2, <1>11 DEF CreateModelCandidate, assistVars
<1>12. CASE CreateStoppedOutcome(r)
    BY <1>1, <1>12 DEF CreateStoppedOutcome
<1> QED
    BY <1>3, <1>4, <1>5, <1>6, <1>7, <1>8, <1>9, <1>10, <1>11, <1>12

LEMMA AgentStays ==
    ASSUME RunnerTypes, NEW r \in Runners, AssistStep(r)
    PROVE  \A q \in Runners : q # r => agent'[q] = agent[q]
<1> USE DEF RunnerTypes
<1>1. ASSUME NEW label, NEW state, Local(r, label, state)
      PROVE  \A q \in Runners : q # r => agent'[q] = agent[q]
    BY <1>1 DEF Local
<1>2. ASSUME Keep(r) PROVE \A q \in Runners : q # r => agent'[q] = agent[q]
    BY <1>2 DEF Keep
<1>3. CASE CreateAssistRequest(r) \/ RecoverPersistedAssist(r) \/ CompileContext(r)
             \/ RecordContext(r) \/ CreateReadyOutcome(r)
    BY <1>3
    DEF CreateAssistRequest, RecoverPersistedAssist, CompileContext, RecordContext,
        CreateReadyOutcome
<1>4. CASE StartAssist(r) \/ RunTurn(r)
    BY <1>1, <1>4 DEF StartAssist, RunTurn, RecoverTurn, ReserveTurn, Stopping
<1>5. CASE AppendIntent(r) \/ Propose(r)
    BY <1>1, <1>2, <1>5 DEF AppendIntent, Propose
<1>6. CASE AppendObservation(r) \/ AppendAction(r)
    BY <1>1, <1>6 DEF AppendObservation, AppendAction, Stopping
<1>7. CASE Checkpoint(r) \/ ReadTool(r) \/ Finish(r)
    BY <1>1, <1>7 DEF Checkpoint, ReadTool, Finish, Stopping
<1>8. CASE CreateModelCandidate(r) \/ CreateStoppedOutcome(r)
    BY <1>2, <1>8 DEF CreateModelCandidate, CreateStoppedOutcome
<1> QED
    BY <1>3, <1>4, <1>5, <1>6, <1>7, <1>8 DEF AssistStep, AgentStep

LEMMA CallElsewhere ==
    ASSUME CallInv, NEW r \in Runners, Goes(r, Elsewhere), UNCHANGED <<turn, calls>>,
           \A q \in Runners : q # r => agent'[q] = agent[q]
    PROVE  CallInv'
<1>1. \A q \in Runners : pc'[q] \in {"call", "observe"} =>
        pc'[q] = pc[q] /\ reg'[q] = reg[q] /\ agent'[q] = agent[q]
    BY DEF Goes, Elsewhere
<1> QED
    BY <1>1 DEF CallInv

LEMMA LocalGoes ==
    ASSUME RunnerTypes, NEW r \in Runners, NEW label, NEW state, Local(r, label, state)
    PROVE  /\ pc'[r] = label /\ reg'[r] = reg[r] /\ agent'[r] = state
           /\ \A q \in Runners : q # r => pc'[q] = pc[q] /\ reg'[q] = reg[q] /\ agent'[q] = agent[q]
           /\ \A labels : label \in labels => Goes(r, labels)
BY GotoGoes DEF Local, Goes, RunnerTypes

LEMMA AppendIntentCalls ==
    ASSUME ModelTypes, CallInv, NEW r \in Runners, AppendIntent(r)
    PROVE  CallInv'
<1> USE ModelFacts
<1> DEFINE m == reg[r].msg
           n == agent[r].calls + 1
<1>1. pc[r] = "invoke" /\ pc[r] \in Assisting /\ UNCHANGED calls
    BY DEF AppendIntent, Assisting, Running, Looping
<1>2. m \in Messages /\ n \in Turns
    BY <1>1, HandFacts DEF InHand
<1>3. CASE turn[m][n] = "none" /\ turn' = WithTurn(m, n, "intent") /\ Local(r, "call", agent[r])
  <2>1. calls[m][n] = 0
      BY <1>2, <1>3 DEF CallInv
  <2>2. \A k \in Messages, l \in Turns :
          turn'[k][l] = IF k = m /\ l = n THEN "intent" ELSE turn[k][l]
      BY <1>2, <1>3 DEF WithTurn, AssistTypes
  <2>3. /\ pc'[r] = "call" /\ reg'[r] = reg[r] /\ agent'[r] = agent[r]
        /\ \A q \in Runners : q # r => pc'[q] = pc[q] /\ reg'[q] = reg[q] /\ agent'[q] = agent[q]
      BY <1>3, LocalGoes
  <2>4. ASSUME NEW q \in Runners, q # r, pc[q] = "call"
        PROVE  /\ reg[q].msg \in Messages /\ agent[q].calls + 1 \in Turns
               /\ turn[reg[q].msg][agent[q].calls + 1] = "intent"
               /\ calls[reg[q].msg][agent[q].calls + 1] = 0
               /\ ~(reg[q].msg = m /\ agent[q].calls = agent[r].calls)
    <3>1. pc[q] \in Assisting
        BY <2>4 DEF Assisting, Running, Looping
    <3>2. reg[q].msg \in Messages /\ agent[q].calls + 1 \in Turns
        BY <2>4, <3>1, HandFacts DEF InHand
    <3> QED
        BY <1>3, <2>4, <3>2 DEF CallInv
  <2>5. \A q \in Runners : pc'[q] = "call" =>
          turn'[reg'[q].msg][agent'[q].calls + 1] = "intent"
            /\ calls'[reg'[q].msg][agent'[q].calls + 1] = 0
      BY <1>1, <1>2, <2>1, <2>2, <2>3, <2>4
  <2>6. \A q, s \in Runners :
          pc'[q] = "call" /\ pc'[s] = "call" /\ reg'[q].msg = reg'[s].msg
            /\ agent'[q].calls = agent'[s].calls => q = s
      BY <2>3, <2>4 DEF CallInv
  <2>7. \A q \in Runners : pc'[q] = "observe" => calls'[reg'[q].msg][agent'[q].calls] = 1
      BY <1>1, <2>3 DEF CallInv
  <2> QED
      BY <1>1, <2>1, <2>2, <2>5, <2>6, <2>7 DEF CallInv
<1>4. CASE Refused(r) /\ Keep(r) /\ UNCHANGED turn
  <2>1. Goes(r, Elsewhere)
      BY <1>4, RestGoes
      DEF Goes, Elsewhere, Labels, Telling, Assisting, Preparing, Running, Looping
  <2>2. \A q \in Runners : q # r => agent'[q] = agent[q]
      BY <1>4, AgentAlone DEF Alone
  <2> QED
      BY <1>1, <1>4, <2>1, <2>2, CallElsewhere
<1> QED
    BY <1>3, <1>4 DEF AppendIntent

LEMMA ProposeCalls ==
    ASSUME ModelTypes, CallInv, NEW r \in Runners, Propose(r)
    PROVE  CallInv'
<1> USE ModelFacts
<1> DEFINE m == reg[r].msg
           n == agent[r].calls + 1
<1>1. /\ pc[r] = "call" /\ pc[r] \in Assisting /\ UNCHANGED turn
      /\ calls' = [calls EXCEPT ![m][n] = @ + 1]
    BY DEF Propose, Assisting, Running, Looping
<1>2. m \in Messages /\ n \in Turns /\ n \in Nat
    BY <1>1, HandFacts DEF InHand, Agents
<1>3. PICK state : Local(r, "observe", state) /\ state.calls = n
  <2>1. agent[r] \in Agents
      OBVIOUS
  <2>2. ASSUME NEW a, Local(r, "observe", [[agent[r] EXCEPT !.calls = n] EXCEPT !.out = "completed", !.did = a])
        PROVE  \E state : Local(r, "observe", state) /\ state.calls = n
    <3> DEFINE st == [[agent[r] EXCEPT !.calls = n] EXCEPT !.out = "completed", !.did = a]
    <3>1. st.calls = n
        BY <2>1 DEF Agents
    <3>2. Local(r, "observe", st)
        BY <2>2
    <3> HIDE DEF st, n
    <3> QED
        BY <3>1, <3>2
  <2>3. ASSUME NEW out, Local(r, "observe", [[agent[r] EXCEPT !.calls = n] EXCEPT !.out = out])
        PROVE  \E state : Local(r, "observe", state) /\ state.calls = n
    <3> DEFINE st == [[agent[r] EXCEPT !.calls = n] EXCEPT !.out = out]
    <3>1. st.calls = n
        BY <2>1 DEF Agents
    <3>2. Local(r, "observe", st)
        BY <2>3
    <3> HIDE DEF st, n
    <3> QED
        BY <3>1, <3>2
  <2> QED
      BY <2>2, <2>3 DEF Propose
<1>4. /\ pc'[r] = "observe" /\ reg'[r] = reg[r] /\ agent'[r].calls = n
      /\ \A q \in Runners : q # r => pc'[q] = pc[q] /\ reg'[q] = reg[q] /\ agent'[q] = agent[q]
    BY <1>3, LocalGoes
<1>5. turn[m][n] = "intent" /\ calls[m][n] = 0
    BY <1>1 DEF CallInv
<1>6. \A k \in Messages, l \in Turns :
        calls'[k][l] = IF k = m /\ l = n THEN 1 ELSE calls[k][l]
    BY <1>1, <1>2, <1>5 DEF AssistTypes
<1>7. ASSUME NEW q \in Runners, q # r, pc[q] = "call"
      PROVE  /\ reg[q].msg \in Messages /\ agent[q].calls + 1 \in Turns
             /\ turn[reg[q].msg][agent[q].calls + 1] = "intent"
             /\ calls[reg[q].msg][agent[q].calls + 1] = 0
             /\ ~(reg[q].msg = m /\ agent[q].calls + 1 = n)
  <2>1. pc[q] \in Assisting
      BY <1>7 DEF Assisting, Running, Looping
  <2>2. reg[q].msg \in Messages /\ agent[q].calls + 1 \in Turns
      BY <1>7, <2>1, HandFacts DEF InHand
  <2>3. agent[q].calls \in Nat /\ agent[r].calls \in Nat
      BY DEF Agents
  <2> QED
      BY <1>1, <1>7, <2>2, <2>3 DEF CallInv
<1>8. ASSUME NEW q \in Runners, q # r, pc[q] = "observe"
      PROVE  /\ reg[q].msg \in Messages /\ agent[q].calls \in Turns
             /\ calls[reg[q].msg][agent[q].calls] = 1
             /\ ~(reg[q].msg = m /\ agent[q].calls = n)
  <2>1. pc[q] \in Assisting
      BY <1>8 DEF Assisting, Running, Looping
  <2>2. reg[q].msg \in Messages /\ agent[q].calls \in Turns
      BY <1>8, <2>1, HandFacts DEF InHand
  <2> QED
      BY <1>5, <1>8, <2>2 DEF CallInv
<1>9. \A q \in Runners : pc'[q] = "call" =>
        turn'[reg'[q].msg][agent'[q].calls + 1] = "intent"
          /\ calls'[reg'[q].msg][agent'[q].calls + 1] = 0
    BY <1>1, <1>4, <1>6, <1>7
<1>10. \A q \in Runners : pc'[q] = "observe" => calls'[reg'[q].msg][agent'[q].calls] = 1
    BY <1>2, <1>4, <1>6, <1>8
<1>11. \A q, s \in Runners :
        pc'[q] = "call" /\ pc'[s] = "call" /\ reg'[q].msg = reg'[s].msg
          /\ agent'[q].calls = agent'[s].calls => q = s
    BY <1>4 DEF CallInv
<1> QED
    BY <1>1, <1>5, <1>6, <1>9, <1>10, <1>11 DEF CallInv

LEMMA AppendObservationCalls ==
    ASSUME ModelTypes, CallInv, NEW r \in Runners, AppendObservation(r)
    PROVE  CallInv'
<1> USE ModelFacts
<1> DEFINE m == reg[r].msg
           n == agent[r].calls
<1>1. /\ pc[r] = "observe" /\ pc[r] \in Assisting /\ UNCHANGED calls
      /\ turn' = WithTurn(m, n, agent[r].out)
    BY DEF AppendObservation, Assisting, Running, Looping
<1>2. m \in Messages /\ n \in Turns /\ agent[r].out \in Observed
    BY <1>1, HandFacts DEF InHand
<1>3. PICK label \in {"turn", "act", "finish"} : \E state : Local(r, label, state)
    BY DEF AppendObservation, Stopping
<1>4. /\ pc'[r] = label
      /\ \A q \in Runners : q # r => pc'[q] = pc[q] /\ reg'[q] = reg[q] /\ agent'[q] = agent[q]
    BY <1>3, LocalGoes
<1>5. calls[m][n] = 1
    BY <1>1 DEF CallInv
<1>6. \A k \in Messages, l \in Turns :
        turn'[k][l] = IF k = m /\ l = n THEN agent[r].out ELSE turn[k][l]
    BY <1>1, <1>2 DEF WithTurn, AssistTypes
<1>7. ASSUME NEW q \in Runners, q # r, pc[q] = "call"
      PROVE  /\ reg[q].msg \in Messages /\ agent[q].calls + 1 \in Turns
             /\ turn[reg[q].msg][agent[q].calls + 1] = "intent"
             /\ calls[reg[q].msg][agent[q].calls + 1] = 0
             /\ ~(reg[q].msg = m /\ agent[q].calls + 1 = n)
  <2>1. pc[q] \in Assisting
      BY <1>7 DEF Assisting, Running, Looping
  <2>2. reg[q].msg \in Messages /\ agent[q].calls + 1 \in Turns
      BY <1>7, <2>1, HandFacts DEF InHand
  <2> QED
      BY <1>5, <1>7, <2>2 DEF CallInv
<1>8. \A q \in Runners : pc'[q] = "call" =>
        turn'[reg'[q].msg][agent'[q].calls + 1] = "intent"
          /\ calls'[reg'[q].msg][agent'[q].calls + 1] = 0
    BY <1>1, <1>4, <1>6, <1>7
<1>9. \A q \in Runners : pc'[q] = "observe" => calls'[reg'[q].msg][agent'[q].calls] = 1
    BY <1>1, <1>4 DEF CallInv
<1>10. \A k \in Messages : \A l \in Turns :
         calls'[k][l] <= 1 /\ (turn'[k][l] = "none" => calls'[k][l] = 0)
    BY <1>1, <1>2, <1>6 DEF CallInv, Observed
<1>11. \A q, s \in Runners :
        pc'[q] = "call" /\ pc'[s] = "call" /\ reg'[q].msg = reg'[s].msg
          /\ agent'[q].calls = agent'[s].calls => q = s
    BY <1>4 DEF CallInv
<1> QED
    BY <1>8, <1>9, <1>10, <1>11 DEF CallInv

LEMMA EnvironmentIdle ==
    Environment => UNCHANGED <<case, artifact, decision, movedBy, command, shown, pc, reg>>
BY DEF Environment, PostPrivate, PostApproval, Post, RevokeHandlerBinding, Pass, caseVars,
       replyVars, sendVars

LEMMA CallNext == ModelTypes /\ CallInv /\ [ModelNext]_modelVars => CallInv'
<1> SUFFICES ASSUME ModelTypes, CallInv, [ModelNext]_modelVars PROVE CallInv'
    OBVIOUS
<1> USE ModelFacts
<1>1. CASE UNCHANGED <<turn, calls, pc, reg, agent>>
    BY <1>1 DEF CallInv
<1>2. ASSUME NEW r \in Runners, HandlerStep(r) PROVE CallInv'
  <2>1. Goes(r, Elsewhere) /\ UNCHANGED <<turn, calls, agent>>
      BY <1>2, HandlerGoes
      DEF Goes, Plain, Elsewhere, Assisting, Running, Looping, assistVars
  <2> QED
      BY <2>1, CallElsewhere
<1>3. ASSUME NEW r \in Runners, ModelCrash(r) PROVE CallInv'
  <2>1. Goes(r, Elsewhere) /\ UNCHANGED <<turn, calls>>
      BY <1>3, RestGoes
      DEF ModelCrash, Crash, Goes, Elsewhere, Labels, Telling, Assisting, Preparing, assistVars
  <2>2. \A q \in Runners : q # r => agent'[q] = agent[q]
      BY <1>3, AgentAlone DEF Alone, ModelCrash
  <2> QED
      BY <2>1, <2>2, CallElsewhere
<1>4. ASSUME NEW r \in Runners, NEW m \in PrivateMessages, ReceiveAssist(r, m) PROVE CallInv'
  <2>1. Goes(r, Elsewhere) /\ UNCHANGED <<turn, calls, agent>>
      BY <1>4, ReceiveAssistGoes
      DEF Goes, Elsewhere, Labels, Telling, Assisting, Preparing, assistVars
  <2> QED
      BY <2>1, CallElsewhere
<1>5. ASSUME NEW r \in Runners, AssistStep(r) PROVE CallInv'
  <2>1. \A q \in Runners : q # r => agent'[q] = agent[q]
      BY <1>5, AgentStays
  <2>2. CASE CreateReadyOutcome(r)
      BY <1>1, <2>2 DEF CreateReadyOutcome
  <2>3. CASE AppendIntent(r) \/ Propose(r) \/ AppendObservation(r)
      BY <2>3, AppendIntentCalls, ProposeCalls, AppendObservationCalls
  <2> QED
      BY <1>5, <2>1, <2>2, <2>3, AssistGoes, CallElsewhere DEF AssistStep, AgentStep
<1>6. CASE Environment /\ UNCHANGED <<assistVars, bound, agent>>
    BY <1>1, <1>6, EnvironmentIdle DEF assistVars
<1> QED
    BY <1>1, <1>2, <1>3, <1>4, <1>5, <1>6
    DEF ModelNext, HandlerStep, modelVars, vars, assistVars

(* However often an assist's message is delivered, to however many runners *)
(* and wherever they were cut off, the provider is called at most once for *)
(* a turn of it.                                                           *)
THEOREM TurnCalledAtMostOnce == ModelSpec => []TurnsCalledOnce
<1>1. ModelInit => CallInv
    BY DEF ModelInit, Init, CallInv
<1>2. CallInv => TurnsCalledOnce
    BY DEF CallInv, TurnsCalledOnce
<1> QED
    BY <1>1, <1>2, ModelTypesAlways, CallNext, PTL DEF ModelSpec

-----------------------------------------------------------------------------
(* What a single runner tells.                                             *)

(* No two executions of the handler command share the store.               *)
Solo == \A q, r \in Runners : q = r

(* What a response to an assist says is so: it shows the assist's own      *)
(* candidate, or the assist has stopped.                                   *)
Told(m, body) ==
    IF body.candidate # 0 THEN bound[body.candidate].assist = m ELSE assist[m].outcome = "stopped"

Grounding(v) == v \in Candidates /\ bound[v].assist # 0

StoreTold ==
    /\ \A v \in Candidates : bound[v].assist # 0 => v <= case.version
    /\ \A m \in Messages : IsAssist(m) /\ command[m] # NoCommand => Told(m, command[m].body)
    /\ \A s \in shown :
          /\ s.kind = "draft-preview" => s.src \in 1..Len(inbox)
          /\ s.kind = "draft-preview" /\ IsAssist(s.src) => Told(s.src, s.body)
          /\ s.kind = "final" => Grounding(s.body.candidate)

(* What the runner is about to tell is so, what it was asked to send is    *)
(* the candidate of an assist, and the assist it runs is not settled.      *)
Tells(r) ==
    /\ pc[r] \in Telling /\ reg[r].kind = "draft-preview" /\ IsAssist(reg[r].src) =>
          Told(reg[r].src, reg[r].body)
    /\ pc[r] = "approve" => Grounding(inbox[reg[r].msg].request)
    /\ pc[r] = "final" => Grounding(reg[r].body.candidate)
    /\ pc[r] \in Telling /\ reg[r].kind = "final" => Grounding(reg[r].body.candidate)
    /\ pc[r] \in Running => assist[reg[r].msg].outcome = "none"

TellInv == StoreTold /\ \A r \in Runners : Tells(r)

(* What was told stays so: messages stay, the candidate of an assist stays *)
(* its candidate, and what is settled stays settled.                       *)
InboxKept == Len(inbox) <= Len(inbox') /\ \A m \in 1..Len(inbox) : inbox'[m] = inbox[m]

Kept ==
    /\ InboxKept
    /\ \A v \in Candidates : bound[v].assist # 0 => bound'[v].assist = bound[v].assist
    /\ \A m \in Messages : assist[m].outcome # "none" => assist'[m].outcome = assist[m].outcome

LEMMA InboxIn ==
    ASSUME StoreTypes, NEW m \in 1..Len(inbox)
    PROVE  m \in Messages /\ m # 0 /\ (InboxKept => m \in 1..Len(inbox') /\ (IsAssist(m)' <=> IsAssist(m)))
<1>1. Len(inbox) \in Nat /\ Len(inbox) <= MaxMessages /\ MaxMessages \in Nat
    BY HandlerAssumption DEF StoreTypes
<1>2. m \in Messages /\ m # 0
    BY <1>1 DEF Messages
<1>3. InboxKept => m <= Len(inbox')
    BY <1>1, <1>2 DEF InboxKept, Messages
<1>4. ASSUME InboxKept PROVE m \in 1..Len(inbox')
    BY <1>1, <1>3, <1>4 DEF InboxKept
<1> QED
    BY <1>2, <1>4 DEF InboxKept, IsAssist

(* The same of what this step leaves behind.                               *)
ToldThen(m, body) ==
    IF body.candidate # 0 THEN bound'[body.candidate].assist = m ELSE assist'[m].outcome = "stopped"

GroundingThen(v) == v \in Candidates /\ bound'[v].assist # 0

LEMMA ToldKept ==
    ASSUME Kept, NEW m \in Messages, NEW body, body.candidate \in Drafts, Told(m, body)
    PROVE  ToldThen(m, body) /\ Told(m, body)'
<1>1. m # 0
    BY DEF Messages
<1> QED
    BY <1>1 DEF Told, ToldThen, Kept, Drafts

LEMMA GroundingKept ==
    ASSUME Kept, NEW v, Grounding(v) PROVE GroundingThen(v) /\ Grounding(v)'
BY DEF Grounding, GroundingThen, Kept

LEMMA StoreToldKept ==
    ASSUME ModelTypes, StoreTold, Kept, UNCHANGED <<command, shown>>,
           case'.version \in Nat, case'.version >= case.version,
           \A v \in Candidates : bound'[v].assist # 0 => bound[v].assist # 0 \/ v <= case'.version
    PROVE  StoreTold'
<1>1. StoreTypes /\ MailTypes
    BY DEF ModelTypes, StoreInv
<1>2. \A v \in Candidates : bound'[v].assist # 0 => v <= case'.version
    BY <1>1 DEF StoreTold, StoreTypes, Candidates
<1>3. ASSUME NEW m \in Messages, IsAssist(m)', command[m] # NoCommand PROVE Told(m, command[m].body)'
  <2>1. IsAssist(m) /\ command[m].body.candidate \in Drafts
      BY <1>1, <1>3, InboxIn DEF MailTypes, StoreTypes, Bodies, Kept
  <2>2. Told(m, command[m].body)
      BY <1>3, <2>1 DEF StoreTold
  <2> QED
      BY <2>1, <2>2, ToldKept
<1>4. ASSUME NEW s \in shown
      PROVE  /\ s.kind = "draft-preview" => s.src \in 1..Len(inbox')
             /\ s.kind = "draft-preview" /\ IsAssist(s.src)' => Told(s.src, s.body)'
             /\ s.kind = "final" => Grounding(s.body.candidate)'
  <2>1. s.body.candidate \in Drafts
      BY <1>1, <1>4 DEF StoreTypes, Bodies
  <2>2. CASE s.kind = "draft-preview"
      BY <1>1, <2>1, <2>2, InboxIn, ToldKept DEF StoreTold, Kept
  <2>3. CASE s.kind = "final"
      BY <2>3, GroundingKept DEF StoreTold
  <2> QED
      BY <2>2, <2>3
<1> QED
    BY <1>2, <1>3, <1>4 DEF StoreTold

LEMMA BoundKeeps ==
    ASSUME AssistTypes
    PROVE  \A v \in Candidates :
             Replaced[v].assist = bound[v].assist /\ ContentDeleted[v].assist = bound[v].assist
<1>1. \A v \in Candidates : Replaced[v].assist = bound[v].assist
    BY DEF AssistTypes, Replaced
<1>2. ASSUME NEW v \in Candidates PROVE ContentDeleted[v].assist = bound[v].assist
  <2>1. \A c : [bound EXCEPT ![c].life = "DELETED"][v].assist = bound[v].assist
      BY DEF AssistTypes
  <2> QED
      BY <2>1 DEF ContentDeleted
<1> QED
    BY <1>1, <1>2

(* Where a runner has nothing to tell.                                     *)
Silent == Labels \ (Telling \cup Running \cup {"approve", "final"})

LEMMA SilentTells == ASSUME NEW r \in Runners, Goes(r, Silent) PROVE Tells(r)'
BY DEF Goes, Silent, Tells, Telling, Running, Looping

LEMMA RestTells ==
    ASSUME RunnerTypes, NEW r \in Runners,
           Refused(r) \/ Await(r) \/ Leave(r) \/ Answered(r)
    PROVE  Tells(r)'
BY RestGoes, SilentTells DEF Goes, Silent, Labels, Telling, Running, Looping

LEMMA SilentGoto ==
    ASSUME RunnerTypes, NEW r \in Runners, NEW label \in Silent, NEW regs, Goto(r, label, regs)
    PROVE  Tells(r)'
BY GotoGoes, SilentTells

(* On the way from a response to its result.                               *)
LEMMA TellingOn ==
    ASSUME ModelTypes, Kept, NEW r \in Runners, Tells(r), pc[r] \in Telling,
           NEW label \in Telling, NEW regs, Goto(r, label, regs), regs.kind = reg[r].kind,
           regs.src = reg[r].src, regs.body.candidate = reg[r].body.candidate
    PROVE  Tells(r)'
<1> USE ModelFacts
<1>1. pc'[r] = label /\ reg'[r] = regs
    BY GotoGoes
<1>2. reg[r].body.candidate \in Drafts
    BY DEF Registers, Bodies
<1>3. pc'[r] \notin Running /\ pc'[r] \notin {"approve", "final"}
    BY <1>1 DEF Telling, Running, Looping
<1>4. ASSUME regs.kind = "draft-preview", IsAssist(regs.src)' PROVE Told(regs.src, regs.body)'
  <2>1. regs.src \in 1..Len(inbox)
      BY <1>4 DEF InHand, Private
  <2>2. Told(reg[r].src, reg[r].body)
      BY <1>4, <2>1, InboxIn DEF Tells, Kept
  <2>3. Told(regs.src, regs.body)
      BY <2>2 DEF Told
  <2> QED
      BY <1>2, <2>1, <2>3, InboxIn, ToldKept
<1>5. ASSUME regs.kind = "final" PROVE Grounding(regs.body.candidate)'
    BY <1>5, GroundingKept DEF Tells
<1> QED
    BY <1>1, <1>3, <1>4, <1>5 DEF Tells

(* A response that is none to an assist, nor a final one.                  *)
LEMMA OtherResponse ==
    ASSUME RunnerTypes, NEW r \in Runners, NEW label \in Telling, NEW regs, Goto(r, label, regs),
           regs.kind # "final", regs.kind = "draft-preview" => UNCHANGED inbox /\ ~IsAssist(regs.src)
    PROVE  Tells(r)'
<1>1. pc'[r] = label /\ reg'[r] = regs
    BY GotoGoes
<1>2. label \notin Running /\ label \notin {"approve", "final"}
    BY DEF Telling, Running, Looping
<1> QED
    BY <1>1, <1>2 DEF Tells, IsAssist

(* A response to an assist.                                                *)
LEMMA AssistResponse ==
    ASSUME RunnerTypes, NEW r \in Runners, NEW label \in Telling, NEW regs, Goto(r, label, regs),
           regs.kind = "draft-preview", ToldThen(regs.src, regs.body)
    PROVE  Tells(r)'
<1>1. pc'[r] = label /\ reg'[r] = regs
    BY GotoGoes
<1>2. label \notin Running /\ label \notin {"approve", "final"}
    BY DEF Telling, Running, Looping
<1> QED
    BY <1>1, <1>2 DEF Tells, Told, ToldThen

LEMMA RunningTells ==
    ASSUME RunnerTypes, NEW r \in Runners, NEW label \in Running, NEW regs, Goto(r, label, regs),
           assist'[regs.msg].outcome = "none"
    PROVE  Tells(r)'
<1>1. pc'[r] = label /\ reg'[r] = regs
    BY GotoGoes
<1>2. label \notin Telling /\ label \notin {"approve", "final"}
    BY DEF Telling, Running, Looping
<1> QED
    BY <1>1, <1>2 DEF Tells

-----------------------------------------------------------------------------
(* The Case never gets an earlier version.                                 *)

LEMMA VersionGrows ==
    ASSUME ModelTypes, [ModelNext]_modelVars PROVE case'.version >= case.version
<1>1. case \in [version : Nat, status : Statuses, candidate : Drafts] /\ case.version >= case.version
      /\ case.version + 1 >= case.version
    BY DEF ModelTypes, StoreInv, StoreTypes
<1>2. \A c : [case EXCEPT !.status = c].version = case.version
    BY <1>1
<1> USE <1>1, <1>2
<1>3. ASSUME NEW r \in Runners, ManualStep(r) PROVE case'.version >= case.version
  <2>1. CASE StartRun(r) \/ CreateNotificationIntent(r) \/ StartAttempt(r) \/ NotifyC2c(r)
               \/ RecordNotification(r) \/ CreatePassiveIntent(r) \/ Send(r)
      BY <2>1
      DEF StartRun, CreateNotificationIntent, StartAttempt, NotifyC2c, RecordNotification,
          CreatePassiveIntent, Send, caseVars
  <2>2. CASE Respond(r) \/ RecordCommandOnce(r) \/ FinalDeliveryIntent(r)
      BY <2>2 DEF Respond, RecordCommandOnce, FinalDeliveryIntent
  <2>3. CASE CreateIssueArtifact(r)
      BY <2>3 DEF CreateIssueArtifact, NoCase
  <2>4. CASE TransitionSimpleCommand(r)
    <3>1. \A v, c : [case EXCEPT !.version = v, !.status = c].version = v
        BY <1>1
    <3> QED
        BY <2>4, <3>1 DEF TransitionSimpleCommand
  <2>5. CASE RecordPassiveResult(r)
      BY <2>5 DEF RecordPassiveResult
  <2> QED
      BY <1>3, <2>1, <2>2, <2>3, <2>4, <2>5 DEF ManualStep, NoticeStep
<1>4. ASSUME NEW r \in Runners, AssistStep(r) PROVE case'.version >= case.version
  <2>1. CASE AgentStep(r)
      BY <2>1
      DEF AgentStep, StartAssist, RunTurn, RecoverTurn, ReserveTurn, AppendIntent, Propose,
          AppendObservation, AppendAction, Checkpoint, ReadTool, Finish, Stopping, Local, Refused,
          handlerVars, caseVars
  <2>2. CASE CreateAssistRequest(r) \/ RecoverPersistedAssist(r) \/ CompileContext(r)
               \/ RecordContext(r)
      BY <2>2 DEF CreateAssistRequest, RecoverPersistedAssist, CompileContext, RecordContext
  <2>3. CASE CreateModelCandidate(r) \/ CreateReadyOutcome(r)
      BY <2>3 DEF CreateModelCandidate, CreateReadyOutcome, handlerVars, caseVars
  <2>4. CASE CreateStoppedOutcome(r)
    <3>1. \A v, c : [case EXCEPT !.version = v, !.status = c].version = v
        BY <1>1
    <3> QED
        BY <2>4, <3>1 DEF CreateStoppedOutcome
  <2> QED
      BY <1>4, <2>1, <2>2, <2>3, <2>4 DEF AssistStep
<1>5. ASSUME NEW r \in Runners,
             DraftCandidate(r) \/ ApproveModelRequest(r) \/ ExecuteModelReply(r)
               \/ DeleteModelContent(r) \/ ModelCrash(r)
      PROVE  case'.version >= case.version
    BY <1>5
    DEF DraftCandidate, CreateCandidateAndRequest, ApproveModelRequest, ApproveRequest,
        ExecuteModelReply, ExecutePassiveReply, DeleteModelContent, DeleteArtifacts, ModelCrash,
        Crash, caseVars
<1>6. ASSUME NEW r \in Runners,
             \/ \E m \in PrivateMessages : ReceiveManual(r, m) \/ ReceiveAssist(r, m)
             \/ \E m \in GroupMessages : AssertModelApproval(r, m)
      PROVE  case'.version >= case.version
    BY <1>6
    DEF ReceiveManual, ReceivePrivate, ReceiveAssist, AssertModelApproval, handlerVars, caseVars
<1>7. CASE Environment \/ UNCHANGED modelVars
    BY <1>7, EnvironmentIdle DEF modelVars, vars, caseVars
<1> QED
    BY <1>3, <1>4, <1>5, <1>6, <1>7 DEF ModelNext

-----------------------------------------------------------------------------
(* A step of the handler's workflow.                                       *)

LEMMA HandlerKeeps ==
    ASSUME ModelTypes, NEW r \in Runners,
           HandlerStep(r) \/ \E m \in PrivateMessages : ReceiveAssist(r, m)
    PROVE  /\ Kept /\ UNCHANGED <<inbox, assistVars, agent>>
           /\ \A v \in Candidates : bound'[v].assist = bound[v].assist
<1> USE ModelFacts
<1>1. UNCHANGED inbox
    BY DEF HandlerStep, ManualStep, NoticeStep, StartRun, CreateIssueArtifact,
           CreateNotificationIntent, StartAttempt, NotifyC2c, RecordNotification,
           TransitionSimpleCommand, Respond, RecordCommandOnce, FinalDeliveryIntent,
           CreatePassiveIntent, Send, RecordPassiveResult, DraftCandidate,
           CreateCandidateAndRequest, ApproveModelRequest, ApproveRequest, ExecuteModelReply,
           ExecutePassiveReply, DeleteModelContent, DeleteArtifacts, ReceiveManual,
           ReceivePrivate, AssertModelApproval, ReceiveAssist, handlerVars, envVars
<1>2. UNCHANGED <<assistVars, agent>>
    BY HandlerGoes, ReceiveAssistGoes
<1>3. bound' = bound \/ bound' = Replaced \/ bound' = ContentDeleted
    BY DEF HandlerStep, ManualStep, DraftCandidate, ApproveModelRequest, ExecuteModelReply,
           DeleteModelContent, ReceiveManual, AssertModelApproval, ReceiveAssist
<1>4. \A v \in Candidates : bound'[v].assist = bound[v].assist
    BY <1>3, BoundKeeps
<1>5. InboxKept
    BY <1>1 DEF InboxKept, StoreTypes
<1> QED
    BY <1>1, <1>2, <1>4, <1>5 DEF Kept, assistVars

LEMMA NoticeTells ==
    ASSUME RunnerTypes, NEW r \in Runners, StartRun(r) \/ NoticeStep(r)
    PROVE  Tells(r)'
<1> USE DEF Silent, Labels, Telling, Running, Looping
<1>1. ASSUME NEW status, AfterNotice(r, status) PROVE Tells(r)'
  <2>1. CASE Await(r) \/ Leave(r)
      BY <2>1, RestTells
  <2>2. CASE Goto(r, "intent", [reg[r] EXCEPT !.kind = "group-nudge", !.out = "none"])
    <3> DEFINE regs == [reg[r] EXCEPT !.kind = "group-nudge", !.out = "none"]
    <3>1. regs.kind = "group-nudge"
        BY DEF RunnerTypes, Registers
    <3> HIDE DEF regs
    <3> QED
        BY <2>2, <3>1, OtherResponse DEF regs
  <2> QED
      BY <1>1, <2>1, <2>2 DEF AfterNotice
<1>2. CASE StartRun(r) \/ CreateIssueArtifact(r) \/ CreateNotificationIntent(r)
    BY <1>2, SilentGoto DEF StartRun, CreateIssueArtifact, CreateNotificationIntent
<1>3. CASE StartAttempt(r) \/ RecordNotification(r)
    BY <1>1, <1>3, SilentGoto, RestTells DEF StartAttempt, RecordNotification
<1>4. CASE NotifyC2c(r)
    BY <1>4, SilentGoto DEF NotifyC2c
<1> QED
    BY <1>2, <1>3, <1>4 DEF NoticeStep

LEMMA CommandTells ==
    ASSUME ModelTypes, Kept, NEW r \in Runners, Tells(r),
           TransitionSimpleCommand(r) \/ Respond(r) \/ FinalDeliveryIntent(r)
             \/ CreatePassiveIntent(r) \/ RecordPassiveResult(r)
    PROVE  Tells(r)'
<1> USE ModelFacts DEF Telling
<1>1. CASE TransitionSimpleCommand(r)
  <2> DEFINE cmd == inbox[reg[r].msg].cmd
             regs == [reg[r] EXCEPT !.kind = cmd]
  <2>1. cmd \in {"pull", "accept", "reject"}
      BY <1>1 DEF TransitionSimpleCommand
  <2>2. CASE Goto(r, "respond", regs)
    <3>1. regs.kind = cmd
        BY DEF Registers
    <3> HIDE DEF regs
    <3> QED
        BY <2>1, <2>2, <3>1, OtherResponse
  <2> QED
      BY <1>1, <2>2, RestTells DEF TransitionSimpleCommand
<1>2. CASE Respond(r)
  <2> DEFINE body == ResponseBody(reg[r].kind, reg[r].body.candidate)
             regs == [reg[r] EXCEPT !.body = body]
  <2>1. regs.kind = reg[r].kind /\ regs.src = reg[r].src /\ regs.body = body
      BY DEF Registers
  <2>2. pc[r] = "respond" /\ reg[r].kind \in Private
      BY <1>2 DEF Respond, InHand
  <2>3. reg[r].kind = "draft-preview" => body.candidate = reg[r].body.candidate
      BY DEF ResponseBody, NoBody
  <2>4. Refused(r) \/ Goto(r, "intent", regs)
      BY <1>2 DEF Respond, Reading
  <2> HIDE DEF regs, body
  <2>5. CASE Goto(r, "intent", regs) /\ reg[r].kind = "draft-preview"
      BY <2>1, <2>2, <2>3, <2>5, TellingOn
  <2>6. CASE Goto(r, "intent", regs) /\ reg[r].kind # "draft-preview"
      BY <2>1, <2>2, <2>6, OtherResponse DEF Private
  <2> QED
      BY <2>4, <2>5, <2>6, RestTells
<1>3. CASE FinalDeliveryIntent(r)
  <2> DEFINE regs == [reg[r] EXCEPT !.src = decision[reg[r].body.candidate], !.kind = "final"]
  <2>1. CASE Goto(r, "intent", regs)
    <3>1. regs.kind = "final" /\ regs.body = reg[r].body
        BY DEF Registers
    <3>2. GroundingThen(reg[r].body.candidate)
        BY <1>3, GroundingKept DEF FinalDeliveryIntent, Tells
    <3>3. pc'[r] = "intent" /\ reg'[r] = regs
        BY <2>1, GotoGoes
    <3> HIDE DEF regs
    <3> QED
        BY <3>1, <3>2, <3>3 DEF Tells, Grounding, GroundingThen, Running, Looping
  <2> QED
      BY <1>3, <2>1, RestTells DEF FinalDeliveryIntent, Reading
<1>4. CASE CreatePassiveIntent(r)
  <2> DEFINE k == [src |-> reg[r].src, kind |-> reg[r].kind, version |-> case.version]
             regs == [reg[r] EXCEPT !.key = k]
             label == IF reg[r].kind \in Private THEN "record" ELSE "execute"
  <2>1. regs.kind = reg[r].kind /\ regs.src = reg[r].src /\ regs.body = reg[r].body
      BY DEF Registers
  <2>2. Goto(r, label, regs) /\ pc[r] \in Telling /\ label \in Telling
      BY <1>4 DEF CreatePassiveIntent
  <2> HIDE DEF regs, label
  <2> QED
      BY <2>1, <2>2, TellingOn
<1>5. CASE RecordPassiveResult(r)
    BY <1>5, SilentGoto, RestTells DEF RecordPassiveResult, Silent, Labels, Running, Looping
<1> QED
    BY <1>1, <1>2, <1>3, <1>4, <1>5

LEMMA RecordCommandTells ==
    ASSUME ModelTypes, StoreTold, Kept, UNCHANGED inbox, NEW r \in Runners, Tells(r),
           RecordCommandOnce(r)
    PROVE  /\ Tells(r)'
           /\ \A m \in Messages : IsAssist(m) /\ command'[m] # NoCommand => Told(m, command'[m].body)
<1> USE ModelFacts
<1> DEFINE m    == reg[r].msg
           mine == [kind |-> reg[r].kind, body |-> reg[r].body, key |-> reg[r].key]
           kept == IF command[m] = NoCommand THEN mine ELSE command[m]
           regs == [reg[r] EXCEPT !.kind = kept.kind, !.body = kept.body, !.key = kept.key]
<1>1. /\ pc[r] = "record" /\ command' = [command EXCEPT ![m] = kept]
      /\ Refused(r) \/ Goto(r, "execute", regs)
    BY DEF RecordCommandOnce, Reading
<1>2. m \in 1..Len(inbox) /\ reg[r].src = m /\ reg[r].kind \in Private
    BY <1>1 DEF InHand
<1>3. m \in Messages
    BY <1>2, InboxIn
<1>4. kept.kind \in Private /\ kept.body \in Bodies /\ (IsAssist(m) => kept.kind = "draft-preview")
  <2>1. CASE command[m] = NoCommand
      BY <1>1, <1>2, <2>1 DEF Registers, InHand, Telling
  <2>2. CASE command[m] # NoCommand
      BY <1>3, <2>2 DEF MailTypes, StoreTypes, IsAssist
  <2> QED
      BY <2>1, <2>2
<1>5. ASSUME IsAssist(m) PROVE Told(m, kept.body)
  <2>1. CASE command[m] = NoCommand
      BY <1>1, <1>2, <1>5, <2>1 DEF Tells, Telling, InHand
  <2>2. CASE command[m] # NoCommand
      BY <1>3, <1>5, <2>2 DEF StoreTold
  <2> QED
      BY <2>1, <2>2
<1>6. \A k \in Messages : IsAssist(k) /\ command'[k] # NoCommand => Told(k, command'[k].body)
    BY <1>1, <1>3, <1>5 DEF StoreTold, StoreTypes
<1>7. ASSUME Goto(r, "execute", regs) PROVE Tells(r)'
  <2>1. regs.kind = kept.kind /\ regs.src = m /\ regs.body = kept.body
      BY <1>2 DEF Registers
  <2>2. "execute" \in Telling /\ kept.body.candidate \in Drafts
      BY <1>4 DEF Telling, Bodies
  <2> HIDE DEF regs, kept
  <2>3. CASE IsAssist(m)
    <3>1. ToldThen(m, kept.body)
        BY <1>3, <1>5, <2>2, <2>3, ToldKept
    <3>2. regs.kind = "draft-preview" /\ ToldThen(regs.src, regs.body)
        BY <1>4, <2>1, <2>3, <3>1
    <3> QED
        BY <1>7, <2>2, <3>2, AssistResponse
  <2>4. CASE ~IsAssist(m)
    <3>1. regs.kind # "final" /\ ~IsAssist(regs.src)
        BY <1>4, <2>1, <2>4 DEF Private
    <3> QED
        BY <1>7, <2>2, <3>1, OtherResponse
  <2> QED
      BY <2>3, <2>4
<1> QED
    BY <1>1, <1>6, <1>7, RestTells

LEMMA SendTells ==
    ASSUME ModelTypes, StoreTold, Kept, UNCHANGED inbox, NEW r \in Runners, Tells(r), Send(r)
    PROVE  /\ Tells(r)'
           /\ \A s \in shown' : s \in shown \/
                 /\ s.kind = "draft-preview" => s.src \in 1..Len(inbox)
                 /\ s.kind = "draft-preview" /\ IsAssist(s.src) => Told(s.src, s.body)
                 /\ s.kind = "final" => Grounding(s.body.candidate)
<1> USE ModelFacts
<1> DEFINE reply == [src |-> reg[r].key.src, kind |-> reg[r].key.kind, body |-> reg[r].body]
<1>1. pc[r] = "send" /\ (shown' = shown \/ shown' = shown \cup {reply})
    BY DEF Send
<1>2. reg[r].key.src = reg[r].src /\ reg[r].key.kind = reg[r].kind /\ pc[r] \in Telling
    BY <1>1 DEF InHand, Keyed, Telling
<1>3. /\ reg[r].kind = "draft-preview" => reg[r].src \in 1..Len(inbox)
      /\ reg[r].kind = "draft-preview" /\ IsAssist(reg[r].src) => Told(reg[r].src, reg[r].body)
      /\ reg[r].kind = "final" => Grounding(reg[r].body.candidate)
    BY <1>1, <1>2 DEF Tells, InHand, Private
<1>4. ASSUME NEW out, Goto(r, "result", [reg[r] EXCEPT !.out = out]) PROVE Tells(r)'
  <2> DEFINE regs == [reg[r] EXCEPT !.out = out]
  <2>1. regs.kind = reg[r].kind /\ regs.src = reg[r].src /\ regs.body = reg[r].body
      BY DEF Registers
  <2> HIDE DEF regs
  <2> QED
      BY <1>2, <1>4, <2>1, TellingOn DEF Telling, regs
<1>5. ASSUME NEW out, NEW a, Goto(r, "result", [reg[r] EXCEPT !.out = out, !.accepted = @ \cup a])
      PROVE  Tells(r)'
  <2> DEFINE regs == [reg[r] EXCEPT !.out = out, !.accepted = @ \cup a]
  <2>1. regs.kind = reg[r].kind /\ regs.src = reg[r].src /\ regs.body = reg[r].body
      BY DEF Registers
  <2> HIDE DEF regs
  <2> QED
      BY <1>2, <1>5, <2>1, TellingOn DEF Telling, regs
<1>6. Tells(r)'
    BY <1>4, <1>5 DEF Send
<1> QED
    BY <1>1, <1>2, <1>3, <1>6

LEMMA DraftTells ==
    ASSUME ModelTypes, UNCHANGED inbox, NEW r \in Runners, CreateCandidateAndRequest(r)
    PROVE  Tells(r)'
<1> USE ModelFacts
<1> DEFINE regs == [reg[r] EXCEPT !.kind = "draft-preview", !.body.candidate = case.version + 1]
<1>1. regs.kind = "draft-preview" /\ regs.src = reg[r].src
    BY DEF Registers
<1>2. ~IsAssist(reg[r].src)
    BY DEF CreateCandidateAndRequest, InHand, IsAssist
<1>3. Refused(r) \/ Goto(r, "respond", regs)
    BY DEF CreateCandidateAndRequest
<1> HIDE DEF regs
<1> QED
    BY <1>1, <1>2, <1>3, RestTells, OtherResponse DEF Telling

LEMMA ApprovalTells ==
    ASSUME ModelTypes, Kept, UNCHANGED inbox, NEW r \in Runners, Tells(r),
           ApproveModelRequest(r) \/ \E m \in GroupMessages : AssertModelApproval(r, m)
    PROVE  Tells(r)'
<1> USE ModelFacts
<1>1. CASE ApproveModelRequest(r)
  <2> DEFINE v    == inbox[reg[r].msg].request
             regs == [reg[r] EXCEPT !.msg = reg[r].msg, !.body.candidate = v]
  <2>1. Refused(r) \/ Await(r) \/ Goto(r, "final", regs)
      BY <1>1 DEF ApproveModelRequest, ApproveRequest
  <2>2. Grounding(v) /\ regs.body.candidate = v
      BY <1>1 DEF ApproveModelRequest, Tells, Registers, Bodies
  <2>3. CASE Goto(r, "final", regs)
    <3>1. pc'[r] = "final" /\ reg'[r] = regs
        BY <2>3, GotoGoes
    <3> QED
        BY <2>2, <3>1, GroundingKept DEF Tells, Telling, Running, Looping, Grounding, GroundingThen
  <2> QED
      BY <2>1, <2>3, RestTells
<1>2. ASSUME NEW m \in GroupMessages, AssertModelApproval(r, m) PROVE Tells(r)'
  <2> DEFINE regs == [reg[r] EXCEPT !.msg = m]
  <2>1. Await(r) \/ (ModelApprovalCurrent(inbox[m]) /\ Goto(r, "approve", regs))
      BY <1>2 DEF AssertModelApproval
  <2>2. CASE ModelApprovalCurrent(inbox[m]) /\ Goto(r, "approve", regs)
    <3>1. pc'[r] = "approve" /\ reg'[r].msg = m
        BY <2>2, GotoGoes DEF Registers
    <3>2. m \in 1..Len(inbox) /\ inbox[m].cmd = "approve"
        BY MailFacts DEF GroupMessages
    <3>3. Grounding(inbox[m].request)
        BY <2>2, <3>2 DEF ModelApprovalCurrent, Grounding, MailTypes
    <3> QED
        BY <3>1, <3>3, GroundingKept DEF Tells, Telling, Running, Looping, Grounding, GroundingThen
  <2> QED
      BY <2>1, <2>2, RestTells
<1> QED
    BY <1>1, <1>2

LEMMA ReplyTells ==
    ASSUME ModelTypes, Kept, NEW r \in Runners, Tells(r),
           ExecuteModelReply(r) \/ DeleteModelContent(r)
    PROVE  Tells(r)'
<1> USE ModelFacts
<1>1. CASE DeleteModelContent(r)
    BY <1>1, RestTells DEF DeleteModelContent, DeleteArtifacts
<1>2. CASE ExecuteModelReply(r)
  <2>1. \A out : LET regs == [reg[r] EXCEPT !.out = out] IN
           regs.kind = reg[r].kind /\ regs.src = reg[r].src /\ regs.body = reg[r].body
      BY DEF Registers
  <2>2. \/ Refused(r) \/ Answered(r) \/ Goto(r, "send", reg[r])
        \/ \E out : Goto(r, "result", [reg[r] EXCEPT !.out = out])
      BY <1>2 DEF ExecuteModelReply, ExecutePassiveReply
  <2>3. pc[r] \in Telling /\ "send" \in Telling /\ "result" \in Telling
      BY <1>2 DEF ExecuteModelReply, ExecutePassiveReply, Telling
  <2>4. ASSUME NEW out, Goto(r, "result", [reg[r] EXCEPT !.out = out]) PROVE Tells(r)'
    <3> DEFINE regs == [reg[r] EXCEPT !.out = out]
    <3>1. regs.kind = reg[r].kind /\ regs.src = reg[r].src /\ regs.body = reg[r].body
        BY <2>1
    <3> HIDE DEF regs
    <3> QED
        BY <2>3, <2>4, <3>1, TellingOn DEF regs
  <2>5. CASE Goto(r, "send", reg[r])
      BY <2>3, <2>5, TellingOn
  <2> QED
      BY <2>2, <2>4, <2>5, RestTells
<1> QED
    BY <1>1, <1>2

LEMMA ReceiveTells ==
    ASSUME ModelTypes, StoreTold, Kept, UNCHANGED inbox, NEW r \in Runners,
           NEW m \in PrivateMessages, ReceiveManual(r, m) \/ ReceiveAssist(r, m)
    PROVE  Tells(r)'
<1> USE ModelFacts
<1>1. m \in 1..Len(inbox) /\ m \in Messages
    BY MailFacts DEF PrivateMessages
<1>2. CASE ReceiveManual(r, m)
  <2> DEFINE regs  == [reg[r] EXCEPT !.msg = m, !.src = m]
             again == [regs EXCEPT !.kind = command[m].kind, !.key = command[m].key,
                                   !.body = command[m].body]
  <2>1. \/ Refused(r) \/ Await(r) \/ Goto(r, "apply", regs)
        \/ command[m] # NoCommand /\ Goto(r, "execute", again)
      BY <1>2 DEF ReceiveManual, ReceivePrivate, Reading
  <2>2. CASE command[m] # NoCommand /\ Goto(r, "execute", again)
    <3>1. again.src = m /\ again.kind = command[m].kind
        BY DEF Registers
    <3>2. command[m].kind \in Private /\ ~IsAssist(m)
        BY <1>1, <1>2, <2>2 DEF MailTypes, ReceiveManual, IsAssist
    <3> HIDE DEF again
    <3> QED
        BY <2>2, <3>1, <3>2, OtherResponse DEF Private, Telling
  <2>3. CASE Goto(r, "apply", regs)
      BY <2>3, SilentGoto DEF Silent, Labels, Telling, Running, Looping
  <2> QED
      BY <2>1, <2>2, <2>3, RestTells
<1>3. CASE ReceiveAssist(r, m)
  <2> DEFINE regs  == [reg[r] EXCEPT !.msg = m, !.src = m, !.kind = "draft-preview"]
             again == [regs EXCEPT !.key = command[m].key, !.body = command[m].body]
  <2>1. \/ Refused(r) \/ Await(r) \/ Goto(r, "request", regs)
        \/ command[m] # NoCommand /\ Goto(r, "execute", again)
      BY <1>3 DEF ReceiveAssist, Reading
  <2>2. CASE command[m] # NoCommand /\ Goto(r, "execute", again)
    <3>1. again.src = m /\ again.kind = "draft-preview" /\ again.body = command[m].body
        BY DEF Registers
    <3>2. Told(m, command[m].body) /\ command[m].body.candidate \in Drafts
        BY <1>1, <1>3, <2>2 DEF StoreTold, ReceiveAssist, IsAssist, StoreTypes, Bodies
    <3>3. ToldThen(m, command[m].body)
        BY <1>1, <3>2, ToldKept
    <3> HIDE DEF again
    <3>4. again.kind = "draft-preview" /\ ToldThen(again.src, again.body)
        BY <3>1, <3>3
    <3> QED
        BY <2>2, <3>4, AssistResponse DEF Telling
  <2>3. CASE Goto(r, "request", regs)
      BY <2>3, SilentGoto DEF Silent, Labels, Telling, Assisting, Preparing, Running, Looping
  <2> QED
      BY <2>1, <2>2, <2>3, RestTells
<1> QED
    BY <1>2, <1>3

-----------------------------------------------------------------------------
(* A step of an assist.                                                    *)

LEMMA AgentIdle ==
    ASSUME NEW r \in Runners, AgentStep(r)
    PROVE  /\ UNCHANGED <<case, artifact, decision, movedBy, command, shown, inbox, passed>>
           /\ UNCHANGED <<assist, bound>> /\ pc[r] \in Running
BY DEF AgentStep, StartAssist, RunTurn, RecoverTurn, ReserveTurn, AppendIntent, Propose,
       AppendObservation, AppendAction, Checkpoint, ReadTool, Finish, Stopping, Local,
       handlerVars, caseVars, replyVars, sendVars, envVars, Running, Looping

LEMMA AgentMoves ==
    ASSUME NEW r \in Runners, AgentStep(r)
    PROVE  Refused(r) \/ \E label \in Running : Goto(r, label, reg[r])
<1> USE DEF Local, Stopping, Running, Looping
<1>1. CASE StartAssist(r) \/ RunTurn(r) \/ AppendIntent(r)
    BY <1>1 DEF StartAssist, RunTurn, RecoverTurn, ReserveTurn, AppendIntent
<1>2. CASE Propose(r) \/ AppendObservation(r) \/ AppendAction(r)
    BY <1>2 DEF Propose, AppendObservation, AppendAction
<1>3. CASE Checkpoint(r) \/ ReadTool(r) \/ Finish(r)
    BY <1>3 DEF Checkpoint, ReadTool, Finish
<1> QED
    BY <1>1, <1>2, <1>3 DEF AgentStep

LEMMA AgentTells ==
    ASSUME ModelTypes, TellInv, NEW r \in Runners, AgentStep(r)
    PROVE  Kept /\ UNCHANGED bound /\ Tells(r)'
<1> USE ModelFacts
<1>1. Kept
    BY AgentIdle DEF Kept, InboxKept, StoreTypes
<1>2. assist'[reg[r].msg].outcome = "none"
    BY AgentIdle DEF TellInv, Tells
<1>3. Tells(r)'
  <2>1. CASE Refused(r)
      BY <2>1, RestTells
  <2>2. ASSUME NEW label \in Running, Goto(r, label, reg[r]) PROVE Tells(r)'
      BY <1>2, <2>2, RunningTells
  <2> QED
      BY <2>1, <2>2, AgentMoves
<1> QED
    BY <1>1, <1>3, AgentIdle

LEMMA AssistKeeps ==
    ASSUME ModelTypes, NEW m \in Messages
    PROVE  /\ \A x \in Nat : assist' = [assist EXCEPT ![m].version = x] =>
                 \A k \in Messages : assist'[k].outcome = assist[k].outcome
           /\ assist' = [assist EXCEPT ![m].context = TRUE] =>
                 \A k \in Messages : assist'[k].outcome = assist[k].outcome
<1>1. assist \in [Messages -> [version : Nat, context : BOOLEAN, outcome : Outcomes]]
    BY DEF ModelTypes, StoreInv, AssistTypes
<1>2. ASSUME NEW x \in Nat, assist' = [assist EXCEPT ![m].version = x], NEW k \in Messages
      PROVE  assist'[k].outcome = assist[k].outcome
    BY <1>1, <1>2
<1>3. ASSUME assist' = [assist EXCEPT ![m].context = TRUE], NEW k \in Messages
      PROVE  assist'[k].outcome = assist[k].outcome
    BY <1>1, <1>3
<1> QED
    BY <1>2, <1>3

LEMMA CreateAssistRequestTells ==
    ASSUME ModelTypes, TellInv, NEW r \in Runners, CreateAssistRequest(r)
    PROVE  Kept /\ UNCHANGED bound /\ Tells(r)'
<1> USE ModelFacts
<1> DEFINE m == reg[r].msg
<1>1. /\ UNCHANGED <<bound, inbox>> /\ pc[r] \in Assisting
      /\ \/ Goto(r, "resume", reg[r]) /\ UNCHANGED assist
         \/ /\ assist[m] = NoAssist /\ assist' = [assist EXCEPT ![m].version = inbox[m].version]
            /\ Goto(r, "context", reg[r])
         \/ Refused(r) /\ UNCHANGED assist
    BY DEF CreateAssistRequest, envVars, Assisting, Preparing
<1>2. m \in Messages /\ inbox[m].version \in Nat
    BY <1>1, HandFacts, MailFacts, InboxDomain DEF IsAssist
<1>3. \A k \in Messages : assist'[k].outcome = assist[k].outcome
  <2>1. CASE UNCHANGED assist
      BY <2>1
  <2>2. CASE assist' = [assist EXCEPT ![m].version = inbox[m].version]
      BY <1>2, <2>2, AssistKeeps
  <2> QED
      BY <1>1, <2>1, <2>2
<1>4. Kept
    BY <1>1, <1>3 DEF Kept, InboxKept, StoreTypes
<1>5. ASSUME assist[m] = NoAssist, Goto(r, "context", reg[r]) PROVE Tells(r)'
  <2>1. assist'[m].outcome = "none"
      BY <1>2, <1>3, <1>5 DEF NoAssist
  <2> QED
      BY <1>5, <2>1, RunningTells DEF Running
<1>6. ASSUME Goto(r, "resume", reg[r]) PROVE Tells(r)'
    BY <1>6, SilentGoto
    DEF Silent, Labels, Telling, Assisting, Preparing, Running, Looping
<1> QED
    BY <1>1, <1>4, <1>5, <1>6, RestTells

LEMMA RecoverPersistedAssistTells ==
    ASSUME ModelTypes, TellInv, NEW r \in Runners, RecoverPersistedAssist(r)
    PROVE  Kept /\ UNCHANGED bound /\ Tells(r)'
<1> USE ModelFacts
<1> DEFINE m    == reg[r].msg
           v    == CandidateOf(m)
           body == [NoBody EXCEPT !.version = case.version, !.candidate = v]
           regs == [reg[r] EXCEPT !.body = body]
<1>1. UNCHANGED <<bound, inbox, assist>> /\ pc[r] \in Assisting
    BY DEF RecoverPersistedAssist, envVars, assistVars, Assisting, Preparing
<1>2. m \in Messages /\ reg[r].src = m /\ reg[r].kind = "draft-preview"
    BY <1>1, HandFacts
<1>3. Kept
    BY <1>1 DEF Kept, InboxKept, StoreTypes
<1>4. \/ assist[m].outcome = "none" /\ Goto(r, "context", reg[r])
      \/ Refused(r)
      \/ (v # 0 \/ assist[m].outcome = "stopped") /\ Goto(r, "intent", regs)
  <2>1. assist[m].outcome \in Outcomes
      BY <1>2 DEF AssistTypes
  <2> QED
      BY <2>1 DEF RecoverPersistedAssist, Reading, Outcomes
<1>5. ASSUME assist[m].outcome = "none", Goto(r, "context", reg[r]) PROVE Tells(r)'
    BY <1>1, <1>5, RunningTells DEF Running
<1>6. ASSUME v # 0 \/ assist[m].outcome = "stopped", Goto(r, "intent", regs) PROVE Tells(r)'
  <2>1. regs.kind = "draft-preview" /\ regs.src = m /\ regs.body.candidate = v
      BY <1>2 DEF Registers, NoBody
  <2>2. IF v # 0 THEN bound'[v].assist = m ELSE assist'[m].outcome = "stopped"
      BY <1>1, <1>6, CandidateOfType
  <2> HIDE DEF regs, v
  <2>3. ToldThen(regs.src, regs.body)
      BY <2>1, <2>2 DEF ToldThen
  <2> QED
      BY <1>6, <2>1, <2>3, AssistResponse DEF Telling
<1> QED
    BY <1>1, <1>3, <1>4, <1>5, <1>6, RestTells

LEMMA ContextTells ==
    ASSUME ModelTypes, TellInv, NEW r \in Runners, CompileContext(r) \/ RecordContext(r)
    PROVE  Kept /\ UNCHANGED bound /\ Tells(r)'
<1> USE ModelFacts
<1> DEFINE m == reg[r].msg
<1>1. /\ UNCHANGED <<bound, inbox>> /\ pc[r] \in Running /\ pc[r] \in Assisting
      /\ \E label \in {"stop", "start", "compile"} : Goto(r, label, reg[r])
      /\ UNCHANGED assist \/ assist' = [assist EXCEPT ![m].context = TRUE]
    BY DEF CompileContext, RecordContext, envVars, assistVars, Assisting, Running
<1>2. m \in Messages
    BY <1>1, HandFacts
<1>3. \A k \in Messages : assist'[k].outcome = assist[k].outcome
  <2>1. CASE UNCHANGED assist
      BY <2>1
  <2>2. CASE assist' = [assist EXCEPT ![m].context = TRUE]
      BY <1>2, <2>2, AssistKeeps
  <2> QED
      BY <1>1, <2>1, <2>2
<1>4. Kept
    BY <1>1, <1>3 DEF Kept, InboxKept, StoreTypes
<1>5. assist'[m].outcome = "none"
    BY <1>1, <1>2, <1>3 DEF TellInv, Tells
<1> QED
    BY <1>1, <1>4, <1>5, RunningTells DEF Running

LEMMA CreateModelCandidateTells ==
    ASSUME ModelTypes, TellInv, NEW r \in Runners, CreateModelCandidate(r)
    PROVE  /\ Kept /\ Tells(r)'
           /\ \A v \in Candidates : bound'[v].assist # 0 => bound[v].assist # 0 \/ v <= case'.version
<1> USE ModelFacts
<1> DEFINE m == reg[r].msg
           v == case.version + 1
           used == Usage(m, 2 * agent[r].calls + 2, agent[r])
           regs == [reg[r] EXCEPT !.body.candidate = v]
<1>1. UNCHANGED <<inbox, assist>> /\ pc[r] \in Assisting
    BY DEF CreateModelCandidate, envVars, assistVars, Assisting, Running
<1>2. m \in Messages /\ reg[r].src = m /\ reg[r].kind = "draft-preview" /\ case.version \in Nat
      /\ case.version >= 1
    BY <1>1, HandFacts DEF StoreTypes
<1>3. CASE Refused(r) /\ UNCHANGED <<case, bound>>
  <2>1. Kept
      BY <1>1, <1>3 DEF Kept, InboxKept, StoreTypes
  <2> QED
      BY <1>3, <2>1, RestTells
<1>4. CASE /\ case' = [version |-> v, status |-> "RESPONSE_READY", candidate |-> v]
           /\ bound' = [Replaced EXCEPT ![v] = [assist |-> m, budget |-> used, life |-> "CURRENT"]]
           /\ case.version < MaxVersion /\ Goto(r, "respond", regs)
  <2>1. \A u \in Candidates : bound'[u].assist = IF u = v THEN m ELSE bound[u].assist
      BY <1>4, BoundKeeps, ReplacedType
  <2>2. v \in Candidates /\ case'.version = v
      BY <1>2, <1>4, HandlerAssumption DEF Candidates
  <2>3. \A u \in Candidates : bound[u].assist # 0 => u # v
      BY <1>2 DEF TellInv, StoreTold, Candidates
  <2>4. Kept
      BY <1>1, <2>1, <2>3 DEF Kept, InboxKept, StoreTypes
  <2>5. \A u \in Candidates : bound'[u].assist # 0 => bound[u].assist # 0 \/ u <= case'.version
      BY <1>2, <2>1, <2>2
  <2>6. regs.kind = "draft-preview" /\ regs.src = m /\ regs.body.candidate = v
      BY <1>2 DEF Registers, Bodies
  <2>7. v # 0 /\ bound'[v].assist = m
      BY <2>1, <2>2 DEF Candidates
  <2> HIDE DEF regs, v
  <2>8. ToldThen(regs.src, regs.body)
      BY <2>6, <2>7 DEF ToldThen
  <2> QED
      BY <1>4, <2>4, <2>5, <2>6, <2>8, AssistResponse DEF Telling
<1> QED
    BY <1>3, <1>4 DEF CreateModelCandidate

LEMMA CreateStoppedOutcomeTells ==
    ASSUME ModelTypes, TellInv, NEW r \in Runners, CreateStoppedOutcome(r)
    PROVE  Kept /\ UNCHANGED bound /\ Tells(r)'
<1> USE ModelFacts
<1> DEFINE m == reg[r].msg
<1>1. /\ pc[r] = "outcome" /\ pc[r] \in Assisting /\ UNCHANGED <<bound, inbox>>
      /\ Goto(r, "respond", reg[r])
    BY DEF CreateStoppedOutcome, envVars, Assisting, Running
<1>2. m \in Messages /\ reg[r].src = m /\ reg[r].kind = "draft-preview" /\ reg[r].body.candidate = 0
    BY <1>1, HandFacts
<1>3. assist[m].outcome = "none"
    BY <1>1 DEF TellInv, Tells, Running
<1>4. assist' = [assist EXCEPT ![m].outcome = "stopped"]
    BY <1>3 DEF CreateStoppedOutcome
<1>5. assist'[m].outcome = "stopped" /\ \A k \in Messages : k # m => assist'[k] = assist[k]
    BY <1>2, <1>4 DEF AssistTypes
<1>6. Kept
    BY <1>1, <1>3, <1>5 DEF Kept, InboxKept, StoreTypes
<1>7. ToldThen(reg[r].src, reg[r].body)
    BY <1>2, <1>5 DEF ToldThen
<1> QED
    BY <1>1, <1>2, <1>6, <1>7, AssistResponse DEF Telling

LEMMA CreateReadyOutcomeTells ==
    ASSUME ModelTypes, TellInv, NEW r \in Runners, CreateReadyOutcome(r)
    PROVE  Kept /\ UNCHANGED bound /\ Tells(r)'
<1> USE ModelFacts
<1> DEFINE m == reg[r].msg
<1>1. /\ assist' = [assist EXCEPT ![m].outcome = "response_ready"] /\ pc[r] = "record"
      /\ UNCHANGED <<inbox, pc, reg, bound>> /\ assist[m].outcome = "none"
    BY DEF CreateReadyOutcome, handlerVars, envVars, Unsettled
<1>2. m \in 1..Len(inbox) /\ reg[r].kind \in Private /\ reg[r].src = m
    BY <1>1 DEF InHand
<1>3. m \in Messages
    BY <1>2, InboxIn
<1>4. Kept
    BY <1>1, <1>3 DEF Kept, InboxKept, StoreTypes, AssistTypes
<1>5. Tells(r)'
  <2>1. ASSUME reg[r].kind = "draft-preview", IsAssist(m) PROVE ToldThen(m, reg[r].body)
    <3>1. Told(m, reg[r].body) /\ reg[r].body.candidate \in Drafts
        BY <1>1, <1>2, <2>1 DEF TellInv, Tells, Telling, Registers, Bodies
    <3> QED
        BY <1>3, <1>4, <3>1, ToldKept
  <2> QED
      BY <1>1, <1>2, <2>1 DEF Tells, Told, ToldThen, IsAssist, Private, Running, Looping
<1> QED
    BY <1>1, <1>4, <1>5

LEMMA CrashTells ==
    ASSUME ModelTypes, NEW r \in Runners, ModelCrash(r)
    PROVE  Kept /\ UNCHANGED <<bound, case, command, shown, inbox, assist>> /\ Tells(r)'
<1>1. UNCHANGED <<bound, case, command, shown, inbox, assist>> /\ Leave(r)
    BY DEF ModelCrash, Crash, caseVars, replyVars, sendVars, assistVars
<1> QED
    BY <1>1, ModelFacts, RestTells DEF Kept, InboxKept, StoreTypes

-----------------------------------------------------------------------------
(* All of it.                                                              *)

(* What is recorded and shown after a step of the handler's workflow.      *)
LEMMA StoreToldThen ==
    ASSUME ModelTypes, ModelTypes', StoreTold, Kept, UNCHANGED inbox,
           case'.version >= case.version,
           \A v \in Candidates : bound'[v].assist = bound[v].assist,
           \A m \in Messages : IsAssist(m) /\ command'[m] # NoCommand => Told(m, command'[m].body),
           \A s \in shown' :
              /\ s.kind = "draft-preview" => s.src \in 1..Len(inbox)
              /\ s.kind = "draft-preview" /\ IsAssist(s.src) => Told(s.src, s.body)
              /\ s.kind = "final" => Grounding(s.body.candidate)
    PROVE  StoreTold'
<1>1. StoreTypes /\ StoreTypes' /\ MailTypes'
    BY DEF ModelTypes, StoreInv
<1>2. \A v \in Candidates : bound'[v].assist # 0 => v <= case'.version
    BY <1>1 DEF StoreTold, StoreTypes, Candidates
<1>3. ASSUME NEW m \in Messages, IsAssist(m)', command'[m] # NoCommand
      PROVE  ToldThen(m, command'[m].body)
  <2>1. IsAssist(m)
      BY <1>3 DEF IsAssist
  <2>2. command'[m].body.candidate \in Drafts
      BY <1>1, <1>3 DEF MailTypes, StoreTypes, Bodies
  <2> DEFINE body == command'[m].body
  <2>3. Told(m, body) /\ body.candidate \in Drafts
      BY <1>3, <2>1, <2>2
  <2> HIDE DEF body
  <2>4. ToldThen(m, body)
      BY <2>3, ToldKept
  <2> QED
      BY <2>4 DEF body
<1>4. ASSUME NEW s \in shown'
      PROVE  /\ s.kind = "draft-preview" => s.src \in 1..Len(inbox')
             /\ s.kind = "draft-preview" /\ IsAssist(s.src)' => ToldThen(s.src, s.body)
             /\ s.kind = "final" => GroundingThen(s.body.candidate)
  <2>1. s.body.candidate \in Drafts
      BY <1>1, <1>4 DEF StoreTypes, Bodies
  <2>2. CASE s.kind = "draft-preview"
    <3>1. s.src \in 1..Len(inbox) /\ s.src \in Messages
        BY <1>1, <1>4, <2>2, InboxIn
    <3>2. IsAssist(s.src)' => IsAssist(s.src)
        BY DEF IsAssist
    <3> QED
        BY <1>4, <2>1, <2>2, <3>1, <3>2, ToldKept
  <2>3. CASE s.kind = "final"
      BY <1>4, <2>3, GroundingKept
  <2> QED
      BY <2>2, <2>3
<1> QED
    BY <1>2, <1>3, <1>4 DEF StoreTold, Told, ToldThen, Grounding, GroundingThen

LEMMA HandlerTells ==
    ASSUME ModelTypes, ModelTypes', TellInv, NEW r \in Runners,
           HandlerStep(r) \/ \E m \in PrivateMessages : ReceiveAssist(r, m),
           case'.version >= case.version
    PROVE  StoreTold' /\ Tells(r)'
<1> USE ModelFacts
<1>1. /\ Kept /\ UNCHANGED inbox /\ \A v \in Candidates : bound'[v].assist = bound[v].assist
      /\ StoreTold /\ Tells(r)
    BY HandlerKeeps DEF TellInv
<1>2. CASE RecordCommandOnce(r)
  <2>1. UNCHANGED shown
      BY <1>2 DEF RecordCommandOnce, sendVars
  <2> QED
      BY <1>1, <1>2, <2>1, RecordCommandTells, StoreToldThen DEF StoreTold
<1>3. CASE Send(r)
  <2>1. UNCHANGED command
      BY <1>3 DEF Send, replyVars
  <2> QED
      BY <1>1, <1>3, <2>1, SendTells, StoreToldThen DEF StoreTold
<1>4. ASSUME UNCHANGED <<command, shown>> PROVE StoreTold'
    BY <1>1, <1>4, StoreToldThen DEF StoreTold
<1>5. CASE StartRun(r) \/ NoticeStep(r)
  <2>1. UNCHANGED <<command, shown>>
      BY <1>5 DEF StartRun, NoticeStep, CreateIssueArtifact, CreateNotificationIntent, StartAttempt,
                  NotifyC2c, RecordNotification, replyVars, sendVars
  <2> QED
      BY <1>4, <1>5, <2>1, NoticeTells
<1>6. CASE TransitionSimpleCommand(r) \/ Respond(r) \/ FinalDeliveryIntent(r)
             \/ CreatePassiveIntent(r) \/ RecordPassiveResult(r)
  <2>1. UNCHANGED <<command, shown>>
      BY <1>6 DEF TransitionSimpleCommand, Respond, FinalDeliveryIntent, CreatePassiveIntent,
                  RecordPassiveResult, replyVars, sendVars
  <2> QED
      BY <1>1, <1>4, <1>6, <2>1, CommandTells
<1>7. CASE DraftCandidate(r)
  <2>1. UNCHANGED <<command, shown>>
      BY <1>7 DEF DraftCandidate, CreateCandidateAndRequest, replyVars, sendVars
  <2> QED
      BY <1>1, <1>4, <1>7, <2>1, DraftTells DEF DraftCandidate
<1>8. CASE ApproveModelRequest(r) \/ \E m \in GroupMessages : AssertModelApproval(r, m)
  <2>1. UNCHANGED <<command, shown>>
      BY <1>8 DEF ApproveModelRequest, ApproveRequest, AssertModelApproval, handlerVars, replyVars, sendVars
  <2> QED
      BY <1>1, <1>4, <1>8, <2>1, ApprovalTells
<1>9. CASE ExecuteModelReply(r) \/ DeleteModelContent(r)
  <2>1. UNCHANGED <<command, shown>>
      BY <1>9 DEF ExecuteModelReply, ExecutePassiveReply, DeleteModelContent, DeleteArtifacts, replyVars, sendVars
  <2> QED
      BY <1>1, <1>4, <1>9, <2>1, ReplyTells
<1>10. ASSUME NEW m \in PrivateMessages, ReceiveManual(r, m) \/ ReceiveAssist(r, m)
       PROVE  StoreTold' /\ Tells(r)'
  <2>1. UNCHANGED <<command, shown>>
      BY <1>10 DEF ReceiveManual, ReceivePrivate, ReceiveAssist, handlerVars, replyVars, sendVars
  <2> QED
      BY <1>1, <1>4, <1>10, <2>1, ReceiveTells
<1> QED
    BY <1>2, <1>3, <1>5, <1>6, <1>7, <1>8, <1>9, <1>10 DEF HandlerStep, ManualStep

LEMMA EnvironmentTells ==
    ASSUME ModelTypes, ModelTypes', TellInv,
           (Environment /\ UNCHANGED <<assistVars, bound, agent>>) \/ UNCHANGED modelVars
    PROVE  TellInv'
<1>1. UNCHANGED <<case, command, shown, pc, reg, assist, bound>>
    BY EnvironmentIdle
    DEF modelVars, vars, caseVars, replyVars, sendVars, assistVars
<1>2. InboxKept
  <2>1. inbox \in Seq(Mails) /\ Len(inbox) \in Nat
      BY DEF ModelTypes, StoreInv, StoreTypes
  <2>2. UNCHANGED inbox \/ \E x : inbox' = Append(inbox, x)
      BY DEF Environment, PostPrivate, PostApproval, Post, RevokeHandlerBinding, Pass,
             modelVars, vars, envVars
  <2>3. ASSUME NEW x, inbox' = Append(inbox, x) PROVE InboxKept
      BY <2>1, <2>3 DEF InboxKept
  <2>4. CASE UNCHANGED inbox
      BY <2>1, <2>4 DEF InboxKept
  <2> QED
      BY <2>2, <2>3, <2>4
<1>3. Kept
    BY <1>1, <1>2 DEF Kept
<1>4. StoreTold'
  <2>1. case'.version \in Nat /\ case'.version >= case.version
      BY <1>1 DEF ModelTypes, StoreInv, StoreTypes
  <2> QED
      BY <1>1, <1>3, <2>1, StoreToldKept DEF TellInv
<1>5. ASSUME NEW r \in Runners PROVE Tells(r)'
  <2> USE ModelFacts
  <2>1. Tells(r) /\ pc'[r] = pc[r] /\ reg'[r] = reg[r] /\ assist' = assist
      BY <1>1 DEF TellInv
  <2>2. ASSUME pc[r] \in Telling, reg[r].kind = "draft-preview",
               inbox'[reg[r].src].cmd = "assist"
        PROVE  ToldThen(reg[r].src, reg[r].body)
    <3>1. reg[r].src \in 1..Len(inbox)
        BY <2>2 DEF InHand, Private
    <3>2. reg[r].src \in Messages /\ IsAssist(reg[r].src)
        BY <1>2, <2>2, <3>1, InboxIn DEF IsAssist, InboxKept
    <3>3. reg[r].body.candidate \in Drafts
        BY DEF Registers, Bodies
    <3> QED
        BY <1>3, <2>1, <2>2, <3>2, <3>3, ToldKept DEF Tells
  <2>3. pc[r] = "approve" => inbox'[reg[r].msg].request = inbox[reg[r].msg].request
      BY <1>2 DEF InHand, InboxKept
  <2> QED
      BY <1>3, <2>1, <2>2, <2>3, GroundingKept
      DEF Tells, Told, ToldThen, Grounding, GroundingThen, IsAssist
<1> QED
    BY <1>4, <1>5 DEF TellInv

LEMMA TellNext ==
    ASSUME Solo PROVE ModelTypes /\ ModelTypes' /\ TellInv /\ [ModelNext]_modelVars => TellInv'
<1> SUFFICES ASSUME ModelTypes, ModelTypes', TellInv, [ModelNext]_modelVars PROVE TellInv'
    OBVIOUS
<1>1. case'.version >= case.version /\ case'.version \in Nat
    BY VersionGrows DEF ModelTypes, StoreInv, StoreTypes
<1>2. ASSUME NEW r \in Runners, StoreTold', Tells(r)' PROVE TellInv'
    BY <1>2 DEF Solo, TellInv
<1>3. ASSUME NEW r \in Runners,
             HandlerStep(r) \/ \E m \in PrivateMessages : ReceiveAssist(r, m)
      PROVE  TellInv'
    BY <1>1, <1>2, <1>3, HandlerTells
<1>4. ASSUME NEW r \in Runners, AssistStep(r) \/ ModelCrash(r) PROVE TellInv'
  <2>1. UNCHANGED <<command, shown>>
      BY <1>4, AgentIdle
      DEF AssistStep, CreateAssistRequest, RecoverPersistedAssist, CompileContext, RecordContext,
          CreateModelCandidate, CreateStoppedOutcome, CreateReadyOutcome, ModelCrash, Crash,
          handlerVars, replyVars, sendVars
  <2>2. /\ Kept /\ Tells(r)'
        /\ \A v \in Candidates : bound'[v].assist # 0 => bound[v].assist # 0 \/ v <= case'.version
      BY <1>4, AgentTells, CreateAssistRequestTells, RecoverPersistedAssistTells,
         ContextTells, CreateModelCandidateTells, CreateStoppedOutcomeTells,
         CreateReadyOutcomeTells, CrashTells
      DEF AssistStep
  <2> QED
      BY <1>1, <1>2, <2>1, <2>2, StoreToldKept DEF TellInv
<1> QED
    BY <1>3, <1>4, EnvironmentTells DEF ModelNext, HandlerStep

LEMMA TellInit == ModelInit => TellInv
BY DEF ModelInit, Init, TellInv, StoreTold, Tells, NotBound, Telling, Running, Looping, IsAssist

LEMMA TellAlways == ASSUME Solo PROVE ModelSpec => []TellInv
<1> USE TellInit, TellNext
<1> QED
    BY ModelTypesAlways, PTL DEF ModelSpec

(* What QQ shows the handler for an assist is so, also after a run that    *)
(* was cut off: the candidate it shows is the assist's own, and where it   *)
(* says that the assist stopped, that is how the assist was settled.  The  *)
(* hypothesis is the handler command, which one process runs at a time.    *)
THEOREM PreviewIsTruthful ==
    ASSUME NEW r, Runners = {r} PROVE ModelSpec => []PreviewsTruthful
<1>1. Solo
    BY DEF Solo
<1>2. ModelTypes /\ TellInv => PreviewsTruthful
    BY DEF TellInv, StoreTold, Told, PreviewsTruthful, IsAssist
<1> QED
    BY <1>1, <1>2, ModelTypesAlways, TellAlways, PTL

-----------------------------------------------------------------------------
(* What a candidate is made of.                                            *)

Distinct(e) == \A i, j \in DOMAIN e : e[i] = e[j] => i = j

(* The run knows all that was read for its assist, it is about to read     *)
(* something else, and it proposes a candidate on all there is to read.    *)
HasRead(r) ==
    /\ pc[r] \in Looping => agent[r].seen = evidence[reg[r].msg]
    /\ pc[r] \in {"checkpoint", "tool"} => agent[r].did[2] \notin ToolsOf(evidence[reg[r].msg])
    /\ (pc[r] = "finish" /\ agent[r].out = "response_ready") \/ pc[r] = "candidate" =>
          Len(evidence[reg[r].msg]) = Required

ReadInv ==
    /\ \A m \in Messages : Distinct(evidence[m])
    /\ \A v \in Candidates :
          bound[v].assist # 0 => Len(evidence[bound[v].assist]) = Required
    /\ \A r \in Runners : HasRead(r)

(* Results that are read once each are at most as many as there are tools, *)
(* and all of them if they are as many.                                    *)
LEMMA AllRead ==
    ASSUME NEW e \in Seq(Tools), Distinct(e), Len(e) = Required
    PROVE  ToolsOf(e) = Tools
<1>1. Required \in Nat /\ IsFiniteSet(Tools) /\ DOMAIN e = Tools
  <2>1. Required \in Nat
      BY ModelAssumption
  <2>2. IsFiniteSet(1..Required)
      BY <2>1, FS_Interval
  <2> QED
      BY <2>1, <2>2 DEF Tools
<1>2. e \in Injection(Tools, Tools)
    BY <1>1 DEF Injection, IsInjective, Distinct
<1>3. e \in Surjection(Tools, Tools)
    BY <1>1, <1>2, FS_Injection
<1> QED
    BY <1>1, <1>3 DEF Surjection, ToolsOf

LEMMA ReadOnceMore ==
    ASSUME NEW e \in Seq(Tools), Distinct(e), NEW t \in Tools, t \notin ToolsOf(e)
    PROVE  Distinct(Append(e, t)) /\ Len(e) # Required
<1>1. \A i \in DOMAIN e : e[i] # t
    BY DEF ToolsOf
<1>2. Distinct(Append(e, t))
    BY <1>1 DEF Distinct
<1> QED
    BY <1>2, AllRead

-----------------------------------------------------------------------------
(* A step of the agent reads at most one more tool.                        *)

Reads(r) ==
    LET m == reg[r].msg IN
    \/ UNCHANGED evidence
    \/ \E t \in Tools : t \notin ToolsOf(evidence[m]) /\ evidence' = Exchanged(m, t)

(* Where the run has nothing of its own to keep.                           *)
Unread == Labels \ (Looping \cup {"finish", "candidate"})

LEMMA UnreadHasRead == ASSUME NEW r \in Runners, Goes(r, Unread) PROVE HasRead(r)'
BY DEF Goes, Unread, HasRead, Looping

LEMMA LoopingReads ==
    ASSUME RunnerTypes, NEW r \in Runners, NEW label \in Looping \ {"checkpoint", "tool"},
           NEW state, Local(r, label, state), state.seen = evidence'[reg[r].msg]
    PROVE  HasRead(r)'
BY LocalGoes DEF HasRead, Looping

LEMMA StoppingReads ==
    ASSUME RunnerTypes, NEW r \in Runners, NEW state \in Agents, Stopping(r, state)
    PROVE  HasRead(r)'
<1> DEFINE stopped == [state EXCEPT !.out = "stopped"]
<1>1. stopped.out = "stopped"
    BY DEF Agents
<1>2. Local(r, "finish", stopped)
    BY DEF Stopping
<1> HIDE DEF stopped
<1> QED
    BY <1>1, <1>2, LocalGoes DEF HasRead, Looping

LEMMA MineType ==
    ASSUME NEW state \in Agents, NEW n \in Nat
    PROVE  LET mine == [state EXCEPT !.calls = n]
           IN  mine \in Agents /\ mine.seen = state.seen
BY DEF Agents

LEMMA ExchangedIs ==
    ASSUME AssistTypes, NEW m \in Messages, NEW t
    PROVE  /\ Exchanged(m, t)[m] = Append(evidence[m], t)
           /\ \A k \in Messages : k # m => Exchanged(m, t)[k] = evidence[k]
BY DEF AssistTypes, Exchanged

LEMMA StartAssistReads ==
    ASSUME ModelTypes, NEW r \in Runners, StartAssist(r)
    PROVE  UNCHANGED evidence /\ HasRead(r)'
<1> USE ModelFacts
<1> DEFINE m    == reg[r].msg
           used == PriorUsage(m)
           mine == [NoAgent EXCEPT !.calls = used.calls, !.tools = used.tools]
           full == [mine EXCEPT !.seen = evidence[m], !.tools = @ + Len(evidence[m])]
<1>1. UNCHANGED evidence /\ (Stopping(r, mine) \/ Local(r, "turn", full))
    BY DEF StartAssist
<1>2. full.seen = evidence[m]
    BY DEF NoAgent
<1>3. CASE Stopping(r, mine)
  <2> DEFINE stopped == [mine EXCEPT !.out = "stopped"]
  <2>1. stopped.out = "stopped" /\ Local(r, "finish", stopped)
      BY <1>3 DEF NoAgent, Stopping
  <2> HIDE DEF stopped
  <2> QED
      BY <1>1, <2>1, LocalGoes DEF HasRead, Looping
<1>4. CASE Local(r, "turn", full)
  <2> HIDE DEF full
  <2> QED
      BY <1>1, <1>2, <1>4, LoopingReads DEF Looping
<1> QED
    BY <1>1, <1>3, <1>4

LEMMA RunTurnReads ==
    ASSUME ModelTypes, NEW r \in Runners, HasRead(r), RunTurn(r)
    PROVE  Reads(r) /\ HasRead(r)'
<1> USE ModelFacts
<1> DEFINE m    == reg[r].msg
           n    == agent[r].calls + 1
           mine == [agent[r] EXCEPT !.calls = n]
           did  == action[m][n]
<1>1. pc[r] = "turn" /\ pc[r] \in Assisting
    BY DEF RunTurn, Assisting, Running, Looping
<1>2. m \in Messages /\ agent[r].seen = evidence[m]
    BY <1>1, HandFacts DEF HasRead, Looping
<1>3. n \in Nat /\ mine \in Agents /\ mine.seen = evidence[m]
  <2>1. n \in Nat
      BY DEF Agents
  <2> QED
      BY <1>2, <2>1, MineType
<1>4. CASE RecoverTurn(r)
  <2>1. \/ Stopping(r, mine) /\ UNCHANGED evidence
        \/ Local(r, "turn", mine) /\ UNCHANGED evidence
        \/ /\ n \in Turns /\ did[1] = "read" /\ did[2] \notin ToolsOf(mine.seen)
           /\ Local(r, "turn", Read(mine, did[2])) /\ evidence' = Exchanged(m, did[2])
      BY <1>4 DEF RecoverTurn
  <2> HIDE DEF mine
  <2>2. CASE Stopping(r, mine) /\ UNCHANGED evidence
      BY <1>3, <2>2, StoppingReads DEF Reads
  <2>3. CASE Local(r, "turn", mine) /\ UNCHANGED evidence
      BY <1>3, <2>3, LoopingReads DEF Reads, Looping
  <2>4. CASE /\ n \in Turns /\ did[1] = "read" /\ did[2] \notin ToolsOf(mine.seen)
             /\ Local(r, "turn", Read(mine, did[2])) /\ evidence' = Exchanged(m, did[2])
    <3>1. did \in Actions
        BY <1>2, <2>4 DEF AssistTypes
    <3>2. did[2] \in Tools
        BY <2>4, <3>1, ActionTool
    <3>3. Read(mine, did[2]).seen = evidence'[m]
      <4> HIDE DEF did
      <4>1. Read(mine, did[2]).seen = Append(evidence[m], did[2])
          BY <1>3, <3>2, ReadType
      <4>2. Exchanged(m, did[2])[m] = Append(evidence[m], did[2])
          BY <1>2, ExchangedIs
      <4> QED
          BY <2>4, <4>1, <4>2
    <3> HIDE DEF did
    <3> QED
        BY <1>3, <2>4, <3>2, <3>3, LoopingReads DEF Reads, Looping
  <2> QED
      BY <2>1, <2>2, <2>3, <2>4
<1>5. CASE ReserveTurn(r)
  <2>1. UNCHANGED evidence /\ (Stopping(r, agent[r]) \/ Local(r, "invoke", agent[r]))
      BY <1>5 DEF ReserveTurn
  <2> QED
      BY <1>2, <2>1, StoppingReads, LoopingReads DEF Reads, Looping
<1> QED
    BY <1>4, <1>5 DEF RunTurn

LEMMA AppendIntentReads ==
    ASSUME ModelTypes, NEW r \in Runners, HasRead(r), AppendIntent(r)
    PROVE  Reads(r) /\ HasRead(r)'
<1> USE ModelFacts
<1>1. agent[r].seen = evidence[reg[r].msg] /\ UNCHANGED evidence
      /\ (Local(r, "call", agent[r]) \/ Refused(r))
    BY DEF AppendIntent, HasRead, Looping
<1>2. CASE Local(r, "call", agent[r])
    BY <1>1, <1>2, LoopingReads DEF Reads, Looping
<1>3. CASE Refused(r)
    BY <1>1, <1>3, RestGoes DEF Reads, Goes, HasRead, Looping
<1> QED
    BY <1>1, <1>2, <1>3

LEMMA ProposeReads ==
    ASSUME ModelTypes, NEW r \in Runners, HasRead(r), Propose(r)
    PROVE  Reads(r) /\ HasRead(r)'
<1> USE ModelFacts
<1>1. agent[r].seen = evidence[reg[r].msg] /\ UNCHANGED evidence
    BY DEF Propose, HasRead, Looping
<1>2. \E n, out, a :
         \/ Local(r, "observe", [agent[r] EXCEPT !.calls = n, !.out = out, !.did = a])
         \/ Local(r, "observe", [agent[r] EXCEPT !.calls = n, !.out = out])
    BY DEF Propose
<1>3. ASSUME NEW n, NEW out, NEW a, NEW state,
             \/ state = [agent[r] EXCEPT !.calls = n, !.out = out, !.did = a]
             \/ state = [agent[r] EXCEPT !.calls = n, !.out = out],
             Local(r, "observe", state)
      PROVE  HasRead(r)'
  <2>1. state.seen = agent[r].seen
      BY <1>3 DEF Agents
  <2> QED
      BY <1>1, <1>3, <2>1, LoopingReads DEF Looping
<1> QED
    BY <1>1, <1>2, <1>3 DEF Reads

LEMMA AppendObservationReads ==
    ASSUME ModelTypes, NEW r \in Runners, HasRead(r), AppendObservation(r)
    PROVE  Reads(r) /\ HasRead(r)'
<1> USE ModelFacts
<1> DEFINE more == [agent[r] EXCEPT !.retries = @ + 1]
<1>1. agent[r].seen = evidence[reg[r].msg] /\ UNCHANGED evidence
      /\ (Local(r, "turn", more) \/ Local(r, "act", agent[r]) \/ Stopping(r, agent[r]))
    BY DEF AppendObservation, HasRead, Looping
<1>2. more.seen = agent[r].seen
    BY DEF Agents
<1> HIDE DEF more
<1>3. CASE Local(r, "turn", more)
    BY <1>1, <1>2, <1>3, LoopingReads DEF Looping, Reads
<1> QED
    BY <1>1, <1>3, LoopingReads, StoppingReads DEF Looping, Reads

LEMMA AppendActionReads ==
    ASSUME ModelTypes, NEW r \in Runners, HasRead(r), AppendAction(r)
    PROVE  Reads(r) /\ HasRead(r)'
<1> USE ModelFacts
<1> DEFINE mine == agent[r]
           ready == [mine EXCEPT !.out = "response_ready"]
<1>1. mine.seen = evidence[reg[r].msg] /\ UNCHANGED evidence
      /\ \/ Readable(mine, mine.did[2]) /\ Local(r, "checkpoint", mine)
         \/ Grounded(mine) /\ Local(r, "finish", ready)
         \/ Stopping(r, mine)
    BY DEF AppendAction, HasRead, Looping
<1>2. CASE Readable(mine, mine.did[2]) /\ Local(r, "checkpoint", mine)
    BY <1>1, <1>2, LocalGoes DEF Readable, HasRead, Looping, Reads
<1>3. CASE Grounded(mine) /\ Local(r, "finish", ready)
    BY <1>1, <1>3, LocalGoes DEF Grounded, HasRead, Looping, Reads
<1> QED
    BY <1>1, <1>2, <1>3, StoppingReads DEF Reads

LEMMA ReadToolReads ==
    ASSUME ModelTypes, NEW r \in Runners, HasRead(r), ReadTool(r)
    PROVE  Reads(r) /\ HasRead(r)'
<1> USE ModelFacts
<1> DEFINE m    == reg[r].msg
           t    == agent[r].did[2]
           mine == Read(agent[r], t)
<1>1. /\ pc[r] = "tool" /\ pc[r] \in Assisting
      /\ \/ evidence' = Exchanged(m, t) /\ (Local(r, "turn", mine) \/ Stopping(r, mine))
         \/ Stopping(r, agent[r]) /\ UNCHANGED evidence
    BY DEF ReadTool, Assisting, Running, Looping
<1>2. m \in Messages /\ t \in Tools /\ agent[r].seen = evidence[m] /\ t \notin ToolsOf(evidence[m])
    BY <1>1, HandFacts DEF InHand, HasRead, Looping
<1>3. mine \in Agents /\ mine.seen = Exchanged(m, t)[m]
  <2>1. mine \in Agents /\ mine.seen = Append(evidence[m], t)
      BY <1>2, ReadType
  <2>2. Exchanged(m, t)[m] = Append(evidence[m], t)
      BY <1>2, ExchangedIs
  <2> QED
      BY <2>1, <2>2
<1> HIDE DEF mine, t
<1>4. Reads(r)
    BY <1>1, <1>2 DEF Reads
<1> QED
    BY <1>1, <1>3, <1>4, LoopingReads, StoppingReads DEF Looping

LEMMA FinishReads ==
    ASSUME ModelTypes, NEW r \in Runners, HasRead(r), Checkpoint(r) \/ Finish(r)
    PROVE  Reads(r) /\ HasRead(r)'
<1> USE ModelFacts
<1>1. CASE Checkpoint(r)
    BY <1>1, LocalGoes DEF Checkpoint, HasRead, Looping, Reads
<1>2. CASE Finish(r)
  <2>1. /\ pc[r] = "finish" /\ UNCHANGED evidence
        /\ Local(r, IF agent[r].out = "response_ready" THEN "candidate" ELSE "outcome", agent[r])
      BY <1>2 DEF Finish
  <2> QED
      BY <2>1, LocalGoes DEF HasRead, Looping, Reads
<1> QED
    BY <1>1, <1>2

LEMMA AgentReads ==
    ASSUME ModelTypes, NEW r \in Runners, HasRead(r), AgentStep(r)
    PROVE  Reads(r) /\ HasRead(r)'
BY StartAssistReads, RunTurnReads, AppendIntentReads, ProposeReads, AppendObservationReads,
   AppendActionReads, ReadToolReads, FinishReads
DEF AgentStep, Reads

-----------------------------------------------------------------------------
(* All of it.                                                              *)

LEMMA ReadKept ==
    ASSUME Solo, ReadInv, NEW r \in Runners, HasRead(r)', UNCHANGED evidence,
           \A v \in Candidates : bound'[v].assist = bound[v].assist
    PROVE  ReadInv'
BY DEF ReadInv, Solo

LEMMA AgentReadInv ==
    ASSUME Solo, ModelTypes, ReadInv, NEW r \in Runners, AgentStep(r) PROVE ReadInv'
<1> USE ModelFacts
<1> DEFINE m == reg[r].msg
<1>1. HasRead(r) /\ Reads(r) /\ HasRead(r)' /\ UNCHANGED bound /\ m \in Messages
  <2>1. UNCHANGED bound /\ m \in Messages
      BY AgentIdle, HandFacts DEF Assisting
  <2> QED
      BY <2>1, AgentReads DEF ReadInv
<1>2. CASE UNCHANGED evidence
    BY <1>1, <1>2, ReadKept
<1>3. ASSUME NEW t \in Tools, t \notin ToolsOf(evidence[m]), evidence' = Exchanged(m, t)
      PROVE  ReadInv'
  <2>1. evidence[m] \in Seq(Tools) /\ Distinct(evidence[m])
      BY <1>1 DEF AssistTypes, ReadInv
  <2>2. Distinct(Append(evidence[m], t)) /\ Len(evidence[m]) # Required
      BY <1>3, <2>1, ReadOnceMore
  <2>3. /\ evidence'[m] = Append(evidence[m], t)
        /\ \A k \in Messages : k # m => evidence'[k] = evidence[k]
      BY <1>1, <1>3, ExchangedIs
  <2>4. ASSUME NEW k \in Messages PROVE Distinct(evidence'[k])
      BY <2>2, <2>3 DEF ReadInv
  <2>5. ASSUME NEW v \in Candidates, bound[v].assist # 0
        PROVE  Len(evidence'[bound[v].assist]) = Required
    <3>1. bound[v].assist \in Messages /\ Len(evidence[bound[v].assist]) = Required
        BY <2>5 DEF AssistTypes, Sources, ReadInv
    <3> QED
        BY <2>2, <2>3, <3>1
  <2>6. \A q \in Runners : HasRead(q)'
      BY <1>1 DEF Solo
  <2> QED
      BY <1>1, <2>4, <2>5, <2>6 DEF ReadInv
<1> QED
    BY <1>1, <1>2, <1>3 DEF Reads

LEMMA CandidateReadInv ==
    ASSUME Solo, ModelTypes, ReadInv, NEW r \in Runners, CreateModelCandidate(r) PROVE ReadInv'
<1> USE ModelFacts
<1> DEFINE m == reg[r].msg
           v == case.version + 1
           used == Usage(m, 2 * agent[r].calls + 2, agent[r])
           regs == [reg[r] EXCEPT !.body.candidate = v]
<1>1. pc[r] = "candidate" /\ m \in Messages /\ Len(evidence[m]) = Required /\ UNCHANGED evidence
    BY HandFacts DEF CreateModelCandidate, Assisting, Running, ReadInv, HasRead, assistVars
<1>2. Goes(r, Unread)
  <2>1. Refused(r) \/ Goto(r, "respond", regs)
      BY DEF CreateModelCandidate
  <2>2. {"idle", "receive", "respond"} \subseteq Unread
      BY DEF Unread, Labels, Telling, Looping
  <2> HIDE DEF regs
  <2> QED
      BY <2>1, <2>2, RestGoes, GotoGoes DEF Goes
<1>3. HasRead(r)'
    BY <1>2, UnreadHasRead
<1>4. \A u \in Candidates : bound'[u].assist = bound[u].assist \/ bound'[u].assist = m
  <2>1. CASE UNCHANGED bound
      BY <2>1
  <2>2. CASE bound' = [Replaced EXCEPT ![v] = [assist |-> m, budget |-> used, life |-> "CURRENT"]]
      BY <2>2, BoundKeeps, ReplacedType
  <2> QED
      BY <2>1, <2>2 DEF CreateModelCandidate
<1> QED
    BY <1>1, <1>3, <1>4 DEF ReadInv, Solo

LEMMA ReadNext == ASSUME Solo PROVE ModelTypes /\ ReadInv /\ [ModelNext]_modelVars => ReadInv'
<1> SUFFICES ASSUME ModelTypes, ReadInv, [ModelNext]_modelVars PROVE ReadInv'
    OBVIOUS
<1> USE ModelFacts DEF Labels, Telling, Assisting, Preparing, Running, Looping
<1>1. ASSUME NEW r \in Runners, Goes(r, Unread), UNCHANGED evidence,
             \A v \in Candidates : bound'[v].assist = bound[v].assist
      PROVE  ReadInv'
    BY <1>1, UnreadHasRead, ReadKept
<1>2. ASSUME NEW r \in Runners, HandlerStep(r) PROVE ReadInv'
  <2>1. Goes(r, Plain) /\ UNCHANGED evidence
      BY <1>2, HandlerGoes DEF assistVars
  <2> QED
      BY <1>1, <1>2, <2>1, HandlerKeeps DEF Goes, Plain, Unread
<1>3. ASSUME NEW r \in Runners, NEW m \in PrivateMessages, ReceiveAssist(r, m) PROVE ReadInv'
  <2>1. Goes(r, {"idle", "receive", "execute", "request"}) /\ UNCHANGED <<evidence, bound>>
      BY <1>3, ReceiveAssistGoes DEF assistVars
  <2> QED
      BY <1>1, <2>1 DEF Goes, Unread
<1>4. ASSUME NEW r \in Runners,
             CreateAssistRequest(r) \/ RecoverPersistedAssist(r) \/ CompileContext(r)
               \/ RecordContext(r) \/ CreateStoppedOutcome(r) \/ ModelCrash(r)
      PROVE  ReadInv'
  <2>1. UNCHANGED <<evidence, bound>>
      BY <1>4
      DEF CreateAssistRequest, RecoverPersistedAssist, CompileContext, RecordContext,
          CreateStoppedOutcome, ModelCrash, assistVars
  <2>2. \/ Refused(r) \/ Leave(r)
        \/ \E label \in {"resume", "context", "compile", "intent", "stop", "start", "respond"} :
            \E regs : Goto(r, label, regs)
      BY <1>4
      DEF CreateAssistRequest, RecoverPersistedAssist, CompileContext, RecordContext,
          CreateStoppedOutcome, ModelCrash, Crash, Reading
  <2>3. Goes(r, Unread)
      BY <2>2, RestGoes, GotoGoes DEF Goes, Unread
  <2> QED
      BY <1>1, <2>1, <2>3
<1>5. CASE UNCHANGED <<pc, reg, agent, evidence, bound>>
    BY <1>5 DEF ReadInv, HasRead
<1>6. ASSUME NEW r \in Runners, CreateReadyOutcome(r) PROVE ReadInv'
    BY <1>5, <1>6 DEF CreateReadyOutcome
<1>7. CASE Environment /\ UNCHANGED <<assistVars, bound, agent>>
    BY <1>5, <1>7, EnvironmentIdle DEF assistVars
<1>8. CASE UNCHANGED modelVars
    BY <1>5, <1>8 DEF modelVars, vars, assistVars
<1> QED
    BY <1>2, <1>3, <1>4, <1>6, <1>7, <1>8, AgentReadInv, CandidateReadInv
    DEF ModelNext, HandlerStep, AssistStep

(* A final reply that QQ shows is a candidate that an assist made, on all  *)
(* of the evidence the task requires and each of it read once, whichever   *)
(* of its runs were cut off and what they had read by then.  Two runs of   *)
(* the handler command could each store a result of the same tool.         *)
THEOREM FinalReplyIsGrounded ==
    ASSUME NEW r, Runners = {r} PROVE ModelSpec => []FinalIsGrounded
<1>1. Solo
    BY DEF Solo
<1>2. ModelInit => ReadInv
    BY DEF ModelInit, Init, ReadInv, HasRead, NotBound, Distinct, Looping
<1>3. ModelTypes /\ TellInv /\ ReadInv => FinalIsGrounded
  <2> SUFFICES ASSUME ModelTypes, TellInv, ReadInv, NEW v \in FinalShown
               PROVE  /\ bound[v].assist # 0
                      /\ ToolsOf(evidence[bound[v].assist]) = Tools
                      /\ Len(evidence[bound[v].assist]) = Required
      BY DEF FinalIsGrounded
  <2>1. v \in Candidates /\ bound[v].assist # 0
      BY DEF FinalShown, TellInv, StoreTold, Grounding
  <2>2. bound[v].assist \in Messages
      BY <2>1 DEF ModelTypes, StoreInv, AssistTypes, Sources
  <2>3. evidence[bound[v].assist] \in Seq(Tools)
      BY <2>2 DEF ModelTypes, StoreInv, AssistTypes
  <2>4. Distinct(evidence[bound[v].assist]) /\ Len(evidence[bound[v].assist]) = Required
      BY <2>1, <2>2 DEF ReadInv
  <2> QED
      BY <2>1, <2>3, <2>4, AllRead
<1> QED
    BY <1>1, <1>2, <1>3, ReadNext, ModelTypesAlways, TellAlways, PTL DEF ModelSpec

-----------------------------------------------------------------------------
(* What is charged to an assist.                                           *)

(* Nothing that costs the count of an assist its sense has happened.       *)
Clean(m) == <<"issue", 0>> \notin passed /\ \A n \in Turns : turn[m][n] # "retryable"

(* It is run for the version it was requested for.                         *)
Fresh(m) == assist[m].version = case.version /\ Clean(m)

(* All that it moved the Case to is the version after that.                *)
Once(m) == \A v \in Candidates : movedBy[v] = m => v = assist[m].version + 1

Called(m)  == {n \in Turns : calls[m][n] > 0}
UpTo(m, c) == \A n \in Called(m) : n <= c
Counted(m) == \A n \in Called(m) : n <= LatestBudget(m).calls

(* A turn that a run picks up and goes on from.                            *)
PickedUp(m, k) == turn[m][k] = "completed" /\ action[m][k][1] = "read"

(* A run that has counted c calls picks up one by one the turns that were  *)
(* called beyond.                                                          *)
Covered(m, c) ==
    \A n \in Called(m) : n > c =>
       turn[m][n] # "none" /\ \A k \in Turns : c < k /\ k < n => PickedUp(m, k)

(* All turns since the start of the run are such.                          *)
Followed(m, c) == \A k \in Turns : PriorUsage(m).calls < k /\ k <= c => PickedUp(m, k)

(* The snapshots: which is an assist's latest, and the latest of the other *)
(* assists, of which none counts more than the one that was written last.  *)
LatestIn(b, i) == \A j \in DOMAIN b : b[j].assist = b[i].assist => b[j].seq <= b[i].seq

Others(b, m) == {i \in DOMAIN b : b[i].assist # m /\ LatestIn(b, i)}

MostOf(b, m, c) ==
    /\ c \in Nat /\ \A i \in Others(b, m) : b[i].calls <= c
    /\ c = 0 \/ \E i \in Others(b, m) : b[i].calls = c

(* The number of a snapshot goes with the calls it counts, but for the     *)
(* first of an assist, which counts what others had used by then.          *)
Numbered(b, i) ==
    IF b[i].seq = 0 THEN b[i].calls = 0 \/ \E j \in Others(b, b[i].assist) : b[i].calls <= b[j].calls
                    ELSE 2 * b[i].calls <= b[i].seq /\ b[i].seq <= 2 * b[i].calls + 2

RowsOf(b) ==
    /\ \A i \in DOMAIN b : Numbered(b, i) /\ \E j \in DOMAIN b : b[j].assist = b[i].assist /\ LatestIn(b, j)
    /\ \A i, j \in DOMAIN b :
          /\ b[i].assist = b[j].assist /\ b[i].seq = b[j].seq => i = j
          /\ LatestIn(b, i) /\ LatestIn(b, j) /\ i < j => b[i].calls <= b[j].calls

Rows == RowsOf(budgets)

Assisted == {"ASSIST_REQUESTED", "INVESTIGATING"}

(* What the store says of the Case and an assist.                          *)
Requests ==
    /\ \A v \in Candidates : case.version < v => movedBy[v] = 0
    /\ \A v \in Candidates :
          /\ bound[v].life = "CURRENT" => v = case.candidate /\ bound[v].assist # 0
          /\ bound[v].assist # 0 => assist[bound[v].assist].version # 0
    /\ \A m \in Messages :
          /\ assist[m] # NoAssist =>
                IsAssist(m) /\ 1 <= assist[m].version /\ assist[m].version <= case.version
          /\ assist[m].version = case.version /\ assist[m].version # 0 /\ assist[m].outcome = "none"
                => case.status \in Assisted
          /\ assist[m].version = case.version /\ assist[m].context /\ assist[m].outcome = "none"
                /\ <<"issue", 0>> \notin passed => artifact[0] = "reachable"
          /\ Called(m) # {} => assist[m].context

(* Its candidate is the current one, or it is settled and moved the Case   *)
(* no further.                                                             *)
Settled(m) ==
    \/ \E v \in Candidates : bound[v].life = "CURRENT" /\ bound[v].assist = m
    \/ assist[m].outcome # "none" /\ Once(m)

ChargeOf(m) == Clean(m) =>
    /\ \A c \in Nat : PriorUsage(m).calls <= c => Covered(m, c)
    /\ Settled(m) => Counted(m)

Charges == \A m \in Messages : ChargeOf(m)

(* Where the runner is about a final reply.                                *)
Finals(r) ==
    pc[r] \in {"approve", "final", "delete"} \/ (pc[r] \in Telling /\ reg[r].kind = "final")

(* What a run knows of its assist.                                         *)
Pursues(r) ==
    LET m == reg[r].msg IN
    /\ Finals(r) => case.status \notin Assisted
    /\ pc[r] \in Running \cup {"resume"} => assist[m].version # 0
    /\ pc[r] \in Running => \A v \in Candidates : bound[v].life = "CURRENT" => bound[v].assist # m
    /\ pc[r] \in Looping \cup {"start"} => assist[m].context
    /\ pc[r] = "compile" => artifact[0] = "reachable" \/ <<"issue", 0>> \in passed

RequestInv == Requests /\ \A r \in Runners : Pursues(r)

(* It counts on from what other assists have used.                         *)
CountsOn(r) ==
    \A m \in Messages : reg[r].msg = m /\ pc[r] \in Looping \cup {"finish"} =>
       PriorUsage(m).calls <= agent[r].calls

RowInv == Rows /\ \A r \in Runners : CountsOn(r)

(* What it has counted.                                                    *)
CountsFor(r, m, c) ==
    /\ pc[r] = "observe" => turn[m][c] = "intent"
    /\ pc[r] \in Looping /\ Clean(m) =>
          /\ pc[r] = "turn" => Covered(m, c)
          /\ pc[r] # "turn" => UpTo(m, c)
          /\ pc[r] \notin {"observe", "act"} => Followed(m, c)
          /\ pc[r] \in {"observe", "act"} => Followed(m, c - 1)
          /\ pc[r] = "act" => turn[m][c] = "completed"
          /\ pc[r] \in {"checkpoint", "tool"} => action[m][c][1] = "read"
    /\ Fresh(m) =>
          /\ pc[r] = "stop" => Called(m) = {}
          /\ pc[r] = "finish" => UpTo(m, c)
          /\ pc[r] \in {"candidate", "outcome"} => Counted(m)
    /\ pc[r] \in {"respond", "intent", "record"} /\ reg[r].kind = "draft-preview" /\ IsAssist(m)
          /\ assist[m].outcome = "none" /\ Clean(m) => Counted(m)

Counts(r) ==
    \A m \in Messages, c \in Nat :
       reg[r].msg = m /\ agent[r].calls = c => CountsFor(r, m, c)

ChargeInv == Charges /\ \A r \in Runners : Counts(r)

LEMMA AtMostStays == \A i, j, k \in Nat : i <= j /\ j <= k => i <= k
    OBVIOUS

(* What a new row does: nobody counts less, and the assist it is of has   *)
(* the same to start from.                                                 *)
Appended(b, c, x) ==
    /\ RowsOf(c)
    /\ \A k, q1, q2 : MostOf(b, k, q1) /\ MostOf(c, k, q2) =>
          q1 <= q2 /\ (k = x.assist => q1 = q2)
    /\ \A i \in DOMAIN b, j \in DOMAIN c :
          b[i].assist = c[j].assist /\ LatestIn(b, i) /\ LatestIn(c, j) => b[i].calls <= c[j].calls
    /\ \A j \in DOMAIN c : c[j].assist = x.assist /\ LatestIn(c, j) => x.seq <= c[j].seq

LEMMA AppendRow ==
    ASSUME NEW b \in Seq(Used), RowsOf(b), NEW x \in Used, NEW p, MostOf(b, x.assist, p),
           \A i \in DOMAIN b : ~(b[i].assist = x.assist /\ b[i].seq = x.seq),
           p <= x.calls, x.seq = 0 => x.calls = p,
           x.seq # 0 => 2 * x.calls <= x.seq /\ x.seq <= 2 * x.calls + 2,
           NEW c, c = Append(b, x)
    PROVE  Appended(b, c, x)
<1> SUFFICES /\ RowsOf(c)
             /\ \A k, q1, q2 : MostOf(b, k, q1) /\ MostOf(c, k, q2) =>
                   q1 <= q2 /\ (k = x.assist => q1 = q2)
             /\ \A i \in DOMAIN b, j \in DOMAIN c :
                   b[i].assist = c[j].assist /\ LatestIn(b, i) /\ LatestIn(c, j) => b[i].calls <= c[j].calls
             /\ \A j \in DOMAIN c : c[j].assist = x.assist /\ LatestIn(c, j) => x.seq <= c[j].seq
    BY DEF Appended
<1> DEFINE n == Len(b) + 1
<1>1. /\ Len(b) \in Nat /\ DOMAIN b = 1..Len(b) /\ DOMAIN c = 1..n
      /\ n \notin DOMAIN b /\ DOMAIN c = DOMAIN b \cup {n} /\ c[n] = x
      /\ \A i \in DOMAIN b : c[i] = b[i] /\ i < n /\ i \in Nat
    OBVIOUS
<1>2. /\ x.seq \in Nat /\ x.calls \in Nat /\ p \in Nat
      /\ \A i \in DOMAIN b : b[i].seq \in Nat /\ b[i].calls \in Nat
  <2>1. x.seq \in Nat /\ x.calls \in Nat
      BY DEF Used
  <2>2. p \in Nat
      BY DEF MostOf
  <2>3. ASSUME NEW i \in DOMAIN b PROVE b[i].seq \in Nat /\ b[i].calls \in Nat
    <3>1. b[i] \in Used
        BY <1>1
    <3> QED
        BY <3>1 DEF Used
  <2> QED
      BY <2>1, <2>2, <2>3
<1> HIDE DEF n
<1>3. ASSUME NEW i \in DOMAIN b
      PROVE  LatestIn(c, i) <=> LatestIn(b, i) /\ (b[i].assist = x.assist => x.seq < b[i].seq)
  <2>1. c[i] = b[i] /\ c[n] = x /\ b[i].seq \in Nat /\ x.seq \in Nat /\ i \in DOMAIN c /\ n \in DOMAIN c
      BY <1>1, <1>2
  <2>2. ASSUME LatestIn(c, i)
        PROVE  LatestIn(b, i) /\ (b[i].assist = x.assist => x.seq < b[i].seq)
    <3>1. \A j \in DOMAIN b : b[j].assist = b[i].assist => b[j].seq <= b[i].seq
        BY <1>1, <2>1, <2>2 DEF LatestIn
    <3>2. x.assist = b[i].assist => x.seq <= b[i].seq
        BY <2>1, <2>2 DEF LatestIn
    <3> QED
        BY <2>1, <3>1, <3>2 DEF LatestIn
  <2>3. ASSUME LatestIn(b, i), b[i].assist = x.assist => x.seq < b[i].seq
        PROVE  LatestIn(c, i)
    <3>1. ASSUME NEW j \in DOMAIN c, c[j].assist = c[i].assist PROVE c[j].seq <= c[i].seq
      <4>1. CASE j = n
          BY <2>1, <2>3, <3>1, <4>1
      <4>2. CASE j \in DOMAIN b
          BY <1>1, <2>1, <2>3, <3>1, <4>2 DEF LatestIn
      <4> QED
          BY <1>1, <4>1, <4>2
    <3> QED
        BY <3>1 DEF LatestIn
  <2> QED
      BY <2>2, <2>3
<1>4. LatestIn(c, n) <=> \A j \in DOMAIN b : b[j].assist = x.assist => b[j].seq < x.seq
  <2>1. ASSUME LatestIn(c, n), NEW j \in DOMAIN b, b[j].assist = x.assist PROVE b[j].seq < x.seq
    <3>1. c[j] = b[j] /\ c[n] = x /\ j \in DOMAIN c /\ b[j].seq \in Nat /\ x.seq \in Nat
        BY <1>1, <1>2
    <3>2. b[j].seq <= x.seq
        BY <2>1, <3>1 DEF LatestIn
    <3> QED
        BY <2>1, <3>1, <3>2
  <2>2. ASSUME \A j \in DOMAIN b : b[j].assist = x.assist => b[j].seq < x.seq PROVE LatestIn(c, n)
    <3>1. ASSUME NEW j \in DOMAIN c, c[j].assist = c[n].assist PROVE c[j].seq <= c[n].seq
      <4>1. CASE j = n
          BY <1>1, <1>2, <4>1
      <4>2. CASE j \in DOMAIN b
          BY <1>1, <1>2, <2>2, <3>1, <4>2
      <4> QED
          BY <1>1, <4>1, <4>2
    <3> QED
        BY <3>1 DEF LatestIn
  <2> QED
      BY <2>1, <2>2
<1>5. Others(c, x.assist) = Others(b, x.assist)
    BY <1>1, <1>3 DEF Others
<1>6. ASSUME NEW i \in DOMAIN b, b[i].assist = x.assist, b[i].seq < x.seq
      PROVE  b[i].calls <= x.calls
  <2>1. Numbered(b, i)
      BY DEF RowsOf
  <2>2. CASE b[i].seq = 0
    <3>1. b[i].calls = 0 \/ \E j \in Others(b, x.assist) : b[i].calls <= b[j].calls
        BY <1>6, <2>1, <2>2 DEF Numbered
    <3>2. \A j \in Others(b, x.assist) : b[j].calls <= p /\ j \in DOMAIN b
        BY DEF MostOf, Others
    <3> QED
        BY <1>2, <3>1, <3>2
  <2>3. CASE b[i].seq # 0
    <3>1. 2 * b[i].calls <= b[i].seq /\ x.seq # 0 /\ x.seq <= 2 * x.calls + 2
        BY <1>2, <1>6, <2>1, <2>3 DEF Numbered
    <3> QED
        BY <1>2, <1>6, <3>1
  <2> QED
      BY <2>2, <2>3
<1>7. ASSUME NEW i \in DOMAIN b, LatestIn(b, i)
      PROVE  \E j \in DOMAIN c :
               c[j].assist = b[i].assist /\ LatestIn(c, j) /\ b[i].calls <= c[j].calls
  <2>1. CASE LatestIn(c, i)
      BY <1>1, <1>2, <2>1
  <2>2. CASE ~LatestIn(c, i)
    <3>1. b[i].assist = x.assist /\ b[i].seq < x.seq
        BY <1>2, <1>3, <1>7, <2>2
    <3>2. LatestIn(c, n)
      <4>1. ASSUME NEW j \in DOMAIN b, b[j].assist = x.assist PROVE b[j].seq < x.seq
        <5>1. b[j].seq <= b[i].seq
            BY <1>7, <3>1, <4>1 DEF LatestIn
        <5>2. b[j].seq \in Nat /\ b[i].seq \in Nat /\ x.seq \in Nat
            BY <1>2
        <5> QED
            BY <3>1, <5>1, <5>2
      <4> QED
          BY <1>4, <4>1
    <3> QED
        BY <1>1, <1>6, <3>1, <3>2
  <2> QED
      BY <2>1, <2>2
<1>8. \A k : \A i \in Others(b, k) : \E j \in Others(c, k) : b[i].calls <= c[j].calls
    BY <1>7 DEF Others
<1>9. \A j \in DOMAIN c : c[j].assist = x.assist /\ LatestIn(c, j) => x.seq <= c[j].seq
    BY <1>1, <1>2 DEF LatestIn
<1>10. ASSUME NEW i \in DOMAIN b, NEW j \in DOMAIN c, b[i].assist = c[j].assist,
              LatestIn(b, i), LatestIn(c, j)
       PROVE  b[i].calls <= c[j].calls
  <2>1. CASE j = n
      BY <1>1, <1>2, <1>4, <1>6, <1>10, <2>1
  <2>2. CASE j \in DOMAIN b
    <3>1. LatestIn(b, j) /\ b[j].assist = b[i].assist
        BY <1>1, <1>3, <1>10, <2>2
    <3>2. b[i].seq = b[j].seq
        BY <1>2, <1>10, <2>2, <3>1 DEF LatestIn
    <3>3. i = j
        BY <2>2, <3>1, <3>2 DEF RowsOf
    <3> QED
        BY <1>1, <1>2, <3>3
  <2> QED
      BY <1>1, <2>1, <2>2
<1>11. ASSUME NEW k, NEW q1, NEW q2, MostOf(b, k, q1), MostOf(c, k, q2)
       PROVE  q1 <= q2 /\ (k = x.assist => q1 = q2)
  <2>1. \A j \in Others(c, k) : c[j].calls <= q2 /\ c[j].calls \in Nat /\ j \in DOMAIN c
      BY <1>1, <1>2, <1>11 DEF MostOf, Others
  <2>2. q1 \in Nat /\ q2 \in Nat
      BY <1>11 DEF MostOf
  <2>3. q1 <= q2
    <3>1. CASE \E i \in Others(b, k) : b[i].calls = q1
        BY <1>8, <2>1, <2>2, <3>1
    <3> QED
        BY <1>11, <2>2, <3>1 DEF MostOf
  <2>4. ASSUME k = x.assist PROVE q2 <= q1
    <3>1. \A j \in Others(b, k) : c[j].calls = b[j].calls
        BY <1>1 DEF Others
    <3> QED
      <4>1. \A i \in Others(b, k) : b[i].calls <= q1
          BY <1>11 DEF MostOf
      <4>2. q2 = 0 \/ \E i \in Others(b, k) : c[i].calls = q2
          BY <1>5, <1>11, <2>4 DEF MostOf
      <4>3. CASE q2 = 0
          BY <2>2, <4>3
      <4>4. CASE \E i \in Others(b, k) : c[i].calls = q2
          BY <3>1, <4>1, <4>4
      <4> QED
          BY <4>2, <4>3, <4>4
  <2> QED
      BY <2>2, <2>3, <2>4
<1>12. \A i \in DOMAIN c : Numbered(c, i)
  <2>1. ASSUME NEW i \in DOMAIN b PROVE Numbered(c, i)
    <3>1. Numbered(b, i)
        BY DEF RowsOf
    <3>2. \A k : \A j \in Others(c, k) : c[j].calls \in Nat
        BY <1>1, <1>2 DEF Others
    <3>3. \A k : \A j \in Others(b, k) : b[j].calls \in Nat
        BY <1>1, <1>2 DEF Others
    <3>4. (\E j \in Others(b, b[i].assist) : b[i].calls <= b[j].calls) =>
             \E j \in Others(c, b[i].assist) : b[i].calls <= c[j].calls
      <4> SUFFICES ASSUME NEW j \in Others(b, b[i].assist), b[i].calls <= b[j].calls
                   PROVE  \E l \in Others(c, b[i].assist) : b[i].calls <= c[l].calls
          OBVIOUS
      <4>1. PICK l \in Others(c, b[i].assist) : b[j].calls <= c[l].calls
          BY <1>8
      <4>2. b[i].calls \in Nat /\ b[j].calls \in Nat /\ c[l].calls \in Nat
          BY <1>2, <3>2, <3>3
      <4>3. b[i].calls <= c[l].calls
          BY <4>1, <4>2, AtMostStays
      <4> QED
          BY <4>3
    <3> QED
        BY <1>1, <3>1, <3>4 DEF Numbered
  <2>2. Numbered(c, n)
    <3>1. p = 0 \/ \E j \in Others(b, x.assist) : b[j].calls = p
        BY DEF MostOf
    <3>2. \A j \in Others(b, x.assist) : c[j].calls = b[j].calls
        BY <1>1 DEF Others
    <3>3. x.seq = 0 => x.calls = 0 \/ \E j \in Others(c, x.assist) : x.calls <= c[j].calls
        BY <1>2, <1>5, <3>1, <3>2
    <3> QED
        BY <1>1, <3>3 DEF Numbered
  <2> QED
      BY <1>1, <2>1, <2>2
<1>13. \A i \in DOMAIN c : \E j \in DOMAIN c : c[j].assist = c[i].assist /\ LatestIn(c, j)
  <2>1. ASSUME NEW i \in DOMAIN b PROVE \E j \in DOMAIN c : c[j].assist = b[i].assist /\ LatestIn(c, j)
    <3>1. PICK j \in DOMAIN b : b[j].assist = b[i].assist /\ LatestIn(b, j)
        BY DEF RowsOf
    <3> QED
        BY <1>7, <3>1
  <2>2. \E j \in DOMAIN c : c[j].assist = x.assist /\ LatestIn(c, j)
    <3>1. CASE \E i \in DOMAIN b : b[i].assist = x.assist
        BY <2>1, <3>1
    <3>2. CASE ~\E i \in DOMAIN b : b[i].assist = x.assist
        BY <1>1, <1>4, <3>2
    <3> QED
        BY <3>1, <3>2
  <2> QED
      BY <1>1, <2>1, <2>2
<1>14. \A i, j \in DOMAIN c : c[i].assist = c[j].assist /\ c[i].seq = c[j].seq => i = j
  <2>1. ASSUME NEW i \in DOMAIN c, NEW j \in DOMAIN c,
               c[i].assist = c[j].assist, c[i].seq = c[j].seq
        PROVE  i = j
    <3>1. CASE i \in DOMAIN b /\ j \in DOMAIN b
      <4>1. b[i].assist = b[j].assist /\ b[i].seq = b[j].seq
          BY <1>1, <2>1, <3>1
      <4> QED
          BY <3>1, <4>1 DEF RowsOf
    <3>2. CASE i = n \/ j = n
        BY <1>1, <2>1, <3>2
    <3> QED
        BY <1>1, <3>1, <3>2
  <2> QED
      BY <2>1
<1>15. ASSUME NEW i \in DOMAIN c, NEW j \in DOMAIN c, LatestIn(c, i), LatestIn(c, j), i < j
       PROVE  c[i].calls <= c[j].calls
  <2>1. i \in DOMAIN b
      BY <1>1, <1>15
  <2>2. CASE j \in DOMAIN b
      BY <1>1, <1>3, <1>15, <2>1, <2>2 DEF RowsOf
  <2>3. CASE j = n
    <3>1. b[i].assist # x.assist
        BY <1>2, <1>3, <1>4, <1>15, <2>1, <2>3
    <3>2. i \in Others(b, x.assist)
        BY <1>3, <1>15, <2>1, <3>1 DEF Others
    <3>3. b[i].calls <= p
        BY <3>2 DEF MostOf
    <3> QED
        BY <1>1, <1>2, <2>1, <2>3, <3>3
  <2> QED
      BY <1>1, <2>2, <2>3
<1>16. RowsOf(c)
    BY <1>12, <1>13, <1>14, <1>15 DEF RowsOf
<1> QED
    BY <1>9, <1>10, <1>11, <1>16

-----------------------------------------------------------------------------
(* Requests: steps that leave the version of the Case alone.               *)

LEMMA RequestsKept ==
    ASSUME ModelTypes, Requests, UNCHANGED <<movedBy, assist, calls>>, InboxKept,
           case'.version = case.version, case'.candidate = case.candidate, passed \subseteq passed',
           case.status \in Assisted =>
              case'.status \in Assisted /\ (artifact'[0] = artifact[0] \/ <<"issue", 0>> \in passed'),
           \A v \in Candidates : bound'[v].assist = bound[v].assist
              /\ (bound'[v].life = "CURRENT" => bound[v].life = "CURRENT")
    PROVE  Requests'
<1>1. StoreTypes
    BY DEF ModelTypes, StoreInv
<1>2. \A m \in Messages : IsAssist(m) => IsAssist(m)'
    BY <1>1, InboxIn DEF IsAssist
<1>3. \A m \in Messages : assist[m].context => assist[m] # NoAssist
    BY DEF NoAssist
<1>4. \A m \in Messages : assist[m] # NoAssist => assist[m].version # 0
    BY DEF Requests
<1>5. \A m \in Messages : Called(m)' = Called(m)
    BY DEF Called
<1>6. \A v \in Candidates : case'.version < v => movedBy'[v] = 0
    BY DEF Requests
<1>7. \A v \in Candidates :
        /\ bound'[v].life = "CURRENT" => v = case'.candidate /\ bound'[v].assist # 0
        /\ bound'[v].assist # 0 => assist'[bound'[v].assist].version # 0
    BY DEF Requests
<1>8. ASSUME NEW m \in Messages
      PROVE  /\ assist'[m] # NoAssist =>
                  IsAssist(m)' /\ 1 <= assist'[m].version /\ assist'[m].version <= case'.version
             /\ assist'[m].version = case'.version /\ assist'[m].version # 0 /\ assist'[m].outcome = "none"
                  => case'.status \in Assisted
             /\ assist'[m].version = case'.version /\ assist'[m].context /\ assist'[m].outcome = "none"
                  /\ <<"issue", 0>> \notin passed' => artifact'[0] = "reachable"
             /\ Called(m)' # {} => assist'[m].context
    BY <1>2, <1>3, <1>4, <1>5 DEF Requests
<1> QED
    BY <1>6, <1>7, <1>8 DEF Requests

(* And those that make a new one: every request is for an earlier.         *)
LEMMA RequestsMoved ==
    ASSUME ModelTypes, Requests, UNCHANGED <<inbox, calls>>, NEW k,
           case'.version = case.version + 1,
           movedBy' = [movedBy EXCEPT ![case.version + 1] = k],
           \A m \in Messages :
              /\ assist'[m].version = assist[m].version /\ assist'[m].context = assist[m].context
              /\ assist'[m] = assist[m] \/ assist[m].version # 0,
           \A v \in Candidates :
              /\ bound'[v].life = "CURRENT" => v = case'.candidate /\ bound'[v].assist # 0
              /\ \/ bound'[v].assist = bound[v].assist
                 \/ bound'[v].assist \in Messages /\ assist[bound'[v].assist].version # 0
    PROVE  Requests'
<1>1. StoreTypes /\ AssistTypes /\ case.version \in Nat
    BY DEF ModelTypes, StoreInv, StoreTypes
<1>2. \A m \in Messages : IsAssist(m)' = IsAssist(m)
    BY DEF IsAssist
<1>3. \A m \in Messages : Called(m)' = Called(m)
    BY DEF Called
<1>4. ASSUME NEW v \in Candidates, case'.version < v PROVE movedBy'[v] = 0
  <2>1. v # case.version + 1 /\ case.version < v
      BY <1>1, <1>4 DEF Candidates
  <2>2. movedBy[v] = 0
      BY <2>1 DEF Requests
  <2> QED
      BY <1>1, <2>1, <2>2 DEF StoreTypes
<1>5. ASSUME NEW v \in Candidates, bound'[v].assist # 0 PROVE assist'[bound'[v].assist].version # 0
  <2>1. CASE bound'[v].assist = bound[v].assist
    <3>1. bound[v].assist # 0 /\ bound[v].assist \in Sources /\ assist[bound[v].assist].version # 0
        BY <1>1, <1>5, <2>1 DEF Requests, AssistTypes
    <3> QED
        BY <1>5, <2>1, <3>1 DEF Sources
  <2>2. CASE bound'[v].assist \in Messages /\ assist[bound'[v].assist].version # 0
      BY <1>5, <2>2
  <2> QED
      BY <1>5, <2>1, <2>2
<1>6. ASSUME NEW m \in Messages
      PROVE  /\ assist'[m] # NoAssist =>
                  IsAssist(m)' /\ 1 <= assist'[m].version /\ assist'[m].version <= case'.version
             /\ assist[m].version # case'.version
             /\ Called(m)' # {} => assist'[m].context
  <2>1. assist[m].version \in Nat /\ assist[m] \in [version : Nat, context : BOOLEAN, outcome : Outcomes]
      BY <1>1 DEF AssistTypes
  <2>2. assist[m].version <= case.version
    <3>1. CASE assist[m] = NoAssist
        BY <1>1, <3>1 DEF NoAssist
    <3>2. CASE assist[m] # NoAssist
        BY <3>2 DEF Requests
    <3> QED
        BY <3>1, <3>2
  <2>3. assist'[m] # NoAssist => assist[m] # NoAssist
      BY DEF NoAssist
  <2> QED
      BY <1>1, <1>2, <1>3, <2>1, <2>2, <2>3 DEF Requests
<1> QED
    BY <1>4, <1>5, <1>6 DEF Requests

(* A binding only fades, but for the one of a new candidate.               *)
LEMMA BoundFades ==
    ASSUME AssistTypes, bound' = bound \/ bound' = ContentDeleted
    PROVE  \A v \in Candidates : bound'[v].assist = bound[v].assist
              /\ (bound'[v].life = "CURRENT" => bound[v].life = "CURRENT")
<1>1. ASSUME NEW v \in Candidates, NEW u
      PROVE  LET b == [bound EXCEPT ![u].life = "DELETED"]
             IN  b[v].assist = bound[v].assist
                   /\ (b[v].life = "CURRENT" => bound[v].life = "CURRENT")
    BY <1>1 DEF AssistTypes
<1>2. CASE bound' = bound
    BY <1>2
<1>3. CASE CurrentBinding # 0 /\ bound' = [bound EXCEPT ![CurrentBinding].life = "DELETED"]
  <2> DEFINE u == CurrentBinding
  <2>1. bound' = [bound EXCEPT ![u].life = "DELETED"]
      BY <1>3
  <2> HIDE DEF u
  <2> QED
      BY <1>1, <2>1
<1> QED
    BY <1>2, <1>3 DEF ContentDeleted

LEMMA NoneCurrent ==
    ASSUME AssistTypes, Requests
    PROVE  \A v \in Candidates : Replaced[v].life # "CURRENT"
<1>1. ASSUME NEW v \in Candidates, bound[v].life = "CURRENT" PROVE Replaced[v].life # "CURRENT"
  <2>1. v = case.candidate
      BY <1>1 DEF Requests
  <2>2. Replaced[v] = [bound[v] EXCEPT !.life = "INVALIDATED"]
      BY <1>1, <2>1 DEF Replaced
  <2> QED
      BY <2>2 DEF AssistTypes
<1> QED
    BY <1>1 DEF Replaced

(* The Case itself begins without any.                                     *)
LEMMA StartedRequests ==
    ASSUME ModelTypes, Requests, UNCHANGED <<inbox, assist, calls, movedBy, bound>>,
           case'.version = case.version + 1, case'.candidate = case.candidate,
           \A m \in Messages : assist[m] = NoAssist
    PROVE  Requests'
<1>1. case.version \in Nat
    BY DEF ModelTypes, StoreInv, StoreTypes
<1>2. \A m \in Messages : Called(m)' = Called(m)
    BY DEF Called
<1>3. \A v \in Candidates : case'.version < v => movedBy'[v] = 0
    BY <1>1 DEF Requests, Candidates
<1> QED
    BY <1>1, <1>2, <1>3 DEF Requests, NoAssist

(* A step of the handler's workflow.                                       *)
LEMMA HandlerRequests ==
    ASSUME ModelTypes, Requests, NEW r \in Runners, Pursues(r),
           HandlerStep(r) \/ \E m \in PrivateMessages : ReceiveAssist(r, m)
    PROVE  Requests'
<1> USE ModelFacts
<1>1. UNCHANGED <<inbox, assist, calls>> /\ InboxKept
    BY HandlerKeeps DEF assistVars, Kept
<1>2. case \in [version : Nat, status : Statuses, candidate : Drafts]
    BY DEF StoreTypes
<1>3. passed' = passed
    BY DEF HandlerStep, ManualStep, NoticeStep, StartRun, CreateIssueArtifact,
           CreateNotificationIntent, StartAttempt, NotifyC2c, RecordNotification,
           TransitionSimpleCommand, Respond, RecordCommandOnce, FinalDeliveryIntent,
           CreatePassiveIntent, Send, RecordPassiveResult, DraftCandidate,
           CreateCandidateAndRequest, ApproveModelRequest, ApproveRequest, ExecuteModelReply,
           ExecutePassiveReply, DeleteModelContent, DeleteArtifacts, ReceiveManual,
           ReceivePrivate, AssertModelApproval, ReceiveAssist, handlerVars, envVars
<1>4. ASSUME UNCHANGED <<case, movedBy>>, bound' = bound \/ bound' = ContentDeleted,
             artifact' = artifact \/ <<"issue", 0>> \in passed
      PROVE  Requests'
    BY <1>1, <1>3, <1>4, BoundFades, RequestsKept
<1>5. ASSUME UNCHANGED <<movedBy, bound, artifact>>, NEW s,
             case' = case \/ case' = [case EXCEPT !.status = s],
             case.status \in Assisted => case' = case \/ s \in Assisted
      PROVE  Requests'
  <2>1. case'.version = case.version /\ case'.candidate = case.candidate
        /\ (case.status \in Assisted => case'.status \in Assisted)
      BY <1>2, <1>5
  <2> QED
      BY <1>1, <1>3, <1>5, <2>1, RequestsKept
<1>6. CASE ManualStep(r)
  <2>1. UNCHANGED bound
      BY <1>6 DEF ManualStep
  <2>2. CASE StartRun(r) \/ CreateNotificationIntent(r) \/ StartAttempt(r) \/ NotifyC2c(r)
               \/ RecordNotification(r) \/ CreatePassiveIntent(r) \/ Send(r)
    <3>1. UNCHANGED caseVars
        BY <2>2 DEF StartRun, CreateNotificationIntent, StartAttempt, NotifyC2c, RecordNotification,
                    CreatePassiveIntent, Send
    <3> QED
        BY <1>4, <2>1, <3>1 DEF caseVars
  <2>3. CASE Respond(r) \/ RecordCommandOnce(r) \/ FinalDeliveryIntent(r)
    <3>1. UNCHANGED <<case, movedBy>> /\ (artifact' = artifact \/ <<"issue", 0>> \in passed)
        BY <2>3 DEF Respond, RecordCommandOnce, FinalDeliveryIntent, Reading
    <3> QED
        BY <1>4, <2>1, <3>1
  <2>4. CASE CreateIssueArtifact(r)
    <3>1. CASE case # NoCase
        BY <1>4, <2>1, <2>4, <3>1 DEF CreateIssueArtifact
    <3>2. CASE case = NoCase
      <4>1. case.version = 0 /\ case'.version = case.version + 1 /\ case'.candidate = case.candidate
            /\ UNCHANGED movedBy /\ case.status \notin Assisted
          BY <2>4, <3>2 DEF CreateIssueArtifact, NoCase, Assisted
      <4>2. \A m \in Messages : assist[m] = NoAssist
          BY <1>2, <4>1 DEF Requests, AssistTypes
      <4> QED
          BY <1>1, <2>1, <4>1, <4>2, StartedRequests
    <3> QED
        BY <3>1, <3>2
  <2>5. CASE TransitionSimpleCommand(r)
    <3> DEFINE k   == reg[r].msg
               cmd == inbox[k].cmd
               v   == IF cmd = "pull" THEN case.version ELSE case.version + 1
               now == [case EXCEPT !.version = v,
                                   !.status = CASE cmd = "accept" -> "ACCEPTED"
                                                [] cmd = "reject" -> "REJECTED"
                                                [] OTHER -> @]
    <3>1. cmd \in {"pull", "accept", "reject"}
        BY <2>5 DEF TransitionSimpleCommand
    <3>2. now.version = v /\ now.candidate = case.candidate /\ (cmd = "pull" => now.status = case.status)
        BY <1>2
    <3>3. \/ /\ case'.version = case.version /\ case'.candidate = case.candidate
             /\ case'.status = case.status /\ UNCHANGED <<movedBy, artifact>>
          \/ /\ case'.version = case.version + 1 /\ case'.candidate = case.candidate
             /\ movedBy' = [movedBy EXCEPT ![case.version + 1] = k]
      <4>1. CASE UNCHANGED <<case, artifact, movedBy>>
          BY <4>1
      <4>2. CASE /\ case' = now
                 /\ artifact' = IF cmd = "reject" THEN [a \in DOMAIN artifact |-> Scheduled(a)]
                                                  ELSE artifact
                 /\ movedBy' = IF cmd = "pull" THEN movedBy ELSE [movedBy EXCEPT ![v] = k]
        <5> HIDE DEF now
        <5> QED
            BY <3>2, <4>2
      <4> QED
          BY <2>5, <4>1, <4>2 DEF TransitionSimpleCommand
    <3>4. CASE /\ case'.version = case.version /\ case'.candidate = case.candidate
               /\ case'.status = case.status /\ UNCHANGED <<movedBy, artifact>>
        BY <1>1, <1>3, <2>1, <3>4, RequestsKept
    <3>5. CASE /\ case'.version = case.version + 1 /\ case'.candidate = case.candidate
               /\ movedBy' = [movedBy EXCEPT ![case.version + 1] = k]
        BY <1>1, <2>1, <3>5, RequestsMoved DEF Requests
    <3> QED
        BY <3>3, <3>4, <3>5
  <2>6. CASE RecordPassiveResult(r)
    <3>1. UNCHANGED <<movedBy, artifact>> /\ pc[r] = "result"
          /\ (case' = case \/ case' = [case EXCEPT !.status = "FINAL_ACCEPTED"])
          /\ (reg[r].key.kind # "final" => case' = case)
        BY <2>6 DEF RecordPassiveResult
    <3>2. case.status \in Assisted => reg[r].key.kind # "final"
        BY <3>1 DEF Pursues, Finals, InHand, Keyed, Telling
    <3> QED
        BY <1>5, <2>1, <3>1, <3>2
  <2> QED
      BY <1>6, <2>2, <2>3, <2>4, <2>5, <2>6 DEF ManualStep, NoticeStep
<1>7. CASE DraftCandidate(r)
  <2> DEFINE v == case.version + 1
             k == reg[r].msg
  <2>1. \/ UNCHANGED <<case, movedBy, artifact>>
        \/ /\ case' = [version |-> v, status |-> "DRAFTED", candidate |-> v]
           /\ movedBy' = [movedBy EXCEPT ![v] = k]
      BY <1>7 DEF DraftCandidate, CreateCandidateAndRequest
  <2>2. CASE UNCHANGED <<case, movedBy, artifact>>
      BY <1>4, <1>7, <2>2 DEF DraftCandidate
  <2>3. CASE /\ case' = [version |-> v, status |-> "DRAFTED", candidate |-> v]
             /\ movedBy' = [movedBy EXCEPT ![v] = k]
    <3>1. case'.version = v /\ case' # case
        BY <1>2, <2>3
    <3>2. bound' = Replaced
        BY <1>7, <3>1 DEF DraftCandidate
    <3> QED
        BY <1>1, <2>3, <3>1, <3>2, NoneCurrent, BoundKeeps, RequestsMoved
  <2> QED
      BY <2>1, <2>2, <2>3
<1>8. CASE ApproveModelRequest(r)
  <2>1. UNCHANGED <<movedBy, bound, artifact>> /\ pc[r] = "approve"
        /\ (case' = case \/ case' = [case EXCEPT !.status = "APPROVED"])
      BY <1>8 DEF ApproveModelRequest, ApproveRequest
  <2> QED
      BY <1>5, <2>1 DEF Pursues, Finals
<1>9. CASE ExecuteModelReply(r)
  <2>1. UNCHANGED caseVars /\ (bound' = bound \/ bound' = ContentDeleted)
      BY <1>9 DEF ExecuteModelReply, ExecutePassiveReply
  <2> QED
      BY <1>4, <2>1 DEF caseVars
<1>10. CASE DeleteModelContent(r)
  <2>1. UNCHANGED <<case, movedBy>> /\ bound' = ContentDeleted /\ case.status \notin Assisted
      BY <1>10 DEF DeleteModelContent, DeleteArtifacts, Pursues, Finals
  <2> QED
      BY <1>1, <1>3, <2>1, BoundFades, RequestsKept
<1>11. ASSUME NEW m \in PrivateMessages, ReceiveManual(r, m) \/ ReceiveAssist(r, m)
       PROVE  Requests'
  <2>1. UNCHANGED <<case, movedBy, bound>> /\ (artifact' = artifact \/ <<"issue", 0>> \in passed)
      BY <1>11 DEF ReceiveManual, ReceivePrivate, ReceiveAssist, Reading, handlerVars, caseVars
  <2> QED
      BY <1>4, <2>1
<1>12. ASSUME NEW m \in GroupMessages, AssertModelApproval(r, m) PROVE Requests'
    BY <1>4, <1>12 DEF AssertModelApproval, handlerVars, caseVars
<1> QED
    BY <1>6, <1>7, <1>8, <1>9, <1>10, <1>11, <1>12 DEF HandlerStep

LEMMA NotFinals ==
    ASSUME RunnerTypes, NEW r \in Runners, NEW label, NEW regs, Goto(r, label, regs),
           label \notin {"approve", "final", "delete"}, regs.kind # "final" \/ label \notin Telling
    PROVE  ~Finals(r)'
BY GotoGoes DEF Finals

LEMMA RestNotFinals ==
    ASSUME RunnerTypes, NEW r \in Runners, Refused(r) \/ Await(r) \/ Leave(r) \/ Answered(r)
    PROVE  ~Finals(r)'
BY RestGoes DEF Finals, Goes, Telling

(* Only an approved candidate leads to a final reply.                      *)
LEMMA HandlerFinals ==
    ASSUME ModelTypes, NEW r \in Runners, Finals(r) => case.status \notin Assisted,
           HandlerStep(r) \/ \E m \in PrivateMessages : ReceiveAssist(r, m)
    PROVE  Finals(r)' => case'.status \notin Assisted
<1> USE ModelFacts DEF Telling
<1>1. case \in [version : Nat, status : Statuses, candidate : Drafts]
    BY DEF StoreTypes
<1>2. ASSUME NEW label, NEW regs, Goto(r, label, regs), regs.kind = reg[r].kind, UNCHANGED case,
             pc[r] \in Telling, label \in Telling
      PROVE  Finals(r)' => case'.status \notin Assisted
    BY <1>2, GotoGoes DEF Finals
<1>3. \A out, a : /\ [reg[r] EXCEPT !.out = out].kind = reg[r].kind
                  /\ [reg[r] EXCEPT !.out = out, !.accepted = @ \cup a].kind = reg[r].kind
                  /\ [reg[r] EXCEPT !.body = out].kind = reg[r].kind
                  /\ [reg[r] EXCEPT !.key = out].kind = reg[r].kind
    BY DEF Registers
<1>4. ASSUME NEW status, AfterNotice(r, status) PROVE ~Finals(r)'
  <2> DEFINE regs == [reg[r] EXCEPT !.kind = "group-nudge", !.out = "none"]
  <2>1. regs.kind = "group-nudge"
      BY DEF Registers
  <2>2. Await(r) \/ Leave(r) \/ Goto(r, "intent", regs)
      BY <1>4 DEF AfterNotice
  <2> HIDE DEF regs
  <2> QED
      BY <2>1, <2>2, NotFinals, RestNotFinals
<1>5. CASE StartRun(r) \/ CreateIssueArtifact(r) \/ CreateNotificationIntent(r) \/ NotifyC2c(r)
  <2>1. \E label \in {"intake", "notify", "attempt", "noting"} : \E regs : Goto(r, label, regs)
      BY <1>5 DEF StartRun, CreateIssueArtifact, CreateNotificationIntent, NotifyC2c
  <2> QED
      BY <2>1, NotFinals
<1>6. CASE StartAttempt(r) \/ RecordNotification(r)
    BY <1>4, <1>6, NotFinals, RestNotFinals DEF StartAttempt, RecordNotification
<1>7. CASE TransitionSimpleCommand(r) \/ CreateCandidateAndRequest(r)
  <2>1. \/ Refused(r)
        \/ \E kind \in {"pull", "accept", "reject", "draft-preview"} : \E v :
              \/ Goto(r, "respond", [reg[r] EXCEPT !.kind = kind])
              \/ Goto(r, "respond", [reg[r] EXCEPT !.kind = kind, !.body.candidate = v])
      BY <1>7 DEF TransitionSimpleCommand, CreateCandidateAndRequest
  <2>2. \A kind, v : /\ [reg[r] EXCEPT !.kind = kind].kind = kind
                     /\ [reg[r] EXCEPT !.kind = kind, !.body.candidate = v].kind = kind
      BY DEF Registers
  <2>3. ASSUME NEW kind \in {"pull", "accept", "reject", "draft-preview"}, NEW v, NEW regs,
               regs = [reg[r] EXCEPT !.kind = kind]
                 \/ regs = [reg[r] EXCEPT !.kind = kind, !.body.candidate = v],
               Goto(r, "respond", regs)
        PROVE  ~Finals(r)'
    <3>1. regs.kind = kind
        BY <2>2, <2>3
    <3> QED
        BY <2>3, <3>1, NotFinals
  <2> QED
      BY <2>1, <2>3, RestNotFinals
<1>8. CASE Respond(r)
    BY <1>2, <1>3, <1>8, RestNotFinals DEF Respond, Reading
<1>9. CASE RecordCommandOnce(r)
  <2> DEFINE m    == reg[r].msg
             mine == [kind |-> reg[r].kind, body |-> reg[r].body, key |-> reg[r].key]
             kept == IF command[m] = NoCommand THEN mine ELSE command[m]
             regs == [reg[r] EXCEPT !.kind = kept.kind, !.body = kept.body, !.key = kept.key]
  <2>1. pc[r] = "record" /\ (Refused(r) \/ Goto(r, "execute", regs))
      BY <1>9 DEF RecordCommandOnce, Reading
  <2>2. m \in 1..Len(inbox) /\ m \in Messages /\ reg[r].kind \in Private
      BY <2>1, InboxIn DEF InHand
  <2>3. kept.kind \in Private
      BY <2>2 DEF MailTypes
  <2>4. regs.kind = kept.kind
      BY DEF Registers
  <2> HIDE DEF regs, kept
  <2> QED
      BY <2>1, <2>3, <2>4, NotFinals, RestNotFinals DEF Private
<1>10. CASE FinalDeliveryIntent(r)
  <2>1. UNCHANGED case /\ (Finals(r)' => case.status = "APPROVED")
      BY <1>10, RestNotFinals DEF FinalDeliveryIntent, Reading
  <2> QED
      BY <2>1 DEF Assisted
<1>11. CASE CreatePassiveIntent(r)
  <2> DEFINE k == [src |-> reg[r].src, kind |-> reg[r].kind, version |-> case.version]
  <2>1. /\ pc[r] \in Telling /\ UNCHANGED case
        /\ \E label \in Telling : Goto(r, label, [reg[r] EXCEPT !.key = k])
      BY <1>11 DEF CreatePassiveIntent, caseVars
  <2> HIDE DEF k
  <2> QED
      BY <1>2, <1>3, <2>1
<1>12. CASE Send(r)
  <2>1. /\ pc[r] \in Telling /\ UNCHANGED case
        /\ \E out, a : \/ Goto(r, "result", [reg[r] EXCEPT !.out = out])
                       \/ Goto(r, "result", [reg[r] EXCEPT !.out = out, !.accepted = @ \cup a])
      BY <1>12 DEF Send, caseVars
  <2> QED
      BY <1>2, <1>3, <2>1
<1>13. CASE RecordPassiveResult(r)
  <2>1. /\ pc[r] = "result" /\ (Answered(r) \/ reg[r].key.kind = "final")
        /\ case' = case \/ case' = [case EXCEPT !.status = "FINAL_ACCEPTED"]
      BY <1>13 DEF RecordPassiveResult
  <2>2. reg[r].key.kind = "final" => Finals(r)
      BY <2>1 DEF Finals, InHand, Keyed
  <2>3. case'.status = case.status \/ case'.status = "FINAL_ACCEPTED"
      BY <1>1, <2>1
  <2> QED
      BY <2>1, <2>2, <2>3, RestNotFinals DEF Assisted
<1>14. CASE ApproveModelRequest(r)
  <2>1. /\ pc[r] = "approve"
        /\ case' = case \/ case' = [case EXCEPT !.status = "APPROVED"]
      BY <1>14 DEF ApproveModelRequest, ApproveRequest
  <2> QED
      BY <1>1, <2>1 DEF Finals, Assisted
<1>15. CASE ExecuteModelReply(r)
  <2>1. /\ pc[r] \in Telling /\ UNCHANGED case
        /\ \/ Refused(r) \/ Answered(r) \/ Goto(r, "send", reg[r])
           \/ \E out : Goto(r, "result", [reg[r] EXCEPT !.out = out])
      BY <1>15 DEF ExecuteModelReply, ExecutePassiveReply, caseVars
  <2> QED
      BY <1>2, <1>3, <2>1, RestNotFinals
<1>16. CASE DeleteModelContent(r)
    BY <1>16, RestNotFinals DEF DeleteModelContent, DeleteArtifacts
<1>17. ASSUME NEW m \in GroupMessages, AssertModelApproval(r, m)
       PROVE  Finals(r)' => case'.status \notin Assisted
  <2>1. UNCHANGED case /\ (Await(r) \/ case.status = "RESPONSE_READY")
      BY <1>17 DEF AssertModelApproval, ModelApprovalCurrent, handlerVars, caseVars
  <2> QED
      BY <2>1, RestNotFinals DEF Assisted
<1>18. ASSUME NEW m \in PrivateMessages, ReceiveManual(r, m) \/ ReceiveAssist(r, m)
       PROVE  ~Finals(r)'
  <2>1. m \in Messages
      BY MailFacts DEF PrivateMessages
  <2> DEFINE regs  == [reg[r] EXCEPT !.msg = m, !.src = m]
             known == [regs EXCEPT !.kind = command[m].kind, !.key = command[m].key,
                                   !.body = command[m].body]
             mine  == [reg[r] EXCEPT !.msg = m, !.src = m, !.kind = "draft-preview"]
             again == [mine EXCEPT !.key = command[m].key, !.body = command[m].body]
  <2>2. \/ Refused(r) \/ Await(r) \/ Goto(r, "apply", regs) \/ Goto(r, "request", mine)
        \/ command[m] # NoCommand /\ Goto(r, "execute", known)
        \/ Goto(r, "execute", again)
      BY <1>18 DEF ReceiveManual, ReceivePrivate, ReceiveAssist, Reading
  <2>3. known.kind = command[m].kind /\ again.kind = "draft-preview"
      BY DEF Registers
  <2>4. command[m] # NoCommand => command[m].kind # "final"
      BY <2>1 DEF MailTypes, Private
  <2> HIDE DEF known, again, mine, regs
  <2> QED
      BY <2>2, <2>3, <2>4, NotFinals, RestNotFinals
<1> QED
    BY <1>5, <1>6, <1>7, <1>8, <1>9, <1>10, <1>11, <1>12, <1>13, <1>14, <1>15, <1>16, <1>17, <1>18
    DEF HandlerStep, ManualStep, NoticeStep, DraftCandidate

LEMMA PlainPursues ==
    ASSUME NEW r \in Runners, Goes(r, Plain), Finals(r)' => case'.status \notin Assisted
    PROVE  Pursues(r)'
BY DEF Goes, Plain, Pursues, Assisting, Preparing, Running, Looping

-----------------------------------------------------------------------------
(* Requests: the steps of an assist.                                       *)

LEMMA RestPursues ==
    ASSUME RunnerTypes, NEW r \in Runners, Refused(r) \/ Await(r) \/ Leave(r) \/ Answered(r)
    PROVE  Pursues(r)'
<1>1. Goes(r, {"idle", "receive"}) /\ ~Finals(r)'
    BY RestGoes, RestNotFinals
<1> QED
    BY <1>1 DEF Pursues, Goes, Running, Looping

LEMMA ToldPursues ==
    ASSUME RunnerTypes, NEW r \in Runners, NEW label \in Telling, NEW regs, Goto(r, label, regs),
           regs.kind # "final"
    PROVE  Pursues(r)'
<1>1. pc'[r] = label /\ ~Finals(r)'
    BY GotoGoes, NotFinals DEF Telling
<1> QED
    BY <1>1 DEF Pursues, Telling, Running, Looping

LEMMA RunPursues ==
    ASSUME RunnerTypes, NEW r \in Runners, NEW label \in Running, NEW regs, Goto(r, label, regs),
           assist'[regs.msg].version # 0,
           \A v \in Candidates : bound'[v].life = "CURRENT" => bound'[v].assist # regs.msg,
           label \in Looping \cup {"start"} => assist'[regs.msg].context,
           label = "compile" => artifact'[0] = "reachable"
    PROVE  Pursues(r)'
<1>1. pc'[r] = label /\ reg'[r] = regs
    BY GotoGoes
<1> QED
    BY <1>1 DEF Pursues, Finals, Running, Looping, Telling

LEMMA AgentMovesOn ==
    ASSUME NEW r \in Runners, AgentStep(r)
    PROVE  \/ Refused(r)
           \/ \E label \in Running \ {"compile"} : Goto(r, label, reg[r])
                 /\ (label \in Looping \cup {"start"} => pc[r] \in Looping \cup {"start"})
<1> USE DEF Local, Stopping, Running, Looping
<1>1. CASE StartAssist(r) \/ RunTurn(r) \/ AppendIntent(r)
    BY <1>1 DEF StartAssist, RunTurn, RecoverTurn, ReserveTurn, AppendIntent
<1>2. CASE Propose(r) \/ AppendObservation(r) \/ AppendAction(r)
    BY <1>2 DEF Propose, AppendObservation, AppendAction
<1>3. CASE Checkpoint(r) \/ ReadTool(r) \/ Finish(r)
    BY <1>3 DEF Checkpoint, ReadTool, Finish
<1> QED
    BY <1>1, <1>2, <1>3 DEF AgentStep

(* The calls that are made are those of the run.                           *)
LEMMA AgentCalls ==
    ASSUME ModelTypes, NEW r \in Runners, AgentStep(r)
    PROVE  \/ UNCHANGED calls
           \/ /\ pc[r] = "call" /\ agent[r].calls + 1 \in Turns
              /\ \A m \in Messages : Called(m)' =
                    IF m = reg[r].msg THEN Called(m) \cup {agent[r].calls + 1} ELSE Called(m)
<1> USE ModelFacts
<1>1. CASE Propose(r)
  <2> DEFINE k == reg[r].msg
             n == agent[r].calls + 1
  <2>1. pc[r] = "call" /\ n \in Turns /\ k \in Messages
      BY <1>1, HandFacts DEF Propose, InHand, Assisting, Running, Looping
  <2>2. calls' = [calls EXCEPT ![k][n] = @ + 1] /\ calls \in [Messages -> [Turns -> Nat]]
      BY <1>1 DEF Propose, AssistTypes
  <2>3. ASSUME NEW m \in Messages, m # k PROVE Called(m)' = Called(m)
      BY <2>2, <2>3 DEF Called
  <2>4. ASSUME NEW m \in Messages, m = k PROVE Called(m)' = Called(m) \cup {n}
    <3>1. \A i \in Turns : calls'[m][i] = IF i = n THEN calls[m][i] + 1 ELSE calls[m][i]
        BY <2>1, <2>2, <2>4
    <3>2. calls[m][n] \in Nat
        BY <2>1, <2>2, <2>4
    <3>3. \A i \in Turns : calls'[m][i] > 0 <=> calls[m][i] > 0 \/ i = n
        BY <3>1, <3>2
    <3> HIDE DEF k, n
    <3>4. Called(m)' = {i \in Turns : calls[m][i] > 0 \/ i = n}
        BY <3>3 DEF Called
    <3> QED
        BY <2>1, <3>4 DEF Called
  <2>5. \A m \in Messages : Called(m)' = IF m = k THEN Called(m) \cup {n} ELSE Called(m)
      BY <2>3, <2>4
  <2> QED
      BY <2>1, <2>5
<1>2. CASE ~Propose(r)
  <2>1. AgentStep(r) /\ ~Propose(r) => UNCHANGED calls
      BY DEF AgentStep, StartAssist, RunTurn, AppendIntent, AppendObservation, AppendAction,
             Checkpoint, ReadTool, Finish
  <2> QED
      BY <1>2, <2>1
<1> QED
    BY <1>1, <1>2

LEMMA AgentRequests ==
    ASSUME ModelTypes, Requests, NEW r \in Runners, Pursues(r), AgentStep(r)
    PROVE  Requests' /\ Pursues(r)'
<1> USE ModelFacts
<1>1. UNCHANGED <<case, artifact, movedBy, inbox, passed, assist, bound>> /\ pc[r] \in Running
    BY AgentIdle
<1>2. \A m \in Messages : IsAssist(m)' = IsAssist(m)
    BY <1>1 DEF IsAssist
<1>3. \A m \in Messages : Called(m)' # {} => assist[m].context
  <2>1. CASE UNCHANGED calls
      BY <2>1 DEF Called, Requests
  <2>2. CASE ~UNCHANGED calls
      BY <2>2, AgentCalls DEF Requests, Pursues, Looping
  <2> QED
      BY <2>1, <2>2
<1>4. Requests'
    BY <1>1, <1>2, <1>3 DEF Requests
<1>5. CASE Refused(r)
    BY <1>4, <1>5, RestPursues
<1>6. ASSUME NEW label \in Running \ {"compile"}, Goto(r, label, reg[r]),
             label \in Looping \cup {"start"} => pc[r] \in Looping \cup {"start"}
      PROVE  Pursues(r)'
    BY <1>1, <1>6, RunPursues DEF Pursues
<1> QED
    BY <1>4, <1>5, <1>6, AgentMovesOn

LEMMA CreateAssistRequestRequests ==
    ASSUME ModelTypes, Requests, NEW r \in Runners, CreateAssistRequest(r)
    PROVE  Requests' /\ Pursues(r)'
<1> USE ModelFacts
<1> DEFINE m == reg[r].msg
<1>1. /\ pc[r] \in Assisting
      /\ UNCHANGED <<artifact, movedBy, inbox, passed, bound, calls>>
    BY DEF CreateAssistRequest, envVars, Assisting, Preparing
<1>2. m \in Messages /\ IsAssist(m) /\ m \in 1..Len(inbox) /\ InboxKept
    BY <1>1, HandFacts DEF IsAssist, InboxKept, StoreTypes
<1>3. ASSUME UNCHANGED <<case, assist>> PROVE Requests'
    BY <1>1, <1>2, <1>3, RequestsKept
<1>4. CASE Refused(r) /\ UNCHANGED <<case, assist>>
    BY <1>3, <1>4, RestPursues
<1>5. CASE assist[m] # NoAssist /\ Goto(r, "resume", reg[r]) /\ UNCHANGED <<case, assist>>
  <2>1. assist[m].version # 0
      BY <1>2, <1>5 DEF Requests
  <2>2. pc'[r] = "resume" /\ reg'[r] = reg[r]
      BY <1>5, GotoGoes
  <2>3. Pursues(r)'
      BY <1>5, <2>1, <2>2 DEF Pursues, Finals, Running, Looping, Telling
  <2> QED
      BY <1>3, <1>5, <2>3
<1>6. CASE /\ assist[m] = NoAssist /\ Authorized(inbox[m].version) /\ case.status = "ACCEPTED"
           /\ assist' = [assist EXCEPT ![m].version = inbox[m].version]
           /\ case' = [case EXCEPT !.status = "ASSIST_REQUESTED"]
           /\ Goto(r, "context", reg[r])
  <2>1. inbox[m].version >= 1 /\ inbox[m].version = case.version /\ case.version \in Nat
      BY <1>2, <1>6 DEF MailTypes, IsAssist, Authorized, StoreTypes
  <2>2. /\ assist'[m].version = case.version /\ ~assist'[m].context
        /\ \A k \in Messages : k # m => assist'[k] = assist[k]
        /\ assist[m].version = 0 /\ ~assist[m].context
    <3>1. assist \in [Messages -> [version : Nat, context : BOOLEAN, outcome : Outcomes]]
        BY DEF AssistTypes
    <3> QED
        BY <1>2, <1>6, <2>1, <3>1 DEF NoAssist
  <2>3. case'.version = case.version /\ case'.candidate = case.candidate /\ case'.status \in Assisted
      BY <1>6 DEF StoreTypes, Assisted
  <2>4. \A v \in Candidates : bound[v].life = "CURRENT" =>
          v = case.candidate /\ bound[v].assist # 0 /\ bound[v].assist # m
      BY <2>2 DEF Requests
  <2>5. \A k \in Messages : IsAssist(k)' = IsAssist(k) /\ Called(k)' = Called(k)
      BY <1>1 DEF IsAssist, Called
  <2>6. ASSUME NEW k \in Messages
        PROVE  /\ assist'[k] # NoAssist =>
                    IsAssist(k) /\ 1 <= assist'[k].version /\ assist'[k].version <= case.version
               /\ assist'[k].version = case.version /\ assist'[k].context /\ assist'[k].outcome = "none"
                    /\ <<"issue", 0>> \notin passed => artifact[0] = "reachable"
               /\ Called(k) # {} => assist'[k].context
    <3>1. CASE k = m
        BY <1>2, <2>1, <2>2, <3>1 DEF Requests
    <3>2. CASE k # m
        BY <2>2, <3>2 DEF Requests
    <3> QED
        BY <3>1, <3>2
  <2>7. ASSUME NEW v \in Candidates
        PROVE  /\ case'.version < v => movedBy'[v] = 0
               /\ bound'[v].life = "CURRENT" => v = case'.candidate /\ bound'[v].assist # 0
               /\ bound'[v].assist # 0 => assist'[bound'[v].assist].version # 0
    <3>1. bound[v].assist # 0 => bound[v].assist \in Messages
        BY DEF AssistTypes, Sources
    <3> QED
        BY <1>1, <2>2, <2>3, <2>4, <3>1 DEF Requests
  <2>8. Requests'
      BY <1>1, <2>3, <2>5, <2>6, <2>7 DEF Requests
  <2>9. Pursues(r)'
    <3>1. assist'[m].version # 0
        BY <2>1, <2>2
    <3> QED
        BY <1>1, <1>6, <2>4, <3>1, RunPursues DEF Running, Looping
  <2> QED
      BY <2>8, <2>9
<1> QED
    BY <1>4, <1>5, <1>6 DEF CreateAssistRequest

LEMMA RecoverPersistedAssistRequests ==
    ASSUME ModelTypes, Requests, NEW r \in Runners, Pursues(r), RecoverPersistedAssist(r)
    PROVE  Requests' /\ Pursues(r)'
<1> USE ModelFacts
<1> DEFINE m    == reg[r].msg
           v    == CandidateOf(m)
           body == [NoBody EXCEPT !.version = case.version, !.candidate = v]
           regs == [reg[r] EXCEPT !.body = body]
<1>1. /\ pc[r] = "resume" /\ pc[r] \in Assisting
      /\ UNCHANGED <<case, movedBy, inbox, passed, assist, bound, calls>>
      /\ artifact' = artifact \/ <<"issue", 0>> \in passed
    BY DEF RecoverPersistedAssist, Reading, envVars, assistVars, Assisting, Preparing
<1>2. Requests'
  <2>1. InboxKept
      BY <1>1 DEF InboxKept, StoreTypes
  <2> QED
      BY <1>1, <2>1, RequestsKept
<1>3. \/ Refused(r) \/ (v = 0 /\ Goto(r, "context", reg[r])) \/ Goto(r, "intent", regs)
    BY DEF RecoverPersistedAssist, Reading
<1>4. CASE v = 0 /\ Goto(r, "context", reg[r])
  <2>1. ASSUME NEW u \in Candidates, bound[u].life = "CURRENT" PROVE bound[u].assist # m
    <3>1. u = case.candidate
        BY <2>1 DEF Requests
    <3>2. CurrentBinding # 0
      <4>1. CASE 0 \in Candidates
          BY <4>1, HandlerAssumption DEF Candidates
      <4>2. {w \in Candidates : bound[w].life = "CURRENT"} = {u}
          BY <2>1, <3>1 DEF Requests
      <4>3. CurrentBinding = CHOOSE w \in {u} : \A x \in {u} : x <= w
          BY <4>2 DEF CurrentBinding
      <4>4. u <= u
          BY <2>1, HandlerAssumption DEF Candidates
      <4>5. CurrentBinding = u
          BY <4>3, <4>4
      <4> QED
          BY <2>1, <4>5, HandlerAssumption DEF Candidates
    <3>3. CurrentBinding = u
        BY <3>1, <3>2, CurrentIsLive DEF Requests
    <3> QED
        BY <1>4, <2>1, <3>2, <3>3 DEF CandidateOf
  <2>2. assist[m].version # 0
      BY <1>1 DEF Pursues
  <2> QED
      BY <1>1, <1>2, <1>4, <2>1, <2>2, RunPursues DEF Running, Looping
<1>5. CASE Goto(r, "intent", regs)
  <2>1. regs.kind = "draft-preview"
      BY <1>1, HandFacts DEF Registers
  <2> HIDE DEF regs
  <2> QED
      BY <1>2, <1>5, <2>1, ToldPursues DEF Telling
<1> QED
    BY <1>2, <1>3, <1>4, <1>5, RestPursues

LEMMA CompileContextRequests ==
    ASSUME ModelTypes, Requests, NEW r \in Runners, Pursues(r), CompileContext(r)
    PROVE  Requests' /\ Pursues(r)'
<1> USE ModelFacts
<1> DEFINE m == reg[r].msg
<1>1. /\ pc[r] = "context" /\ pc[r] \in Running /\ pc[r] \in Assisting
      /\ UNCHANGED <<case, movedBy, inbox, passed, bound, assist, calls>>
      /\ \/ Goto(r, "stop", reg[r]) /\ (artifact' = artifact \/ <<"issue", 0>> \in passed)
         \/ Goto(r, "start", reg[r]) /\ assist[m].context /\ UNCHANGED artifact
         \/ Goto(r, "compile", reg[r]) /\ artifact[0] = "reachable" /\ UNCHANGED artifact
    BY DEF CompileContext, envVars, assistVars, Assisting, Running
<1>2. InboxKept
    BY <1>1 DEF InboxKept, StoreTypes
<1>3. assist[m].version # 0 /\ \A v \in Candidates : bound'[v].life = "CURRENT" => bound'[v].assist # m
    BY <1>1 DEF Pursues
<1>4. Requests'
    BY <1>1, <1>2, RequestsKept
<1> QED
    BY <1>1, <1>3, <1>4, RunPursues DEF Running, Looping

LEMMA RecordContextRequests ==
    ASSUME ModelTypes, Requests, NEW r \in Runners, Pursues(r), RecordContext(r)
    PROVE  Requests' /\ Pursues(r)'
<1> USE ModelFacts
<1> DEFINE m == reg[r].msg
<1>1. /\ pc[r] = "compile" /\ pc[r] \in Running /\ pc[r] \in Assisting
      /\ UNCHANGED <<artifact, movedBy, inbox, passed, bound, calls>>
      /\ assist' = [assist EXCEPT ![m].context = TRUE]
      /\ case' = [case EXCEPT !.status = "INVESTIGATING"]
      /\ Goto(r, "start", reg[r])
    BY DEF RecordContext, envVars, Assisting, Running
<1>2. m \in Messages /\ IsAssist(m)
    BY <1>1, HandFacts
<1>3. /\ assist[m].version # 0
      /\ artifact[0] = "reachable" \/ <<"issue", 0>> \in passed
      /\ \A v \in Candidates : bound'[v].life = "CURRENT" => bound'[v].assist # m
    BY <1>1 DEF Pursues
<1>4. assist \in [Messages -> [version : Nat, context : BOOLEAN, outcome : Outcomes]]
      /\ case \in [version : Nat, status : Statuses, candidate : Drafts]
    BY DEF AssistTypes, StoreTypes
<1>5. /\ assist'[m].version = assist[m].version /\ assist'[m].context
      /\ assist'[m].outcome = assist[m].outcome
      /\ \A k \in Messages : k # m => assist'[k] = assist[k]
    BY <1>1, <1>2, <1>4
<1>6. /\ case'.version = case.version /\ case'.candidate = case.candidate
      /\ case'.status \in Assisted
    BY <1>1, <1>4 DEF Assisted
<1>7. \A k \in Messages : IsAssist(k)' = IsAssist(k) /\ Called(k)' = Called(k)
    BY <1>1 DEF IsAssist, Called
<1>8. ASSUME NEW k \in Messages
      PROVE  /\ assist'[k] # NoAssist =>
                  IsAssist(k) /\ 1 <= assist'[k].version /\ assist'[k].version <= case'.version
             /\ assist'[k].version = case'.version /\ assist'[k].context
                  /\ assist'[k].outcome = "none" /\ <<"issue", 0>> \notin passed
                  => artifact[0] = "reachable"
             /\ Called(k) # {} => assist'[k].context
  <2>1. assist[m] # NoAssist
      BY <1>3 DEF NoAssist
  <2>2. CASE k = m
      BY <1>2, <1>3, <1>5, <1>6, <2>1, <2>2 DEF Requests
  <2>3. CASE k # m
      BY <1>5, <1>6, <2>3 DEF Requests
  <2> QED
      BY <2>2, <2>3
<1>9. ASSUME NEW v \in Candidates
      PROVE  /\ case'.version < v => movedBy'[v] = 0
             /\ bound'[v].life = "CURRENT" => v = case'.candidate /\ bound'[v].assist # 0
             /\ bound'[v].assist # 0 => assist'[bound'[v].assist].version # 0
  <2>1. bound[v].assist # 0 => bound[v].assist \in Messages
      BY DEF AssistTypes, Sources
  <2> QED
      BY <1>1, <1>5, <1>6, <2>1 DEF Requests
<1>10. Requests'
    BY <1>1, <1>6, <1>7, <1>8, <1>9 DEF Requests
<1> QED
    BY <1>1, <1>3, <1>5, <1>10, RunPursues DEF Running, Looping

LEMMA CreateModelCandidateRequests ==
    ASSUME ModelTypes, Requests, NEW r \in Runners, Pursues(r), CreateModelCandidate(r)
    PROVE  Requests' /\ Pursues(r)'
<1> USE ModelFacts
<1> DEFINE m    == reg[r].msg
           v    == case.version + 1
           used == Usage(m, 2 * agent[r].calls + 2, agent[r])
           regs == [reg[r] EXCEPT !.body.candidate = v]
<1>1. /\ pc[r] = "candidate" /\ pc[r] \in Running /\ pc[r] \in Assisting
      /\ UNCHANGED <<inbox, passed, assist, calls>>
    BY DEF CreateModelCandidate, envVars, assistVars, Assisting, Running
<1>2. m \in Messages /\ m # 0 /\ InboxKept /\ assist[m].version # 0 /\ case.version >= 1
    BY <1>1, HandFacts DEF InboxKept, StoreTypes, Pursues, Messages
<1>3. CASE Refused(r) /\ UNCHANGED <<case, artifact, movedBy, bound>>
  <2>1. Requests'
      BY <1>1, <1>2, <1>3, RequestsKept
  <2> QED
      BY <1>3, <2>1, RestPursues
<1>4. CASE /\ case.version < MaxVersion
           /\ case' = [version |-> v, status |-> "RESPONSE_READY", candidate |-> v]
           /\ movedBy' = [movedBy EXCEPT ![v] = m]
           /\ bound' = [Replaced EXCEPT ![v] = [assist |-> m, budget |-> used, life |-> "CURRENT"]]
           /\ Goto(r, "respond", regs)
  <2>1. case.version \in Nat /\ v \in Candidates
      BY <1>2, <1>4, HandlerAssumption DEF StoreTypes, Candidates
  <2>2. Replaced \in [Candidates -> [assist : Sources, budget : Used, life : Lives]]
      BY ReplacedType
  <2>3. ASSUME NEW u \in Candidates
        PROVE  /\ bound'[u].life = "CURRENT" => u = case'.candidate /\ bound'[u].assist # 0
               /\ \/ bound'[u].assist = bound[u].assist
                  \/ bound'[u].assist \in Messages /\ assist[bound'[u].assist].version # 0
    <3>1. CASE u = v
        BY <1>2, <1>4, <2>1, <2>2, <3>1
    <3>2. CASE u # v
      <4>1. bound'[u] = Replaced[u]
          BY <1>4, <2>2, <3>2
      <4> QED
          BY <4>1, NoneCurrent, BoundKeeps
    <3> QED
        BY <3>1, <3>2
  <2>4. Requests'
      BY <1>1, <1>4, <2>3, RequestsMoved
  <2>5. regs.kind = "draft-preview"
      BY <1>1, HandFacts DEF Registers
  <2> HIDE DEF regs
  <2> QED
      BY <1>4, <2>4, <2>5, ToldPursues DEF Telling
<1> QED
    BY <1>3, <1>4 DEF CreateModelCandidate

LEMMA CreateStoppedOutcomeRequests ==
    ASSUME ModelTypes, Requests, NEW r \in Runners, Pursues(r), CreateStoppedOutcome(r)
    PROVE  Requests' /\ Pursues(r)'
<1> USE ModelFacts
<1> DEFINE m == reg[r].msg
           v == case.version + 1
<1>1. /\ pc[r] = "outcome" /\ pc[r] \in Running /\ pc[r] \in Assisting
      /\ UNCHANGED <<inbox, passed, bound, calls, artifact>> /\ Goto(r, "respond", reg[r])
    BY DEF CreateStoppedOutcome, envVars, Assisting, Running
<1>2. m \in Messages /\ InboxKept /\ assist[m].version # 0 /\ reg[r].kind = "draft-preview"
    BY <1>1, HandFacts DEF InboxKept, StoreTypes, Pursues
<1>3. Pursues(r)'
    BY <1>1, <1>2, ToldPursues DEF Telling
<1>4. CASE UNCHANGED <<assist, case, movedBy>>
    BY <1>1, <1>2, <1>3, <1>4, RequestsKept
<1>5. CASE /\ assist' = [assist EXCEPT ![m].outcome = "stopped"]
           /\ case' = [case EXCEPT !.version = v, !.status = "ACCEPTED"]
           /\ movedBy' = [movedBy EXCEPT ![v] = m]
  <2>1. \A k \in Messages :
          /\ assist'[k].version = assist[k].version /\ assist'[k].context = assist[k].context
          /\ assist'[k] = assist[k] \/ assist[k].version # 0
    <3>1. assist \in [Messages -> [version : Nat, context : BOOLEAN, outcome : Outcomes]]
        BY DEF AssistTypes
    <3> QED
        BY <1>2, <1>5, <3>1
  <2>2. case'.version = v /\ case'.candidate = case.candidate
      BY <1>5 DEF StoreTypes
  <2>3. \A u \in Candidates :
          /\ bound'[u].life = "CURRENT" => u = case'.candidate /\ bound'[u].assist # 0
          /\ bound'[u].assist = bound[u].assist
      BY <1>1, <2>2 DEF Requests
  <2>4. Requests'
      BY <1>1, <1>5, <2>1, <2>2, <2>3, RequestsMoved
  <2> QED
      BY <1>3, <2>4
<1> QED
    BY <1>4, <1>5 DEF CreateStoppedOutcome

LEMMA CreateReadyOutcomeRequests ==
    ASSUME ModelTypes, Requests, NEW r \in Runners, Pursues(r), Tells(r), CreateReadyOutcome(r)
    PROVE  Requests' /\ Pursues(r)'
<1> USE ModelFacts
<1> DEFINE m == reg[r].msg
<1>1. /\ pc[r] = "record" /\ pc' = pc /\ reg' = reg
      /\ UNCHANGED <<case, artifact, movedBy, inbox, passed, bound, calls>>
    BY DEF CreateReadyOutcome, handlerVars, caseVars, envVars
<1>2. /\ m \in Messages /\ IsAssist(m) /\ reg[r].src = m /\ reg[r].kind = "draft-preview"
      /\ assist[m].outcome = "none"
    BY <1>1, InboxIn DEF InHand, CreateReadyOutcome, Unsettled, IsAssist, Telling
<1>3. assist[m].version # 0
  <2>1. Told(m, reg[r].body)
      BY <1>1, <1>2 DEF Tells, Telling
  <2>2. reg[r].body.candidate # 0 /\ bound[reg[r].body.candidate].assist = m
      BY <1>2, <2>1 DEF Told
  <2>3. reg[r].body.candidate \in Candidates
      BY <2>2 DEF Registers, Bodies, Drafts
  <2>4. m # 0
      BY <1>2 DEF Messages
  <2> QED
      BY <2>2, <2>3, <2>4 DEF Requests
<1>4. assist \in [Messages -> [version : Nat, context : BOOLEAN, outcome : Outcomes]]
      /\ assist' = [assist EXCEPT ![m].outcome = "response_ready"]
    BY DEF AssistTypes, CreateReadyOutcome
<1>5. \A k \in Messages :
        /\ assist'[k].version = assist[k].version /\ assist'[k].context = assist[k].context
        /\ assist'[k].outcome = "none" => assist[k].outcome = "none"
        /\ assist'[k] # NoAssist => assist[k] # NoAssist
  <2>1. assist[m] # NoAssist
      BY <1>3 DEF NoAssist
  <2>2. \A k \in Messages : k # m => assist'[k] = assist[k]
      BY <1>4
  <2>3. /\ assist'[m].version = assist[m].version /\ assist'[m].context = assist[m].context
        /\ assist'[m].outcome = "response_ready"
      BY <1>2, <1>4
  <2> QED
      BY <2>1, <2>2, <2>3
<1>6. \A k \in Messages : IsAssist(k)' = IsAssist(k) /\ Called(k)' = Called(k)
    BY <1>1 DEF IsAssist, Called
<1>7. \A v \in Candidates : bound[v].assist # 0 => bound[v].assist \in Messages
    BY DEF AssistTypes, Sources
<1>8. Requests'
    BY <1>1, <1>5, <1>6, <1>7 DEF Requests
<1>9. Pursues(r)'
    BY <1>1, <1>5, <1>2 DEF Pursues, Finals, Running, Looping, Telling
<1> QED
    BY <1>8, <1>9

LEMMA CrashRequests ==
    ASSUME ModelTypes, Requests, NEW r \in Runners, ModelCrash(r)
    PROVE  Requests' /\ Pursues(r)'
<1>1. /\ UNCHANGED <<case, artifact, movedBy, inbox, passed, assist, bound, calls>> /\ Leave(r)
    BY DEF ModelCrash, Crash, caseVars, assistVars
<1>2. InboxKept
    BY <1>1, ModelFacts DEF InboxKept, StoreTypes
<1> QED
    BY <1>1, <1>2, ModelFacts, RequestsKept, RestPursues

LEMMA EnvironmentRequests ==
    ASSUME ModelTypes, ModelTypes', RequestInv,
           (Environment /\ UNCHANGED <<assistVars, bound, agent>>) \/ UNCHANGED modelVars
    PROVE  RequestInv'
<1> USE DEF ModelTypes, StoreInv
<1>1. UNCHANGED <<case, artifact, movedBy, pc, reg, assist, calls, bound>>
    BY EnvironmentIdle DEF modelVars, vars, caseVars, replyVars, assistVars
<1>2. InboxKept /\ passed \subseteq passed'
  <2>1. UNCHANGED inbox \/ \E x : inbox' = Append(inbox, x)
      BY DEF Environment, PostPrivate, PostApproval, Post, RevokeHandlerBinding, Pass, modelVars,
             vars, envVars
  <2>2. InboxKept
      BY <2>1 DEF InboxKept, StoreTypes
  <2>3. passed \subseteq passed'
      BY DEF Environment, PostPrivate, PostApproval, Post, RevokeHandlerBinding, Pass, modelVars,
             vars, envVars
  <2> QED
      BY <2>2, <2>3
<1>3. Requests'
    BY <1>1, <1>2, RequestsKept DEF RequestInv
<1>4. \A q \in Runners : Pursues(q) => Pursues(q)'
    BY <1>1, <1>2 DEF Pursues, Finals
<1> QED
    BY <1>3, <1>4 DEF RequestInv

LEMMA RequestNext ==
    ASSUME Solo
    PROVE  ModelTypes /\ ModelTypes' /\ TellInv /\ RequestInv /\ [ModelNext]_modelVars => RequestInv'
<1> SUFFICES ASSUME ModelTypes, ModelTypes', TellInv, RequestInv, [ModelNext]_modelVars
             PROVE  RequestInv'
    OBVIOUS
<1>1. Requests /\ \A q \in Runners : Pursues(q) /\ Tells(q)
    BY DEF RequestInv, TellInv
<1>2. ASSUME NEW r \in Runners, Requests', Pursues(r)' PROVE RequestInv'
    BY <1>2 DEF Solo, RequestInv
<1>3. ASSUME NEW r \in Runners, AssistStep(r) PROVE RequestInv'
  <2>1. Requests' /\ Pursues(r)'
      BY <1>1, <1>3, AgentRequests, CreateAssistRequestRequests, RecoverPersistedAssistRequests,
         CompileContextRequests, RecordContextRequests, CreateModelCandidateRequests,
         CreateStoppedOutcomeRequests,
         CreateReadyOutcomeRequests DEF AssistStep
  <2> QED
      BY <1>2, <2>1
<1>4. ASSUME NEW r \in Runners, HandlerStep(r) PROVE RequestInv'
  <2>1. Requests' /\ (Finals(r)' => case'.status \notin Assisted)
      BY <1>1, <1>4, HandlerRequests, HandlerFinals DEF Pursues
  <2>2. Pursues(r)'
      BY <1>4, <2>1, HandlerGoes, PlainPursues, ModelFacts
  <2> QED
      BY <1>2, <2>1, <2>2
<1>5. ASSUME NEW r \in Runners, NEW m \in PrivateMessages, ReceiveAssist(r, m) PROVE RequestInv'
  <2>1. Requests' /\ (Finals(r)' => case'.status \notin Assisted)
      BY <1>1, <1>5, HandlerRequests, HandlerFinals DEF Pursues
  <2>2. pc'[r] \in {"idle", "receive", "execute", "request"}
      BY <1>5, ReceiveAssistGoes, ModelFacts DEF Goes
  <2>3. Pursues(r)'
      BY <2>1, <2>2 DEF Pursues, Running, Looping
  <2> QED
      BY <1>2, <2>1, <2>3
<1>6. ASSUME NEW r \in Runners, ModelCrash(r) PROVE RequestInv'
    BY <1>1, <1>2, <1>6, CrashRequests
<1>7. CASE (Environment /\ UNCHANGED <<assistVars, bound, agent>>) \/ UNCHANGED modelVars
    BY <1>7, EnvironmentRequests
<1> QED
    BY <1>3, <1>4, <1>5, <1>6, <1>7 DEF ModelNext, HandlerStep

LEMMA RequestInit == ModelInit => RequestInv
BY DEF ModelInit, Init, RequestInv, Requests, Pursues, Finals, Called, NoAssist, NotBound, NoCase,
       Running, Looping, Telling, Messages, Candidates, Turns

-----------------------------------------------------------------------------
(* Rows: what the snapshots say.                                           *)

(* The usage to start from and the latest one, of any list of snapshots.   *)
PriorIn(b, m) ==
    IF Others(b, m) = {} THEN 0
    ELSE b[CHOOSE i \in Others(b, m) : \A j \in Others(b, m) : j <= i].calls

RowsFor(b, m) == {i \in DOMAIN b : b[i].assist = m /\ LatestIn(b, i)}

LatestFor(b, m) == IF RowsFor(b, m) = {} THEN NoBudget ELSE b[CHOOSE i \in RowsFor(b, m) : TRUE]

LEMMA RowTypes ==
    ASSUME NEW b \in Seq(Used), NEW i \in DOMAIN b
    PROVE  b[i] \in Used /\ b[i].assist \in Sources /\ b[i].seq \in Nat /\ b[i].calls \in Nat
<1>1. b[i] \in Used
    OBVIOUS
<1> QED
    BY <1>1 DEF Used

LEMMA UsageIn ==
    ASSUME NEW m
    PROVE  /\ PriorUsage(m).calls = PriorIn(budgets, m)
           /\ LatestBudget(m) = LatestFor(budgets, m)
           /\ PriorUsage(m)'.calls = PriorIn(budgets', m)
           /\ LatestBudget(m)' = LatestFor(budgets', m)
<1>1. PriorUsage(m).calls = PriorIn(budgets, m) /\ PriorUsage(m)'.calls = PriorIn(budgets', m)
    BY DEF PriorUsage, PriorIn, Others, IsLatest, LatestIn, NoBudget
<1>2. LatestBudget(m) = LatestFor(budgets, m) /\ LatestBudget(m)' = LatestFor(budgets', m)
    BY DEF LatestBudget, LatestFor, RowsFor, IsLatest, LatestIn
<1> QED
    BY <1>1, <1>2

LEMMA PriorIsMost ==
    ASSUME NEW b \in Seq(Used), RowsOf(b), NEW m
    PROVE  MostOf(b, m, PriorIn(b, m))
<1>1. CASE Others(b, m) = {}
    BY <1>1 DEF PriorIn, MostOf
<1>2. CASE Others(b, m) # {}
  <2> DEFINE S == Others(b, m)
  <2>1. S \subseteq 0..Len(b) /\ S \subseteq DOMAIN b
      BY DEF Others
  <2>2. PICK i \in S : \A j \in S : j <= i
      BY <1>2, <2>1, HasGreatest
  <2>3. DEFINE t == CHOOSE k \in S : \A j \in S : j <= k
  <2>4. t \in S /\ \A j \in S : j <= t
      BY <2>2
  <2>5. PriorIn(b, m) = b[t].calls
      BY <1>2 DEF PriorIn
  <2> HIDE DEF t
  <2>6. t \in DOMAIN b /\ b[t].calls \in Nat /\ LatestIn(b, t)
      BY <2>1, <2>4, RowTypes DEF Others
  <2>7. ASSUME NEW j \in S PROVE b[j].calls <= b[t].calls
    <3>1. j \in DOMAIN b /\ LatestIn(b, j) /\ j <= t
        BY <2>1, <2>4 DEF Others
    <3>2. CASE j = t
        BY <2>6, <3>2
    <3>3. CASE j < t
        BY <2>6, <3>1, <3>3 DEF RowsOf
    <3> QED
        BY <2>1, <2>6, <3>1, <3>2, <3>3
  <2> QED
      BY <2>4, <2>5, <2>6, <2>7 DEF MostOf
<1> QED
    BY <1>1, <1>2

LEMMA LatestIs ==
    ASSUME NEW b \in Seq(Used), RowsOf(b), NEW i \in DOMAIN b, LatestIn(b, i)
    PROVE  LatestFor(b, b[i].assist) = b[i]
<1> DEFINE S == RowsFor(b, b[i].assist)
<1>1. i \in S
    BY DEF RowsFor
<1>2. ASSUME NEW j \in S PROVE j = i
  <2>1. j \in DOMAIN b /\ b[j].assist = b[i].assist /\ LatestIn(b, j)
      BY DEF RowsFor
  <2>2. b[j].seq = b[i].seq
    <3>1. b[j].seq \in Nat /\ b[i].seq \in Nat
        BY <2>1, RowTypes
    <3> QED
        BY <2>1, <3>1 DEF LatestIn
  <2> QED
      BY <2>1, <2>2 DEF RowsOf
<1>3. S = {i}
    BY <1>1, <1>2
<1> QED
    BY <1>3 DEF LatestFor

LEMMA HasLatest ==
    ASSUME NEW b \in Seq(Used), RowsOf(b), NEW m
    PROVE  /\ \/ LatestFor(b, m) = NoBudget /\ \A i \in DOMAIN b : b[i].assist # m
              \/ \E i \in DOMAIN b : b[i].assist = m /\ LatestIn(b, i) /\ LatestFor(b, m) = b[i]
           /\ LatestFor(b, m).calls \in Nat
<1>1. CASE \E i \in DOMAIN b : b[i].assist = m
  <2>1. PICK i \in DOMAIN b : b[i].assist = m /\ LatestIn(b, i)
      BY <1>1 DEF RowsOf
  <2>2. LatestFor(b, m) = b[i] /\ b[i].calls \in Nat
      BY <2>1, LatestIs, RowTypes
  <2> QED
      BY <2>1, <2>2
<1>2. CASE \A i \in DOMAIN b : b[i].assist # m
  <2>1. RowsFor(b, m) = {}
      BY <1>2 DEF RowsFor
  <2> QED
      BY <1>2, <2>1 DEF LatestFor, NoBudget
<1> QED
    BY <1>1, <1>2

(* What a snapshot changes: nothing is counted less, and the assist itself *)
(* has the same to start from.                                             *)
Grown(b, c, m) ==
    /\ RowsOf(c)
    /\ \A k : PriorIn(b, k) <= PriorIn(c, k) /\ LatestFor(b, k).calls <= LatestFor(c, k).calls
    /\ PriorIn(c, m) = PriorIn(b, m)

LEMMA NotGrown ==
    ASSUME NEW b \in Seq(Used), RowsOf(b), NEW m
    PROVE  Grown(b, b, m)
<1>1. \A k : PriorIn(b, k) \in Nat
    BY PriorIsMost DEF MostOf
<1>2. \A k : LatestFor(b, k).calls \in Nat
    BY HasLatest
<1> QED
    BY <1>1, <1>2 DEF Grown

LEMMA AppendGrows ==
    ASSUME NEW b \in Seq(Used), RowsOf(b), NEW x \in Used,
           \A i \in DOMAIN b : ~(b[i].assist = x.assist /\ b[i].seq = x.seq),
           PriorIn(b, x.assist) <= x.calls, x.seq = 0 => x.calls = PriorIn(b, x.assist),
           x.seq # 0 => 2 * x.calls <= x.seq /\ x.seq <= 2 * x.calls + 2
    PROVE  Grown(b, Append(b, x), x.assist)
<1> DEFINE c == Append(b, x)
           p == PriorIn(b, x.assist)
<1>1. MostOf(b, x.assist, p)
    BY PriorIsMost
<1>2. p <= x.calls /\ (x.seq = 0 => x.calls = p)
    OBVIOUS
<1>3. c \in Seq(Used) /\ DOMAIN b \subseteq DOMAIN c /\ \A i \in DOMAIN b : c[i] = b[i]
    OBVIOUS
<1>4. c = Append(b, x)
    OBVIOUS
<1> HIDE DEF c, p
<1>5. /\ RowsOf(c)
      /\ \A k, q1, q2 : MostOf(b, k, q1) /\ MostOf(c, k, q2) =>
            q1 <= q2 /\ (k = x.assist => q1 = q2)
      /\ \A i \in DOMAIN b, j \in DOMAIN c :
            b[i].assist = c[j].assist /\ LatestIn(b, i) /\ LatestIn(c, j) => b[i].calls <= c[j].calls
      /\ \A j \in DOMAIN c : c[j].assist = x.assist /\ LatestIn(c, j) => x.seq <= c[j].seq
  <2>1. Appended(b, c, x)
      BY <1>1, <1>2, <1>4, AppendRow, Zenon
  <2> QED
      BY <2>1 DEF Appended
<1>6. ASSUME NEW k
      PROVE  PriorIn(b, k) <= PriorIn(c, k) /\ (k = x.assist => PriorIn(c, k) = PriorIn(b, k))
  <2>1. MostOf(b, k, PriorIn(b, k)) /\ MostOf(c, k, PriorIn(c, k))
      BY <1>3, <1>5, PriorIsMost
  <2> QED
      BY <1>5, <2>1
<1>7. ASSUME NEW k PROVE LatestFor(b, k).calls <= LatestFor(c, k).calls
  <2>1. LatestFor(c, k).calls \in Nat
      BY <1>3, <1>5, HasLatest
  <2>2. CASE LatestFor(b, k) = NoBudget
      BY <2>1, <2>2 DEF NoBudget
  <2>3. ASSUME NEW i \in DOMAIN b, b[i].assist = k, LatestIn(b, i), LatestFor(b, k) = b[i]
        PROVE  LatestFor(b, k).calls <= LatestFor(c, k).calls
    <3>1. i \in DOMAIN c /\ c[i].assist = k
        BY <1>3, <2>3
    <3>2. PICK j \in DOMAIN c : c[j].assist = k /\ LatestIn(c, j) /\ LatestFor(c, k) = c[j]
      <4>1. RowsOf(c) /\ c \in Seq(Used)
          BY <1>3, <1>5
      <4>2. \/ \A j \in DOMAIN c : c[j].assist # k
            \/ \E j \in DOMAIN c : c[j].assist = k /\ LatestIn(c, j) /\ LatestFor(c, k) = c[j]
          BY <4>1, HasLatest
      <4> QED
          BY <3>1, <4>2
    <3> QED
        BY <1>5, <2>3, <3>2
  <2> QED
      BY <2>2, <2>3, HasLatest
<1> QED
    BY <1>4, <1>5, <1>6, <1>7 DEF Grown

LEMMA SnapshotGrows ==
    ASSUME AssistTypes, AssistTypes', Rows, NEW m \in Messages, NEW seq \in Nat, NEW used,
           used.calls \in Nat, used.tools \in Nat, Snapshot(m, seq, used),
           PriorIn(budgets, m) <= used.calls, seq = 0 => used.calls = PriorIn(budgets, m),
           seq # 0 => 2 * used.calls <= seq /\ seq <= 2 * used.calls + 2
    PROVE  Grown(budgets, budgets', m)
<1>1. budgets \in Seq(Used)
    BY DEF AssistTypes
<1>2. CASE budgets' = budgets
    BY <1>1, <1>2, NotGrown DEF Rows
<1>3. CASE /\ \A i \in DOMAIN budgets : ~(budgets[i].assist = m /\ budgets[i].seq = seq)
           /\ budgets' = Append(budgets, Usage(m, seq, used))
  <2> DEFINE x == Usage(m, seq, used)
  <2>1. x \in Used /\ x.assist = m /\ x.seq = seq /\ x.calls = used.calls
      BY DEF Usage, Used, Sources
  <2>2. budgets' = Append(budgets, x)
      BY <1>3
  <2> HIDE DEF x
  <2> QED
      BY <1>1, <1>3, <2>1, <2>2, AppendGrows DEF Rows
<1> QED
    BY <1>2, <1>3 DEF Snapshot

(* A snapshot that is to be the last of its run counts all of its calls.   *)
LEMMA FinishCounts ==
    ASSUME AssistTypes, AssistTypes', RowsOf(budgets'), NEW m \in Messages, NEW used,
           used.calls \in Nat, Snapshot(m, 2 * used.calls + 2, used)
    PROVE  used.calls <= LatestFor(budgets', m).calls
<1> DEFINE b == budgets'
<1>1. b \in Seq(Used)
    BY DEF AssistTypes
<1>2. PICK i \in DOMAIN b : b[i].assist = m /\ b[i].seq = 2 * used.calls + 2
  <2>1. CASE \E i \in DOMAIN budgets : budgets[i].assist = m /\ budgets[i].seq = 2 * used.calls + 2
      BY <2>1 DEF Snapshot
  <2>2. CASE b = Append(budgets, Usage(m, 2 * used.calls + 2, used))
    <3>1. budgets \in Seq(Used) /\ Len(budgets) + 1 \in DOMAIN b
          /\ b[Len(budgets) + 1] = Usage(m, 2 * used.calls + 2, used)
        BY <2>2 DEF AssistTypes
    <3> QED
        BY <3>1 DEF Usage
  <2> QED
      BY <2>1, <2>2 DEF Snapshot
<1> HIDE DEF b
<1>3. PICK j \in DOMAIN b : b[j].assist = m /\ LatestIn(b, j) /\ LatestFor(b, m) = b[j]
  <2>1. \/ \A j \in DOMAIN b : b[j].assist # m
        \/ \E j \in DOMAIN b : b[j].assist = m /\ LatestIn(b, j) /\ LatestFor(b, m) = b[j]
      BY <1>1, HasLatest DEF b
  <2> QED
      BY <1>2, <2>1
<1>4. b[j].seq \in Nat /\ b[j].calls \in Nat /\ b[i].seq <= b[j].seq
    BY <1>1, <1>2, <1>3, RowTypes DEF LatestIn
<1>5. Numbered(b, j) /\ b[j].seq # 0
    BY <1>2, <1>4 DEF RowsOf, b
<1>6. b[j].seq <= 2 * b[j].calls + 2
    BY <1>5 DEF Numbered
<1> QED
    BY <1>2, <1>3, <1>4, <1>6 DEF b

-----------------------------------------------------------------------------
(* What the steps of the agent do to the turns and the calls of an assist. *)

LEMMA CallsOfMine ==
    ASSUME NEW state \in Agents, NEW n \in Nat, NEW mine, mine = [state EXCEPT !.calls = n]
    PROVE  /\ mine \in Agents /\ mine.calls = n
           /\ \A t \in Tools : Read(mine, t).calls = n /\ Read(state, t).calls = state.calls
BY DEF Agents, Read

LEMMA CallsOfObserved ==
    ASSUME NEW state \in Agents, NEW n \in Nat, NEW mine, mine = [state EXCEPT !.calls = n],
           NEW out, NEW d
    PROVE  [mine EXCEPT !.out = out].calls = n /\ [mine EXCEPT !.out = out, !.did = d].calls = n
BY DEF Agents

LEMMA StoppingGoes ==
    ASSUME RunnerTypes, NEW r \in Runners, NEW state \in Agents, Stopping(r, state)
    PROVE  pc'[r] = "finish" /\ reg'[r] = reg[r] /\ agent'[r].calls = state.calls
<1> DEFINE s == [state EXCEPT !.out = "stopped"]
<1>1. s.calls = state.calls /\ Local(r, "finish", s)
    BY DEF Agents, Stopping
<1> HIDE DEF s
<1> QED
    BY <1>1, LocalGoes

LEMMA StartAssistIs ==
    ASSUME ModelTypes, NEW r \in Runners, StartAssist(r), NEW m, reg[r].msg = m
    PROVE  /\ reg'[r] = reg[r] /\ UNCHANGED <<turn, action, calls>>
           /\ agent'[r].calls = PriorUsage(m).calls
           /\ \/ pc[r] = "stop" /\ pc'[r] = "finish" /\ UNCHANGED budgets
              \/ pc[r] = "start" /\ pc'[r] = "turn" /\ Snapshot(m, 0, PriorUsage(m))
<1> USE ModelFacts
<1> DEFINE used == PriorUsage(m)
           mine == [NoAgent EXCEPT !.calls = used.calls, !.tools = used.tools]
           next == [mine EXCEPT !.seen = evidence[m], !.tools = @ + Len(evidence[m])]
<1>1. mine \in Agents /\ mine.calls = used.calls /\ next.calls = used.calls
  <2>1. used.calls \in Nat /\ used.tools \in Nat
      BY PriorUsageType
  <2> HIDE DEF used
  <2> QED
      BY <2>1, NoAgentType DEF NoAgent, Agents
<1>2. CASE pc[r] = "stop" /\ Stopping(r, mine) /\ UNCHANGED budgets
  <2> HIDE DEF mine
  <2> QED
      BY <1>1, <1>2, StoppingGoes DEF StartAssist
<1>3. CASE pc[r] = "start" /\ Snapshot(m, 0, used) /\ Local(r, "turn", next)
  <2> HIDE DEF next
  <2> QED
      BY <1>1, <1>3, LocalGoes DEF StartAssist
<1> QED
    BY <1>2, <1>3 DEF StartAssist

LEMMA RunTurnIs ==
    ASSUME ModelTypes, NEW r \in Runners, RunTurn(r), NEW m, reg[r].msg = m,
           NEW a, agent[r].calls = a
    PROVE  /\ pc[r] = "turn" /\ reg'[r] = reg[r] /\ UNCHANGED <<turn, action, calls>>
           /\ \/ /\ a + 1 \in Turns /\ turn[m][a + 1] # "none" /\ UNCHANGED budgets
                 /\ agent'[r].calls = a + 1
                 /\ \/ pc'[r] = "turn" /\ PickedUp(m, a + 1)
                    \/ pc'[r] = "finish" /\ ~PickedUp(m, a + 1)
              \/ /\ a + 1 \in Turns => turn[m][a + 1] = "none"
                 /\ agent'[r].calls = a
                 /\ \/ pc'[r] = "finish" /\ UNCHANGED budgets
                    \/ pc'[r] = "invoke" /\ Snapshot(m, 2 * a + 1, agent[r])
<1> USE ModelFacts
<1>1. pc[r] = "turn" /\ UNCHANGED <<turn, action, calls>> /\ a \in Nat /\ pc[r] \in Assisting
    BY DEF RunTurn, Agents, Assisting, Running, Looping
<1>2. CASE RecoverTurn(r)
  <2> DEFINE n    == a + 1
             mine == [agent[r] EXCEPT !.calls = n]
             did  == action[m][n]
  <2>1. n \in Turns /\ turn[m][n] # "none" /\ UNCHANGED budgets /\ m \in Messages
      BY <1>1, <1>2, HandFacts DEF RecoverTurn
  <2>2. mine \in Agents /\ mine.calls = n /\ \A t \in Tools : Read(mine, t).calls = n
    <3>1. agent[r] \in Agents /\ n \in Nat /\ mine = [agent[r] EXCEPT !.calls = n]
        BY <1>1
    <3> HIDE DEF mine
    <3> QED
        BY <3>1, CallsOfMine
  <2>3. \/ PickedUp(m, n) /\ Local(r, "turn", mine)
        \/ PickedUp(m, n) /\ Local(r, "turn", Read(mine, did[2]))
        \/ ~PickedUp(m, n) /\ Stopping(r, mine)
      BY <1>2 DEF RecoverTurn, PickedUp
  <2>4. PickedUp(m, n) => did[2] \in Tools
      BY <2>1, ActionTool DEF AssistTypes, PickedUp
  <2> HIDE DEF mine, did
  <2>5. \/ PickedUp(m, n) /\ pc'[r] = "turn" /\ reg'[r] = reg[r] /\ agent'[r].calls = n
        \/ ~PickedUp(m, n) /\ pc'[r] = "finish" /\ reg'[r] = reg[r] /\ agent'[r].calls = n
      BY <2>2, <2>3, <2>4, LocalGoes, StoppingGoes
  <2> QED
      BY <1>1, <2>1, <2>5
<1>3. CASE ReserveTurn(r)
  <2>1. a + 1 \in Turns => turn[m][a + 1] = "none"
      BY <1>3 DEF ReserveTurn
  <2>2. \/ Stopping(r, agent[r]) /\ UNCHANGED budgets
        \/ Snapshot(m, 2 * a + 1, agent[r]) /\ Local(r, "invoke", agent[r])
      BY <1>3 DEF ReserveTurn
  <2>3. /\ reg'[r] = reg[r] /\ agent'[r].calls = a
        /\ \/ pc'[r] = "finish" /\ UNCHANGED budgets
           \/ pc'[r] = "invoke" /\ Snapshot(m, 2 * a + 1, agent[r])
      BY <2>2, LocalGoes, StoppingGoes
  <2> QED
      BY <1>1, <2>1, <2>3
<1> QED
    BY <1>2, <1>3 DEF RunTurn

(* A turn on record under another status.                                  *)
Turned(m, n, status) ==
    /\ m \in Messages /\ n \in Turns /\ turn'[m][n] = status
    /\ \A k \in Messages, i \in Turns : k # m \/ i # n => turn'[k][i] = turn[k][i]

LEMMA WithTurnIs ==
    ASSUME AssistTypes, NEW m \in Messages, NEW n \in Turns, NEW status, turn' = WithTurn(m, n, status)
    PROVE  Turned(m, n, status)
<1>1. turn \in [Messages -> [Turns -> {"none", "intent"} \cup Observed]]
    BY DEF AssistTypes
<1> QED
    BY <1>1 DEF WithTurn, Turned

LEMMA AppendIntentIs ==
    ASSUME ModelTypes, NEW r \in Runners, AppendIntent(r), NEW m, reg[r].msg = m,
           NEW a, agent[r].calls = a
    PROVE  /\ pc[r] = "invoke" /\ UNCHANGED <<action, calls, budgets>>
           /\ \/ Refused(r) /\ UNCHANGED turn
              \/ /\ turn[m][a + 1] = "none" /\ Turned(m, a + 1, "intent")
                 /\ pc'[r] = "call" /\ reg'[r] = reg[r] /\ agent'[r].calls = a
<1> USE ModelFacts
<1>1. /\ pc[r] = "invoke" /\ UNCHANGED <<action, calls, budgets>>
      /\ m \in Messages /\ a + 1 \in Turns
    BY HandFacts DEF AppendIntent, Assisting, Running, Looping, InHand
<1>2. CASE Refused(r) /\ UNCHANGED turn
    BY <1>1, <1>2
<1>3. CASE turn[m][a + 1] = "none" /\ turn' = WithTurn(m, a + 1, "intent") /\ Local(r, "call", agent[r])
    BY <1>1, <1>3, LocalGoes, WithTurnIs
<1> QED
    BY <1>2, <1>3 DEF AppendIntent

LEMMA ProposeIs ==
    ASSUME ModelTypes, NEW r \in Runners, Propose(r), NEW m, reg[r].msg = m,
           NEW a, agent[r].calls = a
    PROVE  /\ pc[r] = "call" /\ UNCHANGED <<turn, action, budgets>>
           /\ pc'[r] = "observe" /\ reg'[r] = reg[r] /\ agent'[r].calls = a + 1 /\ a + 1 \in Turns
           /\ Called(m)' = Called(m) \cup {a + 1}
           /\ \A k \in Messages : k # m => Called(k)' = Called(k)
<1> USE ModelFacts
<1>1. /\ pc[r] = "call" /\ UNCHANGED <<turn, action, budgets>>
      /\ m \in Messages /\ a + 1 \in Turns
    BY HandFacts DEF Propose, Assisting, Running, Looping, InHand
<1>2. \E state : Local(r, "observe", state) /\ state.calls = a + 1
  <2> DEFINE mine == [agent[r] EXCEPT !.calls = a + 1]
  <2>1. /\ \A out : [mine EXCEPT !.out = out].calls = a + 1
        /\ \A out, d : [mine EXCEPT !.out = out, !.did = d].calls = a + 1
    <3>1. agent[r] \in Agents /\ a + 1 \in Nat /\ mine = [agent[r] EXCEPT !.calls = a + 1]
        BY <1>1 DEF Turns
    <3> HIDE DEF mine
    <3> QED
        BY <3>1, CallsOfObserved
  <2>2. \/ \E d : Local(r, "observe", [mine EXCEPT !.out = "completed", !.did = d])
        \/ \E out : Local(r, "observe", [mine EXCEPT !.out = out])
      BY DEF Propose
  <2> HIDE DEF mine
  <2> QED
      BY <2>1, <2>2
<1>3. pc'[r] = "observe" /\ reg'[r] = reg[r] /\ agent'[r].calls = a + 1
    BY <1>2, LocalGoes
<1>4. calls' = [calls EXCEPT ![m][a + 1] = @ + 1] /\ calls \in [Messages -> [Turns -> Nat]]
    BY DEF Propose, AssistTypes
<1>5. \A k \in Messages, i \in Turns :
        calls'[k][i] > 0 <=> calls[k][i] > 0 \/ (k = m /\ i = a + 1)
    BY <1>1, <1>4
<1>6. Called(m)' = Called(m) \cup {a + 1}
    BY <1>1, <1>5 DEF Called
<1>7. \A k \in Messages : k # m => Called(k)' = Called(k)
    BY <1>5 DEF Called
<1> QED
    BY <1>1, <1>3, <1>6, <1>7

LEMMA AppendObservationIs ==
    ASSUME ModelTypes, NEW r \in Runners, AppendObservation(r), NEW m, reg[r].msg = m,
           NEW a, agent[r].calls = a
    PROVE  /\ pc[r] = "observe" /\ UNCHANGED <<action, calls, budgets>>
           /\ reg'[r] = reg[r] /\ agent'[r].calls = a
           /\ \E out \in Observed :
                /\ Turned(m, a, out)
                /\ \/ out = "retryable" /\ pc'[r] = "turn"
                   \/ out = "completed" /\ pc'[r] = "act"
                   \/ pc'[r] = "finish"
<1> USE ModelFacts
<1> DEFINE out  == agent[r].out
           next == [agent[r] EXCEPT !.retries = @ + 1]
<1>1. /\ pc[r] = "observe" /\ UNCHANGED <<action, calls, budgets>>
      /\ m \in Messages /\ a \in Turns /\ out \in Observed /\ next.calls = a
    BY HandFacts DEF AppendObservation, Assisting, Running, Looping, InHand, Agents
<1>2. Turned(m, a, out)
    BY <1>1, WithTurnIs DEF AppendObservation
<1>3. \/ out = "retryable" /\ Local(r, "turn", next)
      \/ out = "completed" /\ Local(r, "act", agent[r])
      \/ Stopping(r, agent[r])
    BY DEF AppendObservation
<1> HIDE DEF next, out
<1>4. /\ reg'[r] = reg[r] /\ agent'[r].calls = a
      /\ \/ out = "retryable" /\ pc'[r] = "turn"
         \/ out = "completed" /\ pc'[r] = "act"
         \/ pc'[r] = "finish"
    BY <1>1, <1>3, LocalGoes, StoppingGoes
<1> QED
    BY <1>1, <1>2, <1>4

LEMMA AppendActionIs ==
    ASSUME ModelTypes, NEW r \in Runners, AppendAction(r), NEW m, reg[r].msg = m,
           NEW a, agent[r].calls = a
    PROVE  /\ pc[r] = "act" /\ UNCHANGED <<turn, calls, budgets>>
           /\ reg'[r] = reg[r] /\ agent'[r].calls = a
           /\ \A k \in Messages, i \in Turns : k # m \/ i # a => action'[k][i] = action[k][i]
           /\ \/ pc'[r] = "checkpoint" /\ action'[m][a][1] = "read"
              \/ pc'[r] = "finish"
<1> USE ModelFacts
<1> DEFINE did  == agent[r].did
           next == [agent[r] EXCEPT !.out = "response_ready"]
<1>1. /\ pc[r] = "act" /\ UNCHANGED <<turn, calls, budgets>>
      /\ m \in Messages /\ a \in Turns /\ next.calls = a
    BY HandFacts DEF AppendAction, Assisting, Running, Looping, InHand, Agents
<1>2. action' = [action EXCEPT ![m][a] = did] /\ action \in [Messages -> [Turns -> Actions]]
    BY DEF AppendAction, AssistTypes
<1>3. \/ did[1] = "read" /\ Local(r, "checkpoint", agent[r])
      \/ Local(r, "finish", next)
      \/ Stopping(r, agent[r])
    BY DEF AppendAction
<1> HIDE DEF next, did
<1>4. /\ reg'[r] = reg[r] /\ agent'[r].calls = a
      /\ \/ pc'[r] = "checkpoint" /\ did[1] = "read"
         \/ pc'[r] = "finish"
    BY <1>1, <1>3, LocalGoes, StoppingGoes
<1>5. /\ action'[m][a] = did
      /\ \A k \in Messages, i \in Turns : k # m \/ i # a => action'[k][i] = action[k][i]
    BY <1>1, <1>2
<1> QED
    BY <1>1, <1>4, <1>5

LEMMA ToolIs ==
    ASSUME ModelTypes, NEW r \in Runners, Checkpoint(r) \/ ReadTool(r) \/ Finish(r),
           NEW m, reg[r].msg = m, NEW a, agent[r].calls = a
    PROVE  /\ UNCHANGED <<turn, calls, action>> /\ reg'[r] = reg[r] /\ agent'[r].calls = a
           /\ \/ /\ pc[r] = "checkpoint" /\ pc'[r] = "tool" /\ a \in Turns
                 /\ Snapshot(m, 2 * a, agent[r])
              \/ pc[r] = "tool" /\ pc'[r] \in {"turn", "finish"} /\ UNCHANGED budgets
              \/ /\ pc[r] = "finish" /\ pc'[r] \in {"candidate", "outcome"}
                 /\ Snapshot(m, 2 * a + 2, agent[r])
<1> USE ModelFacts
<1>1. CASE Checkpoint(r)
    BY <1>1, LocalGoes DEF Checkpoint, InHand
<1>2. CASE ReadTool(r)
  <2> DEFINE mine == Read(agent[r], agent[r].did[2])
  <2>1. pc[r] = "tool" /\ UNCHANGED <<turn, calls, action, budgets>> /\ agent[r].did[2] \in Tools
      BY <1>2 DEF ReadTool, InHand
  <2>2. mine \in Agents /\ mine.calls = a
      BY <2>1, ReadType DEF Agents, Read
  <2>3. Local(r, "turn", mine) \/ Stopping(r, mine) \/ Stopping(r, agent[r])
      BY <1>2 DEF ReadTool
  <2> HIDE DEF mine
  <2> QED
      BY <2>1, <2>2, <2>3, LocalGoes, StoppingGoes
<1>3. CASE Finish(r)
  <2> DEFINE label == IF agent[r].out = "response_ready" THEN "candidate" ELSE "outcome"
  <2>1. Local(r, label, agent[r]) /\ label \in {"candidate", "outcome"}
      BY <1>3 DEF Finish
  <2> HIDE DEF label
  <2> QED
      BY <1>3, <2>1, LocalGoes DEF Finish
<1> QED
    BY <1>1, <1>2, <1>3

(* A step of the agent counts on.                                          *)
LEMMA AgentRows ==
    ASSUME ModelTypes, AssistTypes', Rows, NEW r \in Runners, CountsOn(r), AgentStep(r),
           NEW m \in Messages, reg[r].msg = m
    PROVE  Grown(budgets, budgets', m) /\ CountsOn(r)'
<1> USE ModelFacts
<1> DEFINE p == PriorIn(budgets, m)
<1>1. PICK a \in Nat : agent[r].calls = a
    BY DEF Agents
<1>2. /\ p \in Nat /\ PriorUsage(m).calls = p /\ PriorUsage(m).tools \in Nat
      /\ agent[r].tools \in Nat /\ budgets \in Seq(Used) /\ RowsOf(budgets)
    BY UsageIn, PriorUsageType DEF Agents, AssistTypes, Rows
<1>3. pc[r] \in Looping \cup {"finish"} => p <= a
    BY <1>1, <1>2 DEF CountsOn
<1> HIDE DEF p
<1>4. ASSUME UNCHANGED budgets PROVE Grown(budgets, budgets', m)
    BY <1>2, <1>4, NotGrown
<1>5. ASSUME NEW seq \in Nat, Snapshot(m, seq, agent[r]), p <= a,
             seq # 0, 2 * a <= seq, seq <= 2 * a + 2
      PROVE  Grown(budgets, budgets', m)
    BY <1>1, <1>2, <1>5, SnapshotGrows DEF p
<1>6. ASSUME Grown(budgets, budgets', m), reg'[r] = reg[r],
             pc'[r] \in Looping \cup {"finish"} => p <= agent'[r].calls
      PROVE  CountsOn(r)'
  <2>1. PriorIn(budgets', m) = p
      BY <1>6 DEF Grown, p
  <2>2. PriorUsage(m)'.calls = p
      BY <2>1, UsageIn
  <2> QED
      BY <1>6, <2>2 DEF CountsOn
<1>7. ASSUME pc'[r] \notin Looping \cup {"finish"} PROVE CountsOn(r)'
    BY <1>7 DEF CountsOn
<1>8. CASE StartAssist(r)
  <2>1. /\ reg'[r] = reg[r] /\ agent'[r].calls = p
        /\ UNCHANGED budgets \/ Snapshot(m, 0, PriorUsage(m))
      BY <1>2, <1>8, StartAssistIs
  <2>2. ASSUME Snapshot(m, 0, PriorUsage(m)) PROVE Grown(budgets, budgets', m)
    <3> DEFINE used == PriorUsage(m)
    <3>1. used.calls \in Nat /\ used.tools \in Nat /\ used.calls = PriorIn(budgets, m)
          /\ PriorIn(budgets, m) <= used.calls /\ Snapshot(m, 0, used)
        BY <1>2, <2>2 DEF p
    <3> HIDE DEF used
    <3> QED
        BY <3>1, SnapshotGrows
  <2> QED
      BY <1>2, <1>4, <1>6, <2>1, <2>2
<1>9. CASE RunTurn(r)
  <2>1. /\ pc[r] = "turn" /\ reg'[r] = reg[r]
        /\ agent'[r].calls = a \/ agent'[r].calls = a + 1
        /\ UNCHANGED budgets \/ Snapshot(m, 2 * a + 1, agent[r])
      BY <1>1, <1>9, RunTurnIs
  <2>2. p <= a /\ p <= a + 1
      BY <1>1, <1>2, <1>3, <2>1 DEF Looping
  <2>3. Grown(budgets, budgets', m)
      BY <1>1, <1>4, <1>5, <2>1, <2>2
  <2> QED
      BY <1>6, <2>1, <2>2, <2>3
<1>10. CASE AppendIntent(r)
  <2>1. /\ pc[r] = "invoke" /\ UNCHANGED budgets
        /\ Refused(r) \/ (reg'[r] = reg[r] /\ agent'[r].calls = a)
      BY <1>1, <1>10, AppendIntentIs
  <2>2. CASE Refused(r)
      BY <1>4, <1>7, <2>1, <2>2, RestGoes DEF Goes, Looping
  <2> QED
      BY <1>3, <1>4, <1>6, <2>1, <2>2 DEF Looping
<1>11. CASE Propose(r)
  <2>1. pc[r] = "call" /\ UNCHANGED budgets /\ reg'[r] = reg[r] /\ agent'[r].calls = a + 1
      BY <1>1, <1>11, ProposeIs
  <2>2. p <= a + 1
      BY <1>1, <1>2, <1>3, <2>1 DEF Looping
  <2> QED
      BY <1>4, <1>6, <2>1, <2>2
<1>12. CASE AppendObservation(r) \/ AppendAction(r)
  <2>1. pc[r] \in Looping /\ UNCHANGED budgets /\ reg'[r] = reg[r] /\ agent'[r].calls = a
      BY <1>1, <1>12, AppendObservationIs, AppendActionIs DEF Looping
  <2> QED
      BY <1>3, <1>4, <1>6, <2>1
<1>13. CASE Checkpoint(r) \/ ReadTool(r) \/ Finish(r)
  <2>1. /\ reg'[r] = reg[r] /\ agent'[r].calls = a /\ pc[r] \in Looping \cup {"finish"}
        /\ \/ UNCHANGED budgets
           \/ a \in Turns /\ Snapshot(m, 2 * a, agent[r])
           \/ Snapshot(m, 2 * a + 2, agent[r])
      BY <1>1, <1>13, ToolIs DEF Looping
  <2>2. p <= a
      BY <1>3, <2>1
  <2>3. ASSUME a \in Turns, Snapshot(m, 2 * a, agent[r]) PROVE Grown(budgets, budgets', m)
      BY <1>1, <1>5, <2>2, <2>3 DEF Turns
  <2>4. ASSUME Snapshot(m, 2 * a + 2, agent[r]) PROVE Grown(budgets, budgets', m)
      BY <1>1, <1>5, <2>2, <2>4
  <2>5. Grown(budgets, budgets', m)
      BY <1>4, <2>1, <2>3, <2>4
  <2> QED
      BY <1>6, <2>1, <2>2, <2>5
<1> QED
    BY <1>8, <1>9, <1>10, <1>11, <1>12, <1>13 DEF AgentStep

LEMMA RowNext ==
    ASSUME Solo
    PROVE  ModelTypes /\ ModelTypes' /\ RowInv /\ [ModelNext]_modelVars => RowInv'
<1> SUFFICES ASSUME ModelTypes, ModelTypes', RowInv, [ModelNext]_modelVars
             PROVE  RowInv'
    OBVIOUS
<1> USE ModelFacts
<1>1. Rows /\ (\A q \in Runners : CountsOn(q)) /\ AssistTypes'
    BY DEF RowInv, ModelTypes, StoreInv
<1>2. ASSUME UNCHANGED budgets, NEW r \in Runners, pc'[r] \notin Looping \cup {"finish"}
      PROVE  RowInv'
  <2>1. CountsOn(r)'
      BY <1>2 DEF CountsOn
  <2> QED
      BY <1>1, <1>2, <2>1 DEF Solo, RowInv, Rows
<1>3. ASSUME NEW r \in Runners, AgentStep(r) PROVE RowInv'
  <2>1. PICK m \in Messages : reg[r].msg = m
    <3>1. pc[r] \in Assisting
        BY <1>3, AgentIdle DEF Assisting
    <3> QED
        BY <3>1, HandFacts
  <2>2. Grown(budgets, budgets', m) /\ CountsOn(r)'
      BY <1>1, <1>3, <2>1, AgentRows
  <2> QED
      BY <2>2 DEF Grown, Solo, RowInv, Rows
<1>4. ASSUME NEW r \in Runners, CreateReadyOutcome(r) PROVE RowInv'
  <2>1. UNCHANGED budgets /\ pc'[r] = "record"
      BY <1>4 DEF CreateReadyOutcome
  <2> QED
      BY <1>2, <2>1 DEF Looping
<1>5. ASSUME NEW r \in Runners,
             CreateAssistRequest(r) \/ RecoverPersistedAssist(r) \/ CompileContext(r)
               \/ RecordContext(r) \/ CreateModelCandidate(r) \/ CreateStoppedOutcome(r)
      PROVE  RowInv'
  <2>1. UNCHANGED budgets
      BY <1>5 DEF CreateAssistRequest, RecoverPersistedAssist, CompileContext, RecordContext,
                  CreateModelCandidate, CreateStoppedOutcome, assistVars
  <2>2. \/ Refused(r)
        \/ \E label \in {"resume", "context", "compile", "stop", "start", "intent", "respond"} :
            \E regs : Goto(r, label, regs)
      BY <1>5 DEF CreateAssistRequest, RecoverPersistedAssist, CompileContext, RecordContext,
                  CreateModelCandidate, CreateStoppedOutcome, Reading
  <2>3. pc'[r] \notin Looping \cup {"finish"}
      BY <2>2, RestGoes, GotoGoes DEF Goes, Looping
  <2> QED
      BY <1>2, <2>1, <2>3
<1>6. ASSUME NEW r \in Runners,
             HandlerStep(r) \/ \E m \in PrivateMessages : ReceiveAssist(r, m)
      PROVE  RowInv'
  <2>1. UNCHANGED budgets /\ pc'[r] \in Plain \cup {"request"}
      BY <1>6, HandlerGoes, ReceiveAssistGoes DEF Goes, assistVars
  <2> QED
      BY <1>2, <2>1 DEF Plain, Assisting, Running, Preparing, Looping
<1>7. ASSUME NEW r \in Runners, ModelCrash(r) PROVE RowInv'
  <2>1. UNCHANGED budgets /\ Leave(r)
      BY <1>7 DEF ModelCrash, Crash, assistVars
  <2>2. pc'[r] \notin Looping \cup {"finish"}
      BY <2>1, RestGoes DEF Goes, Looping
  <2> QED
      BY <1>2, <2>1, <2>2
<1>8. CASE (Environment /\ UNCHANGED <<assistVars, bound, agent>>) \/ UNCHANGED modelVars
  <2>1. UNCHANGED <<budgets, pc, reg, agent>>
      BY <1>8, EnvironmentIdle DEF modelVars, vars, assistVars
  <2>2. \A k : PriorUsage(k)' = PriorUsage(k)
      BY <2>1 DEF PriorUsage, IsLatest
  <2>3. \A q \in Runners : CountsOn(q)'
      BY <1>1, <2>1, <2>2 DEF CountsOn
  <2> QED
      BY <1>1, <2>1, <2>3 DEF RowInv, Rows
<1> QED
    BY <1>3, <1>4, <1>5, <1>6, <1>7, <1>8 DEF ModelNext, AssistStep, HandlerStep

LEMMA RowInit == ModelInit => RowInv
BY DEF ModelInit, Init, RowInv, Rows, RowsOf, CountsOn, Looping

-----------------------------------------------------------------------------
(* Charges: what a step leaves of an assist that it does not run.          *)

Same(k) ==
    /\ Called(k)' = Called(k)
    /\ \A i \in Turns : turn'[k][i] = turn[k][i] /\ action'[k][i] = action[k][i]

LEMMA UsageGrows ==
    ASSUME AssistTypes, AssistTypes', Rows, NEW x, Grown(budgets, budgets', x), NEW k
    PROVE  /\ PriorUsage(k).calls \in Nat /\ PriorUsage(k)'.calls \in Nat
           /\ LatestBudget(k).calls \in Nat /\ LatestBudget(k)'.calls \in Nat
           /\ PriorUsage(k).calls <= PriorUsage(k)'.calls
           /\ LatestBudget(k).calls <= LatestBudget(k)'.calls
           /\ k = x => PriorUsage(k)'.calls = PriorUsage(k).calls
<1>1. budgets \in Seq(Used) /\ budgets' \in Seq(Used) /\ RowsOf(budgets) /\ RowsOf(budgets')
    BY DEF AssistTypes, Rows, Grown
<1>2. /\ PriorIn(budgets, k) \in Nat /\ PriorIn(budgets', k) \in Nat
      /\ LatestFor(budgets, k).calls \in Nat /\ LatestFor(budgets', k).calls \in Nat
    BY <1>1, PriorIsMost, HasLatest DEF MostOf
<1>3. /\ PriorIn(budgets, k) <= PriorIn(budgets', k)
      /\ LatestFor(budgets, k).calls <= LatestFor(budgets', k).calls
      /\ k = x => PriorIn(budgets', k) = PriorIn(budgets, k)
    BY DEF Grown
<1> QED
    BY <1>2, <1>3, UsageIn

LEMMA SameKeeps ==
    ASSUME AssistTypes, AssistTypes', Rows, NEW x, Grown(budgets, budgets', x),
           NEW k \in Messages, Same(k), passed \subseteq passed'
    PROVE  /\ Clean(k)' => Clean(k)
           /\ \A c \in Nat : PriorUsage(k)'.calls <= c => PriorUsage(k).calls <= c
           /\ \A c : Covered(k, c) => Covered(k, c)'
           /\ \A c : Followed(k, c) => Followed(k, c)'
           /\ \A c : UpTo(k, c) => UpTo(k, c)'
           /\ Counted(k) => Counted(k)'
<1> DEFINE p  == PriorUsage(k).calls
           p2 == PriorUsage(k)'.calls
           l  == LatestBudget(k).calls
           l2 == LatestBudget(k)'.calls
<1>1. p \in Nat /\ p2 \in Nat /\ p <= p2 /\ l \in Nat /\ l2 \in Nat /\ l <= l2
    BY UsageGrows
<1>2. Called(k) \subseteq Turns /\ Turns \subseteq Nat
    BY DEF Called, Turns
<1>3. Clean(k)' => Clean(k)
    BY DEF Clean, Same
<1>4. \A c : Covered(k, c) => Covered(k, c)'
    BY <1>2 DEF Covered, PickedUp, Same
<1>5. ASSUME NEW c, Followed(k, c) PROVE Followed(k, c)'
  <2> SUFFICES ASSUME NEW i \in Turns, p2 < i, i <= c PROVE PickedUp(k, i)'
      BY DEF Followed
  <2>1. p < i
      BY <1>1, <1>2
  <2>2. PickedUp(k, i)
      BY <1>5, <2>1 DEF Followed
  <2> QED
      BY <2>2 DEF PickedUp, Same
<1>6. ASSUME Counted(k) PROVE Counted(k)'
  <2> SUFFICES ASSUME NEW n \in Called(k), n <= l PROVE n <= l2
      BY <1>6 DEF Counted, Same
  <2> QED
      BY <1>1, <1>2, AtMostStays
<1>7. \A c \in Nat : p2 <= c => p <= c
    BY <1>1, AtMostStays
<1>8. \A c : UpTo(k, c) => UpTo(k, c)'
    BY DEF UpTo, Same
<1> QED
    BY <1>3, <1>4, <1>5, <1>6, <1>7, <1>8

LEMMA SameCharge ==
    ASSUME AssistTypes, AssistTypes', Rows, NEW x, Grown(budgets, budgets', x),
           NEW k \in Messages, Same(k), passed \subseteq passed', ChargeOf(k),
           Clean(k) /\ Settled(k)' => Settled(k) \/ Counted(k)
    PROVE  ChargeOf(k)'
<1> SUFFICES ASSUME Clean(k)'
             PROVE  /\ \A c \in Nat : PriorUsage(k)'.calls <= c => Covered(k, c)'
                    /\ Settled(k)' => Counted(k)'
    BY DEF ChargeOf
<1>1. Clean(k)
    BY SameKeeps
<1>2. ASSUME NEW c \in Nat, PriorUsage(k)'.calls <= c PROVE Covered(k, c)'
    BY <1>1, <1>2, SameKeeps DEF ChargeOf
<1>3. Settled(k)' => Counted(k)'
    BY <1>1, SameKeeps DEF ChargeOf
<1> QED
    BY <1>2, <1>3

LEMMA UnchangedSame ==
    ASSUME UNCHANGED <<turn, action, calls>>, NEW k PROVE Same(k)
BY DEF Same, Called

LEMMA UnchangedSettled ==
    ASSUME UNCHANGED <<bound, assist, movedBy>>, NEW k PROVE Settled(k)' = Settled(k)
BY DEF Settled, Once

-----------------------------------------------------------------------------
(* Charges: a step of the agent.                                           *)

(* The runner runs the assist m, has counted a calls for it, and leaves    *)
(* the rest of the store alone.                                            *)
Counting(r, m, a) ==
    /\ r \in Runners /\ m \in Messages /\ a \in Nat
    /\ reg[r].msg = m /\ agent[r].calls = a
    /\ CountsFor(r, m, a) /\ ~Settled(m)
    /\ pc[r] \in Looping \cup {"finish"} => PriorUsage(m).calls <= a
    /\ Grown(budgets, budgets', m)
    /\ UNCHANGED <<case, movedBy, inbox, passed, assist, bound>>

(* What a step shows when it leaves turns, actions and calls alone.        *)
LEMMA QuietCounting ==
    ASSUME ModelTypes, AssistTypes', Rows, Charges, NEW r, NEW m, NEW a, Counting(r, m, a),
           UNCHANGED <<turn, action, calls>>
    PROVE  /\ Charges'
           /\ Fresh(m)' => Fresh(m)
           /\ Clean(m)' => Clean(m)
           /\ \A c : Covered(m, c) => Covered(m, c)'
           /\ \A c : Followed(m, c) => Followed(m, c)'
           /\ \A c : UpTo(m, c) => UpTo(m, c)'
           /\ Called(m)' = Called(m)
<1>1. AssistTypes /\ passed \subseteq passed' /\ m \in Messages /\ Grown(budgets, budgets', m)
    BY DEF ModelTypes, StoreInv, Counting
<1>2. \A k : Same(k) /\ Settled(k)' = Settled(k)
    BY UnchangedSame, UnchangedSettled DEF Counting
<1>3. \A k \in Messages : ChargeOf(k)'
    BY <1>1, <1>2, SameCharge DEF Charges
<1>4. Clean(m)' => Clean(m)
    BY <1>1, <1>2, SameKeeps
<1>5. Fresh(m)' => Fresh(m)
    BY <1>4 DEF Fresh, Counting
<1>6. /\ \A c : Covered(m, c) => Covered(m, c)'
      /\ \A c : Followed(m, c) => Followed(m, c)'
      /\ \A c : UpTo(m, c) => UpTo(m, c)'
    BY <1>1, <1>2, SameKeeps
<1> QED
    BY <1>2, <1>3, <1>4, <1>5, <1>6 DEF Same, Charges

LEMMA CountsAre ==
    ASSUME NEW r, NEW m, NEW c, reg'[r].msg = m, agent'[r].calls = c, CountsFor(r, m, c)'
    PROVE  Counts(r)'
BY DEF Counts

LEMMA TurnCounts ==
    ASSUME NEW r, NEW m, NEW c, reg'[r].msg = m, agent'[r].calls = c, pc'[r] = "turn",
           Clean(m)' => Covered(m, c)' /\ Followed(m, c)'
    PROVE  Counts(r)'
<1>1. CountsFor(r, m, c)'
    BY DEF CountsFor
<1> QED
    BY <1>1, CountsAre

LEMMA FinishCountsOn ==
    ASSUME NEW r, NEW m, NEW c, reg'[r].msg = m, agent'[r].calls = c, pc'[r] = "finish",
           Fresh(m)' => UpTo(m, c)'
    PROVE  Counts(r)'
<1>1. CountsFor(r, m, c)'
    BY DEF CountsFor, Looping
<1> QED
    BY <1>1, CountsAre

LEMMA CallsAreNumbers == \A m : Called(m) \subseteq Turns /\ Turns \subseteq Nat
BY DEF Called, Turns

LEMMA StartAssistCharges ==
    ASSUME ModelTypes, AssistTypes', Rows, Charges, NEW r, NEW m, NEW a, Counting(r, m, a),
           StartAssist(r)
    PROVE  Charges' /\ Counts(r)'
<1>1. r \in Runners /\ reg[r].msg = m /\ m \in Messages
    BY DEF Counting
<1>2. /\ reg'[r] = reg[r] /\ UNCHANGED <<turn, action, calls>>
      /\ agent'[r].calls = PriorUsage(m).calls
      /\ \/ pc[r] = "stop" /\ pc'[r] = "finish"
         \/ pc[r] = "start" /\ pc'[r] = "turn"
    BY <1>1, StartAssistIs
<1>3. PriorUsage(m).calls \in Nat /\ PriorUsage(m)'.calls = PriorUsage(m).calls
  <2>1. AssistTypes /\ Grown(budgets, budgets', m)
      BY DEF ModelTypes, StoreInv, Counting
  <2> QED
      BY <2>1, UsageGrows
<1>4. PICK p \in Nat : PriorUsage(m).calls = p /\ PriorUsage(m)'.calls = p
    BY <1>3
<1>5. Charges'
    BY <1>2, QuietCounting
<1>6. CASE pc[r] = "stop" /\ pc'[r] = "finish"
  <2>1. Fresh(m)' => UpTo(m, p)'
    <3>1. Fresh(m)' => Called(m)' = {}
        BY <1>2, <1>6, QuietCounting DEF Counting, CountsFor
    <3> QED
        BY <3>1 DEF UpTo
  <2> QED
      BY <1>1, <1>2, <1>4, <1>5, <1>6, <2>1, FinishCountsOn
<1>7. CASE pc'[r] = "turn"
  <2>1. Clean(m)' => Covered(m, p)'
    <3>1. ChargeOf(m)'
        BY <1>1, <1>5 DEF Charges
    <3>2. p <= p
        BY <1>4
    <3> QED
        BY <1>4, <3>1, <3>2 DEF ChargeOf
  <2>2. Followed(m, p)'
    <3>1. \A k \in Turns : ~(p < k /\ k <= p)
        BY <1>4, CallsAreNumbers
    <3> QED
        BY <1>4, <3>1 DEF Followed
  <2> QED
      BY <1>1, <1>2, <1>4, <1>5, <1>7, <2>1, <2>2, TurnCounts
<1> QED
    BY <1>2, <1>6, <1>7

LEMMA RunTurnCharges ==
    ASSUME ModelTypes, AssistTypes', Rows, Charges, NEW r, NEW m, NEW a, Counting(r, m, a),
           RunTurn(r)
    PROVE  Charges' /\ Counts(r)'
<1>1. /\ r \in Runners /\ reg[r].msg = m /\ m \in Messages /\ a \in Nat /\ agent[r].calls = a
      /\ CountsFor(r, m, a)
    BY DEF Counting
<1>2. /\ pc[r] = "turn" /\ reg'[r] = reg[r] /\ UNCHANGED <<turn, action, calls>>
      /\ \/ /\ a + 1 \in Turns /\ turn[m][a + 1] # "none"
            /\ agent'[r].calls = a + 1
            /\ \/ pc'[r] = "turn" /\ PickedUp(m, a + 1)
               \/ pc'[r] = "finish" /\ ~PickedUp(m, a + 1)
         \/ /\ a + 1 \in Turns => turn[m][a + 1] = "none"
            /\ agent'[r].calls = a
            /\ pc'[r] \in {"finish", "invoke"}
    BY <1>1, RunTurnIs
<1>3. Charges'
    BY <1>2, QuietCounting
<1>4. ASSUME Clean(m) PROVE Covered(m, a) /\ Followed(m, a)
    BY <1>1, <1>2, <1>4 DEF CountsFor, Looping
<1>5. CASE /\ a + 1 \in Turns /\ PickedUp(m, a + 1) /\ agent'[r].calls = a + 1 /\ pc'[r] = "turn"
  <2>1. ASSUME Clean(m) PROVE Covered(m, a + 1) /\ Followed(m, a + 1)
    <3>1. Covered(m, a + 1)
        BY <1>1, <1>4, <2>1, CallsAreNumbers DEF Covered
    <3>2. \A k \in Turns : k <= a + 1 => k <= a \/ k = a + 1
        BY <1>1, CallsAreNumbers
    <3>3. Followed(m, a + 1)
        BY <1>4, <1>5, <2>1, <3>2 DEF Followed
    <3> QED
        BY <3>1, <3>3
  <2>2. Clean(m)' => Covered(m, a + 1)' /\ Followed(m, a + 1)'
      BY <1>2, <2>1, QuietCounting
  <2> QED
      BY <1>1, <1>2, <1>3, <1>5, <2>2, TurnCounts
<1>6. CASE /\ a + 1 \in Turns /\ ~PickedUp(m, a + 1) /\ agent'[r].calls = a + 1
           /\ pc'[r] = "finish"
  <2>1. ASSUME Clean(m) PROVE UpTo(m, a + 1)
    <3> SUFFICES ASSUME NEW n \in Called(m), ~(n <= a + 1) PROVE FALSE
        BY DEF UpTo
    <3>1. n > a /\ a < a + 1 /\ a + 1 < n
        BY <1>1, CallsAreNumbers
    <3> QED
        BY <1>4, <1>6, <2>1, <3>1 DEF Covered
  <2>2. Fresh(m)' => UpTo(m, a + 1)'
      BY <1>2, <2>1, QuietCounting DEF Fresh
  <2> QED
      BY <1>1, <1>2, <1>3, <1>6, <2>2, FinishCountsOn
<1>7. CASE /\ a + 1 \in Turns => turn[m][a + 1] = "none"
           /\ agent'[r].calls = a /\ pc'[r] \in {"finish", "invoke"}
  <2>1. ASSUME Clean(m) PROVE UpTo(m, a) /\ Followed(m, a)
    <3>1. ASSUME NEW n \in Called(m), ~(n <= a) PROVE FALSE
      <4>1. n > a /\ n \in Turns /\ turn[m][n] # "none"
          BY <1>1, <1>4, <2>1, <3>1, CallsAreNumbers DEF Covered
      <4>2. CASE n = a + 1
          BY <1>7, <4>1, <4>2
      <4>3. CASE a + 1 < n
        <5>1. a + 1 \in Turns /\ a < a + 1
            BY <1>1, <4>1, <4>3, ModelAssumption DEF Turns
        <5>2. PickedUp(m, a + 1)
            BY <1>4, <2>1, <4>1, <4>3, <5>1 DEF Covered
        <5> QED
            BY <1>7, <5>1, <5>2 DEF PickedUp
      <4> QED
          BY <1>1, <4>1, <4>2, <4>3, CallsAreNumbers
    <3> QED
        BY <1>4, <2>1, <3>1 DEF UpTo
  <2>2. CASE pc'[r] = "finish"
    <3>1. Fresh(m)' => UpTo(m, a)'
        BY <1>2, <2>1, QuietCounting DEF Fresh
    <3> QED
        BY <1>1, <1>2, <1>3, <1>7, <2>2, <3>1, FinishCountsOn
  <2>3. CASE pc'[r] = "invoke"
    <3>1. Clean(m)' => UpTo(m, a)' /\ Followed(m, a)'
        BY <1>2, <2>1, QuietCounting
    <3>2. CountsFor(r, m, a)'
        BY <2>3, <3>1 DEF CountsFor
    <3> QED
        BY <1>1, <1>2, <1>3, <1>7, <3>2, CountsAre
  <2> QED
      BY <1>7, <2>2, <2>3
<1> QED
    BY <1>2, <1>5, <1>6, <1>7

LEMMA RestCounts ==
    ASSUME NEW r, pc'[r] \in {"idle", "receive"} PROVE Counts(r)'
BY DEF Counts, CountsFor, Looping

LEMMA MineCharges ==
    ASSUME ModelTypes, AssistTypes', Rows, Charges, NEW r, NEW m, NEW a, Counting(r, m, a),
           \A k \in Messages : k # m => Same(k),
           Clean(m)' => \A c \in Nat : PriorUsage(m).calls <= c => Covered(m, c)'
    PROVE  Charges'
<1>1. /\ AssistTypes /\ passed \subseteq passed' /\ m \in Messages /\ Grown(budgets, budgets', m)
      /\ ~Settled(m) /\ \A k : Settled(k)' = Settled(k)
    BY UnchangedSettled DEF ModelTypes, StoreInv, Counting
<1>2. PriorUsage(m)'.calls = PriorUsage(m).calls
    BY <1>1, UsageGrows
<1>3. ChargeOf(m)'
    BY <1>1, <1>2 DEF ChargeOf
<1>4. ASSUME NEW k \in Messages, k # m PROVE ChargeOf(k)'
  <2>1. ChargeOf(k)
      BY DEF Charges
  <2> QED
      BY <1>1, <1>4, <2>1, SameCharge
<1> QED
    BY <1>3, <1>4 DEF Charges

(* The turns before the one at hand stay as they are.                      *)
LEMMA BehindKeeps ==
    ASSUME NEW m, NEW b \in Nat, UNCHANGED <<budgets, calls>>, UpTo(m, b),
           \A i \in Turns : i < b => turn'[m][i] = turn[m][i] /\ action'[m][i] = action[m][i],
           \A i \in Turns : turn[m][i] # "none" => turn'[m][i] # "none"
    PROVE  /\ \A c : Covered(m, c) => Covered(m, c)'
           /\ \A c \in Nat : c < b /\ Followed(m, c) => Followed(m, c)'
           /\ \A c : UpTo(m, c) => UpTo(m, c)'
<1>1. Called(m)' = Called(m) /\ PriorUsage(m)' = PriorUsage(m)
    BY DEF Called, PriorUsage, IsLatest
<1>2. \A i \in Turns : i < b => PickedUp(m, i)' = PickedUp(m, i)
    BY DEF PickedUp
<1>3. ASSUME NEW c, Covered(m, c) PROVE Covered(m, c)'
  <2> SUFFICES ASSUME NEW n \in Called(m), n > c
               PROVE  /\ turn'[m][n] # "none"
                      /\ \A k \in Turns : c < k /\ k < n => PickedUp(m, k)'
      BY <1>1 DEF Covered
  <2>1. n <= b /\ n \in Turns
      BY CallsAreNumbers DEF UpTo
  <2>2. turn[m][n] # "none"
      BY <1>3 DEF Covered
  <2>3. ASSUME NEW k \in Turns, c < k, k < n PROVE PickedUp(m, k)'
    <3>1. k < b
        BY <2>1, <2>3, CallsAreNumbers
    <3> QED
        BY <1>2, <1>3, <2>3, <3>1 DEF Covered
  <2> QED
      BY <2>1, <2>2, <2>3
<1>4. ASSUME NEW c \in Nat, c < b, Followed(m, c) PROVE Followed(m, c)'
  <2>1. \A i \in Turns : i <= c => i < b
      BY <1>4, CallsAreNumbers
  <2> QED
      BY <1>1, <1>2, <1>4, <2>1 DEF Followed
<1>5. \A c : UpTo(m, c) => UpTo(m, c)'
    BY <1>1 DEF UpTo
<1> QED
    BY <1>3, <1>4, <1>5

LEMMA AppendIntentCharges ==
    ASSUME ModelTypes, AssistTypes', Rows, Charges, NEW r, NEW m, NEW a, Counting(r, m, a),
           AppendIntent(r)
    PROVE  Charges' /\ Counts(r)'
<1>1. /\ r \in Runners /\ reg[r].msg = m /\ m \in Messages /\ a \in Nat /\ agent[r].calls = a
      /\ CountsFor(r, m, a) /\ UNCHANGED passed
    BY DEF Counting
<1>2. /\ pc[r] = "invoke" /\ UNCHANGED <<action, calls, budgets>>
      /\ \/ Refused(r) /\ UNCHANGED turn
         \/ /\ turn[m][a + 1] = "none" /\ Turned(m, a + 1, "intent")
            /\ pc'[r] = "call" /\ reg'[r] = reg[r] /\ agent'[r].calls = a
    BY <1>1, AppendIntentIs
<1>3. CASE Refused(r) /\ UNCHANGED turn
  <2>1. Charges'
      BY <1>2, <1>3, QuietCounting
  <2>2. pc'[r] \in {"idle", "receive"}
      BY <1>1, <1>3, ModelFacts, RestGoes DEF Goes
  <2> QED
      BY <2>1, <2>2, RestCounts
<1>4. CASE /\ turn[m][a + 1] = "none" /\ Turned(m, a + 1, "intent")
           /\ pc'[r] = "call" /\ reg'[r] = reg[r] /\ agent'[r].calls = a
  <2>1. Clean(m)' => Clean(m)
      BY <1>1, <1>4 DEF Clean, Turned
  <2>2. ASSUME Clean(m) PROVE UpTo(m, a) /\ Followed(m, a)
      BY <1>1, <1>2, <2>2 DEF CountsFor, Looping
  <2>3. ASSUME Clean(m)
        PROVE  /\ \A c : Covered(m, c) => Covered(m, c)'
               /\ UpTo(m, a)' /\ Followed(m, a)'
    <3>1. a + 1 \in Nat /\ a < a + 1 /\ UpTo(m, a + 1)
        BY <1>1, <2>2, <2>3, CallsAreNumbers DEF UpTo
    <3>2. /\ \A i \in Turns : i < a + 1 => turn'[m][i] = turn[m][i] /\ action'[m][i] = action[m][i]
          /\ \A i \in Turns : turn[m][i] # "none" => turn'[m][i] # "none"
        BY <1>1, <1>2, <1>4, CallsAreNumbers DEF Turned
    <3> QED
        BY <1>1, <1>2, <2>2, <2>3, <3>1, <3>2, BehindKeeps
  <2>4. Charges'
    <3>1. \A k \in Messages : k # m => Same(k)
        BY <1>2, <1>4 DEF Same, Called, Turned
    <3>2. ASSUME Clean(m)', NEW c \in Nat, PriorUsage(m).calls <= c PROVE Covered(m, c)'
        BY <1>1, <2>1, <2>3, <3>2 DEF Charges, ChargeOf
    <3> QED
        BY <3>1, <3>2, MineCharges
  <2>5. CountsFor(r, m, a)'
      BY <1>4, <2>1, <2>3 DEF CountsFor
  <2> QED
      BY <1>1, <1>4, <2>4, <2>5, CountsAre
<1> QED
    BY <1>2, <1>3, <1>4

LEMMA ProposeCharges ==
    ASSUME ModelTypes, AssistTypes', CallInv, Rows, Charges, NEW r, NEW m, NEW a,
           Counting(r, m, a), Propose(r)
    PROVE  Charges' /\ Counts(r)'
<1>1. /\ r \in Runners /\ reg[r].msg = m /\ m \in Messages /\ a \in Nat /\ agent[r].calls = a
      /\ CountsFor(r, m, a) /\ UNCHANGED passed /\ Grown(budgets, budgets', m)
    BY DEF Counting
<1>2. /\ pc[r] = "call" /\ UNCHANGED <<turn, action, budgets>>
      /\ pc'[r] = "observe" /\ reg'[r] = reg[r] /\ agent'[r].calls = a + 1 /\ a + 1 \in Turns
      /\ Called(m)' = Called(m) \cup {a + 1}
      /\ \A k \in Messages : k # m => Called(k)' = Called(k)
    BY <1>1, ProposeIs
<1>3. turn[m][a + 1] = "intent"
    BY <1>1, <1>2 DEF CallInv
<1>4. Clean(m)' => Clean(m)
    BY <1>1, <1>2 DEF Clean
<1>5. ASSUME Clean(m) PROVE UpTo(m, a) /\ Followed(m, a)
    BY <1>1, <1>2, <1>5 DEF CountsFor, Looping
<1>6. \A k : PickedUp(m, k)' = PickedUp(m, k)
    BY <1>2 DEF PickedUp
<1>7. PriorUsage(m)' = PriorUsage(m) /\ PriorUsage(m).calls \in Nat
  <2>1. AssistTypes
      BY DEF ModelTypes, StoreInv
  <2>2. PriorUsage(m).calls \in Nat
      BY <1>1, <2>1, UsageGrows
  <2> QED
      BY <1>2, <2>2 DEF PriorUsage, IsLatest
<1>8. Charges'
  <2>1. \A k \in Messages : k # m => Same(k)
      BY <1>2 DEF Same
  <2>2. ASSUME Clean(m)', NEW c \in Nat, PriorUsage(m).calls <= c PROVE Covered(m, c)'
    <3>1. Covered(m, c)
        BY <1>1, <1>4, <2>2 DEF Charges, ChargeOf
    <3>2. ASSUME NEW k \in Turns, c < k, k < a + 1 PROVE PickedUp(m, k)
      <4>1. PriorUsage(m).calls < k /\ k <= a
          BY <1>1, <1>7, <2>2, <3>2, CallsAreNumbers
      <4> QED
          BY <1>4, <1>5, <2>2, <4>1 DEF Followed
    <3> QED
        BY <1>2, <1>3, <1>6, <3>1, <3>2 DEF Covered
  <2> QED
      BY <2>1, <2>2, MineCharges
<1>9. CountsFor(r, m, a + 1)'
  <2>1. (a + 1) - 1 = a
      BY <1>1
  <2>2. Clean(m)' => UpTo(m, a + 1)'
    <3>1. Clean(m)' => \A n \in Called(m) : n <= a + 1
        BY <1>1, <1>4, <1>5, CallsAreNumbers DEF UpTo
    <3>2. a + 1 <= a + 1
        BY <1>1
    <3> QED
        BY <1>2, <3>1, <3>2 DEF UpTo
  <2>3. Clean(m)' => Followed(m, a)'
      BY <1>4, <1>5, <1>6, <1>7 DEF Followed
  <2> QED
      BY <1>2, <1>3, <2>1, <2>2, <2>3 DEF CountsFor
<1> QED
    BY <1>1, <1>2, <1>8, <1>9, CountsAre

LEMMA AppendObservationCharges ==
    ASSUME ModelTypes, AssistTypes', Rows, Charges, NEW r, NEW m, NEW a, Counting(r, m, a),
           AppendObservation(r)
    PROVE  Charges' /\ Counts(r)'
<1>1. /\ r \in Runners /\ reg[r].msg = m /\ m \in Messages /\ a \in Nat /\ agent[r].calls = a
      /\ CountsFor(r, m, a) /\ UNCHANGED passed
    BY DEF Counting
<1>2. /\ pc[r] = "observe" /\ UNCHANGED <<action, calls, budgets>>
      /\ reg'[r] = reg[r] /\ agent'[r].calls = a
    BY <1>1, AppendObservationIs
<1>3. PICK out \in Observed :
        /\ Turned(m, a, out)
        /\ \/ out = "retryable" /\ pc'[r] = "turn"
           \/ out = "completed" /\ pc'[r] = "act"
           \/ pc'[r] = "finish"
    BY <1>1, AppendObservationIs
<1>4. turn[m][a] = "intent" /\ a \in Turns /\ a - 1 \in Nat /\ a - 1 < a
    BY <1>1, <1>2, <1>3, CallsAreNumbers DEF CountsFor, Turned, Turns
<1>5. Clean(m)' => Clean(m) /\ out # "retryable"
    BY <1>1, <1>3, <1>4 DEF Clean, Turned
<1>6. ASSUME Clean(m)
      PROVE  /\ \A c : Covered(m, c) => Covered(m, c)'
             /\ UpTo(m, a)' /\ Followed(m, a - 1)'
  <2>1. UpTo(m, a) /\ Followed(m, a - 1)
      BY <1>1, <1>2, <1>6 DEF CountsFor, Looping
  <2>2. /\ \A i \in Turns : i < a => turn'[m][i] = turn[m][i] /\ action'[m][i] = action[m][i]
        /\ \A i \in Turns : turn[m][i] # "none" => turn'[m][i] # "none"
      BY <1>1, <1>2, <1>3, CallsAreNumbers DEF Turned, Observed
  <2> QED
      BY <1>1, <1>2, <1>4, <2>1, <2>2, BehindKeeps
<1>7. Charges'
  <2>1. \A k \in Messages : k # m => Same(k)
      BY <1>2, <1>3 DEF Same, Called, Turned
  <2>2. ASSUME Clean(m)', NEW c \in Nat, PriorUsage(m).calls <= c PROVE Covered(m, c)'
      BY <1>1, <1>5, <1>6, <2>2 DEF Charges, ChargeOf
  <2> QED
      BY <2>1, <2>2, MineCharges
<1>8. CASE out = "retryable" /\ pc'[r] = "turn"
    BY <1>1, <1>2, <1>5, <1>7, <1>8, TurnCounts
<1>9. CASE out = "completed" /\ pc'[r] = "act"
  <2>1. CountsFor(r, m, a)'
      BY <1>3, <1>5, <1>6, <1>9 DEF CountsFor, Turned
  <2> QED
      BY <1>1, <1>2, <1>7, <2>1, CountsAre
<1>10. CASE pc'[r] = "finish"
  <2>1. Fresh(m)' => UpTo(m, a)'
      BY <1>5, <1>6 DEF Fresh
  <2> QED
      BY <1>1, <1>2, <1>7, <1>10, <2>1, FinishCountsOn
<1> QED
    BY <1>3, <1>8, <1>9, <1>10

LEMMA AppendActionCharges ==
    ASSUME ModelTypes, AssistTypes', Rows, Charges, NEW r, NEW m, NEW a, Counting(r, m, a),
           AppendAction(r)
    PROVE  Charges' /\ Counts(r)'
<1>1. /\ r \in Runners /\ reg[r].msg = m /\ m \in Messages /\ a \in Nat /\ agent[r].calls = a
      /\ CountsFor(r, m, a) /\ UNCHANGED passed
    BY DEF Counting
<1>2. /\ pc[r] = "act" /\ UNCHANGED <<turn, calls, budgets>>
      /\ reg'[r] = reg[r] /\ agent'[r].calls = a
      /\ \A k \in Messages, i \in Turns : k # m \/ i # a => action'[k][i] = action[k][i]
      /\ \/ pc'[r] = "checkpoint" /\ action'[m][a][1] = "read"
         \/ pc'[r] = "finish"
    BY <1>1, AppendActionIs
<1>3. a \in Turns /\ a - 1 \in Nat /\ a - 1 < a
    BY <1>1, <1>2, ModelFacts DEF InHand, Turns
<1>4. Clean(m)' => Clean(m)
    BY <1>1, <1>2 DEF Clean
<1>5. ASSUME Clean(m)
      PROVE  /\ \A c : Covered(m, c) => Covered(m, c)'
             /\ UpTo(m, a)' /\ Followed(m, a - 1)' /\ turn'[m][a] = "completed"
  <2>1. UpTo(m, a) /\ Followed(m, a - 1) /\ turn[m][a] = "completed"
      BY <1>1, <1>2, <1>5 DEF CountsFor, Looping
  <2>2. /\ \A i \in Turns : i < a => turn'[m][i] = turn[m][i] /\ action'[m][i] = action[m][i]
        /\ \A i \in Turns : turn[m][i] # "none" => turn'[m][i] # "none"
      BY <1>1, <1>2, CallsAreNumbers
  <2> QED
      BY <1>1, <1>2, <1>3, <2>1, <2>2, BehindKeeps
<1>6. Charges'
  <2>1. \A k \in Messages : k # m => Same(k)
      BY <1>2 DEF Same, Called
  <2>2. ASSUME Clean(m)', NEW c \in Nat, PriorUsage(m).calls <= c PROVE Covered(m, c)'
      BY <1>1, <1>4, <1>5, <2>2 DEF Charges, ChargeOf
  <2> QED
      BY <2>1, <2>2, MineCharges
<1>7. CASE pc'[r] = "checkpoint" /\ action'[m][a][1] = "read"
  <2>1. ASSUME Clean(m)' PROVE Followed(m, a)'
    <3>1. PickedUp(m, a)'
        BY <1>4, <1>5, <1>7, <2>1 DEF PickedUp
    <3>2. \A k \in Turns : k <= a => k <= a - 1 \/ k = a
        BY <1>1, CallsAreNumbers
    <3> QED
        BY <1>4, <1>5, <2>1, <3>1, <3>2 DEF Followed
  <2>2. CountsFor(r, m, a)'
      BY <1>4, <1>5, <1>7, <2>1 DEF CountsFor
  <2> QED
      BY <1>1, <1>2, <1>6, <2>2, CountsAre
<1>8. CASE pc'[r] = "finish"
  <2>1. Fresh(m)' => UpTo(m, a)'
      BY <1>4, <1>5 DEF Fresh
  <2> QED
      BY <1>1, <1>2, <1>6, <1>8, <2>1, FinishCountsOn
<1> QED
    BY <1>2, <1>7, <1>8

LEMMA ToolCharges ==
    ASSUME ModelTypes, AssistTypes', Rows, Charges, NEW r, NEW m, NEW a, Counting(r, m, a),
           Checkpoint(r) \/ ReadTool(r) \/ Finish(r)
    PROVE  Charges' /\ Counts(r)'
<1>1. /\ r \in Runners /\ reg[r].msg = m /\ m \in Messages /\ a \in Nat /\ agent[r].calls = a
      /\ CountsFor(r, m, a) /\ Grown(budgets, budgets', m) /\ AssistTypes
    BY DEF Counting, ModelTypes, StoreInv
<1>2. /\ UNCHANGED <<turn, calls, action>> /\ reg'[r] = reg[r] /\ agent'[r].calls = a
      /\ \/ /\ pc[r] = "checkpoint" /\ pc'[r] = "tool" /\ a \in Turns
            /\ Snapshot(m, 2 * a, agent[r])
         \/ pc[r] = "tool" /\ pc'[r] \in {"turn", "finish"} /\ UNCHANGED budgets
         \/ /\ pc[r] = "finish" /\ pc'[r] \in {"candidate", "outcome"}
            /\ Snapshot(m, 2 * a + 2, agent[r])
    BY <1>1, ToolIs
<1>3. Charges'
    BY <1>2, QuietCounting
<1>4. ASSUME pc[r] \in {"checkpoint", "tool"}, Clean(m)'
      PROVE  UpTo(m, a)' /\ Followed(m, a)' /\ action'[m][a][1] = "read"
    BY <1>1, <1>2, <1>4, QuietCounting DEF CountsFor, Looping
<1>5. CASE pc[r] = "checkpoint" /\ pc'[r] = "tool"
  <2>1. CountsFor(r, m, a)'
      BY <1>4, <1>5 DEF CountsFor
  <2> QED
      BY <1>1, <1>2, <1>3, <2>1, CountsAre
<1>6. CASE pc[r] = "tool" /\ pc'[r] = "turn"
  <2>1. Clean(m)' => Covered(m, a)' /\ Followed(m, a)'
    <3>1. UpTo(m, a)' => Covered(m, a)'
        BY <1>1, <1>2, CallsAreNumbers DEF UpTo, Covered, Called
    <3> QED
        BY <1>4, <1>6, <3>1
  <2> QED
      BY <1>1, <1>2, <1>3, <1>6, <2>1, TurnCounts
<1>7. CASE pc[r] = "tool" /\ pc'[r] = "finish"
  <2>1. Fresh(m)' => UpTo(m, a)'
      BY <1>4, <1>7 DEF Fresh
  <2> QED
      BY <1>1, <1>2, <1>3, <1>7, <2>1, FinishCountsOn
<1>8. CASE /\ pc[r] = "finish" /\ pc'[r] \in {"candidate", "outcome"}
           /\ Snapshot(m, 2 * a + 2, agent[r])
  <2>1. a <= LatestBudget(m)'.calls /\ LatestBudget(m)'.calls \in Nat
    <3>1. a <= LatestFor(budgets', m).calls
        BY <1>1, <1>8, FinishCounts DEF Grown
    <3> QED
        BY <1>1, <3>1, UsageIn, UsageGrows
  <2>2. Fresh(m)' => Counted(m)'
    <3>1. Fresh(m)' => UpTo(m, a) /\ Called(m)' = Called(m)
        BY <1>1, <1>2, <1>8, QuietCounting DEF CountsFor, Looping
    <3>2. ASSUME NEW n \in Called(m), n <= a PROVE n <= LatestBudget(m)'.calls
        BY <1>1, <2>1, <3>2, CallsAreNumbers, AtMostStays
    <3> QED
        BY <3>1, <3>2 DEF UpTo, Counted
  <2>3. CountsFor(r, m, a)'
      BY <1>8, <2>2 DEF CountsFor, Looping
  <2> QED
      BY <1>1, <1>2, <1>3, <2>3, CountsAre
<1> QED
    BY <1>2, <1>5, <1>6, <1>7, <1>8

-----------------------------------------------------------------------------
(* Charges: the steps around the agent.                                    *)

(* Nobody becomes settled whose outcome and binding are not new, as what   *)
(* moved the Case stays on record.                                         *)
LEMMA MovesKept ==
    ASSUME ModelTypes, Requests,
           movedBy' = movedBy \/ \E u : movedBy' = [movedBy EXCEPT ![case.version + 1] = u],
           NEW k \in Messages, NEW v \in Candidates, movedBy[v] = k
    PROVE  movedBy'[v] = k
<1>1. k # 0 /\ case.version \in Nat /\ movedBy \in [Candidates -> Sources]
    BY DEF Messages, ModelTypes, StoreInv, StoreTypes
<1>2. v # case.version + 1
    BY <1>1, HandlerAssumption DEF Requests, Candidates
<1> QED
    BY <1>1, <1>2

LEMMA SettledKept ==
    ASSUME ModelTypes, Requests, NEW k \in Messages,
           movedBy' = movedBy \/ \E u : movedBy' = [movedBy EXCEPT ![case.version + 1] = u],
           \A v \in Candidates : bound'[v].life = "CURRENT" /\ bound'[v].assist = k =>
              bound[v].life = "CURRENT" /\ bound[v].assist = k,
           assist'[k].outcome # "none" =>
              assist'[k].outcome = assist[k].outcome /\ assist'[k].version = assist[k].version
    PROVE  Settled(k)' => Settled(k)
<1>1. \A v \in Candidates : movedBy[v] = k => movedBy'[v] = k
    BY MovesKept
<1>2. assist'[k].outcome # "none" /\ Once(k)' => Once(k)
    BY <1>1 DEF Once
<1> QED
    BY <1>2 DEF Settled

LEMMA QuietCharges ==
    ASSUME ModelTypes, AssistTypes', Rows, Charges, UNCHANGED <<turn, action, calls, budgets>>,
           passed \subseteq passed',
           \A k \in Messages : Clean(k) /\ Settled(k)' => Settled(k) \/ Counted(k)
    PROVE  /\ Charges'
           /\ \A k \in Messages : /\ Clean(k)' => Clean(k)
                                  /\ Counted(k) => Counted(k)'
                                  /\ Called(k)' = Called(k)
<1>1. AssistTypes /\ budgets \in Seq(Used) /\ RowsOf(budgets) /\ budgets' = budgets
    BY DEF ModelTypes, StoreInv, AssistTypes, Rows
<1>2. ASSUME NEW k \in Messages
      PROVE  ChargeOf(k)' /\ (Clean(k)' => Clean(k)) /\ (Counted(k) => Counted(k)')
  <2>1. Grown(budgets, budgets', k)
      BY <1>1, NotGrown
  <2>2. Same(k) /\ ChargeOf(k)
      BY UnchangedSame DEF Charges
  <2>3. ChargeOf(k)'
      BY <1>1, <2>1, <2>2, SameCharge
  <2>4. (Clean(k)' => Clean(k)) /\ (Counted(k) => Counted(k)')
      BY <1>1, <2>1, <2>2, SameKeeps
  <2> QED
      BY <2>3, <2>4
<1> QED
    BY <1>2 DEF Charges, Called

(* What a runner has to have counted when it has a response to an assist   *)
(* in hand, and where it need not have counted anything.                   *)
LEMMA ToldCounts ==
    ASSUME NEW r, NEW m, pc'[r] \in {"respond", "intent", "record"}, reg'[r].msg = m,
           reg'[r].kind = "draft-preview" /\ IsAssist(m)' /\ assist'[m].outcome = "none" /\ Clean(m)'
              => Counted(m)'
    PROVE  Counts(r)'
<1>1. \A c : CountsFor(r, m, c)'
    BY DEF CountsFor, Looping
<1> QED
    BY <1>1 DEF Counts

LEMMA OffCounts ==
    ASSUME NEW r, pc'[r] \notin Looping \cup {"stop", "finish", "candidate", "outcome", "respond",
                                              "intent", "record"}
    PROVE  Counts(r)'
BY DEF Counts, CountsFor, Looping

LEMMA AgentCharges ==
    ASSUME ModelTypes, AssistTypes', CallInv, Rows, Charges, NEW r \in Runners, Tells(r),
           Pursues(r), CountsOn(r), Counts(r), AgentStep(r)
    PROVE  Charges' /\ Counts(r)'
<1> USE ModelFacts
<1>1. /\ UNCHANGED <<case, movedBy, inbox, passed, assist, bound>>
      /\ pc[r] \in Running /\ pc[r] \in Assisting
    BY AgentIdle DEF Assisting
<1>2. PICK m \in Messages : reg[r].msg = m
    BY <1>1, HandFacts
<1>3. PICK a \in Nat : agent[r].calls = a
    BY DEF Agents
<1>4. CountsFor(r, m, a)
    BY <1>2, <1>3 DEF Counts
<1>5. ~Settled(m)
  <2>1. assist[m].outcome = "none"
      BY <1>1, <1>2 DEF Tells
  <2>2. \A v \in Candidates : bound[v].life = "CURRENT" => bound[v].assist # m
      BY <1>1, <1>2 DEF Pursues
  <2> QED
      BY <2>1, <2>2 DEF Settled
<1>6. pc[r] \in Looping \cup {"finish"} => PriorUsage(m).calls <= a
    BY <1>2, <1>3 DEF CountsOn
<1>7. Grown(budgets, budgets', m)
    BY <1>2, AgentRows
<1>8. Counting(r, m, a)
    BY <1>1, <1>2, <1>3, <1>4, <1>5, <1>6, <1>7 DEF Counting
<1>9. CASE StartAssist(r) \/ RunTurn(r)
    BY <1>8, <1>9, StartAssistCharges, RunTurnCharges
<1>10. CASE AppendIntent(r) \/ Propose(r)
    BY <1>8, <1>10, AppendIntentCharges, ProposeCharges
<1>11. CASE AppendObservation(r) \/ AppendAction(r)
    BY <1>8, <1>11, AppendObservationCharges, AppendActionCharges
<1>12. CASE Checkpoint(r) \/ ReadTool(r) \/ Finish(r)
    BY <1>8, <1>12, ToolCharges
<1> QED
    BY <1>9, <1>10, <1>11, <1>12 DEF AgentStep

LEMMA CreateAssistRequestCharges ==
    ASSUME ModelTypes, AssistTypes', Requests, Rows, Charges, NEW r \in Runners,
           CreateAssistRequest(r)
    PROVE  Charges' /\ Counts(r)'
<1> USE ModelFacts
<1> DEFINE m == reg[r].msg
<1>1. /\ UNCHANGED <<turn, action, calls, budgets, passed, movedBy, bound>>
      /\ \/ Goto(r, "resume", reg[r]) /\ UNCHANGED assist
         \/ /\ assist[m] = NoAssist /\ assist' = [assist EXCEPT ![m].version = inbox[m].version]
            /\ Goto(r, "context", reg[r])
         \/ Refused(r) /\ UNCHANGED assist
    BY DEF CreateAssistRequest, envVars
<1>2. ASSUME NEW k \in Messages, assist'[k].outcome # "none" PROVE assist'[k] = assist[k]
  <2>1. assist \in [Messages -> [version : Nat, context : BOOLEAN, outcome : Outcomes]]
      BY DEF AssistTypes
  <2>2. CASE UNCHANGED assist
      BY <2>2
  <2>3. CASE assist[m] = NoAssist /\ assist' = [assist EXCEPT ![m].version = inbox[m].version]
    <3>1. k # m => assist'[k] = assist[k]
        BY <2>1, <2>3
    <3>2. k = m => assist'[k].outcome = "none"
        BY <2>1, <2>3 DEF NoAssist
    <3> QED
        BY <1>2, <3>1, <3>2
  <2> QED
      BY <1>1, <2>2, <2>3
<1>3. \A k \in Messages : Settled(k)' => Settled(k)
    BY <1>1, <1>2, SettledKept
<1>4. Charges'
    BY <1>1, <1>3, QuietCharges
<1>5. pc'[r] \in {"resume", "context", "idle", "receive"}
    BY <1>1, GotoGoes, RestGoes DEF Goes
<1> QED
    BY <1>4, <1>5, OffCounts DEF Looping

LEMMA RecoverPersistedAssistCharges ==
    ASSUME ModelTypes, AssistTypes', Requests, Rows, Charges, NEW r \in Runners,
           RecoverPersistedAssist(r)
    PROVE  Charges' /\ Counts(r)'
<1> USE ModelFacts
<1> DEFINE m    == reg[r].msg
           v    == CandidateOf(m)
           body == [NoBody EXCEPT !.version = case.version, !.candidate = v]
           regs == [reg[r] EXCEPT !.body = body]
<1>1. /\ pc[r] = "resume" /\ pc[r] \in Assisting
      /\ UNCHANGED <<turn, action, calls, budgets, passed, movedBy, assist, bound>>
    BY DEF RecoverPersistedAssist, envVars, assistVars, Assisting, Preparing
<1>2. \A k \in Messages : Settled(k)' => Settled(k)
    BY <1>1, UnchangedSettled
<1>3. Charges' /\ \A k \in Messages : (Clean(k)' => Clean(k)) /\ (Counted(k) => Counted(k)')
    BY <1>1, <1>2, QuietCharges
<1>4. m \in Messages
    BY <1>1, HandFacts
<1>5. \/ Refused(r) \/ Goto(r, "context", reg[r])
      \/ Goto(r, "intent", regs) /\ (assist[m].outcome # "none" \/ v # 0)
    BY DEF RecoverPersistedAssist, Reading
<1>6. CASE Refused(r) \/ Goto(r, "context", reg[r])
  <2>1. pc'[r] \in {"context", "idle", "receive"}
      BY <1>6, GotoGoes, RestGoes DEF Goes
  <2> QED
      BY <1>3, <2>1, OffCounts DEF Looping
<1>7. CASE Goto(r, "intent", regs) /\ (assist[m].outcome # "none" \/ v # 0)
  <2>1. regs.msg = m
      BY DEF Registers
  <2>2. v # 0 => Settled(m)
    <3>1. v # 0 => CurrentBinding # 0 /\ bound[CurrentBinding].assist = m
        BY DEF CandidateOf
    <3>2. CurrentBinding # 0 => CurrentBinding \in Candidates /\ bound[CurrentBinding].life = "CURRENT"
        BY CurrentIsLive
    <3> QED
        BY <3>1, <3>2 DEF Settled
  <2>3. Clean(m) /\ v # 0 => Counted(m)
      BY <1>4, <2>2 DEF Charges, ChargeOf
  <2>4. pc'[r] = "intent" /\ reg'[r].msg = m
      BY <1>7, <2>1, GotoGoes
  <2> HIDE DEF regs, body, v
  <2>5. PICK k \in Messages : k = m
      BY <1>4
  <2>6. assist'[k].outcome = "none" /\ Clean(k)' => Counted(k)'
      BY <1>1, <1>3, <1>7, <2>3, <2>5
  <2>7. Counts(r)'
      BY <2>4, <2>5, <2>6, ToldCounts
  <2> QED
      BY <1>3, <2>7
<1> QED
    BY <1>5, <1>6, <1>7

LEMMA ContextCharges ==
    ASSUME ModelTypes, AssistTypes', Requests, Rows, Charges, NEW r \in Runners, Tells(r),
           CompileContext(r) \/ RecordContext(r)
    PROVE  Charges' /\ Counts(r)'
<1> USE ModelFacts
<1> DEFINE m == reg[r].msg
<1>1. /\ pc[r] \in Running /\ pc[r] \in Assisting
      /\ UNCHANGED <<turn, action, calls, budgets, passed, movedBy, bound>>
      /\ \/ /\ Goto(r, "stop", reg[r]) /\ UNCHANGED <<case, assist>>
            /\ <<"issue", 0>> \in passed \/ artifact[0] # "reachable"
         \/ /\ Goto(r, "start", reg[r]) \/ Goto(r, "compile", reg[r])
            /\ UNCHANGED assist \/ assist' = [assist EXCEPT ![m].context = TRUE]
    BY DEF CompileContext, RecordContext, envVars, assistVars, Assisting, Running
<1>2. PICK x \in Messages : reg[r].msg = x
    BY <1>1, HandFacts
<1>3. \A k \in Messages : /\ assist'[k].outcome = assist[k].outcome
                          /\ assist'[k].version = assist[k].version
  <2>1. assist \in [Messages -> [version : Nat, context : BOOLEAN, outcome : Outcomes]]
      BY DEF AssistTypes
  <2> QED
      BY <1>1, <2>1
<1>4. \A k \in Messages : Settled(k)' => Settled(k)
    BY <1>1, <1>3, SettledKept
<1>5. /\ Charges'
      /\ \A k \in Messages : (Clean(k)' => Clean(k)) /\ Called(k)' = Called(k)
    BY <1>1, <1>4, QuietCharges
<1>6. CASE Goto(r, "start", reg[r]) \/ Goto(r, "compile", reg[r])
  <2>1. pc'[r] \in {"start", "compile"}
      BY <1>6, GotoGoes
  <2> QED
      BY <1>5, <2>1, OffCounts DEF Looping
<1>7. CASE /\ Goto(r, "stop", reg[r]) /\ UNCHANGED <<case, assist>>
           /\ <<"issue", 0>> \in passed \/ artifact[0] # "reachable"
  <2>1. pc'[r] = "stop" /\ reg'[r].msg = x
      BY <1>2, <1>7, GotoGoes
  <2>2. Fresh(x)' => Called(x)' = {}
    <3>1. Fresh(x)' => assist[x].version = case.version /\ Clean(x)
        BY <1>5, <1>7 DEF Fresh
    <3>2. assist[x].outcome = "none"
        BY <1>1, <1>2 DEF Tells
    <3>3. Clean(x) => artifact[0] # "reachable" /\ <<"issue", 0>> \notin passed
        BY <1>7 DEF Clean
    <3>4. Fresh(x)' => ~assist[x].context
        BY <3>1, <3>2, <3>3 DEF Requests
    <3> QED
        BY <1>5, <3>4 DEF Requests
  <2>3. \A c : CountsFor(r, x, c)'
      BY <2>1, <2>2 DEF CountsFor, Looping
  <2>4. Counts(r)'
      BY <2>1, <2>3 DEF Counts
  <2> QED
      BY <1>5, <2>4
<1> QED
    BY <1>1, <1>6, <1>7

LEMMA CreateModelCandidateCharges ==
    ASSUME ModelTypes, AssistTypes', Requests, Rows, Charges, NEW r \in Runners, Counts(r),
           CreateModelCandidate(r)
    PROVE  Charges' /\ Counts(r)'
<1> USE ModelFacts
<1> DEFINE m    == reg[r].msg
           v    == case.version + 1
           used == Usage(m, 2 * agent[r].calls + 2, agent[r])
           regs == [reg[r] EXCEPT !.body.candidate = v]
<1>1. /\ pc[r] = "candidate" /\ pc[r] \in Assisting
      /\ UNCHANGED <<turn, action, calls, budgets, passed, assist>>
    BY DEF CreateModelCandidate, envVars, assistVars, Assisting, Running
<1>2. PICK x \in Messages : reg[r].msg = x
    BY <1>1, HandFacts
<1>3. Fresh(x) => Counted(x)
  <2>1. PICK a \in Nat : agent[r].calls = a
      BY DEF Agents
  <2>2. CountsFor(r, x, a)
      BY <1>2, <2>1 DEF Counts
  <2> QED
      BY <1>1, <2>2 DEF CountsFor
<1>4. CASE Refused(r) /\ UNCHANGED <<case, artifact, movedBy, bound>>
  <2>1. Charges'
      BY <1>1, <1>4, UnchangedSettled, QuietCharges
  <2>2. pc'[r] \in {"idle", "receive"}
      BY <1>4, RestGoes DEF Goes
  <2> QED
      BY <2>1, <2>2, RestCounts
<1>5. CASE /\ Authorized(assist[m].version) /\ case.version < MaxVersion
           /\ movedBy' = [movedBy EXCEPT ![v] = m]
           /\ bound' = [Replaced EXCEPT ![v] = [assist |-> m, budget |-> used, life |-> "CURRENT"]]
           /\ Goto(r, "respond", regs)
  <2>1. Clean(x) => Counted(x)
      BY <1>2, <1>3, <1>5 DEF Authorized, Fresh
  <2>2. ASSUME NEW k \in Messages, k # x PROVE Settled(k)' => Settled(k)
    <3>1. ASSUME NEW u \in Candidates, bound'[u].life = "CURRENT", bound'[u].assist = k PROVE FALSE
      <4>1. Replaced \in [Candidates -> [assist : Sources, budget : Used, life : Lives]]
          BY ReplacedType
      <4>2. CASE u = v
          BY <1>2, <1>5, <2>2, <3>1, <4>1, <4>2
      <4>3. CASE u # v
        <5>1. bound'[u] = Replaced[u]
            BY <1>5, <4>1, <4>3
        <5> QED
            BY <3>1, <5>1, NoneCurrent
      <4> QED
          BY <4>2, <4>3
    <3> QED
        BY <1>1, <1>5, <3>1, SettledKept
  <2>3. /\ Charges'
        /\ \A k \in Messages : (Clean(k)' => Clean(k)) /\ (Counted(k) => Counted(k)')
      BY <1>1, <2>1, <2>2, QuietCharges
  <2>4. regs.msg = x
      BY <1>2 DEF Registers
  <2>5. pc'[r] = "respond" /\ reg'[r].msg = x
      BY <1>5, <2>4, GotoGoes
  <2>6. Clean(x)' => Counted(x)'
      BY <2>1, <2>3
  <2>7. Counts(r)'
      BY <2>5, <2>6, ToldCounts
  <2> QED
      BY <2>3, <2>7
<1> QED
    BY <1>4, <1>5 DEF CreateModelCandidate

LEMMA CreateStoppedOutcomeCharges ==
    ASSUME ModelTypes, AssistTypes', Requests, Rows, Charges, NEW r \in Runners, Tells(r), Counts(r),
           CreateStoppedOutcome(r)
    PROVE  Charges' /\ Counts(r)'
<1> USE ModelFacts
<1> DEFINE m == reg[r].msg
           v == case.version + 1
<1>1. /\ pc[r] = "outcome" /\ pc[r] \in Running /\ pc[r] \in Assisting
      /\ UNCHANGED <<turn, action, calls, budgets, passed, bound>> /\ Goto(r, "respond", reg[r])
    BY DEF CreateStoppedOutcome, envVars, Assisting, Running
<1>2. PICK x \in Messages : reg[r].msg = x
    BY <1>1, HandFacts
<1>3. Fresh(x) => Counted(x)
  <2>1. PICK a \in Nat : agent[r].calls = a
      BY DEF Agents
  <2>2. CountsFor(r, x, a)
      BY <1>2, <2>1 DEF Counts
  <2> QED
      BY <1>1, <2>2 DEF CountsFor
<1>4. /\ assist' = [assist EXCEPT ![x].outcome = "stopped"]
      /\ case.version < MaxVersion /\ movedBy' = [movedBy EXCEPT ![v] = x]
    BY <1>1, <1>2 DEF CreateStoppedOutcome, Tells
<1>5. assist \in [Messages -> [version : Nat, context : BOOLEAN, outcome : Outcomes]]
      /\ case.version \in Nat
    BY DEF AssistTypes, StoreTypes
<1>6. ASSUME NEW k \in Messages, k # x PROVE Settled(k)' => Settled(k)
  <2>1. assist'[k] = assist[k]
      BY <1>4, <1>5, <1>6
  <2> QED
      BY <1>1, <1>4, <2>1, SettledKept
<1>7. Settled(x)' => Settled(x) \/ assist[x].version = case.version
  <2>1. ASSUME Once(x)' PROVE assist[x].version = case.version
    <3>1. v \in Candidates /\ movedBy'[v] = x
      <4>1. v \in Candidates
          BY <1>1, <1>4, <1>5, HandFacts, HandlerAssumption DEF Candidates
      <4> QED
          BY <1>4, <4>1 DEF StoreTypes
    <3>2. v = assist'[x].version + 1 /\ assist'[x].version = assist[x].version
        BY <1>4, <1>5, <2>1, <3>1 DEF Once
    <3>3. assist[x].version \in Nat
        BY <1>5
    <3> QED
        BY <1>5, <3>2, <3>3
  <2> QED
      BY <1>1, <2>1 DEF Settled
<1>8. \A k \in Messages : Clean(k) /\ Settled(k)' => Settled(k) \/ Counted(k)
    BY <1>3, <1>6, <1>7 DEF Fresh
<1>9. Charges'
    BY <1>1, <1>8, QuietCharges
<1>10. pc'[r] = "respond" /\ reg'[r].msg = x /\ assist'[x].outcome # "none"
    BY <1>1, <1>2, <1>4, <1>5, GotoGoes
<1> QED
    BY <1>9, <1>10, ToldCounts

LEMMA CreateReadyOutcomeCharges ==
    ASSUME ModelTypes, AssistTypes', Requests, Rows, Charges, NEW r \in Runners, Counts(r),
           CreateReadyOutcome(r)
    PROVE  Charges' /\ Counts(r)'
<1> USE ModelFacts
<1>1. /\ pc[r] = "record" /\ pc' = pc /\ reg' = reg
      /\ UNCHANGED <<movedBy, turn, action, calls, budgets, passed, bound>>
      /\ assist' = [assist EXCEPT ![reg[r].msg].outcome = "response_ready"]
    BY DEF CreateReadyOutcome, handlerVars, caseVars, envVars
<1>2. PICK x \in Messages : /\ reg[r].msg = x /\ IsAssist(x) /\ reg[r].kind = "draft-preview"
                            /\ assist[x].outcome = "none"
    BY <1>1, InboxIn DEF InHand, CreateReadyOutcome, Unsettled, IsAssist, Telling
<1>3. Clean(x) => Counted(x)
  <2>1. PICK a \in Nat : agent[r].calls = a
      BY DEF Agents
  <2>2. CountsFor(r, x, a)
      BY <1>2, <2>1 DEF Counts
  <2> QED
      BY <1>1, <1>2, <2>2 DEF CountsFor
<1>4. assist \in [Messages -> [version : Nat, context : BOOLEAN, outcome : Outcomes]]
    BY DEF AssistTypes
<1>5. ASSUME NEW k \in Messages, k # x PROVE Settled(k)' => Settled(k)
  <2>1. assist'[k] = assist[k]
      BY <1>1, <1>2, <1>4, <1>5
  <2> QED
      BY <1>1, <2>1, SettledKept
<1>6. Charges'
    BY <1>1, <1>3, <1>5, QuietCharges
<1>7. pc'[r] = "record" /\ reg'[r].msg = x /\ assist'[x].outcome # "none"
    BY <1>1, <1>2, <1>4
<1> QED
    BY <1>6, <1>7, ToldCounts

(* A response to an assist that the handler's steps have in hand was so    *)
(* before.                                                                 *)
LEMMA HandlerTold ==
    ASSUME ModelTypes, NEW r \in Runners,
           HandlerStep(r) \/ \E m \in PrivateMessages : ReceiveAssist(r, m),
           pc'[r] \in {"respond", "intent", "record"}, reg'[r].kind = "draft-preview",
           IsAssist(reg'[r].msg)
    PROVE  pc[r] \in {"respond", "intent"} /\ reg'[r].msg = reg[r].msg /\ reg[r].kind = "draft-preview"
<1> USE ModelFacts
<1>1. ~(Refused(r) \/ Await(r) \/ Leave(r) \/ Answered(r))
  <2>1. RunnerTypes
      OBVIOUS
  <2>2. ASSUME Refused(r) \/ Await(r) \/ Leave(r) \/ Answered(r) PROVE pc'[r] \in {"idle", "receive"}
      BY <2>1, <2>2, RestGoes DEF Goes
  <2> QED
      BY <2>2
<1>2. ASSUME NEW label, NEW regs, Goto(r, label, regs) PROVE pc'[r] = label /\ reg'[r] = regs
    BY <1>2, GotoGoes
<1>3. ASSUME NEW status, AfterNotice(r, status) PROVE FALSE
  <2> DEFINE regs == [reg[r] EXCEPT !.kind = "group-nudge", !.out = "none"]
  <2>1. regs.kind = "group-nudge"
      BY DEF Registers
  <2>2. Goto(r, "intent", regs)
      BY <1>1, <1>3 DEF AfterNotice
  <2> HIDE DEF regs
  <2> QED
      BY <1>2, <2>1, <2>2
<1>4. ASSUME NEW label \in {"intake", "notify", "attempt", "notifying", "noting", "apply", "request",
                            "approve", "final", "execute", "send", "result", "delete", "receive"},
             NEW regs, Goto(r, label, regs)
      PROVE  FALSE
  <2>1. pc'[r] = label
      BY <1>2, <1>4
  <2> QED
      BY <2>1
<1>5. CASE StartRun(r) \/ CreateIssueArtifact(r) \/ CreateNotificationIntent(r) \/ StartAttempt(r)
             \/ NotifyC2c(r) \/ RecordNotification(r)
  <2>1. CASE StartRun(r) \/ CreateIssueArtifact(r) \/ CreateNotificationIntent(r) \/ NotifyC2c(r)
      BY <1>4, <2>1 DEF StartRun, CreateIssueArtifact, CreateNotificationIntent, NotifyC2c
  <2>2. CASE StartAttempt(r)
      BY <1>1, <1>3, <1>4, <2>2 DEF StartAttempt
  <2>3. CASE RecordNotification(r)
      BY <1>3, <2>3 DEF RecordNotification
  <2> QED
      BY <1>5, <2>1, <2>2, <2>3
<1>6. CASE TransitionSimpleCommand(r)
  <2> DEFINE cmd  == inbox[reg[r].msg].cmd
             regs == [reg[r] EXCEPT !.kind = cmd]
  <2>1. cmd \in {"pull", "accept", "reject"} /\ Goto(r, "respond", regs)
      BY <1>1, <1>6 DEF TransitionSimpleCommand
  <2>2. regs.kind = cmd
      BY DEF Registers
  <2> HIDE DEF regs
  <2> QED
      BY <1>2, <2>1, <2>2
<1>7. CASE DraftCandidate(r)
  <2> DEFINE regs == [reg[r] EXCEPT !.kind = "draft-preview", !.body.candidate = case.version + 1]
  <2>1. inbox[reg[r].msg].cmd = "draft" /\ Goto(r, "respond", regs)
      BY <1>1, <1>7 DEF DraftCandidate, CreateCandidateAndRequest
  <2>2. regs.msg = reg[r].msg
      BY DEF Registers
  <2> HIDE DEF regs
  <2> QED
      BY <1>2, <2>1, <2>2 DEF IsAssist
<1>8. CASE Respond(r)
  <2> DEFINE body == ResponseBody(reg[r].kind, reg[r].body.candidate)
             regs == [reg[r] EXCEPT !.body = body]
  <2>1. regs.kind = reg[r].kind /\ regs.msg = reg[r].msg
      BY DEF Registers
  <2>2. pc[r] = "respond" /\ Goto(r, "intent", regs)
      BY <1>1, <1>8 DEF Respond, Reading
  <2> HIDE DEF regs
  <2> QED
      BY <1>2, <2>1, <2>2
<1>9. CASE RecordCommandOnce(r)
    BY <1>1, <1>4, <1>9 DEF RecordCommandOnce, Reading
<1>10. CASE FinalDeliveryIntent(r)
  <2> DEFINE regs == [reg[r] EXCEPT !.src = decision[reg[r].body.candidate], !.kind = "final"]
  <2>1. regs.kind = "final"
      BY DEF Registers
  <2>2. Goto(r, "intent", regs)
      BY <1>1, <1>10 DEF FinalDeliveryIntent, Reading
  <2> HIDE DEF regs
  <2> QED
      BY <1>2, <2>1, <2>2
<1>11. CASE CreatePassiveIntent(r)
  <2> DEFINE k    == [src |-> reg[r].src, kind |-> reg[r].kind, version |-> case.version]
             regs == [reg[r] EXCEPT !.key = k]
  <2>1. regs.kind = reg[r].kind /\ regs.msg = reg[r].msg
      BY DEF Registers
  <2>2. pc[r] = "intent" /\ \E label : Goto(r, label, regs)
      BY <1>11 DEF CreatePassiveIntent
  <2> HIDE DEF regs
  <2> QED
      BY <1>2, <2>1, <2>2
<1>12. CASE Send(r)
    BY <1>4, <1>12 DEF Send
<1>13. CASE RecordPassiveResult(r)
    BY <1>1, <1>4, <1>13 DEF RecordPassiveResult
<1>14. CASE ApproveModelRequest(r)
    BY <1>1, <1>4, <1>14 DEF ApproveModelRequest, ApproveRequest
<1>15. CASE ExecuteModelReply(r) \/ DeleteModelContent(r)
    BY <1>1, <1>4, <1>15 DEF ExecuteModelReply, ExecutePassiveReply, DeleteModelContent, DeleteArtifacts
<1>16. ASSUME NEW m \in PrivateMessages, ReceiveManual(r, m) \/ ReceiveAssist(r, m) PROVE FALSE
    BY <1>1, <1>4, <1>16 DEF ReceiveManual, ReceivePrivate, ReceiveAssist, Reading
<1>17. ASSUME NEW m \in GroupMessages, AssertModelApproval(r, m) PROVE FALSE
    BY <1>1, <1>4, <1>17 DEF AssertModelApproval
<1> QED
    BY <1>5, <1>6, <1>7, <1>8, <1>9, <1>10, <1>11, <1>12, <1>13, <1>14, <1>15, <1>16, <1>17
    DEF HandlerStep, ManualStep, NoticeStep

(* What moved the Case stays on record, a binding only fades.              *)
LEMMA HandlerMoves ==
    ASSUME ModelTypes, Requests, NEW r \in Runners,
           HandlerStep(r) \/ \E m \in PrivateMessages : ReceiveAssist(r, m)
    PROVE  /\ UNCHANGED <<inbox, assist, turn, action, calls, budgets, passed, agent>>
           /\ movedBy' = movedBy \/ \E u : movedBy' = [movedBy EXCEPT ![case.version + 1] = u]
           /\ \A v \in Candidates : bound'[v].life = "CURRENT" =>
                 bound[v].life = "CURRENT" /\ bound'[v].assist = bound[v].assist
<1> USE ModelFacts
<1>1. UNCHANGED <<inbox, assist, turn, action, calls, budgets, agent>>
    BY HandlerKeeps DEF assistVars
<1>2. UNCHANGED passed
    BY DEF HandlerStep, ManualStep, NoticeStep, StartRun, CreateIssueArtifact,
           CreateNotificationIntent, StartAttempt, NotifyC2c, RecordNotification,
           TransitionSimpleCommand, Respond, RecordCommandOnce, FinalDeliveryIntent,
           CreatePassiveIntent, Send, RecordPassiveResult, DraftCandidate,
           CreateCandidateAndRequest, ApproveModelRequest, ApproveRequest, ExecuteModelReply,
           ExecutePassiveReply, DeleteModelContent, DeleteArtifacts, ReceiveManual,
           ReceivePrivate, AssertModelApproval, ReceiveAssist, handlerVars, envVars
<1>3. bound' = bound \/ bound' = Replaced \/ bound' = ContentDeleted
    BY DEF HandlerStep, ManualStep, DraftCandidate, ApproveModelRequest, ExecuteModelReply,
           DeleteModelContent, ReceiveManual, AssertModelApproval, ReceiveAssist
<1>4. \A v \in Candidates : bound'[v].life = "CURRENT" =>
         bound[v].life = "CURRENT" /\ bound'[v].assist = bound[v].assist
    BY <1>3, BoundFades, NoneCurrent
<1>5. CASE TransitionSimpleCommand(r)
  <2>1. inbox[reg[r].msg].cmd = "pull" \/ inbox[reg[r].msg].cmd # "pull"
      OBVIOUS
  <2>2. movedBy' = movedBy \/ movedBy' = [movedBy EXCEPT ![case.version + 1] = reg[r].msg]
      BY <1>5, <2>1 DEF TransitionSimpleCommand
  <2> QED
      BY <1>1, <1>2, <1>4, <2>2
<1>6. CASE DraftCandidate(r)
    BY <1>1, <1>2, <1>4, <1>6 DEF DraftCandidate, CreateCandidateAndRequest
<1>7. CASE ~TransitionSimpleCommand(r) /\ ~DraftCandidate(r)
  <2>1. UNCHANGED movedBy
      BY <1>7
      DEF HandlerStep, ManualStep, NoticeStep, StartRun, CreateIssueArtifact,
          CreateNotificationIntent, StartAttempt, NotifyC2c, RecordNotification, Respond,
          RecordCommandOnce, FinalDeliveryIntent, CreatePassiveIntent, Send, RecordPassiveResult,
          ApproveModelRequest, ApproveRequest, ExecuteModelReply, ExecutePassiveReply,
          DeleteModelContent, DeleteArtifacts, ReceiveManual, ReceivePrivate,
          AssertModelApproval, ReceiveAssist, handlerVars, caseVars
  <2> QED
      BY <1>1, <1>2, <1>4, <2>1
<1> QED
    BY <1>5, <1>6, <1>7

LEMMA HandlerCharges ==
    ASSUME ModelTypes, AssistTypes', Requests, Rows, Charges, NEW r \in Runners, Counts(r),
           HandlerStep(r) \/ \E m \in PrivateMessages : ReceiveAssist(r, m)
    PROVE  Charges' /\ Counts(r)'
<1> USE ModelFacts
<1>1. /\ UNCHANGED <<inbox, assist, turn, action, calls, budgets, passed, agent>>
      /\ \A k \in Messages : Settled(k)' => Settled(k)
    BY HandlerMoves, SettledKept
<1>2. /\ Charges'
      /\ \A k \in Messages : (Clean(k)' => Clean(k)) /\ (Counted(k) => Counted(k)')
    BY <1>1, QuietCharges
<1>3. CASE pc'[r] \notin {"respond", "intent", "record"}
  <2>1. pc'[r] \in Plain \cup {"request"}
      BY HandlerGoes, ReceiveAssistGoes DEF Goes
  <2>2. pc'[r] \notin Looping \cup {"stop", "finish", "candidate", "outcome"}
      BY <2>1 DEF Plain, Assisting, Running, Preparing, Looping
  <2> QED
      BY <1>2, <1>3, <2>2, OffCounts
<1>4. CASE pc'[r] \in {"respond", "intent", "record"}
  <2> SUFFICES ASSUME NEW x, reg'[r].msg = x PROVE Counts(r)'
      BY <1>2
  <2>1. ASSUME reg'[r].kind = "draft-preview", IsAssist(x), assist[x].outcome = "none", Clean(x)'
        PROVE  Counted(x)'
    <3>1. /\ pc[r] \in {"respond", "intent"} /\ reg[r].msg = x /\ reg[r].kind = "draft-preview"
        BY <1>4, <2>1, HandlerTold
    <3>2. x \in Messages
        BY <2>1, InboxIn DEF IsAssist
    <3>3. PICK k \in Messages, a \in Nat : k = x /\ agent[r].calls = a
        BY <3>2 DEF Agents
    <3>4. CountsFor(r, k, a)
        BY <3>1, <3>3 DEF Counts
    <3>5. Clean(k)' => Counted(k)'
        BY <1>2, <2>1, <3>1, <3>3, <3>4 DEF CountsFor
    <3> QED
        BY <2>1, <3>3, <3>5
  <2>2. IsAssist(x)' = IsAssist(x) /\ assist' = assist
      BY <1>1 DEF IsAssist
  <2> QED
      BY <1>4, <2>1, <2>2, ToldCounts
<1> QED
    BY <1>3, <1>4

LEMMA CrashCharges ==
    ASSUME ModelTypes, AssistTypes', Rows, Charges, NEW r \in Runners, ModelCrash(r)
    PROVE  Charges' /\ Counts(r)'
<1>1. /\ UNCHANGED <<turn, action, calls, budgets, passed, movedBy, assist, bound>> /\ Leave(r)
    BY DEF ModelCrash, Crash, caseVars, assistVars
<1>2. Charges'
    BY <1>1, UnchangedSettled, QuietCharges
<1>3. pc'[r] \in {"idle", "receive"}
    BY <1>1, ModelFacts, RestGoes DEF Goes
<1> QED
    BY <1>2, <1>3, RestCounts

LEMMA EnvironmentCharges ==
    ASSUME ModelTypes, ModelTypes', Rows, ChargeInv,
           \A r \in Runners : InHand(r),
           (Environment /\ UNCHANGED <<assistVars, bound, agent>>) \/ UNCHANGED modelVars
    PROVE  ChargeInv'
<1> USE ModelFacts
<1>1. UNCHANGED <<case, movedBy, pc, reg, assist, turn, action, calls, budgets, bound, agent>>
    BY EnvironmentIdle DEF modelVars, vars, caseVars, assistVars
<1>2. UNCHANGED inbox \/ \E x : inbox' = Append(inbox, x)
    BY DEF Environment, PostPrivate, PostApproval, Post, RevokeHandlerBinding, Pass, modelVars,
           vars, envVars
<1>3. InboxKept
    BY <1>2 DEF InboxKept, ModelTypes, StoreInv, StoreTypes
<1>4. passed \subseteq passed'
    BY DEF Environment, PostPrivate, PostApproval, Post, RevokeHandlerBinding, Pass, modelVars,
           vars, envVars
<1>5. AssistTypes' /\ StoreTypes /\ Charges
    BY DEF ModelTypes, StoreInv, ChargeInv
<1>6. /\ Charges'
      /\ \A k \in Messages : /\ Clean(k)' => Clean(k)
                             /\ Counted(k) => Counted(k)'
                             /\ Called(k)' = Called(k)
    BY <1>1, <1>4, <1>5, UnchangedSettled, QuietCharges
<1>7. ASSUME NEW q \in Runners, NEW m \in Messages, NEW c \in Nat, reg[q].msg = m, agent[q].calls = c
      PROVE  CountsFor(q, m, c)'
  <2>1. CountsFor(q, m, c)
      BY <1>7 DEF ChargeInv, Counts
  <2>2. budgets \in Seq(Used) /\ RowsOf(budgets) /\ AssistTypes /\ Grown(budgets, budgets', m)
      BY <1>1, NotGrown DEF ModelTypes, StoreInv, AssistTypes, Rows
  <2>3. /\ \A d : Covered(m, d) => Covered(m, d)'
        /\ \A d : Followed(m, d) => Followed(m, d)'
        /\ \A d : UpTo(m, d) => UpTo(m, d)'
      BY <1>1, <1>4, <1>5, <2>2, UnchangedSame, SameKeeps
  <2>4. Fresh(m)' => Fresh(m)
      BY <1>1, <1>6 DEF Fresh
  <2>5. pc[q] \in {"respond", "intent", "record"} /\ reg[q].kind = "draft-preview" /\ IsAssist(m)'
           => IsAssist(m)
    <3>1. ASSUME pc[q] \in {"respond", "intent", "record"}, reg[q].kind = "draft-preview", IsAssist(m)'
          PROVE  IsAssist(m)
      <4>1. m \in 1..Len(inbox)
          BY <1>7, <3>1 DEF InHand, Telling, Private
      <4> QED
          BY <1>3, <1>5, <3>1, <4>1, InboxIn
    <3> QED
        BY <3>1
  <2> QED
      BY <1>1, <1>6, <2>1, <2>3, <2>4, <2>5 DEF CountsFor
<1>8. \A q \in Runners : Counts(q)'
    BY <1>1, <1>7 DEF Counts
<1> QED
    BY <1>6, <1>8 DEF ChargeInv

LEMMA ChargeNext ==
    ASSUME Solo
    PROVE  ModelTypes /\ ModelTypes' /\ CallInv /\ TellInv /\ RequestInv /\ RowInv /\ ChargeInv
             /\ [ModelNext]_modelVars => ChargeInv'
<1> SUFFICES ASSUME ModelTypes, ModelTypes', CallInv, TellInv, RequestInv, RowInv, ChargeInv,
                    [ModelNext]_modelVars
             PROVE  ChargeInv'
    OBVIOUS
<1>1. /\ AssistTypes' /\ Requests /\ Rows /\ Charges
      /\ \A q \in Runners : Tells(q) /\ Pursues(q) /\ CountsOn(q) /\ Counts(q)
    BY DEF ModelTypes, StoreInv, TellInv, RequestInv, RowInv, ChargeInv
<1>2. ASSUME NEW r \in Runners, Charges', Counts(r)' PROVE ChargeInv'
    BY <1>2 DEF Solo, ChargeInv
<1>3. ASSUME NEW r \in Runners, AssistStep(r) PROVE ChargeInv'
  <2>1. Charges' /\ Counts(r)'
      BY <1>1, <1>3, AgentCharges, CreateAssistRequestCharges, RecoverPersistedAssistCharges,
         ContextCharges, CreateModelCandidateCharges, CreateStoppedOutcomeCharges,
         CreateReadyOutcomeCharges DEF AssistStep
  <2> QED
      BY <1>2, <2>1
<1>4. ASSUME NEW r \in Runners,
             HandlerStep(r) \/ \E m \in PrivateMessages : ReceiveAssist(r, m)
      PROVE  ChargeInv'
    BY <1>1, <1>2, <1>4, HandlerCharges
<1>5. ASSUME NEW r \in Runners, ModelCrash(r) PROVE ChargeInv'
    BY <1>1, <1>2, <1>5, CrashCharges
<1>6. CASE (Environment /\ UNCHANGED <<assistVars, bound, agent>>) \/ UNCHANGED modelVars
    BY <1>1, <1>6, ModelFacts, EnvironmentCharges
<1> QED
    BY <1>3, <1>4, <1>5, <1>6 DEF ModelNext, HandlerStep

LEMMA ChargeInit == ModelInit => ChargeInv
<1> SUFFICES ASSUME ModelInit PROVE ChargeInv
    OBVIOUS
<1>1. \A m \in Messages : Called(m) = {}
    BY DEF ModelInit, Called
<1>2. Charges
    BY <1>1 DEF Charges, ChargeOf, Covered, Counted
<1>3. \A r \in Runners : Counts(r)
    BY DEF ModelInit, Init, Counts, CountsFor, Looping
<1> QED
    BY <1>2, <1>3 DEF ChargeInv

(* As many calls as the latest snapshot counts, and no more.               *)
LEMMA CountedCalls ==
    ASSUME ModelTypes, Rows, NEW m \in Messages, Counted(m)
    PROVE  CallsOf(m) <= LatestBudget(m).calls
<1>1. PICK n \in Nat : n = LatestBudget(m).calls
  <2>1. budgets \in Seq(Used) /\ RowsOf(budgets)
      BY DEF ModelTypes, StoreInv, AssistTypes, Rows
  <2>2. LatestFor(budgets, m).calls \in Nat
      BY <2>1, HasLatest
  <2> QED
      BY <2>2, UsageIn
<1>2. Called(m) \subseteq 1..n
    BY <1>1, ModelAssumption DEF Counted, Called, Turns
<1>3. IsFiniteSet(1..n) /\ Cardinality(1..n) = n
  <2>1. 1 \in Int /\ n \in Int
      BY <1>1
  <2>2. /\ IsFiniteSet(1..n)
        /\ Cardinality(1..n) = IF 1 > n THEN 0 ELSE n - 1 + 1
      BY <2>1, FS_Interval
  <2> QED
      BY <1>1, <2>2
<1>4. Cardinality(Called(m)) <= n
    BY <1>2, <1>3, FS_Subset
<1> QED
    BY <1>1, <1>4 DEF CallsOf, Called

(* The usage an assist was settled with counts every call that was made    *)
(* for it: also one that the runner was lost in, so that a later run finds *)
(* the intent and charges it without an answer.  It holds of an assist     *)
(* whose issue stayed readable, that alone moved the Case on from where it *)
(* was requested and that had no turn retried.  The hypothesis is the      *)
(* handler command, which one process runs at a time.                      *)
THEOREM CallsAreAccounted ==
    ASSUME NEW r, Runners = {r} PROVE ModelSpec => []CallsAccounted
<1>1. Solo
    BY DEF Solo
<1>2. ModelInit => CallInv /\ RequestInv /\ RowInv /\ ChargeInv
    BY RequestInit, RowInit, ChargeInit DEF ModelInit, Init, CallInv
<1>3. ModelTypes /\ CallInv /\ [ModelNext]_modelVars => CallInv'
    BY CallNext
<1>4. ModelTypes /\ ModelTypes' /\ TellInv /\ RequestInv /\ [ModelNext]_modelVars => RequestInv'
    BY <1>1, RequestNext
<1>5. ModelTypes /\ ModelTypes' /\ RowInv /\ [ModelNext]_modelVars => RowInv'
    BY <1>1, RowNext
<1>6. ModelTypes /\ ModelTypes' /\ CallInv /\ TellInv /\ RequestInv /\ RowInv /\ ChargeInv
        /\ [ModelNext]_modelVars => ChargeInv'
    BY <1>1, ChargeNext
<1>7. ModelTypes /\ RowInv /\ ChargeInv => CallsAccounted
  <2> SUFFICES ASSUME ModelTypes, RowInv, ChargeInv, NEW m \in Messages,
                      assist[m].outcome # "none", Undisturbed(m)
               PROVE  CallsOf(m) <= LatestBudget(m).calls
      BY DEF CallsAccounted
  <2>1. Clean(m) /\ Settled(m)
      BY DEF Undisturbed, Clean, Settled, Once
  <2>2. Counted(m)
      BY <2>1 DEF ChargeInv, Charges, ChargeOf
  <2> QED
      BY <2>2, CountedCalls DEF RowInv
<1>8. ModelSpec => []TellInv
    BY <1>1, TellAlways
<1> QED
    BY <1>2, <1>3, <1>4, <1>5, <1>6, <1>7, <1>8, ModelTypesAlways, PTL DEF ModelSpec
=============================================================================
