--------------------------- MODULE QQHandlerProofs ---------------------------
(* The handler's workflow for any number of runners and messages: one      *)
(* notification, truthful responses, and a final reply that is shown once. *)
EXTENDS QQHandler, TLAPS

Kinds    == {"none"} \cup Private \cup Group
Telling  == {"respond", "intent", "record", "execute", "send", "result"}
Keyed    == {"record", "execute", "send", "result"}
Moving   == {"accept", "reject", "draft-preview"}
Labels   == {"idle", "intake", "notify", "attempt", "notifying", "noting", "receive", "apply",
             "final", "delete"} \cup Telling
Statuses == {"none", "READY", "DRAFTED", "ACCEPTED", "APPROVED", "REJECTED", "FINAL_ACCEPTED"}
Outs     == {"none", "expired_window"} \cup Accepted \cup Failing
Notices  == {"none", "intended", "started", "accepted"} \cup Failing
Drafts   == {0} \cup Candidates
Sources  == {0} \cup Messages

Bodies == [status : Statuses, version : Nat, candidate : Drafts]
Keys   == [src : Sources, kind : Kinds, version : Nat]
Mails  == [cmd : {"pull", "accept", "draft", "reject", "assist", "approve"},
           version : Nat, request : Drafts]
Registers ==
    [msg : Sources, src : Sources, kind : Kinds, body : Bodies, key : Keys, out : Outs,
     accepted : SUBSET (Sources \X Kinds)]

StoreTypes ==
    /\ case \in [version : Nat, status : Statuses, candidate : Drafts]
    /\ decision \in [Candidates -> Sources]
    /\ movedBy \in [Candidates -> Sources]
    /\ command \in [Messages -> [kind : Kinds, body : Bodies, key : Keys]]
    /\ intents \subseteq [key : Keys, body : Bodies]
    /\ results \subseteq [key : Keys, status : Outs]
    /\ shown \subseteq [src : Sources, kind : Kinds, body : Bodies]
    /\ notice \in Notices
    /\ notifications \in Nat
    /\ inbox \in Seq(Mails) /\ Len(inbox) <= MaxMessages

RunnerTypes == pc \in [Runners -> Labels] /\ reg \in [Runners -> Registers]

-----------------------------------------------------------------------------
(* What the handler writes can be applied once at most: a message names    *)
(* the version it is for, and whoever applies it makes the next.           *)
MailInv ==
    /\ case = NoCase \/ case.version >= 1
    /\ \A m \in 1..Len(inbox) :
          /\ inbox[m].cmd \in {"accept", "draft", "reject", "assist"} =>
                inbox[m].version \in 1..(MaxVersion - 1)
          /\ inbox[m].cmd = "approve" => inbox[m].request \in Candidates
    /\ \A v \in Candidates : movedBy[v] # 0 =>
          /\ movedBy[v] \in 1..Len(inbox) /\ inbox[movedBy[v]].version = v - 1
          /\ v <= case.version
    /\ \A v \in Candidates : decision[v] # 0 => v <= case.version

(* A recorded command has its intent and tells the truth, and so has every *)
(* reply that is shown.                                                    *)
CommandInv ==
    /\ \A m \in Messages : command[m] # NoCommand =>
          /\ command[m].kind \in Private
          /\ command[m].key.src = m /\ command[m].key.kind = command[m].kind
          /\ \E i \in intents : i.key = command[m].key
    /\ \A m \in Messages : command[m].kind \in Moving =>
          Moved(m, command[m].kind, command[m].body)
    /\ \A s \in shown : s.kind \in Moving =>
          s.src \in Messages /\ Moved(s.src, s.kind, s.body)

(* A final reply answers the one message that decided for its candidate.   *)
FinalInv ==
    /\ \A v \in Candidates : decision[v] # 0 =>
          decision[v] \in 1..Len(inbox) /\ inbox[decision[v]].request = v
    /\ \A i, j \in intents : i.key = j.key => i = j
    /\ \A i \in intents : i.key.kind = "final" =>
          /\ i.body.candidate \in Candidates
          /\ decision[i.body.candidate] # 0 /\ decision[i.body.candidate] = i.key.src
    /\ \A s \in shown : s.kind = "final" =>
          /\ s.body.candidate \in Candidates
          /\ decision[s.body.candidate] # 0 /\ decision[s.body.candidate] = s.src
    /\ \A x \in results : \E i \in intents : i.key = x.key
    /\ \A x \in results : x.key.kind = "final" /\ x.status \in Accepted =>
          \E s \in shown : s.kind = "final" /\ s.src = x.key.src

(* What a runner knows at its label.                                       *)
Knows(r) ==
    /\ pc[r] \in {"apply", "respond", "record"} \/ (pc[r] \in Telling /\ reg[r].kind \in Private) =>
          reg[r].msg \in 1..Len(inbox) /\ reg[r].src = reg[r].msg
    /\ pc[r] \in {"respond", "record"} => reg[r].kind \in Private
    /\ pc[r] \in Telling /\ reg[r].kind \in Moving =>
          Moved(reg[r].src, reg[r].kind, reg[r].body)
    /\ pc[r] \in Keyed =>
          /\ reg[r].key.src = reg[r].src /\ reg[r].key.kind = reg[r].kind
          /\ \E i \in intents : i.key = reg[r].key
    /\ pc[r] = "final" \/ (pc[r] \in Telling /\ reg[r].kind = "final") =>
          reg[r].body.candidate \in Candidates /\ decision[reg[r].body.candidate] # 0
    /\ pc[r] \in Telling /\ reg[r].kind = "final" => reg[r].src = decision[reg[r].body.candidate]
    /\ pc[r] = "result" /\ reg[r].kind = "final" /\ reg[r].out \in Accepted =>
          \E s \in shown : s.kind = "final" /\ s.src = reg[r].src
    /\ \A a \in reg[r].accepted : \E s \in shown : s.src = a[1] /\ s.kind = a[2]
    /\ pc[r] = "noting" => reg[r].out \in {"accepted"} \cup Failing

(* Whoever is about to notify is the only one, and nobody did before.      *)
NoticeInv ==
    /\ notice \in {"none", "intended"} =>
          notifications = 0 /\ \A r \in Runners : pc[r] \notin {"notifying", "noting"}
    /\ \A r, s \in Runners : pc[r] = "notifying" /\ pc[s] = "notifying" => r = s
    /\ \A r \in Runners : pc[r] = "notifying" => notifications = 0
    /\ notifications <= 1

StoreInv   == StoreTypes /\ MailInv /\ CommandInv /\ FinalInv
HandlerInv == StoreInv /\ RunnerTypes /\ (\A r \in Runners : Knows(r)) /\ NoticeInv

LEMMA HandlerInit == Init => HandlerInv
<1> SUFFICES ASSUME Init PROVE HandlerInv
    OBVIOUS
<1> USE DEF Init
<1>1. StoreTypes
    BY HandlerAssumption
    DEF StoreTypes, NoCase, Drafts, Statuses, Sources, Candidates, Messages, NoCommand, NoBody,
        NoKey, Bodies, Keys, Kinds, Notices, Mails
<1>2. RunnerTypes
    BY DEF RunnerTypes, Labels, NoRegisters, NoBody, NoKey, Registers, Sources, Bodies, Keys,
           Kinds, Outs, Statuses, Drafts
<1>3. MailInv
    BY DEF MailInv
<1>4. CommandInv
    BY DEF CommandInv, NoCommand, Moving
<1>5. FinalInv
    BY DEF FinalInv
<1>6. \A r \in Runners : Knows(r)
    BY DEF Knows, NoRegisters, Telling, Keyed
<1>7. NoticeInv
    BY DEF NoticeInv
<1> QED
    BY <1>1, <1>2, <1>3, <1>4, <1>5, <1>6, <1>7 DEF HandlerInv, StoreInv

-----------------------------------------------------------------------------
(* What a step of one runner leaves to the others.                         *)

(* Nothing that a runner relies on is taken back.                          *)
Grows ==
    /\ intents \subseteq intents' /\ shown \subseteq shown'
    /\ Len(inbox) <= Len(inbox') /\ \A m \in 1..Len(inbox) : inbox'[m] = inbox[m]
    /\ \A v \in Candidates :
          /\ decision[v] # 0 => decision'[v] = decision[v]
          /\ movedBy[v] # 0 => movedBy'[v] = movedBy[v]

(* Only the Case may be made, nothing else of the store changes.           *)
Quiet ==
    /\ UNCHANGED <<decision, movedBy, command, intents, results, inbox, shown>>
    /\ \/ case' = case
       \/ case = NoCase /\ case' = [version |-> 1, status |-> "READY", candidate |-> 0]

Rests(r) ==
    \E label \in {"idle", "receive"}, regs \in Registers :
        Goto(r, label, regs) /\ regs.accepted \subseteq reg[r].accepted

(* Moved with the history as the step leaves it.                           *)
NowMoved(m, kind, body) ==
    \E v \in Candidates : movedBy'[v] = m /\ (kind = "draft-preview" => body.candidate = v)

LEMMA QuietGrows == Quiet /\ StoreTypes => Grows
BY DEF Quiet, Grows, StoreTypes

LEMMA KnowsKept ==
    ASSUME StoreTypes, StoreTypes', Grows, NEW q \in Runners, Knows(q), pc'[q] = pc[q], reg'[q] = reg[q]
    PROVE  Knows(q)'
<1>1. \A m : m \in 1..Len(inbox) => m \in 1..Len(inbox')
    BY DEF StoreTypes, Grows
<1>2. ASSUME NEW m, m \in 1..Len(inbox), NEW k, NEW b, Moved(m, k, b) PROVE Moved(m, k, b)'
    BY <1>2 DEF Moved, Grows
<1>3. pc[q] \in Telling /\ reg[q].kind \in Moving => reg[q].src \in 1..Len(inbox)
    BY DEF Knows, Moving, Private
<1>4. pc[q] \in Telling /\ reg[q].kind \in Moving => Moved(reg[q].src, reg[q].kind, reg[q].body)'
    BY <1>2, <1>3 DEF Knows
<1> QED
    BY <1>1, <1>4 DEF Knows, Grows

LEMMA GotoIs ==
    ASSUME RunnerTypes, NEW r \in Runners, NEW label \in Labels, NEW regs \in Registers,
           Goto(r, label, regs)
    PROVE  /\ RunnerTypes' /\ pc'[r] = label /\ reg'[r] = regs
           /\ \A q \in Runners : q # r => pc'[q] = pc[q] /\ reg'[q] = reg[q]
BY DEF RunnerTypes, Goto

LEMMA NoRegistersType == NoRegisters \in Registers /\ NoRegisters.accepted = {}
BY DEF NoRegisters, NoBody, NoKey, Registers, Sources, Bodies, Keys, Kinds, Outs, Statuses, Drafts

LEMMA Resting ==
    ASSUME RunnerTypes, NEW r \in Runners,
           Refused(r) \/ Await(r) \/ Leave(r) \/ Answered(r)
    PROVE  Rests(r)
<1>1. reg[r] \in Registers /\ reg[r].accepted \in SUBSET (Sources \X Kinds)
    BY DEF RunnerTypes, Registers
<1> DEFINE regs == [NoRegisters EXCEPT !.accepted = reg[r].accepted]
<1>2. regs \in Registers /\ regs.accepted = reg[r].accepted
    BY <1>1, NoRegistersType DEF Registers
<1>3. Await(r) \/ Leave(r)
    BY DEF Refused, Answered
<1> QED
    BY <1>2, <1>3, NoRegistersType DEF Rests, Await, Leave

(* The step of one runner, what it has to show.                            *)
LEMMA RunnerStep ==
    ASSUME HandlerInv, StoreInv', NoticeInv', Grows, NEW r \in Runners,
           NEW label \in Labels, NEW regs \in Registers, Goto(r, label, regs), Knows(r)'
    PROVE  HandlerInv'
<1>1. RunnerTypes' /\ \A q \in Runners : q # r => pc'[q] = pc[q] /\ reg'[q] = reg[q]
    BY GotoIs DEF HandlerInv
<1>2. StoreTypes /\ StoreTypes' /\ \A q \in Runners : Knows(q)
    BY DEF HandlerInv, StoreInv
<1>3. \A q \in Runners : Knows(q)'
    BY <1>1, <1>2, KnowsKept
<1> QED
    BY <1>1, <1>3 DEF HandlerInv

LEMMA QuietStore ==
    ASSUME StoreInv, Quiet, notice' \in Notices, notifications' \in Nat
    PROVE  StoreInv'
<1>1. StoreTypes'
    BY DEF StoreInv, StoreTypes, Quiet, NoCase, Statuses, Drafts
<1>2. case # NoCase => case' = case
    BY DEF Quiet
<1>3. case.version <= case'.version /\ (case' = NoCase \/ case'.version >= 1)
    BY DEF StoreInv, StoreTypes, MailInv, Quiet, NoCase
<1>4. MailInv'
  <2>1. case.version \in Nat /\ case'.version \in Nat
    BY <1>1 DEF StoreInv, StoreTypes
  <2>2. \A v \in Candidates : v \in Nat
    BY DEF Candidates
  <2> QED
    BY <1>3, <2>1, <2>2 DEF StoreInv, MailInv, Quiet
<1>5. CommandInv'
    BY DEF StoreInv, CommandInv, Quiet, Moved
<1>6. FinalInv'
    BY DEF StoreInv, FinalInv, Quiet
<1> QED
    BY <1>1, <1>4, <1>5, <1>6 DEF StoreInv

(* A runner that goes anywhere but to the notification does not disturb it. *)
LEMMA NoticeKept ==
    ASSUME NoticeInv, RunnerTypes, UNCHANGED <<notice, notifications>>, NEW r \in Runners,
           NEW label \in Labels, label \notin {"notifying", "noting"}, NEW regs \in Registers,
           Goto(r, label, regs)
    PROVE  NoticeInv'
<1>1. \A q \in Runners : pc'[q] \in {"notifying", "noting"} => pc'[q] = pc[q]
    BY GotoIs
<1> QED
    BY <1>1 DEF NoticeInv

LEMMA QuietStep ==
    ASSUME HandlerInv, Quiet, UNCHANGED <<notice, notifications>>, NEW r \in Runners,
           NEW label \in Labels, label \notin {"notifying", "noting"}, NEW regs \in Registers,
           Goto(r, label, regs), Knows(r)'
    PROVE  HandlerInv'
<1>1. StoreInv /\ RunnerTypes /\ NoticeInv /\ StoreTypes /\ notice \in Notices /\ notifications \in Nat
    BY DEF HandlerInv, StoreInv, StoreTypes
<1>2. StoreInv'
    BY <1>1, QuietStore
<1>3. NoticeInv'
    BY <1>1, NoticeKept
<1> QED
    BY <1>1, <1>2, <1>3, QuietGrows, RunnerStep

LEMMA RestKnows ==
    ASSUME RunnerTypes, Grows, NEW r \in Runners, Knows(r), NEW label \in {"idle", "receive"},
           NEW regs \in Registers, Goto(r, label, regs), regs.accepted \subseteq reg[r].accepted
    PROVE  Knows(r)' /\ label \in Labels /\ label \notin {"notifying", "noting"}
<1>1. label \in Labels /\ label \notin {"notifying", "noting"}
    BY DEF Labels
<1>2. pc'[r] = label /\ reg'[r] = regs
    BY <1>1, GotoIs
<1> QED
    BY <1>1, <1>2 DEF Knows, Grows, Telling, Keyed

LEMMA RestStep ==
    ASSUME HandlerInv, Quiet, UNCHANGED <<notice, notifications>>, NEW r \in Runners, Rests(r)
    PROVE  HandlerInv'
<1>1. PICK label \in {"idle", "receive"}, regs \in Registers :
        Goto(r, label, regs) /\ regs.accepted \subseteq reg[r].accepted
    BY DEF Rests
<1>2. Grows /\ RunnerTypes /\ Knows(r)
    BY QuietGrows DEF HandlerInv, StoreInv
<1> QED
    BY <1>1, <1>2, RestKnows, QuietStep

-----------------------------------------------------------------------------
(* Intake and notification.                                                *)

LEMMA HandlerFacts ==
    ASSUME HandlerInv, NEW r \in Runners
    PROVE  /\ StoreInv /\ StoreTypes /\ RunnerTypes /\ NoticeInv /\ Knows(r)
           /\ reg[r] \in Registers /\ pc[r] \in Labels
           /\ notice \in Notices /\ notifications \in Nat
BY DEF HandlerInv, StoreInv, StoreTypes, RunnerTypes

LEMMA StartRunStep ==
    ASSUME HandlerInv, NEW r \in Runners, StartRun(r)
    PROVE  HandlerInv'
<1>1. Quiet /\ Goto(r, "intake", NoRegisters) /\ UNCHANGED <<notice, notifications>>
    BY DEF StartRun, Quiet, caseVars, replyVars, sendVars, envVars
<1>2. "intake" \in Labels \ {"notifying", "noting"}
    BY DEF Labels
<1>3. Knows(r)'
    BY <1>1, <1>2, GotoIs, HandlerFacts, NoRegistersType DEF Knows, Telling, Keyed
<1> QED
    BY <1>1, <1>2, <1>3, QuietStep, NoRegistersType

LEMMA CreateIssueArtifactStep ==
    ASSUME HandlerInv, NEW r \in Runners, CreateIssueArtifact(r)
    PROVE  HandlerInv'
<1>1. Quiet /\ Goto(r, "notify", reg[r]) /\ UNCHANGED <<notice, notifications>>
    BY DEF CreateIssueArtifact, Quiet, replyVars, sendVars, envVars
<1>2. "notify" \in Labels \ {"notifying", "noting"}
    BY DEF Labels
<1>3. Knows(r)'
    BY <1>1, <1>2, GotoIs, HandlerFacts DEF Knows, Telling, Keyed, Quiet
<1> QED
    BY <1>1, <1>2, <1>3, QuietStep, HandlerFacts

LEMMA CreateNotificationIntentStep ==
    ASSUME HandlerInv, NEW r \in Runners, CreateNotificationIntent(r)
    PROVE  HandlerInv'
<1> USE HandlerFacts
<1>1. /\ Quiet /\ Goto(r, "attempt", reg[r]) /\ UNCHANGED notifications
      /\ notice' = IF notice = "none" THEN "intended" ELSE notice
    BY DEF CreateNotificationIntent, Quiet, caseVars, replyVars, sendVars, envVars
<1>2. "attempt" \in Labels
    BY DEF Labels
<1>3. /\ pc'[r] = "attempt" /\ reg'[r] = reg[r]
      /\ \A q \in Runners : q # r => pc'[q] = pc[q]
    BY <1>1, <1>2, GotoIs
<1>4. Knows(r)'
    BY <1>1, <1>3 DEF Knows, Telling, Keyed, Quiet
<1>5. NoticeInv'
    BY <1>1, <1>3 DEF NoticeInv
<1>6. notice' \in Notices
    BY <1>1 DEF Notices
<1> QED
    BY <1>1, <1>2, <1>4, <1>5, <1>6, QuietStore, QuietGrows, RunnerStep

(* After the notification: the loop, the end, or the nudge in the group.   *)
LEMMA AfterNoticeStep ==
    ASSUME RunnerTypes, Grows, NEW r \in Runners, Knows(r), NEW status, AfterNotice(r, status)
    PROVE  \E label \in Labels \ {"notifying", "noting"}, regs \in Registers :
              Goto(r, label, regs) /\ Knows(r)'
<1>1. CASE Rests(r)
  <2>1. PICK label \in {"idle", "receive"}, regs \in Registers :
          Goto(r, label, regs) /\ regs.accepted \subseteq reg[r].accepted
      BY <1>1 DEF Rests
  <2> QED
      BY <2>1, RestKnows
<1>2. CASE ~Rests(r)
  <2> DEFINE regs == [reg[r] EXCEPT !.kind = "group-nudge", !.out = "none"]
  <2>1. Goto(r, "intent", regs)
      BY <1>2, Resting DEF AfterNotice
  <2>2. /\ "intent" \in Labels \ {"notifying", "noting"}
        /\ regs \in Registers /\ regs.kind = "group-nudge" /\ regs.accepted = reg[r].accepted
      BY DEF Labels, Telling, RunnerTypes, Registers, Kinds, Group, Outs
  <2>3. pc'[r] = "intent" /\ reg'[r] = regs
      BY <2>1, <2>2, GotoIs
  <2> HIDE DEF regs
  <2>4. Knows(r)'
      BY <2>2, <2>3 DEF Knows, Grows, Private, Moving, Keyed
  <2> QED
      BY <2>1, <2>2, <2>4
<1> QED
    BY <1>1, <1>2

LEMMA StartAttemptStep ==
    ASSUME HandlerInv, NEW r \in Runners, StartAttempt(r)
    PROVE  HandlerInv'
<1> USE HandlerFacts
<1>1. Quiet /\ UNCHANGED notifications
    BY DEF StartAttempt, Quiet, caseVars, replyVars, sendVars, envVars
<1>2. Grows
    BY <1>1, QuietGrows
<1>3. CASE Leave(r) /\ UNCHANGED notice
    BY <1>1, <1>3, Resting, RestStep
<1>4. CASE notice = "intended" /\ notice' = "started" /\ Goto(r, "notifying", reg[r])
  <2>1. "notifying" \in Labels /\ notice' \in Notices
      BY <1>4 DEF Labels, Notices
  <2>2. /\ pc'[r] = "notifying" /\ reg'[r] = reg[r]
        /\ \A q \in Runners : q # r => pc'[q] = pc[q]
      BY <1>4, <2>1, GotoIs
  <2>3. Knows(r)'
      BY <1>2, <2>2 DEF Knows, Grows, Telling, Keyed
  <2>4. NoticeInv'
      BY <1>1, <1>4, <2>2 DEF NoticeInv
  <2> QED
      BY <1>1, <1>2, <1>4, <2>1, <2>3, <2>4, QuietStore, RunnerStep
<1>5. CASE notice = "started" /\ notice' = "unknown" /\ AfterNotice(r, "unknown")
  <2>1. PICK label \in Labels \ {"notifying", "noting"}, regs \in Registers :
          Goto(r, label, regs) /\ Knows(r)'
      BY <1>2, <1>5, AfterNoticeStep
  <2>2. \A q \in Runners : pc'[q] \in {"notifying", "noting"} => pc'[q] = pc[q]
      BY <2>1, GotoIs
  <2>3. NoticeInv'
      BY <1>1, <1>5, <2>2 DEF NoticeInv
  <2>4. notice' \in Notices
      BY <1>5 DEF Notices, Failing
  <2> QED
      BY <1>1, <1>2, <2>1, <2>3, <2>4, QuietStore, RunnerStep
<1>6. CASE UNCHANGED notice /\ AfterNotice(r, notice)
  <2>1. PICK label \in Labels \ {"notifying", "noting"}, regs \in Registers :
          Goto(r, label, regs) /\ Knows(r)'
      BY <1>2, <1>6, AfterNoticeStep
  <2> QED
      BY <1>1, <1>6, <2>1, QuietStep
<1> QED
    BY <1>3, <1>4, <1>5, <1>6 DEF StartAttempt

LEMMA NotifyC2cStep ==
    ASSUME HandlerInv, NEW r \in Runners, NotifyC2c(r)
    PROVE  HandlerInv'
<1> USE HandlerFacts
<1>1. PICK out \in {"accepted"} \cup Failing : Goto(r, "noting", [reg[r] EXCEPT !.out = out])
    BY DEF NotifyC2c
<1> DEFINE regs == [reg[r] EXCEPT !.out = out]
<1>2. /\ pc[r] = "notifying" /\ Quiet /\ UNCHANGED notice
      /\ notifications' = notifications + 1
    BY DEF NotifyC2c, Quiet, caseVars, replyVars, envVars
<1>3. "noting" \in Labels /\ regs \in Registers /\ regs.out = out /\ regs.accepted = reg[r].accepted
    BY DEF Labels, Registers, Outs, Accepted
<1>4. pc'[r] = "noting" /\ reg'[r] = regs /\ \A q \in Runners : q # r => pc'[q] = pc[q]
    BY <1>1, <1>3, GotoIs
<1> HIDE DEF regs
<1>5. Knows(r)'
    BY <1>2, <1>3, <1>4 DEF Knows, Telling, Keyed, Quiet
<1>6. NoticeInv'
    BY <1>2, <1>4 DEF NoticeInv
<1> QED
    BY <1>1, <1>2, <1>3, <1>5, <1>6, QuietStore, QuietGrows, RunnerStep DEF regs

LEMMA RecordNotificationStep ==
    ASSUME HandlerInv, NEW r \in Runners, RecordNotification(r)
    PROVE  HandlerInv'
<1> USE HandlerFacts
<1>1. /\ pc[r] = "noting" /\ Quiet /\ UNCHANGED notifications
      /\ notice' = IF notice = "started" THEN reg[r].out ELSE notice
    BY DEF RecordNotification, Quiet, caseVars, replyVars, sendVars, envVars
<1>2. Grows
    BY <1>1, QuietGrows
<1>3. PICK label \in Labels \ {"notifying", "noting"}, regs \in Registers :
        Goto(r, label, regs) /\ Knows(r)'
    BY <1>2, AfterNoticeStep DEF RecordNotification
<1>4. reg[r].out \in {"accepted"} \cup Failing
    BY <1>1 DEF Knows
<1>5. \A q \in Runners : pc'[q] \in {"notifying", "noting"} => pc'[q] = pc[q]
    BY <1>3, GotoIs
<1>6. NoticeInv'
    BY <1>1, <1>4, <1>5 DEF NoticeInv, Failing
<1>7. notice' \in Notices
    BY <1>1, <1>4 DEF Notices
<1> QED
    BY <1>1, <1>2, <1>3, <1>6, <1>7, QuietStore, RunnerStep

-----------------------------------------------------------------------------
(* Commands, approvals and replies that leave the store as it is.          *)

LEMMA ReceivePrivateStep ==
    ASSUME HandlerInv, NEW r \in Runners, NEW m \in PrivateMessages, ReceivePrivate(r, m)
    PROVE  HandlerInv'
<1> USE HandlerFacts
<1> DEFINE known == command[m]
           regs  == [reg[r] EXCEPT !.msg = m, !.src = m]
           again == [regs EXCEPT !.kind = known.kind, !.key = known.key, !.body = known.body]
<1>1. Quiet /\ UNCHANGED <<notice, notifications>>
    BY DEF ReceivePrivate, Quiet, replyVars, sendVars, envVars
<1>2. m \in 1..Len(inbox) /\ m \in Messages
  <2>1. inbox \in Seq(Mails) /\ Len(inbox) <= MaxMessages /\ MaxMessages \in Nat
      BY HandlerAssumption DEF StoreTypes
  <2>2. DOMAIN inbox = 1..Len(inbox) /\ Len(inbox) \in Nat
      BY <2>1
  <2> QED
      BY <2>1, <2>2 DEF PrivateMessages, Messages
<1>3. /\ regs \in Registers /\ regs.msg = m /\ regs.src = m /\ regs.accepted = reg[r].accepted
      /\ known.kind \in Kinds /\ known.key \in Keys /\ known.body \in Bodies
    BY <1>2 DEF Registers, Sources, StoreTypes
<1>4. CASE Rests(r)
    BY <1>1, <1>4, RestStep
<1>5. CASE known = NoCommand /\ Goto(r, "apply", regs)
  <2>1. "apply" \in Labels \ {"notifying", "noting"}
      BY DEF Labels
  <2>2. pc'[r] = "apply" /\ reg'[r] = regs
      BY <1>3, <1>5, <2>1, GotoIs
  <2> HIDE DEF regs
  <2>3. Knows(r)'
      BY <1>1, <1>2, <1>3, <2>2 DEF Knows, Telling, Keyed, Quiet
  <2> QED
      BY <1>1, <1>3, <1>5, <2>1, <2>3, QuietStep
<1>6. CASE known # NoCommand /\ Goto(r, "execute", again)
  <2>1. "execute" \in Labels \ {"notifying", "noting"}
      BY DEF Labels, Telling
  <2>2. /\ again \in Registers /\ again.msg = m /\ again.src = m
        /\ again.kind = known.kind /\ again.key = known.key /\ again.body = known.body
        /\ again.accepted = reg[r].accepted
      BY <1>3 DEF Registers
  <2>3. pc'[r] = "execute" /\ reg'[r] = again
      BY <1>6, <2>1, <2>2, GotoIs
  <2>4. /\ known.kind \in Private /\ known.key.src = m /\ known.key.kind = known.kind
        /\ \E i \in intents : i.key = known.key
        /\ known.kind \in Moving => Moved(m, known.kind, known.body)
      BY <1>2, <1>6 DEF StoreInv, CommandInv
  <2>5. known.kind \in Moving => NowMoved(m, known.kind, known.body)
      BY <1>1, <2>4 DEF Moved, NowMoved, Quiet
  <2> HIDE DEF again, known
  <2>6. Knows(r)'
      BY <1>1, <1>2, <2>2, <2>3, <2>4, <2>5
      DEF Knows, Telling, Keyed, Quiet, Private, Moved, NowMoved
  <2> QED
      BY <1>1, <1>6, <2>1, <2>2, <2>6, QuietStep
<1>7. Refused(r) \/ Await(r) \/ (known = NoCommand /\ Goto(r, "apply", regs))
        \/ (known # NoCommand /\ Goto(r, "execute", again))
    BY DEF ReceivePrivate, Reading
<1> QED
    BY <1>4, <1>5, <1>6, <1>7, Resting

LEMMA RespondStep ==
    ASSUME HandlerInv, NEW r \in Runners, Respond(r)
    PROVE  HandlerInv'
<1> USE HandlerFacts
<1> DEFINE body == ResponseBody(reg[r].kind, reg[r].body.candidate)
           regs == [reg[r] EXCEPT !.body = body]
<1>1. Quiet /\ UNCHANGED <<notice, notifications>> /\ pc[r] = "respond"
    BY DEF Respond, Quiet, replyVars, sendVars, envVars
<1>2. body \in Bodies /\ (reg[r].kind = "draft-preview" => body.candidate = reg[r].body.candidate)
    BY DEF ResponseBody, NoBody, Bodies, Registers, StoreTypes, Statuses, Drafts
<1>3. /\ regs \in Registers /\ regs.body = body /\ regs.accepted = reg[r].accepted
      /\ regs.msg = reg[r].msg /\ regs.src = reg[r].src /\ regs.kind = reg[r].kind
    BY <1>2 DEF Registers
<1>4. CASE Goto(r, "intent", regs)
  <2>1. "intent" \in Labels \ {"notifying", "noting"}
      BY DEF Labels, Telling
  <2>2. pc'[r] = "intent" /\ reg'[r] = regs
      BY <1>3, <1>4, <2>1, GotoIs
  <2>3. /\ reg[r].kind \in Private /\ reg[r].msg \in 1..Len(inbox) /\ reg[r].src = reg[r].msg
        /\ reg[r].kind \in Moving => Moved(reg[r].src, reg[r].kind, reg[r].body)
      BY <1>1 DEF Knows, Telling
  <2>4. reg[r].kind \in Moving => NowMoved(reg[r].src, reg[r].kind, body)
      BY <1>1, <1>2, <2>3 DEF Moved, NowMoved, Quiet
  <2> HIDE DEF regs, body
  <2>5. Knows(r)'
      BY <1>1, <1>3, <2>2, <2>3, <2>4
      DEF Knows, Telling, Keyed, Quiet, Private, Moved, NowMoved
  <2> QED
      BY <1>1, <1>3, <1>4, <2>1, <2>5, QuietStep
<1>5. Refused(r) \/ Goto(r, "intent", regs)
    BY DEF Respond, Reading
<1> QED
    BY <1>1, <1>4, <1>5, Resting, RestStep

LEMMA FinalDeliveryIntentStep ==
    ASSUME HandlerInv, NEW r \in Runners, FinalDeliveryIntent(r)
    PROVE  HandlerInv'
<1> USE HandlerFacts
<1> DEFINE v    == reg[r].body.candidate
           regs == [reg[r] EXCEPT !.src = decision[v], !.kind = "final"]
<1>1. Quiet /\ UNCHANGED <<notice, notifications>> /\ pc[r] = "final"
    BY DEF FinalDeliveryIntent, Quiet, replyVars, sendVars, envVars
<1>2. v \in Candidates /\ decision[v] # 0
    BY <1>1 DEF Knows
<1>3. /\ regs \in Registers /\ regs.body.candidate = v /\ regs.accepted = reg[r].accepted
      /\ regs.src = decision[v] /\ regs.kind = "final"
    BY <1>2 DEF Registers, StoreTypes, Kinds, Group
<1>4. CASE Goto(r, "intent", regs)
  <2>1. "intent" \in Labels \ {"notifying", "noting"}
      BY DEF Labels, Telling
  <2>2. pc'[r] = "intent" /\ reg'[r] = regs
      BY <1>3, <1>4, <2>1, GotoIs
  <2> HIDE DEF regs, v
  <2>3. Knows(r)'
      BY <1>1, <1>2, <1>3, <2>2 DEF Knows, Keyed, Quiet, Private, Moving
  <2> QED
      BY <1>1, <1>3, <1>4, <2>1, <2>3, QuietStep
<1>5. Refused(r) \/ Goto(r, "intent", regs)
    BY DEF FinalDeliveryIntent, Reading
<1> QED
    BY <1>1, <1>4, <1>5, Resting, RestStep

LEMMA ExecutePassiveReplyStep ==
    ASSUME HandlerInv, NEW r \in Runners, ExecutePassiveReply(r)
    PROVE  HandlerInv'
<1> USE HandlerFacts
<1> DEFINE k == reg[r].key
<1>1. Quiet /\ UNCHANGED <<notice, notifications>> /\ pc[r] = "execute"
    BY DEF ExecutePassiveReply, Quiet, caseVars, replyVars, sendVars, envVars
<1>2. k.src = reg[r].src /\ k.kind = reg[r].kind
    BY <1>1 DEF Knows, Keyed
<1>3. CASE Goto(r, "send", reg[r])
  <2>1. "send" \in Labels \ {"notifying", "noting"}
      BY DEF Labels, Telling
  <2>2. pc'[r] = "send" /\ reg'[r] = reg[r]
      BY <1>3, <2>1, GotoIs
  <2>3. reg[r].kind \in Moving => NowMoved(reg[r].src, reg[r].kind, reg[r].body)
      BY <1>1 DEF Knows, Telling, Moved, NowMoved, Quiet
  <2>4. Knows(r)'
      BY <1>1, <2>2, <2>3 DEF Knows, Telling, Keyed, Quiet, Private, Moved, NowMoved
  <2> QED
      BY <1>1, <1>3, <2>1, <2>4, QuietStep
<1>4. ASSUME NEW out \in {"expired_window", "duplicate"}, Goto(r, "result", [reg[r] EXCEPT !.out = out]),
             out = "duplicate" => <<k.src, k.kind>> \in reg[r].accepted
      PROVE  HandlerInv'
  <2> DEFINE regs == [reg[r] EXCEPT !.out = out]
  <2>1. "result" \in Labels \ {"notifying", "noting"}
      BY DEF Labels, Telling
  <2>2. /\ regs \in Registers /\ regs.out = out /\ regs.accepted = reg[r].accepted
        /\ regs.msg = reg[r].msg /\ regs.src = reg[r].src /\ regs.kind = reg[r].kind
        /\ regs.key = reg[r].key /\ regs.body = reg[r].body
      BY DEF Registers, Outs, Accepted
  <2>3. pc'[r] = "result" /\ reg'[r] = regs
      BY <1>4, <2>1, <2>2, GotoIs
  <2>4. reg[r].kind \in Moving => NowMoved(reg[r].src, reg[r].kind, reg[r].body)
      BY <1>1 DEF Knows, Telling, Moved, NowMoved, Quiet
  <2>5. out \in Accepted => \E s \in shown : s.src = reg[r].src /\ s.kind = reg[r].kind
      BY <1>2, <1>4 DEF Knows, Accepted
  <2> HIDE DEF regs
  <2>6. Knows(r)'
      BY <1>1, <2>2, <2>3, <2>4, <2>5
      DEF Knows, Telling, Keyed, Quiet, Private, Moved, NowMoved
  <2> QED
      BY <1>1, <1>4, <2>1, <2>2, <2>6, QuietStep DEF regs
<1>5. \/ Refused(r) \/ Answered(r) \/ Goto(r, "send", reg[r])
      \/ Goto(r, "result", [reg[r] EXCEPT !.out = "expired_window"])
      \/ /\ <<k.src, k.kind>> \in reg[r].accepted
         /\ Goto(r, "result", [reg[r] EXCEPT !.out = "duplicate"])
    BY DEF ExecutePassiveReply
<1> QED
    BY <1>1, <1>3, <1>4, <1>5, Resting, RestStep

LEMMA DeleteOrCrashStep ==
    ASSUME HandlerInv, NEW r \in Runners, DeleteArtifacts(r) \/ Crash(r)
    PROVE  HandlerInv'
<1>1. Quiet /\ UNCHANGED <<notice, notifications>>
    BY DEF DeleteArtifacts, Crash, Quiet, caseVars, replyVars, sendVars, envVars
<1>2. Answered(r) \/ Leave(r)
    BY DEF DeleteArtifacts, Crash
<1> QED
    BY <1>1, <1>2, HandlerFacts, Resting, RestStep

-----------------------------------------------------------------------------
(* The steps that change what is stored.                                   *)

LEMMA RestStoreStep ==
    ASSUME HandlerInv, StoreInv', Grows, UNCHANGED <<notice, notifications>>,
           NEW r \in Runners, Rests(r)
    PROVE  HandlerInv'
<1>1. PICK label \in {"idle", "receive"}, regs \in Registers :
        Goto(r, label, regs) /\ regs.accepted \subseteq reg[r].accepted
    BY DEF Rests
<1>2. label \in Labels /\ label \notin {"notifying", "noting"}
    BY DEF Labels
<1>3. NoticeInv'
    BY <1>1, <1>2, HandlerFacts, NoticeKept
<1>4. Knows(r)'
    BY <1>1, HandlerFacts, RestKnows
<1> QED
    BY <1>1, <1>2, <1>3, <1>4, RunnerStep

LEMMA StoreStep ==
    ASSUME HandlerInv, StoreInv', Grows, UNCHANGED <<notice, notifications>>,
           NEW r \in Runners, NEW label \in Labels, label \notin {"notifying", "noting"},
           NEW regs \in Registers, Goto(r, label, regs), Knows(r)'
    PROVE  HandlerInv'
<1>1. NoticeInv'
    BY HandlerFacts, NoticeKept
<1> QED
    BY <1>1, RunnerStep

(* Whoever applies a message for the current version makes the next one.   *)
LEMMA MoveStore ==
    ASSUME StoreInv, NEW m \in 1..Len(inbox), inbox[m].cmd \in {"accept", "draft", "reject"},
           inbox[m].version = case.version, NEW v, v = case.version + 1,
           case' \in [version : {v}, status : Statuses, candidate : Drafts],
           movedBy' = [movedBy EXCEPT ![v] = m],
           UNCHANGED <<decision, command, intents, results, inbox, shown, notice, notifications>>
    PROVE  StoreInv' /\ Grows /\ v \in Candidates /\ movedBy'[v] = m
<1> USE DEF StoreInv
<1>1. StoreTypes /\ MailInv /\ CommandInv /\ FinalInv
    OBVIOUS
<1>2. case.version \in Nat /\ Len(inbox) \in Nat /\ MaxVersion \in Nat /\ MaxMessages \in Nat
      /\ Len(inbox) <= MaxMessages
    BY HandlerAssumption DEF StoreTypes
<1>3. v \in Candidates /\ case.version >= 1 /\ case'.version = v /\ m \in Sources /\ m # 0
    BY <1>2 DEF MailInv, Candidates, Sources, Messages
<1>4. movedBy \in [Candidates -> Sources] /\ movedBy'[v] = m
      /\ \A u \in Candidates : u # v => movedBy'[u] = movedBy[u]
    BY <1>3 DEF StoreTypes
<1>5. movedBy[v] = 0
    BY <1>2, <1>3 DEF MailInv
<1>6. Grows
    BY <1>1, <1>2, <1>4, <1>5 DEF Grows
<1>7. StoreTypes'
    BY <1>2, <1>3 DEF StoreTypes
<1>8. MailInv'
  <2>1. \A u \in Candidates : u \in Nat
      BY DEF Candidates
  <2> QED
      BY <1>2, <1>3, <1>4, <2>1 DEF MailInv, NoCase
<1>9. CommandInv'
  <2>1. ASSUME NEW x, x # 0, NEW k, NEW b, Moved(x, k, b) PROVE Moved(x, k, b)'
      BY <2>1, <1>4, <1>5 DEF Moved
  <2>2. \A x \in Messages : x # 0
      BY <1>2 DEF Messages
  <2>3. \A x \in Messages : command[x].kind \in Moving => Moved(x, command[x].kind, command[x].body)'
      BY <2>1, <2>2 DEF CommandInv
  <2>4. ASSUME NEW s \in shown, s.kind \in Moving PROVE Moved(s.src, s.kind, s.body)'
    <3>1. s.src \in Messages /\ Moved(s.src, s.kind, s.body)
        BY <2>4 DEF CommandInv
    <3> QED
        BY <2>1, <2>2, <3>1
  <2> QED
      BY <2>3, <2>4 DEF CommandInv
<1>10. FinalInv'
    BY DEF FinalInv
<1> QED
    BY <1>3, <1>4, <1>6, <1>7, <1>8, <1>9, <1>10

LEMMA CreateCandidateStep ==
    ASSUME HandlerInv, NEW r \in Runners, CreateCandidateAndRequest(r)
    PROVE  HandlerInv'
<1> USE HandlerFacts
<1> DEFINE m    == reg[r].msg
           v    == case.version + 1
           regs == [reg[r] EXCEPT !.kind = "draft-preview", !.body.candidate = v]
<1>1. /\ UNCHANGED <<decision, command, intents, results, inbox, shown, notice, notifications>>
      /\ pc[r] = "apply" /\ inbox[m].cmd = "draft"
    BY DEF CreateCandidateAndRequest, replyVars, sendVars, envVars
<1>2. m \in 1..Len(inbox) /\ reg[r].src = m /\ case.version \in Nat
    BY <1>1 DEF Knows, StoreTypes
<1>3. CASE Refused(r) /\ UNCHANGED <<case, artifact, movedBy>>
  <2>1. Quiet
      BY <1>1, <1>3 DEF Quiet
  <2> QED
      BY <1>1, <1>3, <2>1, Resting, RestStep
<1>4. CASE /\ Authorized(inbox[m].version)
           /\ case' = [version |-> v, status |-> "DRAFTED", candidate |-> v]
           /\ movedBy' = [movedBy EXCEPT ![v] = m]
           /\ Goto(r, "respond", regs)
  <2>1. inbox[m].version = case.version
      BY <1>4 DEF Authorized
  <2>2. inbox[m].version \in 1..(MaxVersion - 1)
      BY <1>1, <1>2 DEF StoreInv, MailInv
  <2>3. v \in Candidates
      BY <1>2, <2>1, <2>2, HandlerAssumption DEF Candidates
  <2>4. case' \in [version : {v}, status : Statuses, candidate : Drafts]
      BY <1>4, <2>3 DEF Statuses, Drafts
  <2>5. StoreInv' /\ Grows /\ movedBy'[v] = m
      BY <1>1, <1>2, <1>4, <2>1, <2>4, MoveStore
  <2>6. /\ regs \in Registers /\ regs.kind = "draft-preview" /\ regs.body.candidate = v
        /\ regs.msg = m /\ regs.src = m /\ regs.accepted = reg[r].accepted
      BY <1>2, <2>3 DEF Registers, Bodies, Drafts, Kinds, Private
  <2>7. "respond" \in Labels \ {"notifying", "noting"}
      BY DEF Labels, Telling
  <2>8. pc'[r] = "respond" /\ reg'[r] = regs
      BY <1>4, <2>6, <2>7, GotoIs
  <2> HIDE DEF regs, v, m
  <2>9. Knows(r)'
      BY <1>1, <1>2, <2>3, <2>5, <2>6, <2>8 DEF Knows, Telling, Keyed, Private, Moved, Grows
  <2> QED
      BY <1>1, <1>4, <2>5, <2>6, <2>7, <2>9, StoreStep
<1> QED
    BY <1>3, <1>4 DEF CreateCandidateAndRequest

LEMMA TransitionSimpleCommandStep ==
    ASSUME HandlerInv, NEW r \in Runners, TransitionSimpleCommand(r)
    PROVE  HandlerInv'
<1> USE HandlerFacts
<1> DEFINE m    == reg[r].msg
           cmd  == inbox[m].cmd
           regs == [reg[r] EXCEPT !.kind = cmd]
<1>1. /\ UNCHANGED <<decision, command, intents, results, inbox, shown, notice, notifications>>
      /\ pc[r] = "apply" /\ cmd \in {"pull", "accept", "reject"}
    BY DEF TransitionSimpleCommand, replyVars, sendVars, envVars
<1>2. /\ m \in 1..Len(inbox) /\ reg[r].src = m
      /\ case \in [version : Nat, status : Statuses, candidate : Drafts]
    BY <1>1 DEF Knows, StoreTypes
<1>3. CASE Refused(r) /\ UNCHANGED <<case, artifact, movedBy>>
  <2>1. Quiet
      BY <1>1, <1>3 DEF Quiet
  <2> QED
      BY <1>1, <1>3, <2>1, Resting, RestStep
<1>4. ASSUME Goto(r, "respond", regs), StoreInv', Grows,
             cmd # "pull" => \E v \in Candidates : movedBy'[v] = m
      PROVE  HandlerInv'
  <2>1. /\ regs \in Registers /\ regs.kind = cmd /\ cmd \in Private /\ cmd # "draft-preview"
        /\ regs.msg = m /\ regs.src = m /\ regs.accepted = reg[r].accepted
      BY <1>1, <1>2 DEF Registers, Kinds, Private
  <2>2. "respond" \in Labels \ {"notifying", "noting"}
      BY DEF Labels, Telling
  <2>3. pc'[r] = "respond" /\ reg'[r] = regs
      BY <1>4, <2>1, <2>2, GotoIs
  <2> HIDE DEF regs, m, cmd
  <2>4. Knows(r)'
      BY <1>1, <1>2, <1>4, <2>1, <2>3
      DEF Knows, Telling, Keyed, Private, Moving, Moved, Grows
  <2> QED
      BY <1>1, <1>4, <2>1, <2>2, <2>4, StoreStep
<1>5. CASE cmd = "pull" /\ UNCHANGED <<case, movedBy>> /\ Goto(r, "respond", regs)
  <2>1. Quiet
      BY <1>1, <1>5 DEF Quiet
  <2>2. StoreInv' /\ Grows
      BY <1>1, <2>1, QuietStore, QuietGrows
  <2> QED
      BY <1>4, <1>5, <2>2
<1>6. CASE /\ cmd \in {"accept", "reject"} /\ case.version = inbox[m].version
           /\ case' \in [version : {case.version + 1}, status : Statuses, candidate : Drafts]
           /\ movedBy' = [movedBy EXCEPT ![case.version + 1] = m]
           /\ Goto(r, "respond", regs)
  <2>1. StoreInv' /\ Grows /\ case.version + 1 \in Candidates /\ movedBy'[case.version + 1] = m
      BY <1>1, <1>2, <1>6, MoveStore
  <2> QED
      BY <1>4, <1>6, <2>1
<1>7. CASE /\ Authorized(inbox[m].version) /\ Goto(r, "respond", regs)
           /\ case' = [case EXCEPT !.version = IF cmd = "pull" THEN case.version
                                                               ELSE case.version + 1,
                         !.status = CASE cmd = "accept" -> "ACCEPTED"
                                      [] cmd = "reject" -> "REJECTED"
                                      [] OTHER -> @]
           /\ movedBy' = IF cmd = "pull" THEN movedBy
                         ELSE [movedBy EXCEPT ![case.version + 1] = m]
  <2>1. cmd = "pull" => case' = case
      BY <1>2, <1>7
  <2>2. cmd \in {"accept", "reject"} =>
          case' \in [version : {case.version + 1}, status : Statuses, candidate : Drafts]
      BY <1>2, <1>7 DEF Statuses
  <2>3. case.version = inbox[m].version
      BY <1>7 DEF Authorized
  <2> QED
      BY <1>1, <1>5, <1>6, <1>7, <2>1, <2>2, <2>3
<1> QED
    BY <1>3, <1>7 DEF TransitionSimpleCommand

LEMMA RecordCommandOnceStep ==
    ASSUME HandlerInv, NEW r \in Runners, RecordCommandOnce(r)
    PROVE  HandlerInv'
<1> USE HandlerFacts
<1> DEFINE m    == reg[r].msg
           mine == [kind |-> reg[r].kind, body |-> reg[r].body, key |-> reg[r].key]
           kept == IF command[m] = NoCommand THEN mine ELSE command[m]
           regs == [reg[r] EXCEPT !.kind = kept.kind, !.body = kept.body, !.key = kept.key]
<1>1. /\ UNCHANGED <<case, decision, movedBy, intents, results, inbox, shown, notice, notifications>>
      /\ pc[r] = "record" /\ command' = [command EXCEPT ![m] = kept]
    BY DEF RecordCommandOnce, sendVars, envVars
<1>2. /\ m \in Messages /\ m \in 1..Len(inbox) /\ reg[r].src = m /\ reg[r].kind \in Private
      /\ reg[r].kind \in Moving => Moved(m, reg[r].kind, reg[r].body)
      /\ reg[r].key.src = m /\ reg[r].key.kind = reg[r].kind
      /\ \E i \in intents : i.key = reg[r].key
  <2>1. m \in 1..Len(inbox) /\ Len(inbox) \in Nat /\ Len(inbox) <= MaxMessages /\ MaxMessages \in Nat
      BY <1>1, HandlerAssumption DEF Knows, StoreTypes
  <2> QED
      BY <1>1, <2>1 DEF Knows, Telling, Keyed, Messages
<1>3. /\ kept \in [kind : Kinds, body : Bodies, key : Keys]
      /\ kept.kind \in Private /\ kept.key.src = m /\ kept.key.kind = kept.kind
      /\ \E i \in intents : i.key = kept.key
      /\ kept.kind \in Moving => Moved(m, kept.kind, kept.body)
    BY <1>2 DEF StoreTypes, StoreInv, CommandInv, Registers
<1> HIDE DEF kept
<1>4. Grows
    BY <1>1 DEF Grows, StoreTypes
<1>5. StoreInv'
  <2>1. StoreTypes'
      BY <1>1, <1>2, <1>3 DEF StoreTypes
  <2>2. \A x \in Messages : command'[x] = IF x = m THEN kept ELSE command[x]
      BY <1>1, <1>2 DEF StoreTypes
  <2>3. CommandInv'
      BY <1>1, <1>3, <2>2 DEF StoreInv, CommandInv, Moved
  <2> QED
      BY <1>1, <2>1, <2>3 DEF StoreInv, MailInv, FinalInv
<1>6. CASE Rests(r)
    BY <1>1, <1>4, <1>5, <1>6, RestStoreStep
<1>7. CASE Goto(r, "execute", regs)
  <2>1. /\ regs \in Registers /\ regs.msg = m /\ regs.src = m /\ regs.accepted = reg[r].accepted
        /\ regs.kind = kept.kind /\ regs.key = kept.key /\ regs.body = kept.body
      BY <1>2, <1>3 DEF Registers
  <2>2. "execute" \in Labels \ {"notifying", "noting"}
      BY DEF Labels, Telling
  <2>3. pc'[r] = "execute" /\ reg'[r] = regs
      BY <1>7, <2>1, <2>2, GotoIs
  <2>4. kept.kind \in Moving => NowMoved(m, kept.kind, kept.body)
      BY <1>1, <1>3 DEF Moved, NowMoved
  <2> HIDE DEF regs, m
  <2>5. Knows(r)'
      BY <1>1, <1>2, <1>3, <2>1, <2>3, <2>4
      DEF Knows, Telling, Keyed, Private, Moved, NowMoved
  <2> QED
      BY <1>1, <1>4, <1>5, <1>7, <2>1, <2>2, <2>5, StoreStep
<1>8. Refused(r) \/ Goto(r, "execute", regs)
    BY DEF RecordCommandOnce, Reading, kept
<1> QED
    BY <1>6, <1>7, <1>8, Resting

LEMMA ApproveRequestStep ==
    ASSUME HandlerInv, NEW r \in Runners, NEW m \in GroupMessages, pc[r] = "receive",
           ApproveRequest(r, m)
    PROVE  HandlerInv'
<1> USE HandlerFacts
<1> DEFINE v    == inbox[m].request
           regs == [reg[r] EXCEPT !.msg = m, !.body.candidate = v]
<1>1. UNCHANGED <<movedBy, command, intents, results, inbox, shown, notice, notifications>>
    BY DEF ApproveRequest, replyVars, sendVars, envVars
<1>2. /\ m \in 1..Len(inbox) /\ m \in Messages /\ m # 0 /\ m \in Sources
      /\ v \in Candidates /\ Len(inbox) \in Nat
  <2>1. inbox \in Seq(Mails) /\ Len(inbox) <= MaxMessages /\ MaxMessages \in Nat
      BY HandlerAssumption DEF StoreTypes
  <2>2. DOMAIN inbox = 1..Len(inbox) /\ Len(inbox) \in Nat
      BY <2>1
  <2>3. m \in 1..Len(inbox) /\ inbox[m].cmd = "approve"
      BY <2>2 DEF GroupMessages
  <2> QED
      BY <2>1, <2>2, <2>3 DEF Messages, Sources, StoreInv, MailInv
<1>3. CASE Await(r) /\ UNCHANGED <<decision, case>>
  <2>1. Quiet
      BY <1>1, <1>3 DEF Quiet
  <2> QED
      BY <1>1, <1>3, <2>1, Resting, RestStep
<1>4. CASE /\ decision' = [decision EXCEPT ![v] = IF @ = 0 THEN m ELSE @]
           /\ case' = IF decision[v] = 0 THEN [case EXCEPT !.status = "APPROVED"] ELSE case
           /\ case.version = inbox[m].version /\ case.candidate = v /\ v = inbox[m].version
           /\ Goto(r, "final", regs)
  <2>1. /\ decision \in [Candidates -> Sources]
        /\ \A u \in Candidates : decision'[u] = IF u = v /\ decision[u] = 0 THEN m ELSE decision[u]
      BY <1>2, <1>4 DEF StoreTypes
  <2>2. Grows
      BY <1>1, <2>1 DEF Grows, StoreTypes
  <2>3. /\ case' \in [version : Nat, status : Statuses, candidate : Drafts]
        /\ case'.version = case.version
      BY <1>4 DEF StoreTypes, Statuses
  <2>4. StoreTypes'
      BY <1>1, <1>2, <1>4, <2>3 DEF StoreTypes
  <2>5. case # NoCase
      BY <1>2, <1>4, HandlerAssumption DEF NoCase, Candidates
  <2>6. MailInv'
    <3>1. v \in Nat /\ v <= case'.version
        BY <1>2, <1>4, <2>3 DEF Candidates
    <3> QED
        BY <1>1, <1>4, <2>1, <2>3, <2>5, <3>1 DEF StoreInv, MailInv
  <2>7. CommandInv'
      BY <1>1 DEF StoreInv, CommandInv, Moved
  <2>8. FinalInv'
      BY <1>1, <1>2, <2>1 DEF StoreInv, FinalInv
  <2>9. StoreInv'
      BY <2>4, <2>6, <2>7, <2>8 DEF StoreInv
  <2>10. regs \in Registers /\ regs.body.candidate = v /\ regs.accepted = reg[r].accepted
      BY <1>2 DEF Registers, Sources, Bodies, Drafts
  <2>11. "final" \in Labels \ {"notifying", "noting"}
      BY DEF Labels
  <2>12. pc'[r] = "final" /\ reg'[r] = regs
      BY <1>4, <2>10, <2>11, GotoIs
  <2> HIDE DEF regs, v
  <2>13. Knows(r)'
      BY <1>1, <1>2, <2>1, <2>10, <2>12 DEF Knows, Telling, Keyed
  <2> QED
      BY <1>1, <1>4, <2>2, <2>9, <2>10, <2>11, <2>13, StoreStep
<1> QED
    BY <1>3, <1>4 DEF ApproveRequest, Approvable, Authorized

LEMMA CreatePassiveIntentStep ==
    ASSUME HandlerInv, NEW r \in Runners, CreatePassiveIntent(r)
    PROVE  HandlerInv'
<1> USE HandlerFacts
<1> DEFINE k    == [src |-> reg[r].src, kind |-> reg[r].kind, version |-> case.version]
           regs == [reg[r] EXCEPT !.key = k]
<1> DEFINE label == IF reg[r].kind \in Private THEN "record" ELSE "execute"
<1>1. /\ UNCHANGED <<case, decision, movedBy, command, results, inbox, shown, notice, notifications>>
      /\ pc[r] = "intent" /\ Goto(r, label, regs)
      /\ intents' = IF \E i \in intents : i.key = k THEN intents
                    ELSE intents \cup {[key |-> k, body |-> reg[r].body]}
    BY DEF CreatePassiveIntent, caseVars, sendVars, envVars
<1>2. k \in Keys /\ k.src = reg[r].src /\ k.kind = reg[r].kind /\ reg[r].body \in Bodies
    BY DEF Keys, Registers, StoreTypes
<1>3. reg[r].kind = "final" =>
        /\ reg[r].body.candidate \in Candidates /\ decision[reg[r].body.candidate] # 0
        /\ decision[reg[r].body.candidate] = k.src
    BY <1>1, <1>2 DEF Knows, Telling
<1>4. /\ regs \in Registers /\ regs.key = k /\ regs.msg = reg[r].msg /\ regs.src = reg[r].src
      /\ regs.kind = reg[r].kind /\ regs.body = reg[r].body /\ regs.accepted = reg[r].accepted
    BY <1>2 DEF Registers
<1> HIDE DEF k, regs
<1>5. Grows /\ \E i \in intents' : i.key = k
  <2>1. intents \subseteq intents'
      BY <1>1
  <2>2. \E i \in intents' : i.key = k
    <3>1. CASE \E i \in intents : i.key = k
        BY <2>1, <3>1
    <3>2. CASE ~\E i \in intents : i.key = k
      <4>1. [key |-> k, body |-> reg[r].body] \in intents'
          BY <1>1, <3>2
      <4> QED
          BY <4>1
    <3> QED
        BY <3>1, <3>2
  <2> QED
      BY <1>1, <2>1, <2>2 DEF Grows, StoreTypes
<1>6. StoreInv'
  <2>1. StoreTypes'
      BY <1>1, <1>2 DEF StoreTypes
  <2>2. MailInv' /\ CommandInv'
      BY <1>1 DEF StoreInv, MailInv, CommandInv, Moved
  <2>3. FinalInv'
    <3>1. CASE \E i \in intents : i.key = k
        BY <1>1, <3>1 DEF StoreInv, FinalInv
    <3>2. CASE ~\E i \in intents : i.key = k
      <4> DEFINE new == [key |-> k, body |-> reg[r].body]
      <4>1. intents' = intents \cup {new} /\ new.key = k /\ new.body = reg[r].body
          BY <1>1, <3>2
      <4> HIDE DEF new
      <4>2. \A i, j \in intents' : i.key = j.key => i = j
          BY <3>2, <4>1 DEF StoreInv, FinalInv
      <4>3. \A i \in intents' : i.key.kind = "final" =>
              /\ i.body.candidate \in Candidates
              /\ decision[i.body.candidate] # 0 /\ decision[i.body.candidate] = i.key.src
          BY <1>2, <1>3, <4>1 DEF StoreInv, FinalInv
      <4> QED
          BY <1>1, <4>1, <4>2, <4>3 DEF StoreInv, FinalInv
    <3> QED
        BY <3>1, <3>2
  <2> QED
      BY <2>1, <2>2, <2>3 DEF StoreInv
<1>7. label \in Labels \ {"notifying", "noting"} /\ label \in {"record", "execute"}
    BY DEF Labels, Telling
<1>8. pc'[r] = label /\ reg'[r] = regs
    BY <1>1, <1>4, <1>7, GotoIs
<1>9. reg[r].kind \in Moving => NowMoved(reg[r].src, reg[r].kind, reg[r].body)
    BY <1>1 DEF Knows, Telling, Moved, NowMoved
<1>10. label = "record" => reg[r].kind \in Private
    OBVIOUS
<1> HIDE DEF label
<1>11. Knows(r)'
    BY <1>1, <1>2, <1>3, <1>4, <1>5, <1>7, <1>8, <1>9, <1>10
    DEF Knows, Telling, Keyed, Moved, NowMoved
<1> QED
    BY <1>1, <1>4, <1>5, <1>6, <1>7, <1>11, StoreStep

LEMMA SendStep ==
    ASSUME HandlerInv, NEW r \in Runners, Send(r)
    PROVE  HandlerInv'
<1> USE HandlerFacts
<1> DEFINE k     == reg[r].key
           reply == [src |-> k.src, kind |-> k.kind, body |-> reg[r].body]
           sent  == \E s \in shown' : s.src = k.src /\ s.kind = k.kind
           took(out) == [reg[r] EXCEPT !.out = out, !.accepted = @ \cup {<<k.src, k.kind>>}]
           failed(out) == [reg[r] EXCEPT !.out = out]
<1>1. /\ UNCHANGED <<case, decision, movedBy, command, intents, results, inbox, notice, notifications>>
      /\ pc[r] = "send" /\ (shown' = shown \/ shown' = shown \cup {reply})
    BY DEF Send, caseVars, replyVars, envVars
<1>2. k \in Keys /\ k.src = reg[r].src /\ k.kind = reg[r].kind /\ reg[r].body \in Bodies
    BY <1>1 DEF Knows, Keyed, Registers
<1>3. reply.src = k.src /\ reply.kind = k.kind /\ reply.body = reg[r].body
      /\ reply \in [src : Sources, kind : Kinds, body : Bodies]
    BY <1>2 DEF Keys
<1>4. /\ reg[r].kind \in Moving => reg[r].src \in Messages /\ Moved(reg[r].src, reg[r].kind, reg[r].body)
      /\ reg[r].kind = "final" => /\ reg[r].body.candidate \in Candidates
                                  /\ decision[reg[r].body.candidate] # 0
                                  /\ reg[r].src = decision[reg[r].body.candidate]
  <2>1. Len(inbox) \in Nat /\ Len(inbox) <= MaxMessages /\ MaxMessages \in Nat
      BY HandlerAssumption DEF StoreTypes
  <2>2. reg[r].kind \in Private => reg[r].src \in Messages
      BY <1>1, <2>1 DEF Knows, Telling, Messages
  <2> QED
      BY <1>1, <2>2 DEF Knows, Telling, Moving, Private
<1> HIDE DEF reply
<1>5. Grows
    BY <1>1 DEF Grows, StoreTypes
<1>6. StoreInv'
  <2>1. StoreTypes'
      BY <1>1, <1>3 DEF StoreTypes
  <2>2. CommandInv'
      BY <1>1, <1>2, <1>3, <1>4 DEF StoreInv, CommandInv, Moved
  <2>3. FinalInv'
    <3>1. \A s \in shown' : s.kind = "final" =>
            /\ s.body.candidate \in Candidates
            /\ decision[s.body.candidate] # 0 /\ decision[s.body.candidate] = s.src
        BY <1>1, <1>2, <1>3, <1>4 DEF StoreInv, FinalInv
    <3> QED
        BY <1>1, <1>5, <3>1 DEF StoreInv, FinalInv, Grows
  <2> QED
      BY <1>1, <2>1, <2>2, <2>3 DEF StoreInv, MailInv
<1>7. ASSUME NEW regs \in Registers, Goto(r, "result", regs),
             regs.msg = reg[r].msg, regs.src = reg[r].src, regs.kind = reg[r].kind,
             regs.body = reg[r].body, regs.key = reg[r].key,
             regs.accepted \subseteq reg[r].accepted \cup {<<k.src, k.kind>>},
             regs.out \in Accepted \/ regs.accepted # reg[r].accepted => sent
      PROVE  HandlerInv'
  <2>1. "result" \in Labels \ {"notifying", "noting"}
      BY DEF Labels, Telling
  <2>2. pc'[r] = "result" /\ reg'[r] = regs
      BY <1>7, <2>1, GotoIs
  <2>3. reg[r].kind \in Moving => NowMoved(reg[r].src, reg[r].kind, reg[r].body)
      BY <1>1, <1>4 DEF Moved, NowMoved
  <2>4. \A a \in regs.accepted : \E s \in shown' : s.src = a[1] /\ s.kind = a[2]
    <3>1. \A a \in reg[r].accepted : \E s \in shown' : s.src = a[1] /\ s.kind = a[2]
        BY <1>5 DEF Knows, Grows
    <3>2. CASE regs.accepted = reg[r].accepted
        BY <3>1, <3>2
    <3>3. CASE regs.accepted # reg[r].accepted
        BY <1>7, <3>1, <3>3
    <3> QED
        BY <3>2, <3>3
  <2> HIDE DEF k
  <2>5. sent => \E s \in shown' : s.kind = reg[r].kind /\ s.src = reg[r].src
      BY <1>2
  <2> HIDE DEF sent
  <2>6. Knows(r)'
      BY <1>1, <1>2, <1>4, <1>7, <2>2, <2>3, <2>4, <2>5
      DEF Knows, Telling, Keyed, Private, Moved, NowMoved
  <2> QED
      BY <1>1, <1>5, <1>6, <1>7, <2>1, <2>6, StoreStep
<1>8. ASSUME NEW out \in Accepted, Goto(r, "result", took(out)), sent PROVE HandlerInv'
  <2>1. <<k.src, k.kind>> \in Sources \X Kinds
      BY <1>2 DEF Keys
  <2>2. /\ took(out) \in Registers
        /\ took(out).accepted \subseteq reg[r].accepted \cup {<<k.src, k.kind>>}
        /\ took(out).msg = reg[r].msg /\ took(out).src = reg[r].src /\ took(out).kind = reg[r].kind
        /\ took(out).body = reg[r].body /\ took(out).key = reg[r].key
      BY <2>1 DEF Registers, Outs
  <2> QED
      BY <1>7, <1>8, <2>2
<1>9. ASSUME NEW out \in {"expired_window"} \cup Failing, Goto(r, "result", failed(out))
      PROVE  HandlerInv'
  <2>1. /\ failed(out) \in Registers /\ failed(out).accepted = reg[r].accepted
        /\ failed(out).out \notin Accepted
        /\ failed(out).msg = reg[r].msg /\ failed(out).src = reg[r].src
        /\ failed(out).kind = reg[r].kind
        /\ failed(out).body = reg[r].body /\ failed(out).key = reg[r].key
      BY DEF Registers, Outs, Failing, Accepted
  <2> QED
      BY <1>7, <1>9, <2>1
<1>10. \/ \E out \in Accepted : sent /\ Goto(r, "result", took(out))
       \/ \E out \in {"expired_window"} \cup Failing : Goto(r, "result", failed(out))
  <2>1. CASE /\ \E s \in shown : s.src = k.src /\ s.kind = k.kind
             /\ Goto(r, "result", took("duplicate"))
      BY <1>5, <2>1 DEF Accepted, Grows
  <2>2. CASE Goto(r, "result", took("accepted")) /\ shown' = shown \cup {reply}
      BY <1>3, <2>2 DEF Accepted
  <2>3. CASE \E out \in {"expired_window"} \cup Failing : Goto(r, "result", failed(out))
      BY <2>3
  <2> QED
      BY <2>1, <2>2, <2>3 DEF Send, Failing, reply
<1> QED
    BY <1>8, <1>9, <1>10

LEMMA RecordPassiveResultStep ==
    ASSUME HandlerInv, NEW r \in Runners, RecordPassiveResult(r)
    PROVE  HandlerInv'
<1> USE HandlerFacts
<1> DEFINE k    == reg[r].key
           kept == IF HasResult(k) THEN ResultOf(k) ELSE reg[r].out
           new  == [key |-> k, status |-> kept]
<1>1. /\ UNCHANGED <<decision, movedBy, command, intents, inbox, shown, notice, notifications>>
      /\ pc[r] = "result" /\ results' = results \cup {new}
      /\ case' = case \/ (case' = [case EXCEPT !.status = "FINAL_ACCEPTED"] /\ k.kind = "final")
    BY DEF RecordPassiveResult, sendVars, envVars
<1>2. k \in Keys /\ k.src = reg[r].src /\ k.kind = reg[r].kind /\ \E i \in intents : i.key = k
    BY <1>1 DEF Knows, Keyed, Registers
<1>3. /\ new \in [key : Keys, status : Outs] /\ new.key = k
      /\ k.kind = "final" /\ new.status \in Accepted =>
            \E s \in shown : s.kind = "final" /\ s.src = k.src
  <2>1. CASE HasResult(k)
    <3>1. PICK x \in results : x.key = k /\ x.status = kept
        BY <2>1 DEF HasResult, ResultOf
    <3> HIDE DEF kept
    <3>2. kept \in Outs
        BY <3>1 DEF StoreTypes
    <3>3. k.kind = "final" /\ kept \in Accepted => \E s \in shown : s.kind = "final" /\ s.src = k.src
        BY <3>1 DEF StoreInv, FinalInv
    <3> QED
        BY <1>2, <3>2, <3>3
  <2>2. CASE ~HasResult(k)
    <3>1. kept = reg[r].out
        BY <2>2
    <3> HIDE DEF kept
    <3> QED
        BY <1>1, <1>2, <3>1 DEF Registers, Knows
  <2> QED
      BY <2>1, <2>2
<1>4. Grows
    BY <1>1 DEF Grows, StoreTypes
<1>5. StoreInv'
  <2>1. /\ case' \in [version : Nat, status : Statuses, candidate : Drafts]
        /\ case'.version = case.version
      BY <1>1 DEF StoreTypes, Statuses
  <2> HIDE DEF new
  <2>2. StoreTypes'
      BY <1>1, <1>3, <2>1 DEF StoreTypes
  <2>3. MailInv'
    <3>1. ASSUME k.kind = "final" PROVE case.version >= 1
      <4>1. PICK v \in Candidates : decision[v] # 0
          BY <1>1, <1>2, <3>1 DEF Knows, Telling
      <4>2. v <= case.version /\ v \in Nat /\ v >= 2 /\ case.version \in Nat
          BY <4>1 DEF StoreInv, MailInv, StoreTypes, Candidates
      <4> QED
          BY <4>2
    <3>2. case' = NoCase \/ case'.version >= 1
        BY <1>1, <2>1, <3>1 DEF StoreInv, MailInv
    <3> QED
        BY <1>1, <2>1, <3>2 DEF StoreInv, MailInv
  <2>4. CommandInv'
      BY <1>1 DEF StoreInv, CommandInv, Moved
  <2>5. FinalInv'
      BY <1>1, <1>2, <1>3 DEF StoreInv, FinalInv
  <2> QED
      BY <2>2, <2>3, <2>4, <2>5 DEF StoreInv
<1>6. CASE Answered(r)
    BY <1>1, <1>4, <1>5, <1>6, Resting, RestStoreStep
<1>7. CASE Goto(r, "delete", reg[r])
  <2>1. "delete" \in Labels \ {"notifying", "noting"}
      BY DEF Labels
  <2>2. pc'[r] = "delete" /\ reg'[r] = reg[r]
      BY <1>7, <2>1, GotoIs
  <2>3. Knows(r)'
      BY <1>1, <2>2 DEF Knows, Telling, Keyed
  <2> QED
      BY <1>1, <1>4, <1>5, <1>7, <2>1, <2>3, StoreStep
<1> QED
    BY <1>6, <1>7 DEF RecordPassiveResult

LEMMA EnvironmentStep ==
    ASSUME HandlerInv, Environment
    PROVE  HandlerInv'
<1>1. /\ StoreInv /\ StoreTypes /\ RunnerTypes /\ NoticeInv
      /\ notice \in Notices /\ notifications \in Nat
    BY DEF HandlerInv, StoreInv, StoreTypes
<1>2. ASSUME UNCHANGED <<pc, reg, notice, notifications>>, StoreInv', Grows PROVE HandlerInv'
  <2>1. ASSUME NEW q \in Runners PROVE Knows(q)'
      BY <1>1, <1>2, <2>1, KnowsKept DEF HandlerInv, StoreInv
  <2> QED
      BY <1>1, <1>2, <2>1 DEF HandlerInv, RunnerTypes, NoticeInv
<1>3. CASE RevokeHandlerBinding \/ \E d \in Deadlines : Pass(d)
  <2>1. Quiet /\ UNCHANGED <<pc, reg, notice, notifications>>
      BY <1>3 DEF RevokeHandlerBinding, Pass, Quiet, caseVars, replyVars, sendVars
  <2> QED
      BY <1>1, <1>2, <2>1, QuietStore, QuietGrows
<1>4. ASSUME NEW cmd, NEW v, NEW request, Post(cmd, v, request),
             [cmd |-> cmd, version |-> v, request |-> request] \in Mails,
             cmd \in {"accept", "draft", "reject", "assist"} => v \in 1..(MaxVersion - 1),
             cmd = "approve" => request \in Candidates
      PROVE  HandlerInv'
  <2> DEFINE mail == [cmd |-> cmd, version |-> v, request |-> request]
  <2>1. /\ UNCHANGED <<case, decision, movedBy, command, intents, results, shown>>
        /\ UNCHANGED <<pc, reg, notice, notifications>>
        /\ Len(inbox) < MaxMessages /\ inbox' = Append(inbox, mail)
      BY <1>4 DEF Post, caseVars, replyVars, sendVars
  <2>2. mail \in Mails /\ mail.cmd = cmd /\ mail.version = v /\ mail.request = request
      BY <1>4
  <2> HIDE DEF mail
  <2>3. /\ inbox \in Seq(Mails) /\ Len(inbox) \in Nat /\ MaxMessages \in Nat
        /\ inbox' \in Seq(Mails) /\ Len(inbox') = Len(inbox) + 1
        /\ inbox'[Len(inbox) + 1] = mail
        /\ \A m \in 1..Len(inbox) : inbox'[m] = inbox[m]
      BY <1>1, <2>1, <2>2, HandlerAssumption DEF StoreTypes
  <2>4. Grows
      BY <2>1, <2>3 DEF Grows
  <2>5. StoreTypes'
      BY <1>1, <2>1, <2>3 DEF StoreTypes
  <2>6. MailInv'
    <3>1. ASSUME NEW m \in 1..Len(inbox')
          PROVE  /\ inbox'[m].cmd \in {"accept", "draft", "reject", "assist"} =>
                        inbox'[m].version \in 1..(MaxVersion - 1)
                 /\ inbox'[m].cmd = "approve" => inbox'[m].request \in Candidates
      <4>1. CASE m = Len(inbox) + 1
          BY <1>4, <2>2, <2>3, <4>1
      <4>2. CASE m \in 1..Len(inbox)
          BY <1>1, <2>3, <4>2 DEF StoreInv, MailInv
      <4> QED
          BY <2>3, <4>1, <4>2
    <3>2. \A u \in Candidates : movedBy[u] # 0 =>
            /\ movedBy[u] \in 1..Len(inbox') /\ inbox'[movedBy[u]].version = u - 1
            /\ u <= case.version
        BY <1>1, <2>3 DEF StoreInv, MailInv
    <3> QED
        BY <1>1, <2>1, <3>1, <3>2 DEF StoreInv, MailInv
  <2>7. CommandInv'
      BY <1>1, <2>1 DEF StoreInv, CommandInv, Moved
  <2>8. FinalInv'
    <3>1. \A u \in Candidates : decision[u] # 0 =>
            decision[u] \in 1..Len(inbox') /\ inbox'[decision[u]].request = u
        BY <1>1, <2>3 DEF StoreInv, FinalInv
    <3> QED
        BY <1>1, <2>1, <3>1 DEF StoreInv, FinalInv
  <2> QED
      BY <1>2, <2>1, <2>4, <2>5, <2>6, <2>7, <2>8 DEF StoreInv
<1>5. ASSUME NEW cmd \in Commands, PostPrivate(cmd) PROVE HandlerInv'
  <2>1. /\ Post(cmd, case.version, 0) /\ case # NoCase
        /\ cmd = "pull" \/ case.version < MaxVersion
      BY <1>5 DEF PostPrivate
  <2>2. /\ cmd \in {"pull", "accept", "draft", "reject", "assist"} /\ MaxVersion \in Nat
        /\ case.version \in Nat /\ case.version >= 1
      BY <1>1, <2>1, HandlerAssumption DEF StoreInv, StoreTypes, MailInv
  <2>3. [cmd |-> cmd, version |-> case.version, request |-> 0] \in Mails
      BY <2>2 DEF Mails, Drafts
  <2> QED
      BY <1>4, <2>1, <2>2, <2>3
<1>6. CASE PostApproval
  <2>1. PICK p \in Previews : Post("approve", p.version, p.candidate)
      BY <1>6 DEF PostApproval
  <2>2. p \in Bodies /\ p.candidate # 0
      BY <1>1 DEF Previews, StoreTypes
  <2>3. p.candidate \in Candidates /\ p.version \in Nat
      BY <2>2 DEF Bodies, Drafts
  <2>4. [cmd |-> "approve", version |-> p.version, request |-> p.candidate] \in Mails
      BY <2>3 DEF Mails, Drafts
  <2> QED
      BY <1>4, <2>1, <2>3, <2>4
<1> QED
    BY <1>3, <1>5, <1>6 DEF Environment

-----------------------------------------------------------------------------
(* Every step, and what follows for every behaviour.                       *)

LEMMA HandlerNext == HandlerInv /\ [Next]_vars => HandlerInv'
<1> SUFFICES ASSUME HandlerInv, [Next]_vars PROVE HandlerInv'
    OBVIOUS
<1>1. ASSUME NEW r \in Runners, StartRun(r) \/ Step(r) \/ Crash(r) PROVE HandlerInv'
  <2>1. CASE StartRun(r) \/ Crash(r) \/ DeleteArtifacts(r)
      BY <2>1, StartRunStep, DeleteOrCrashStep
  <2>2. CASE NoticeStep(r)
      BY <2>2, CreateIssueArtifactStep, CreateNotificationIntentStep, StartAttemptStep,
         NotifyC2cStep, RecordNotificationStep DEF NoticeStep
  <2>3. CASE CommandStep(r)
      BY <2>3, CreateCandidateStep, TransitionSimpleCommandStep, RespondStep,
         RecordCommandOnceStep, FinalDeliveryIntentStep DEF CommandStep
  <2>4. CASE ReplyStep(r)
      BY <2>1, <2>4, CreatePassiveIntentStep, ExecutePassiveReplyStep, SendStep,
         RecordPassiveResultStep DEF ReplyStep
  <2> QED
      BY <1>1, <2>1, <2>2, <2>3, <2>4 DEF Step
<1>2. ASSUME NEW r \in Runners, NEW m \in PrivateMessages, ReceivePrivate(r, m) PROVE HandlerInv'
    BY <1>2, ReceivePrivateStep
<1>3. ASSUME NEW r \in Runners, NEW m \in GroupMessages, pc[r] = "receive", ApproveRequest(r, m)
      PROVE  HandlerInv'
    BY <1>3, ApproveRequestStep
<1>4. CASE Environment
    BY <1>4, EnvironmentStep
<1>5. CASE UNCHANGED vars
  <2>1. Quiet /\ UNCHANGED <<pc, reg, notice, notifications>>
      BY <1>5 DEF vars, caseVars, replyVars, sendVars, envVars, Quiet
  <2>2. StoreInv' /\ Grows
      BY <2>1, QuietStore, QuietGrows DEF HandlerInv, StoreInv, StoreTypes
  <2>3. ASSUME NEW q \in Runners PROVE Knows(q)'
      BY <2>1, <2>2, <2>3, KnowsKept DEF HandlerInv, StoreInv
  <2> QED
      BY <2>1, <2>2, <2>3 DEF HandlerInv, RunnerTypes, NoticeInv
<1> QED
    BY <1>1, <1>2, <1>3, <1>4, <1>5 DEF Next

LEMMA HandlerAlways == Spec => []HandlerInv
BY HandlerInit, HandlerNext, PTL DEF Spec

(* However many runners there are and whatever stops them, the active      *)
(* notification is sent at most once: an attempt that was started is never *)
(* repeated (execute_notification).                                        *)
THEOREM NotifiedAtMostOnce == Spec => []NotifiedOnce
<1>1. HandlerInv => NotifiedOnce
    BY DEF HandlerInv, NoticeInv, NotifiedOnce
<1> QED
    BY <1>1, HandlerAlways, PTL

(* A message moves the Case at most once, and no response, recorded or     *)
(* shown, claims a transition that its message did not make                *)
(* (_authorize_case_row, record_command_once).                             *)
THEOREM ResponsesTruthful == Spec => []CommandsTruthful
<1>1. HandlerInv => CommandsTruthful
  <2> SUFFICES ASSUME HandlerInv PROVE CommandsTruthful
      OBVIOUS
  <2>1. MailInv /\ CommandInv
      BY DEF HandlerInv, StoreInv
  <2>2. \A u, v \in Candidates : u # v /\ movedBy[u] = movedBy[v] => movedBy[u] = 0
    <3>1. \A u \in Candidates : u \in Nat
        BY DEF Candidates
    <3> QED
        BY <2>1, <3>1 DEF MailInv
  <2> QED
      BY <2>1, <2>2 DEF CommandInv, CommandsTruthful, Moving
<1> QED
    BY <1>1, HandlerAlways, PTL

-----------------------------------------------------------------------------
(* The final reply as an effect that happens once.                         *)

Intended == {v \in Candidates : decision[v] # 0}

LEMMA IntentOfKept ==
    ASSUME StoreInv, NEW k, \E i \in intents : i.key = k
    PROVE  IntentOf(k) \in intents /\ IntentOf(k).key = k
BY DEF IntentOf

(* A step writes one of decision, shown and results, and adds one to it.   *)
OneGrows ==
    \/ UNCHANGED <<decision, shown, results>> /\ intents \subseteq intents'
    \/ /\ UNCHANGED <<shown, results, intents>>
       /\ \E v \in Candidates, m \in Sources :
             decision' = [decision EXCEPT ![v] = IF @ = 0 THEN m ELSE @]
    \/ /\ UNCHANGED <<decision, results, intents>>
       /\ \E reply : shown' = shown \cup {reply}
    \/ /\ UNCHANGED <<decision, shown, intents>>
       /\ \E x : results' = results \cup {x}

LEMMA OneGrowsStep == HandlerInv /\ [Next]_vars => OneGrows
<1> SUFFICES ASSUME HandlerInv, [Next]_vars PROVE OneGrows
    OBVIOUS
<1> USE DEF OneGrows
<1>1. ASSUME NEW r \in Runners, NoticeStep(r) PROVE OneGrows
    BY <1>1 DEF NoticeStep, CreateIssueArtifact, CreateNotificationIntent, StartAttempt, NotifyC2c,
                RecordNotification, caseVars, replyVars, sendVars, envVars
<1>2. ASSUME NEW r \in Runners, CommandStep(r) PROVE OneGrows
    BY <1>2 DEF CommandStep, CreateCandidateAndRequest, TransitionSimpleCommand, Respond,
                RecordCommandOnce, FinalDeliveryIntent, replyVars, sendVars, envVars
<1>3. ASSUME NEW r \in Runners, ReplyStep(r) PROVE OneGrows
  <2>1. CASE CreatePassiveIntent(r)
      BY <2>1 DEF CreatePassiveIntent, caseVars, sendVars
  <2>2. CASE ExecutePassiveReply(r) \/ DeleteArtifacts(r)
      BY <2>2 DEF ExecutePassiveReply, DeleteArtifacts, caseVars, replyVars, sendVars
  <2>3. CASE Send(r)
      BY <2>3 DEF Send, caseVars, replyVars
  <2>4. CASE RecordPassiveResult(r)
      BY <2>4 DEF RecordPassiveResult, sendVars
  <2> QED
      BY <1>3, <2>1, <2>2, <2>3, <2>4 DEF ReplyStep
<1>4. ASSUME NEW r \in Runners, StartRun(r) \/ Crash(r) PROVE OneGrows
    BY <1>4 DEF StartRun, Crash, caseVars, replyVars, sendVars
<1>5. ASSUME NEW r \in Runners, NEW m \in PrivateMessages, ReceivePrivate(r, m) PROVE OneGrows
    BY <1>5 DEF ReceivePrivate, replyVars, sendVars
<1>6. ASSUME NEW r \in Runners, NEW m \in GroupMessages, ApproveRequest(r, m) PROVE OneGrows
  <2>1. UNCHANGED <<shown, results, intents>>
      BY <1>6 DEF ApproveRequest, replyVars, sendVars
  <2>2. m \in Sources /\ inbox[m].request \in Candidates
    <3>1. inbox \in Seq(Mails) /\ Len(inbox) <= MaxMessages /\ MaxMessages \in Nat
        BY HandlerAssumption DEF HandlerInv, StoreInv, StoreTypes
    <3>2. DOMAIN inbox = 1..Len(inbox) /\ Len(inbox) \in Nat
        BY <3>1
    <3> QED
        BY <3>1, <3>2 DEF GroupMessages, Sources, Messages, HandlerInv, StoreInv, MailInv
  <2> QED
      BY <1>6, <2>1, <2>2 DEF ApproveRequest
<1>7. CASE Environment
    BY <1>7 DEF Environment, PostPrivate, PostApproval, Post, RevokeHandlerBinding, Pass,
                caseVars, replyVars, sendVars
<1>8. CASE UNCHANGED vars
    BY <1>8 DEF vars, caseVars, replyVars, sendVars
<1> QED
    BY <1>1, <1>2, <1>3, <1>4, <1>5, <1>6, <1>7, <1>8 DEF Next, Step

(* The candidate of a final intent is the one its message decided for.     *)
LEMMA FinalCandidate ==
    ASSUME StoreInv, NEW k, k.kind = "final", \E i \in intents : i.key = k,
           \E s \in shown : s.kind = "final" /\ s.src = k.src
    PROVE  IntentOf(k).body.candidate \in FinalShown
<1> DEFINE i == IntentOf(k)
<1>1. i \in intents /\ i.key = k
    BY IntentOfKept
<1>2. PICK s \in shown : s.kind = "final" /\ s.src = k.src
    OBVIOUS
<1> HIDE DEF i
<1>3. /\ i.body.candidate \in Candidates /\ s.body.candidate \in Candidates
      /\ decision[i.body.candidate] = k.src /\ decision[s.body.candidate] = k.src /\ k.src # 0
    BY <1>1, <1>2 DEF StoreInv, FinalInv
<1>4. s.body.candidate = i.body.candidate
    BY <1>3 DEF StoreInv, FinalInv
<1> QED
    BY <1>2, <1>4 DEF FinalShown, i

LEMMA ShownIsIntended == StoreInv => FinalShown \subseteq Intended /\ Intended \subseteq Candidates
BY DEF StoreInv, FinalInv, FinalShown, Intended

LEMMA TakenIsShown == StoreInv => FinalTaken \subseteq FinalShown
<1> SUFFICES ASSUME StoreInv, NEW x \in results, x.key.kind = "final", x.status \in Accepted
             PROVE  IntentOf(x.key).body.candidate \in FinalShown
    BY DEF FinalTaken
<1> QED
    BY FinalCandidate DEF StoreInv, FinalInv

LEMMA IntentsStay ==
    ASSUME StoreInv, StoreInv', intents \subseteq intents', NEW x \in results
    PROVE  IntentOf(x.key)' = IntentOf(x.key)
<1>1. IntentOf(x.key) \in intents /\ IntentOf(x.key).key = x.key
    BY IntentOfKept DEF StoreInv, FinalInv
<1>2. IntentOf(x.key)' \in intents' /\ IntentOf(x.key)'.key = x.key
    BY <1>1 DEF IntentOf
<1> QED
    BY <1>1, <1>2 DEF StoreInv, FinalInv

LEMMA TakenStays ==
    ASSUME StoreInv, StoreInv', intents \subseteq intents', results' = results
    PROVE  FinalTaken' = FinalTaken
<1> DEFINE taken == {y \in results : y.key.kind = "final" /\ y.status \in Accepted}
<1>1. FinalTaken = {IntentOf(x.key).body.candidate : x \in taken}
    BY DEF FinalTaken
<1>2. FinalTaken' = {IntentOf(x.key)'.body.candidate : x \in taken}
    BY DEF FinalTaken
<1>3. \A x \in taken : IntentOf(x.key)' = IntentOf(x.key)
    BY IntentsStay
<1> QED
    BY <1>1, <1>2, <1>3

LEMMA FinalStep == HandlerInv /\ HandlerInv' /\ [Next]_vars => [FinalReply!Next]_(FinalReply!effects)
<1> SUFFICES ASSUME HandlerInv, HandlerInv', OneGrows
             PROVE  [FinalReply!Next]_(FinalReply!effects)
    BY OneGrowsStep
<1>1. StoreInv /\ StoreInv'
    BY DEF HandlerInv
<1>2. /\ FinalTaken \subseteq FinalShown /\ FinalShown \subseteq Intended
      /\ (FinalTaken \subseteq FinalShown)' /\ (FinalShown \subseteq Intended)'
      /\ (Intended \subseteq Candidates)' /\ Intended \subseteq Candidates
  <2>1. (FinalTaken \subseteq FinalShown)'
      BY <1>1, TakenIsShown, PTL
  <2>2. (FinalShown \subseteq Intended)' /\ (Intended \subseteq Candidates)'
      BY <1>1, ShownIsIntended, PTL
  <2> QED
      BY <1>1, <2>1, <2>2, TakenIsShown, ShownIsIntended
<1>3. ASSUME UNCHANGED <<Intended, FinalShown, FinalTaken>>
      PROVE  [FinalReply!Next]_(FinalReply!effects)
    BY <1>3 DEF FinalReply!effects, Intended
<1>4. CASE UNCHANGED <<decision, shown, results>> /\ intents \subseteq intents'
  <2>1. Intended' = Intended /\ FinalShown' = FinalShown
      BY <1>4 DEF Intended, FinalShown
  <2> QED
      BY <1>1, <1>3, <1>4, <2>1, TakenStays
<1>5. CASE /\ UNCHANGED <<shown, results, intents>>
           /\ \E v \in Candidates, m \in Sources :
                 decision' = [decision EXCEPT ![v] = IF @ = 0 THEN m ELSE @]
  <2>1. PICK v \in Candidates, m \in Sources :
          decision' = [decision EXCEPT ![v] = IF @ = 0 THEN m ELSE @]
      BY <1>5
  <2>2. FinalShown' = FinalShown /\ FinalTaken' = FinalTaken
      BY <1>1, <1>5, TakenStays DEF FinalShown
  <2>3. decision \in [Candidates -> Sources]
      BY <1>1 DEF StoreInv, StoreTypes
  <2>4. Intended' = Intended \/ (v \notin Intended /\ Intended' = Intended \cup {v})
      BY <2>1, <2>3 DEF Intended
  <2>5. ASSUME v \notin Intended, Intended' = Intended \cup {v} PROVE FinalReply!Next
      BY <2>2, <2>5 DEF FinalReply!Next, FinalReply!Intend, NoEffect, Intended
  <2> QED
      BY <1>3, <2>2, <2>4, <2>5
<1>6. CASE /\ UNCHANGED <<decision, results, intents>>
           /\ \E reply : shown' = shown \cup {reply}
  <2>1. PICK reply : shown' = shown \cup {reply}
      BY <1>6
  <2>2. Intended' = Intended /\ FinalTaken' = FinalTaken
      BY <1>1, <1>6, TakenStays DEF Intended
  <2> DEFINE c == reply.body.candidate
  <2>3. FinalShown' = FinalShown \/ (c \notin FinalShown /\ FinalShown' = FinalShown \cup {c})
      BY <2>1 DEF FinalShown
  <2>4. ASSUME c \notin FinalShown, FinalShown' = FinalShown \cup {c} PROVE FinalReply!Next
    <3> HIDE DEF c
    <3>1. c \in Candidates /\ c \in Intended
        BY <1>2, <2>2, <2>4
    <3> QED
        BY <2>2, <2>4, <3>1 DEF FinalReply!Next, FinalReply!Execute, Intended
  <2> QED
      BY <1>3, <2>2, <2>3, <2>4
<1>7. CASE /\ UNCHANGED <<decision, shown, intents>>
           /\ \E x : results' = results \cup {x}
  <2>1. PICK x : results' = results \cup {x}
      BY <1>7
  <2>2. Intended' = Intended /\ FinalShown' = FinalShown
      BY <1>7 DEF Intended, FinalShown
  <2> DEFINE c == IntentOf(x.key).body.candidate
  <2>3. \A k : IntentOf(k)' = IntentOf(k)
      BY <1>7 DEF IntentOf
  <2>4. FinalTaken' = FinalTaken \/ (c \notin FinalTaken /\ FinalTaken' = FinalTaken \cup {c})
      BY <2>1, <2>3 DEF FinalTaken
  <2>5. ASSUME c \notin FinalTaken, FinalTaken' = FinalTaken \cup {c} PROVE FinalReply!Next
    <3> HIDE DEF c
    <3>1. c \in Candidates /\ c \in FinalShown
        BY <1>2, <2>2, <2>5
    <3> QED
        BY <2>2, <2>5, <3>1 DEF FinalReply!Next, FinalReply!Complete, Intended
  <2> QED
      BY <1>3, <2>2, <2>4, <2>5
<1> QED
    BY <1>4, <1>5, <1>6, <1>7 DEF OneGrows

(* A final reply is shown at most once for a candidate, only after a       *)
(* recorded decision for it, and is taken as accepted only when QQ shows   *)
(* it (approve_request, create_passive_intent, _record_passive_result).    *)
THEOREM FinalRefinesEffectOnce == Spec => ImplementsFinalOnce
<1>1. Init => FinalReply!Init
  <2> SUFFICES ASSUME Init PROVE FinalReply!Init
      OBVIOUS
  <2>1. FinalShown = {} /\ FinalTaken = {}
      BY DEF Init, FinalShown, FinalTaken
  <2> QED
      BY <2>1 DEF Init, FinalReply!Init
<1>2. HandlerInv /\ HandlerInv' /\ [Next]_vars => [FinalReply!Next]_(FinalReply!effects)
    BY FinalStep
<1> QED
    BY <1>1, <1>2, HandlerAlways, PTL DEF Spec, ImplementsFinalOnce, FinalReply!Spec

-----------------------------------------------------------------------------
(* The private bodies after the final reply.                               *)

Erased == \A a \in DOMAIN artifact : artifact[a] \in {"none", "deleted"}

(* Once a final reply is taken as accepted the Case is final, and whoever  *)
(* recorded it has erased the bodies or is about to.                       *)
ContentInv ==
    /\ crashes \in Nat
    /\ FinalTaken # {} => case.status = "FINAL_ACCEPTED"
    /\ FinalTaken # {} /\ crashes = 0 => Erased \/ \E r \in Runners : pc[r] = "delete"

(* A final Case stays final, what is erased stays erased, and a runner     *)
(* leaves the deletion only by doing it or by a crash.                     *)
StaysFinal ==
    /\ crashes' \in Nat /\ (crashes' = 0 => crashes = 0)
    /\ case.status = "FINAL_ACCEPTED" => case'.status = "FINAL_ACCEPTED" /\ (Erased => Erased')
    /\ crashes' = 0 => \A r \in Runners : pc[r] = "delete" => pc'[r] = "delete" \/ Erased'

(* A runner moves on, whereto does not matter.                             *)
Moves(r) == \E label, regs : Goto(r, label, regs)

LEMMA RestMoves ==
    ASSUME NEW r, Refused(r) \/ Await(r) \/ Leave(r) \/ Answered(r)
    PROVE  Moves(r)
BY DEF Moves, Refused, Await, Leave, Answered

LEMMA RunnerKeepsFinal ==
    ASSUME HandlerInv, ContentInv, NEW r \in Runners, pc[r] # "delete", UNCHANGED crashes, Moves(r),
           case.status = "FINAL_ACCEPTED" => case'.status = "FINAL_ACCEPTED" /\ (Erased => Erased')
    PROVE  StaysFinal
<1>1. \A q \in Runners : q # r => pc'[q] = pc[q]
    BY DEF HandlerInv, RunnerTypes, Moves, Goto
<1> QED
    BY <1>1 DEF ContentInv, StaysFinal

LEMMA StaysFinalStep == HandlerInv /\ ContentInv /\ [Next]_vars => StaysFinal
<1> SUFFICES ASSUME HandlerInv, ContentInv, [Next]_vars PROVE StaysFinal
    OBVIOUS
<1>1. ASSUME NEW r \in Runners, NoticeStep(r) PROVE StaysFinal
  <2>1. Moves(r)
    <3>1. ASSUME NEW status, AfterNotice(r, status) PROVE Moves(r)
        BY <3>1, RestMoves DEF AfterNotice, Moves
    <3>2. CASE CreateIssueArtifact(r) \/ CreateNotificationIntent(r)
        BY <3>2 DEF CreateIssueArtifact, CreateNotificationIntent, Moves
    <3>3. CASE StartAttempt(r)
        BY <3>1, <3>3, RestMoves DEF StartAttempt, Moves
    <3>4. CASE NotifyC2c(r)
        BY <3>4 DEF NotifyC2c, Moves
    <3>5. CASE RecordNotification(r)
        BY <3>1, <3>5 DEF RecordNotification
    <3> QED
        BY <1>1, <3>2, <3>3, <3>4, <3>5 DEF NoticeStep
  <2>2. /\ pc[r] # "delete" /\ UNCHANGED crashes
        /\ UNCHANGED <<case, artifact>> \/ case = NoCase
      BY <1>1 DEF NoticeStep, CreateIssueArtifact, CreateNotificationIntent, StartAttempt, NotifyC2c,
                  RecordNotification, caseVars, envVars
  <2> QED
      BY <2>1, <2>2, RunnerKeepsFinal DEF NoCase, Erased
<1>2. ASSUME NEW r \in Runners, CommandStep(r) PROVE StaysFinal
  <2>1. pc[r] # "delete" /\ UNCHANGED crashes
      BY <1>2 DEF CommandStep, CreateCandidateAndRequest, TransitionSimpleCommand, Respond,
                  RecordCommandOnce, FinalDeliveryIntent, envVars
  <2>2. CASE CreateCandidateAndRequest(r) \/ TransitionSimpleCommand(r)
    <3>1. Moves(r)
        BY <2>2, RestMoves DEF CreateCandidateAndRequest, TransitionSimpleCommand, Moves
    <3>2. UNCHANGED <<case, artifact>> \/ case.status # "FINAL_ACCEPTED"
        BY <2>2 DEF CreateCandidateAndRequest, TransitionSimpleCommand, Authorized, Terminal
    <3> QED
        BY <2>1, <3>1, <3>2, RunnerKeepsFinal DEF Erased
  <2>3. CASE Respond(r) \/ RecordCommandOnce(r) \/ FinalDeliveryIntent(r)
    <3>1. Moves(r)
        BY <2>3, RestMoves DEF Respond, RecordCommandOnce, FinalDeliveryIntent, Reading, Moves
    <3>2. UNCHANGED case /\ (Erased => Erased')
        BY <2>3 DEF Respond, RecordCommandOnce, FinalDeliveryIntent, Reading, Erased, AllDeleted
    <3> QED
        BY <2>1, <3>1, <3>2, RunnerKeepsFinal
  <2> QED
      BY <1>2, <2>2, <2>3 DEF CommandStep
<1>3. ASSUME NEW r \in Runners, ReplyStep(r), ~DeleteArtifacts(r) PROVE StaysFinal
  <2>1. Moves(r)
      BY <1>3, RestMoves DEF ReplyStep, CreatePassiveIntent, ExecutePassiveReply, Send,
                             RecordPassiveResult, Moves
  <2>2. /\ pc[r] # "delete" /\ UNCHANGED <<crashes, artifact>>
        /\ UNCHANGED case \/ case' = [case EXCEPT !.status = "FINAL_ACCEPTED"]
      BY <1>3 DEF ReplyStep, CreatePassiveIntent, ExecutePassiveReply, Send, RecordPassiveResult,
                  caseVars, envVars
  <2>3. case.status = "FINAL_ACCEPTED" => case'.status = "FINAL_ACCEPTED"
      BY <2>2 DEF HandlerInv, StoreInv, StoreTypes
  <2> QED
      BY <2>1, <2>2, <2>3, RunnerKeepsFinal DEF Erased
<1>4. ASSUME NEW r \in Runners, DeleteArtifacts(r) PROVE StaysFinal
  <2>1. Erased' /\ UNCHANGED <<case, crashes>>
      BY <1>4 DEF DeleteArtifacts, AllDeleted, Erased, envVars
  <2> QED
      BY <2>1 DEF StaysFinal, ContentInv
<1>5. ASSUME NEW r \in Runners, Crash(r) PROVE StaysFinal
    BY <1>5 DEF Crash, StaysFinal, ContentInv, Erased, caseVars
<1>6. ASSUME NEW r \in Runners, StartRun(r) PROVE StaysFinal
  <2>1. Moves(r) /\ pc[r] # "delete" /\ UNCHANGED <<case, artifact, crashes>>
      BY <1>6 DEF StartRun, Moves, caseVars, envVars
  <2> QED
      BY <2>1, RunnerKeepsFinal DEF Erased
<1>7. ASSUME NEW r \in Runners, NEW m, ReceivePrivate(r, m) PROVE StaysFinal
  <2>1. Moves(r)
      BY <1>7, RestMoves DEF ReceivePrivate, Reading, Moves
  <2>2. pc[r] # "delete" /\ UNCHANGED <<case, crashes>> /\ (Erased => Erased')
      BY <1>7 DEF ReceivePrivate, Reading, Erased, AllDeleted, envVars
  <2> QED
      BY <2>1, <2>2, RunnerKeepsFinal
<1>8. ASSUME NEW r \in Runners, NEW m, pc[r] = "receive", ApproveRequest(r, m) PROVE StaysFinal
  <2>1. Moves(r) /\ UNCHANGED <<artifact, crashes>>
      BY <1>8, RestMoves DEF ApproveRequest, Moves, envVars
  <2>2. UNCHANGED case \/ case.status # "FINAL_ACCEPTED"
      BY <1>8 DEF ApproveRequest, Approvable, Authorized, Terminal
  <2> QED
      BY <1>8, <2>1, <2>2, RunnerKeepsFinal DEF Erased
<1>9. CASE Environment \/ UNCHANGED vars
  <2>1. UNCHANGED <<case, artifact, crashes, pc>>
      BY <1>9 DEF Environment, PostPrivate, PostApproval, Post, RevokeHandlerBinding, Pass,
                  vars, caseVars, envVars
  <2> QED
      BY <2>1 DEF StaysFinal, ContentInv, Erased
<1> QED
    BY <1>1, <1>2, <1>3, <1>4, <1>5, <1>6, <1>7, <1>8, <1>9 DEF Next, Step

LEMMA ContentNext == HandlerInv /\ HandlerInv' /\ ContentInv /\ [Next]_vars => ContentInv'
<1> SUFFICES ASSUME HandlerInv, HandlerInv', ContentInv, [Next]_vars PROVE ContentInv'
    OBVIOUS
<1>1. StaysFinal /\ OneGrows /\ StoreInv /\ StoreInv'
    BY StaysFinalStep, OneGrowsStep DEF HandlerInv
<1>2. CASE FinalTaken' = FinalTaken
    BY <1>1, <1>2 DEF ContentInv, StaysFinal
<1>3. CASE FinalTaken # {}
    BY <1>1, <1>3 DEF ContentInv, StaysFinal
<1>4. CASE FinalTaken' # FinalTaken /\ FinalTaken = {}
  <2>1. PICK r \in Runners : RecordPassiveResult(r)
    <3>1. results' # results
        BY <1>1, <1>4, TakenStays DEF OneGrows
    <3>2. \A r \in Runners : NoticeStep(r) => UNCHANGED results
        BY DEF NoticeStep, CreateIssueArtifact, CreateNotificationIntent, StartAttempt, NotifyC2c,
               RecordNotification, replyVars
    <3>3. \A r \in Runners : CommandStep(r) => UNCHANGED results
        BY DEF CommandStep, CreateCandidateAndRequest, TransitionSimpleCommand, Respond,
               RecordCommandOnce, FinalDeliveryIntent, replyVars
    <3>4. \A r \in Runners : ReplyStep(r) => UNCHANGED results \/ RecordPassiveResult(r)
        BY DEF ReplyStep, CreatePassiveIntent, ExecutePassiveReply, Send, DeleteArtifacts, replyVars
    <3>5. \A r \in Runners : \A m :
            StartRun(r) \/ Crash(r) \/ ReceivePrivate(r, m) \/ ApproveRequest(r, m)
               => UNCHANGED results
        BY DEF StartRun, Crash, ReceivePrivate, ApproveRequest, replyVars
    <3>6. Environment \/ UNCHANGED vars => UNCHANGED results
        BY DEF Environment, PostPrivate, PostApproval, Post, RevokeHandlerBinding, Pass, vars, replyVars
    <3> QED
        BY <3>1, <3>2, <3>3, <3>4, <3>5, <3>6 DEF Next, Step
  <2> DEFINE k    == reg[r].key
             kept == IF HasResult(k) THEN ResultOf(k) ELSE reg[r].out
             new  == [key |-> k, status |-> kept]
  <2>2. /\ results' = results \cup {new} /\ UNCHANGED <<intents, crashes>>
        /\ case' = IF k.kind = "final" /\ reg[r].out \in Accepted
                   THEN [case EXCEPT !.status = "FINAL_ACCEPTED"] ELSE case
        /\ k.kind = "final" /\ kept \in Accepted => Goto(r, "delete", reg[r])
      BY <2>1 DEF RecordPassiveResult, envVars
  <2>3. k.kind = "final" /\ kept \in Accepted
    <3> HIDE DEF kept
    <3>1. \A x \in results : ~(x.key.kind = "final" /\ x.status \in Accepted)
        BY <1>4 DEF FinalTaken
    <3>2. CASE ~(k.kind = "final" /\ kept \in Accepted)
      <4>1. \A x \in results' : ~(x.key.kind = "final" /\ x.status \in Accepted)
          BY <2>2, <3>1, <3>2
      <4>2. FinalTaken' = {}
          BY <4>1 DEF FinalTaken
      <4> QED
          BY <1>4, <4>2
    <3> QED
        BY <3>2
  <2>4. ~HasResult(k)
    <3>1. ASSUME HasResult(k) PROVE FALSE
      <4>1. PICK x \in results : x.key = k /\ x.status = kept
          BY <3>1 DEF HasResult, ResultOf
      <4>2. IntentOf(x.key).body.candidate \in FinalTaken
          BY <2>3, <4>1 DEF FinalTaken
      <4> QED
          BY <1>4, <4>2
    <3> QED
        BY <3>1
  <2>5. case'.status = "FINAL_ACCEPTED"
      BY <1>1, <2>2, <2>3, <2>4 DEF StoreInv, StoreTypes
  <2>6. pc'[r] = "delete"
      BY <2>2, <2>3 DEF Goto, HandlerInv, RunnerTypes
  <2> QED
      BY <2>2, <2>5, <2>6 DEF ContentInv
<1> QED
    BY <1>2, <1>3, <1>4

(* Without a crash, no private body outlives a final reply that is on      *)
(* record as accepted, once its recorder has gone on (delete_artifacts).   *)
THEOREM AcceptedContentErased == Spec => []AcceptedContentIsDeleted
<1>1. Init => ContentInv
  <2> SUFFICES ASSUME Init PROVE ContentInv
      OBVIOUS
  <2>1. FinalTaken = {}
      BY DEF Init, FinalTaken
  <2> QED
      BY <2>1 DEF Init, ContentInv
<1>2. ContentInv => AcceptedContentIsDeleted
    BY DEF ContentInv, AcceptedContentIsDeleted, Erased
<1> QED
    BY <1>1, <1>2, ContentNext, HandlerAlways, PTL DEF Spec
=============================================================================
