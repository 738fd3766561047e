------------------------------ MODULE QQSandbox ------------------------------
(***************************************************************************)
(* The QQ sandbox adapter (weflow_control_kernel/qq_sandbox.py and         *)
(* weflow_control_worker/qq_runner.py) with the Case intake it feeds       *)
(* (ledger.py): runners read group messages from the gateway, turn each    *)
(* into one Case and one acknowledgement intent, and send one passive      *)
(* acknowledgement that QQ may accept, refuse or leave unanswered.         *)
(*                                                                         *)
(* A runner is one execution of the live command.  Several may run at once *)
(* over one store; every transaction of the store is one action, and a     *)
(* value read before it may be stale when it is written back.  What a      *)
(* runner holds in memory, its gateway session included, ends with it.     *)
(*                                                                         *)
(* One application, group and tenant are configured, so identities and     *)
(* hashes reduce to the message they are made from, and an intent is named *)
(* by its message.  Readable text is "content"; a frame that the           *)
(* normalisation refuses is an "other" frame, which has the same effects.  *)
(* Tokens, heartbeats and reply locators (which outlive the deadline that  *)
(* is tested before them) take no part.                                    *)
(***************************************************************************)
EXTENDS Naturals, Sequences, FiniteSets

CONSTANTS
    Runners,        \* executions of the QQ sandbox command
    Messages,       \* source messages of the group
    Contents,       \* what a message may say; more than one: a changed redelivery
    VerifyModes,    \* values of verify_event_dedup
    MaxReconnects,  \* MAX_RECONNECTS
    MaxSessions,    \* bound: gateway sessions
    MaxFrames,      \* bound: frames of a session
    MaxLost,        \* bound: frames the gateway never delivers
    MaxFailures,    \* bound: sends that QQ refuses or leaves unanswered
    MaxCrashes      \* bound: runner crashes

ASSUME GatewayAssumption ==
    /\ MaxReconnects \in Nat /\ MaxSessions \in Nat /\ MaxFrames \in Nat
    /\ MaxLost \in Nat /\ MaxFailures \in Nat /\ MaxCrashes \in Nat
    /\ VerifyModes \subseteq BOOLEAN

VARIABLES
    receipts,       \* inbound_receipts with their Cases, in rowid order
    cursor,         \* the row of qq_gateway_cursors, or NoCursor
    intents,        \* qq_acknowledgement_intents: the messages that have one
    observations,   \* qq_acknowledgement_observations: statuses in sequence order
    completions,    \* qq_acknowledgement_completions: status it rests on, or "none"
    (* the world outside *)
    posted,         \* what the customers have said so far
    session,        \* the gateway session of each runner and the frames sent in it
    upcoming,       \* the number of the next frame on the runner's connection
    shown,          \* the messages whose acknowledgement QQ shows
    attempts,       \* how often an acknowledgement was sent to QQ
    lapsed,         \* the messages whose reply_deadline_at has passed
    sessions, lost, failures, crashes,     \* what the bounds count
    (* the runners *)
    pc, reg

storeVars == <<receipts, cursor, intents, observations, completions>>
qqVars    == <<posted, session, upcoming, sessions, lost>>
sendVars  == <<shown, attempts, lapsed, failures>>
vars == <<storeVars, qqVars, sendVars, crashes, pc, reg>>

CursorStatus == {"identified", "resuming", "disconnected", "reconciliation_required"}
NoCursor   == [session |-> 0, seq |-> 0, status |-> "none"]
NoSession  == [id |-> 0, frames |-> <<>>]
Frame(t)   == [t |-> t, msg |-> "none", content |-> "none"]
NoFrame    == Frame("none")
NoRegisters ==
    [session |-> 0, latest |-> 0, reconnects |-> 0, frame |-> NoFrame, seq |-> 0,
     write |-> NoCursor, read |-> NoCursor, ret |-> "idle", msg |-> "none",
     out |-> "none", verify |-> FALSE, replay |-> FALSE]

Completable == {"accepted", "present", "duplicate"}

-----------------------------------------------------------------------------
(* Control of one runner.                                                  *)

Goto(r, label, regs) ==
    /\ pc' = [pc EXCEPT ![r] = label]
    /\ reg' = [reg EXCEPT ![r] = regs]

Leave(r) == Goto(r, "idle", NoRegisters)

(* record_cursor, as far as its caller knows.                              *)
RecordCursor(r, regs, seq, status, ret) ==
    Goto(r, "cursor", [regs EXCEPT !.write = [session |-> regs.session, seq |-> seq,
                                              status |-> status],
                                   !.ret = ret])

(* get_cursor inside record_cursor.                                        *)
ReadCursor(r) ==
    /\ pc[r] = "cursor"
    /\ Goto(r, "write", [reg[r] EXCEPT !.read = cursor])
    /\ UNCHANGED <<storeVars, qqVars, sendVars, crashes>>

(* The cursor record_cursor makes of the one it read: a new session starts *)
(* its own count, anything else never moves the count back.                *)
NextCursor(new, current) ==
    [new EXCEPT
       !.session = IF @ = 0 THEN current.session ELSE @,
       !.seq = IF /\ new.status = "identified" /\ new.session # 0
                  /\ current # NoCursor /\ new.session # current.session
               THEN @
               ELSE IF @ > current.seq THEN @ ELSE current.seq]

(* The upsert of record_cursor.                                            *)
WriteCursor(r) ==
    /\ pc[r] = "write"
    /\ cursor' = NextCursor(reg[r].write, reg[r].read)
    /\ Goto(r, reg[r].ret, [reg[r] EXCEPT !.write = NoCursor, !.read = NoCursor])
    /\ UNCHANGED <<receipts, intents, observations, completions, qqVars, sendVars, crashes>>

-----------------------------------------------------------------------------
(* run_one: recovery first, then a gateway session.                        *)

(* Mutant: an intent whose outcome is unknown is left alone.               *)
RecoverableOnlyUnseen ==
    {m \in intents : completions[m] = "none" /\ m \notin lapsed /\ observations[m] = <<>>}

(* recoverable_intent_ids                                                  *)
RecoverableIntents ==
    {m \in intents :
        /\ completions[m] = "none" /\ m \notin lapsed
        /\ \/ observations[m] = <<>>
           \/ observations[m][Len(observations[m])] \in {"absent", "unknown"}}

(* The first recoverable intent is processed and ends the run; with        *)
(* verify_event_dedup such a run is refused, which changes nothing.        *)
StartRun(r) ==
    /\ r \in Runners /\ pc[r] = "idle"
    /\ \E verify \in VerifyModes :
       \/ /\ ~verify
          /\ \E m \in RecoverableIntents : Goto(r, "process", [NoRegisters EXCEPT !.msg = m])
       \/ /\ RecoverableIntents = {} /\ sessions < MaxSessions
          /\ Goto(r, "connect", [NoRegisters EXCEPT !.verify = verify])
    /\ UNCHANGED <<storeVars, qqVars, sendVars, crashes>>

(* _authenticate and the gateway's answer: a known session is resumed      *)
(* after the last sequence number seen, otherwise a new one is identified. *)
(* A resumed session repeats what came later, and maybe the last frame.    *)
Authenticate(r) ==
    /\ pc[r] = "connect"
    /\ IF reg[r].session # 0 /\ reg[r].latest # 0
       THEN /\ session' = [session EXCEPT ![r].frames = Append(@, Frame("RESUMED"))]
            /\ \E n \in {reg[r].latest, reg[r].latest + 1} :
                  upcoming' = [upcoming EXCEPT ![r] = n]
            /\ UNCHANGED sessions
       ELSE /\ sessions < MaxSessions
            /\ sessions' = sessions + 1
            /\ session' = [session EXCEPT ![r] = [id |-> sessions + 1,
                                                  frames |-> <<Frame("READY")>>]]
            /\ upcoming' = [upcoming EXCEPT ![r] = 1]
    /\ Goto(r, "receive", reg[r])
    /\ UNCHANGED <<storeVars, posted, lost, sendVars, crashes>>

(* A frame arrives.  Its number is the latest whatever becomes of it; all  *)
(* but group messages only move the cursor.                                *)
Receive(r) ==
    /\ pc[r] = "receive" /\ upcoming[r] <= Len(session[r].frames)
    /\ LET s == upcoming[r]
           f == session[r].frames[s]
           seen == [reg[r] EXCEPT !.latest = s] IN
       CASE f.t = "READY"   -> RecordCursor(r, [seen EXCEPT !.session = session[r].id], s,
                                            "identified", "receive")
         [] f.t = "RESUMED" -> RecordCursor(r, seen, s, "resuming", "receive")
         [] f.t = "other"   -> RecordCursor(r, seen, s, "identified", "receive")
         [] f.t = "message" -> Goto(r, "accept", [seen EXCEPT !.frame = f, !.seq = s])
    /\ upcoming' = [upcoming EXCEPT ![r] = @ + 1]
    /\ UNCHANGED <<storeVars, posted, session, sessions, lost, sendVars, crashes>>

(* The handler of QQTransportError in run_one.                             *)
Reconnect(r) ==
    /\ pc[r] = "reconnect"
    /\ LET tries == reg[r].reconnects + 1
           next == IF tries > MaxReconnects THEN "leave" ELSE "connect"
           regs == [reg[r] EXCEPT !.reconnects = tries, !.frame = NoFrame, !.seq = 0] IN
       IF cursor = NoCursor THEN Goto(r, next, regs)
       ELSE RecordCursor(r, regs, cursor.seq, "disconnected", next)
    /\ UNCHANGED <<storeVars, qqVars, sendVars, crashes>>

-----------------------------------------------------------------------------
(* QQSandboxIntakeService.accept                                           *)

Rows(m)    == {i \in 1..Len(receipts) : receipts[i].msg = m}
Received   == {receipts[i].msg : i \in 1..Len(receipts)}

(* Mutant: the cursor moves before the Case is stored.                     *)
AcceptCursorFirst(r) ==
    /\ pc[r] = "accept"
    /\ RecordCursor(r, reg[r], reg[r].seq, "identified", "intake")
    /\ UNCHANGED <<storeVars, qqVars, sendVars, crashes>>

(* The checks on the cursor it reads: a number at or below it is refused   *)
(* unless the message is known, one beyond the next is a gap.  Either ends *)
(* the connection (in the replay of verify_event_dedup, the run).          *)
Accept(r) ==
    /\ pc[r] = "accept"
    /\ LET s == reg[r].seq
           failed == IF reg[r].replay THEN "leave" ELSE "reconnect" IN
       IF cursor # NoCursor /\ s <= cursor.seq /\ reg[r].frame.msg \notin Received
       THEN Goto(r, failed, reg[r])
       ELSE IF cursor # NoCursor /\ s > cursor.seq + 1
       THEN RecordCursor(r, reg[r], cursor.seq, "reconciliation_required", failed)
       ELSE Goto(r, "intake", reg[r])
    /\ UNCHANGED <<storeVars, qqVars, sendVars, crashes>>

(* The accepted part of _intake_validated: Case, revision, first events    *)
(* and receipt of a new message are written together.                      *)
Captured(row) == Append(receipts, row)

(* Mutant: the receipt is not looked up in the transaction.                *)
IntakeUnchecked(r) ==
    /\ pc[r] = "intake"
    /\ LET f == reg[r].frame IN
       /\ receipts' = Captured([msg |-> f.msg, content |-> f.content])
       /\ RecordCursor(r, reg[r], reg[r].seq, "identified", "intent")
    /\ UNCHANGED <<cursor, intents, observations, completions, qqVars, sendVars, crashes>>

(* intake_qq: one receipt and Case per message; a known message with other *)
(* content is rejected and only moves the cursor.                          *)
IntakeQq(r) ==
    /\ pc[r] = "intake"
    /\ LET f == reg[r].frame
           row == [msg |-> f.msg, content |-> f.content] IN
       \/ /\ Rows(f.msg) = {}
          /\ receipts' = Captured(row)
          /\ RecordCursor(r, reg[r], reg[r].seq, "identified", "intent")
       \/ /\ \E i \in Rows(f.msg) : receipts[i] = row
          /\ UNCHANGED receipts
          /\ RecordCursor(r, reg[r], reg[r].seq, "identified", "intent")
       \/ /\ \E i \in Rows(f.msg) : receipts[i] # row
          /\ UNCHANGED receipts
          /\ RecordCursor(r, [reg[r] EXCEPT !.frame = NoFrame, !.seq = 0], reg[r].seq,
                          "identified", "receive")
    /\ UNCHANGED <<cursor, intents, observations, completions, qqVars, sendVars, crashes>>

(* create_acknowledgement_intent: the intent of the Case, new or existing. *)
CreateAcknowledgementIntent(r) ==
    /\ pc[r] = "intent"
    /\ intents' = intents \cup {reg[r].frame.msg}
    /\ Goto(r, "process", [reg[r] EXCEPT !.msg = reg[r].frame.msg])
    /\ UNCHANGED <<receipts, cursor, observations, completions, qqVars, sendVars, crashes>>

-----------------------------------------------------------------------------
(* QQAcknowledgementController.process                                     *)

(* Mutant: the deadline is not looked at.                                  *)
ProcessLate(r) ==
    /\ pc[r] = "process"
    /\ IF completions[reg[r].msg] # "none" THEN Goto(r, "done", reg[r])
       ELSE Goto(r, "send", reg[r])
    /\ UNCHANGED <<storeVars, qqVars, sendVars, crashes>>

(* Up to the send.  reconcile answers from what this process has sent,     *)
(* which for an intent without completion is nothing: "absent".            *)
Process(r) ==
    /\ pc[r] = "process"
    /\ IF completions[reg[r].msg] # "none" THEN Goto(r, "done", reg[r])
       ELSE IF reg[r].msg \in lapsed
       THEN Goto(r, "observe", [reg[r] EXCEPT !.out = "expired"])
       ELSE Goto(r, "send", reg[r])
    /\ UNCHANGED <<storeVars, qqVars, sendVars, crashes>>

(* send_fixed_acknowledgement.  QQ shows one reply per source message and  *)
(* reply number and says "duplicate" from then on, refuses late replies,   *)
(* and may refuse or leave unanswered what it did or did not show.         *)
SendFixedAcknowledgement(r) ==
    /\ pc[r] = "send"
    /\ LET m == reg[r].msg
           answer(out) == Goto(r, "observe", [reg[r] EXCEPT !.out = out])
           fails == failures < MaxFailures /\ failures' = failures + 1 IN
       /\ attempts' = [attempts EXCEPT ![m] = @ + 1]
       /\ \/ m \in shown /\ answer("duplicate") /\ UNCHANGED <<shown, failures>>
          \/ /\ m \notin shown /\ m \notin lapsed
             /\ answer("accepted") /\ shown' = shown \cup {m} /\ UNCHANGED failures
          \/ m \notin shown /\ m \in lapsed /\ answer("expired") /\ UNCHANGED <<shown, failures>>
          \/ m \notin lapsed /\ fails /\ answer("unknown") /\ shown' = shown \cup {m}
          \/ /\ fails /\ UNCHANGED shown
             /\ \E out \in {"unknown", "unauthorized", "conflict"} : answer(out)
    /\ UNCHANGED <<storeVars, qqVars, lapsed, crashes>>

(* Mutant: an unanswered send counts as accepted.                          *)
ObserveTrusting(r) ==
    /\ pc[r] = "observe"
    /\ observations' = [observations EXCEPT ![reg[r].msg] = Append(@, reg[r].out)]
    /\ Goto(r, IF reg[r].out \in Completable \cup {"unknown"} THEN "complete" ELSE "done", reg[r])
    /\ UNCHANGED <<receipts, cursor, intents, completions, qqVars, sendVars, crashes>>

(* append_observation                                                      *)
AppendObservation(r) ==
    /\ pc[r] = "observe"
    /\ observations' = [observations EXCEPT ![reg[r].msg] = Append(@, reg[r].out)]
    /\ Goto(r, IF reg[r].out \in Completable THEN "complete" ELSE "done", reg[r])
    /\ UNCHANGED <<receipts, cursor, intents, completions, qqVars, sendVars, crashes>>

(* complete: the first row stands.                                         *)
Complete(r) ==
    /\ pc[r] = "complete"
    /\ completions' = [completions EXCEPT ![reg[r].msg] = IF @ = "none" THEN reg[r].out ELSE @]
    /\ Goto(r, "done", reg[r])
    /\ UNCHANGED <<receipts, cursor, intents, observations, qqVars, sendVars, crashes>>

(* run_one ends after one acknowledgement; verify_event_dedup puts the     *)
(* same frame through once more.                                           *)
Done(r) ==
    /\ pc[r] = "done"
    /\ IF reg[r].verify /\ ~reg[r].replay
       THEN Goto(r, "accept", [reg[r] EXCEPT !.replay = TRUE, !.out = "none", !.msg = "none"])
       ELSE Goto(r, "leave", reg[r])
    /\ UNCHANGED <<storeVars, qqVars, sendVars, crashes>>

-----------------------------------------------------------------------------
(* The end of a run, expected or not: its session is not used again.       *)

Gone(r) ==
    /\ Leave(r)
    /\ session' = [session EXCEPT ![r] = NoSession]
    /\ upcoming' = [upcoming EXCEPT ![r] = 1]

EndRun(r) ==
    /\ pc[r] = "leave"
    /\ Gone(r)
    /\ UNCHANGED <<storeVars, posted, sessions, lost, sendVars, crashes>>

(* A runner stops between two transactions: a crash, a failed connect, or  *)
(* an error that run_one does not handle.                                  *)
Crash(r) ==
    /\ pc[r] # "idle" /\ crashes < MaxCrashes
    /\ crashes' = crashes + 1
    /\ Gone(r)
    /\ UNCHANGED <<storeVars, posted, sessions, lost, sendVars>>

-----------------------------------------------------------------------------
(* The gateway and the customers.                                          *)

Listening == {r \in Runners : session[r] # NoSession}
Room(r) == Len(session[r].frames) < MaxFrames

(* A customer writes, or QQ delivers a message again; every session gets a *)
(* frame with its own number.                                              *)
Post(m, c) ==
    /\ Listening # {} /\ \A r \in Listening : Room(r)
    /\ posted' = posted \cup {<<m, c>>}
    /\ session' = [r \in Runners |->
         IF r \in Listening
         THEN [session[r] EXCEPT !.frames = Append(@, [t |-> "message", msg |-> m, content |-> c])]
         ELSE session[r]]
    /\ UNCHANGED <<storeVars, upcoming, sessions, lost, sendVars, crashes, pc, reg>>

(* Something else happens in the group.                                    *)
Chatter(r) ==
    /\ r \in Listening /\ Room(r)
    /\ session' = [session EXCEPT ![r].frames = Append(@, Frame("other"))]
    /\ UNCHANGED <<storeVars, posted, upcoming, sessions, lost, sendVars, crashes, pc, reg>>

(* A frame never arrives.                                                  *)
Lose(r) ==
    /\ pc[r] = "receive" /\ lost < MaxLost /\ upcoming[r] \in 2..Len(session[r].frames)
    /\ lost' = lost + 1
    /\ upcoming' = [upcoming EXCEPT ![r] = @ + 1]
    /\ UNCHANGED <<storeVars, posted, session, sessions, sendVars, crashes, pc, reg>>

(* The gateway closes the connection or asks for a new one (opcode 7), or  *)
(* it declares the session invalid (opcode 9).                             *)
Disconnect(r) ==
    /\ pc[r] = "receive"
    /\ \/ Goto(r, "reconnect", reg[r]) /\ UNCHANGED session
       \/ /\ Goto(r, "reconnect", [reg[r] EXCEPT !.session = 0, !.latest = 0])
          /\ session' = [session EXCEPT ![r] = NoSession]
    /\ UNCHANGED <<storeVars, posted, upcoming, sessions, lost, sendVars, crashes>>

(* The window in which QQ takes a passive reply ends.                      *)
Lapse(m) ==
    /\ m \notin lapsed /\ \E c \in Contents : <<m, c>> \in posted
    /\ lapsed' = lapsed \cup {m}
    /\ UNCHANGED <<storeVars, qqVars, shown, attempts, failures, crashes, pc, reg>>

-----------------------------------------------------------------------------
Init ==
    /\ receipts = <<>> /\ cursor = NoCursor /\ intents = {}
    /\ observations = [m \in Messages |-> <<>>]
    /\ completions = [m \in Messages |-> "none"]
    /\ posted = {} /\ shown = {} /\ lapsed = {}
    /\ attempts = [m \in Messages |-> 0]
    /\ session = [r \in Runners |-> NoSession]
    /\ upcoming = [r \in Runners |-> 1]
    /\ sessions = 0 /\ lost = 0 /\ failures = 0 /\ crashes = 0
    /\ pc = [r \in Runners |-> "idle"]
    /\ reg = [r \in Runners |-> NoRegisters]

IntakeStep(r) ==
    ReadCursor(r) \/ WriteCursor(r) \/ Authenticate(r) \/ Receive(r) \/ Reconnect(r)
      \/ Accept(r) \/ IntakeQq(r) \/ CreateAcknowledgementIntent(r)

AcknowledgementStep(r) ==
    Process(r) \/ SendFixedAcknowledgement(r) \/ AppendObservation(r) \/ Complete(r)
      \/ Done(r) \/ EndRun(r)

Step(r) == IntakeStep(r) \/ AcknowledgementStep(r)

Next ==
    \/ \E r \in Runners : \/ StartRun(r) \/ Step(r) \/ Crash(r)
                          \/ Chatter(r) \/ Lose(r) \/ Disconnect(r)
    \/ \E m \in Messages : Lapse(m) \/ \E c \in Contents : Post(m, c)

Spec == Init /\ [][Next]_vars

(* A runner at work goes on or crashes, and the operator runs the command  *)
(* again and again: what is promised is promised of repeated runs.         *)
Fairness == \A r \in Runners : WF_vars(StartRun(r)) /\ WF_vars(Step(r))

FairSpec == Spec /\ Fairness

-----------------------------------------------------------------------------
Labels ==
    {"idle", "connect", "receive", "cursor", "write", "reconnect", "accept", "intake",
     "intent", "process", "send", "observe", "complete", "done", "leave"}
Statuses == Completable \cup {"absent", "unknown", "unauthorized", "expired", "conflict"}
Cursors  == [session : Nat, seq : Nat, status : CursorStatus \cup {"none"}]
Frames   == [t : {"READY", "RESUMED", "other", "message", "none"},
             msg : Messages \cup {"none"}, content : Contents \cup {"none"}]
Registers ==
    [session : Nat, latest : Nat, reconnects : Nat, frame : Frames, seq : Nat,
     write : Cursors, read : Cursors, ret : Labels, msg : Messages \cup {"none"},
     out : Statuses \cup {"none"}, verify : BOOLEAN, replay : BOOLEAN]

(* Every table holds rows of its kind; a completion rests on an            *)
(* observation that _COMPLETABLE_STATUSES lists.                           *)
TypeOK ==
    /\ receipts \in Seq([msg : Messages, content : Contents])
    /\ cursor \in Cursors /\ intents \subseteq Messages
    /\ observations \in [Messages -> Seq(Statuses)]
    /\ completions \in [Messages -> Completable \cup {"none"}]
    /\ posted \subseteq Messages \X Contents
    /\ session \in [Runners -> [id : Nat, frames : Seq(Frames)]]
    /\ upcoming \in [Runners -> Nat \ {0}]
    /\ shown \subseteq Messages /\ lapsed \subseteq Messages
    /\ attempts \in [Messages -> Nat]
    /\ {sessions, lost, failures, crashes} \subseteq Nat
    /\ pc \in [Runners -> Labels] /\ reg \in [Runners -> Registers]

(* One receipt and Case per message, however often, by whomever and in     *)
(* whatever session it is delivered, and an intent only for such a Case.   *)
IntakeOnce ==
    /\ \A m \in Messages : Cardinality(Rows(m)) <= 1
    /\ intents \subseteq Received

(* The durable cursor never passes a message that was not accounted for:   *)
(* up to its number every message of the session has its receipt.          *)
CursorSkipsNothing ==
    \A r \in Runners :
        session[r].id # 0 /\ cursor.session = session[r].id =>
            \A i \in 1..cursor.seq :
                session[r].frames[i].t = "message" => session[r].frames[i].msg \in Received

(* The cursor accounts for all messages while the gateway loses no frame;  *)
(* a lost one is passed by (resume_after_gap.cfg).                         *)
CursorAccountsForAll == lost = 0 => CursorSkipsNothing

AllIdle == \A r \in Runners : pc[r] = "idle"

(* After its deadline passed while no runner was at work, an               *)
(* acknowledgement is not sent any more, whatever recovery or a redelivery *)
(* of its message finds, after up to MaxFailures unanswered sends.         *)
LapsedIsNotSent ==
    \A m \in Messages : \A n \in 0..MaxFailures :
        [](AllIdle /\ m \in lapsed /\ attempts[m] = n => [](attempts[m] = n))

-----------------------------------------------------------------------------
(* The acknowledgements implement EffectOnce: intended, shown once and     *)
(* only then known complete.                                               *)

NoEffect(m) == {}

Acknowledgement == INSTANCE EffectOnce WITH
    Effects <- Messages, Requires <- NoEffect, intended <- intents, executed <- shown,
    completed <- {m \in Messages : completions[m] # "none"}

(* An acknowledgement is shown only under a persisted intent, and complete *)
(* only when QQ shows it, though answers are lost and runners crash; the   *)
(* theorem AcknowledgementsRefineEffectOnce is for any number of runners.  *)
ImplementsAckOnce == Acknowledgement!Spec

-----------------------------------------------------------------------------
LastObservation(m) ==
    IF observations[m] = <<>> THEN "none" ELSE observations[m][Len(observations[m])]

(* A runner stopped between an observation that proves the reply and its   *)
(* completion: recoverable_intent_ids does not list such an intent.        *)
CutOff(m) == LastObservation(m) \in Completable /\ completions[m] = "none"

(* Repeated runs settle an acknowledgement: it is completed, refused for   *)
(* good, or too late, and never left unanswered; but for an intent that    *)
(* was cut off right before its completion.                                *)
AckSettlesUnlessCutOff ==
    \A m \in Messages :
        m \in intents ~> \/ completions[m] # "none" \/ m \in lapsed \/ CutOff(m)
                         \/ LastObservation(m) \in {"unauthorized", "expired", "conflict"}
=============================================================================
