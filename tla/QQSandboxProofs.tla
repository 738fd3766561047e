--------------------------- MODULE QQSandboxProofs ---------------------------
(* The QQ sandbox adapter for any number of runners, messages, sessions    *)
(* and failures: one Case per message, one acknowledgement per intent.     *)
EXTENDS QQSandbox, FiniteSetTheorems, TLAPS

(* What the gateway sends.                                                 *)
MessageFrames == [t : {"message"}, msg : Messages, content : Contents]
Sent == {Frame("READY"), Frame("RESUMED"), Frame("other")} \cup MessageFrames

(* The labels at which a runner has an intent in hand, and those at which  *)
(* it waits for record_cursor.                                             *)
Holding   == {"process", "send", "observe", "complete", "done"}
Recording == {"cursor", "write"}
Returns   == {"receive", "connect", "reconnect", "intent", "leave"}

StoreTyped ==
    /\ receipts \in Seq([msg : Messages, content : Contents])
    /\ cursor \in Cursors /\ intents \subseteq Messages
    /\ observations \in [Messages -> Seq(Statuses)]
    /\ completions \in [Messages -> Completable \cup {"none"}]

WorldTyped ==
    /\ posted \subseteq Messages \X Contents
    /\ session \in [Runners -> [id : Nat, frames : Seq(Sent)]]
    /\ upcoming \in [Runners -> Nat \ {0}]
    /\ shown \subseteq Messages /\ lapsed \subseteq Messages
    /\ attempts \in [Messages -> Nat]
    /\ sessions \in Nat /\ lost \in Nat /\ failures \in Nat /\ crashes \in Nat

RunnersTyped == pc \in [Runners -> Labels] /\ reg \in [Runners -> Registers]

(* The tables agree: one receipt per message, an intent only with its      *)
(* receipt, a reply only under its intent, a completion only of a reply.   *)
TablesAgree ==
    /\ \A i, j \in 1..Len(receipts) : receipts[i].msg = receipts[j].msg => i = j
    /\ intents \subseteq Received
    /\ shown \subseteq intents
    /\ \A m \in Messages : completions[m] # "none" => m \in shown

(* What a runner knows at its label.                                       *)
Knows(r) ==
    /\ pc[r] \in Recording => reg[r].ret \in Returns
    /\ pc[r] \in {"accept", "intake"} => reg[r].frame \in MessageFrames
    /\ pc[r] = "intent" \/ (pc[r] \in Recording /\ reg[r].ret = "intent") =>
          reg[r].frame \in MessageFrames /\ reg[r].frame.msg \in Received
    /\ pc[r] \in Holding =>
          /\ reg[r].msg \in intents
          /\ reg[r].verify => reg[r].frame \in MessageFrames
    /\ pc[r] = "observe" =>
          reg[r].out \in Statuses /\ (reg[r].out \in Completable => reg[r].msg \in shown)
    /\ pc[r] = "complete" => reg[r].out \in Completable /\ reg[r].msg \in shown

SandboxInv ==
    /\ StoreTyped /\ WorldTyped /\ RunnersTyped
    /\ TablesAgree
    /\ \A r \in Runners : Knows(r)

-----------------------------------------------------------------------------
LEMMA Bounds ==
    /\ MaxReconnects \in Nat /\ MaxSessions \in Nat /\ MaxFrames \in Nat
    /\ MaxLost \in Nat /\ MaxFailures \in Nat /\ MaxCrashes \in Nat
    /\ VerifyModes \subseteq BOOLEAN
BY GatewayAssumption

LEMMA SentAreFrames == Sent \subseteq Frames
BY DEF Sent, MessageFrames, Frames, Frame

LEMMA SomeFrames ==
    /\ NoFrame \in Frames /\ MessageFrames \subseteq Sent
    /\ Frame("READY") \in Sent /\ Frame("RESUMED") \in Sent /\ Frame("other") \in Sent
BY DEF Sent, MessageFrames, Frames, Frame, NoFrame

LEMMA NoRegistersTyped == NoRegisters \in Registers /\ NoCursor \in Cursors
BY SomeFrames DEF NoRegisters, Registers, NoCursor, Cursors, Labels

LEMMA SandboxInit == Init => SandboxInv
<1> SUFFICES ASSUME Init PROVE SandboxInv
    OBVIOUS
<1> USE DEF Init
<1>1. StoreTyped
    BY NoRegistersTyped DEF StoreTyped
<1>2. WorldTyped
    <2>1. NoSession \in [id : Nat, frames : Seq(Sent)]
        BY DEF NoSession
    <2> QED
        BY <2>1 DEF WorldTyped
<1>3. RunnersTyped
    BY NoRegistersTyped DEF RunnersTyped, Labels
<1>4. TablesAgree
    BY DEF TablesAgree
<1>5. \A r \in Runners : Knows(r)
    BY DEF Knows, Recording, Holding
<1> QED
    BY <1>1, <1>2, <1>3, <1>4, <1>5 DEF SandboxInv

LEMMA TypedIsTypeOK == StoreTyped /\ WorldTyped /\ RunnersTyped => TypeOK
<1>1. Seq(Sent) \subseteq Seq(Frames)
    BY SentAreFrames
<1>2. [id : Nat, frames : Seq(Sent)] \subseteq [id : Nat, frames : Seq(Frames)]
    BY <1>1
<1> QED
    BY <1>2 DEF StoreTyped, WorldTyped, RunnersTyped, TypeOK

-----------------------------------------------------------------------------
(* The steps of one runner.                                                *)

(* Nothing that a runner relies on is taken back.                          *)
Grows ==
    /\ {receipts[i].msg : i \in 1..Len(receipts)}
         \subseteq {receipts'[i].msg : i \in 1..Len(receipts')}
    /\ intents \subseteq intents' /\ shown \subseteq shown'

(* A step of one runner leaves to the others what they know.               *)
LEMMA RunnerStep ==
    ASSUME SandboxInv, NEW r \in Runners, NEW l \in Labels, NEW g \in Registers,
           Goto(r, l, g), Grows,
           StoreTyped', WorldTyped', TablesAgree',
           pc'[r] = l /\ reg'[r] = g => Knows(r)'
    PROVE  SandboxInv'
<1>1. /\ pc \in [Runners -> Labels] /\ reg \in [Runners -> Registers]
      /\ pc' = [pc EXCEPT ![r] = l] /\ reg' = [reg EXCEPT ![r] = g]
    BY DEF SandboxInv, RunnersTyped, Goto
<1>2. RunnersTyped'
    BY <1>1 DEF RunnersTyped
<1>3. Knows(r)'
    BY <1>1
<1>4. ASSUME NEW q \in Runners, q # r PROVE Knows(q)'
    <2>1. pc'[q] = pc[q] /\ reg'[q] = reg[q] /\ Knows(q)
        BY <1>1, <1>4 DEF SandboxInv
    <2> QED
        BY <2>1 DEF Knows, Grows, Received
<1> QED
    BY <1>2, <1>3, <1>4 DEF SandboxInv

(* The steps that change no table.                                         *)
LEMMA TablesUnchanged ==
    ASSUME SandboxInv, UNCHANGED <<receipts, intents, completions, shown>>
    PROVE  TablesAgree' /\ Grows
BY DEF SandboxInv, TablesAgree, Grows, Received

(* What every action of a runner starts from.                              *)
LEMMA InHand ==
    ASSUME SandboxInv, NEW r \in Runners
    PROVE  /\ reg[r] \in Registers /\ pc[r] \in Labels /\ Knows(r)
           /\ StoreTyped /\ WorldTyped /\ TablesAgree
BY DEF SandboxInv, RunnersTyped

LEMMA ReadCursorPreserves ==
    ASSUME SandboxInv, NEW r \in Runners, ReadCursor(r)
    PROVE  SandboxInv'
<1> DEFINE g == [reg[r] EXCEPT !.read = cursor]
<1>1. /\ pc[r] = "cursor" /\ Goto(r, "write", g)
      /\ UNCHANGED <<storeVars, qqVars, sendVars, crashes>>
    BY DEF ReadCursor
<1>2. /\ g \in Registers /\ g.ret = reg[r].ret /\ g.frame = reg[r].frame /\ "write" \in Labels
    <2>1. reg[r] \in Registers /\ cursor \in Cursors
        BY InHand DEF StoreTyped
    <2> QED
        BY <2>1 DEF Registers, Labels
<1>3. TablesAgree' /\ Grows /\ StoreTyped' /\ WorldTyped'
    BY <1>1, InHand, TablesUnchanged DEF storeVars, qqVars, sendVars, StoreTyped, WorldTyped
<1> HIDE DEF g
<1>4. ASSUME pc'[r] = "write" /\ reg'[r] = g PROVE Knows(r)'
    BY <1>1, <1>2, <1>3, <1>4, InHand DEF Knows, Recording, Holding, Grows, Received
<1> QED
    BY <1>1, <1>2, <1>3, <1>4, RunnerStep

LEMMA WriteCursorPreserves ==
    ASSUME SandboxInv, NEW r \in Runners, WriteCursor(r)
    PROVE  SandboxInv'
<1> DEFINE g == [reg[r] EXCEPT !.write = NoCursor, !.read = NoCursor]
<1>1. /\ pc[r] = "write" /\ Goto(r, reg[r].ret, g)
      /\ cursor' = NextCursor(reg[r].write, reg[r].read)
      /\ UNCHANGED <<receipts, intents, observations, completions, qqVars, sendVars, crashes>>
    BY DEF WriteCursor
<1>2. /\ g \in Registers /\ g.frame = reg[r].frame
    BY InHand, NoRegistersTyped DEF Registers
<1>3. reg[r].ret \in Returns /\ reg[r].ret \in Labels
    BY <1>1, InHand DEF Knows, Recording, Registers
<1>4. cursor' \in Cursors
    <2>1. reg[r].write \in Cursors /\ reg[r].read \in Cursors
        BY InHand DEF Registers
    <2> QED
        BY <1>1, <2>1 DEF NextCursor, Cursors
<1>5. TablesAgree' /\ Grows /\ StoreTyped' /\ WorldTyped'
    BY <1>1, <1>4, InHand, TablesUnchanged DEF qqVars, sendVars, StoreTyped, WorldTyped
<1> HIDE DEF g
<1>6. ASSUME pc'[r] = reg[r].ret /\ reg'[r] = g PROVE Knows(r)'
    BY <1>1, <1>2, <1>3, <1>5, <1>6, InHand
    DEF Knows, Recording, Holding, Returns, Grows, Received
<1> QED
    BY <1>1, <1>2, <1>3, <1>5, <1>6, RunnerStep

(* A step of a runner to a label at which it knows nothing.                *)
LEMMA FreeStep ==
    ASSUME SandboxInv, NEW r \in Runners, NEW l, NEW g \in Registers,
           l \in {"idle", "connect", "receive", "reconnect", "leave"}, Goto(r, l, g),
           UNCHANGED <<storeVars, shown>>, WorldTyped'
    PROVE  SandboxInv'
<1>1. TablesAgree' /\ Grows /\ StoreTyped' /\ l \in Labels
    BY InHand, TablesUnchanged DEF storeVars, StoreTyped, Labels
<1>2. ASSUME pc'[r] = l PROVE Knows(r)'
    BY <1>2 DEF Knows, Recording, Holding
<1> QED
    BY <1>1, <1>2, RunnerStep

(* A step of a runner that sets about to move the cursor.                  *)
LEMMA RecordStep ==
    ASSUME SandboxInv, NEW r \in Runners, NEW g \in Registers, NEW n \in Nat,
           NEW status \in CursorStatus, NEW ret \in Returns,
           RecordCursor(r, g, n, status, ret), UNCHANGED <<storeVars, shown>>, WorldTyped',
           ret # "intent"
    PROVE  SandboxInv'
<1> DEFINE h == [g EXCEPT !.write = [session |-> g.session, seq |-> n, status |-> status],
                          !.ret = ret]
<1>1. Goto(r, "cursor", h)
    BY DEF RecordCursor
<1>2. h \in Registers /\ h.ret = ret /\ "cursor" \in Labels
    BY DEF Registers, Cursors, Labels, Returns, CursorStatus
<1> HIDE DEF h
<1>3. TablesAgree' /\ Grows /\ StoreTyped'
    BY InHand, TablesUnchanged DEF storeVars, StoreTyped
<1>4. ASSUME pc'[r] = "cursor" /\ reg'[r] = h PROVE Knows(r)'
    BY <1>2, <1>4 DEF Knows, Recording, Holding
<1> QED
    BY <1>1, <1>2, <1>3, <1>4, RunnerStep

LEMMA StartRunPreserves ==
    ASSUME SandboxInv, NEW r \in Runners, StartRun(r)
    PROVE  SandboxInv'
<1>1. UNCHANGED <<storeVars, qqVars, sendVars, crashes>>
    BY DEF StartRun
<1>2. TablesAgree' /\ Grows /\ StoreTyped' /\ WorldTyped'
    BY <1>1, InHand, TablesUnchanged DEF storeVars, qqVars, sendVars, StoreTyped, WorldTyped
<1>3. ASSUME NEW m \in RecoverableIntents, Goto(r, "process", [NoRegisters EXCEPT !.msg = m])
      PROVE  SandboxInv'
    <2> DEFINE g == [NoRegisters EXCEPT !.msg = m]
    <2>1. m \in intents /\ m \in Messages
        BY InHand DEF RecoverableIntents, StoreTyped
    <2>2. g \in Registers /\ g.msg = m /\ ~g.verify /\ "process" \in Labels
        BY <2>1, NoRegistersTyped DEF Registers, NoRegisters, Labels
    <2> HIDE DEF g
    <2>3. ASSUME pc'[r] = "process" /\ reg'[r] = g PROVE Knows(r)'
        BY <1>2, <2>1, <2>2, <2>3 DEF Knows, Recording, Holding, Grows
    <2>4. Goto(r, "process", g)
        BY <1>3 DEF g
    <2> QED
        BY <1>2, <2>2, <2>3, <2>4, RunnerStep
<1>4. ASSUME NEW verify \in VerifyModes,
             Goto(r, "connect", [NoRegisters EXCEPT !.verify = verify])
      PROVE  SandboxInv'
    <2>1. [NoRegisters EXCEPT !.verify = verify] \in Registers
        BY NoRegistersTyped, Bounds DEF Registers
    <2> QED
        BY <1>1, <1>2, <1>4, <2>1, FreeStep DEF sendVars
<1> QED
    BY <1>3, <1>4 DEF StartRun

LEMMA AuthenticatePreserves ==
    ASSUME SandboxInv, NEW r \in Runners, Authenticate(r)
    PROVE  SandboxInv'
<1>1. /\ Goto(r, "receive", reg[r]) /\ reg[r] \in Registers
      /\ UNCHANGED <<storeVars, posted, lost, sendVars, crashes>>
    BY InHand DEF Authenticate
<1>2. session \in [Runners -> [id : Nat, frames : Seq(Sent)]] /\ sessions \in Nat
      /\ reg[r].latest \in Nat /\ upcoming \in [Runners -> Nat \ {0}]
    BY InHand DEF WorldTyped, Registers
<1>3. /\ session' \in [Runners -> [id : Nat, frames : Seq(Sent)]] /\ sessions' \in Nat
      /\ upcoming' \in [Runners -> Nat \ {0}]
    <2>1. CASE reg[r].session # 0 /\ reg[r].latest # 0
        <3>1. /\ session' = [session EXCEPT ![r].frames = Append(@, Frame("RESUMED"))]
              /\ \E n \in {reg[r].latest, reg[r].latest + 1} : upcoming' = [upcoming EXCEPT ![r] = n]
              /\ sessions' = sessions
            BY <2>1 DEF Authenticate
        <3>2. upcoming' \in [Runners -> Nat \ {0}]
            BY <1>2, <2>1, <3>1
        <3>3. Append(session[r].frames, Frame("RESUMED")) \in Seq(Sent)
            BY <1>2, SomeFrames
        <3> HIDE DEF Frame
        <3>4. session' \in [Runners -> [id : Nat, frames : Seq(Sent)]]
            BY <1>2, <3>1, <3>3
        <3> QED
            BY <1>2, <3>1, <3>2, <3>4
    <2>2. CASE ~(reg[r].session # 0 /\ reg[r].latest # 0)
        <3>1. /\ session' = [session EXCEPT ![r] = [id |-> sessions + 1,
                                                   frames |-> <<Frame("READY")>>]]
              /\ upcoming' = [upcoming EXCEPT ![r] = 1] /\ sessions' = sessions + 1
            BY <2>2 DEF Authenticate
        <3>2. <<Frame("READY")>> \in Seq(Sent)
            BY SomeFrames
        <3> QED
            BY <1>2, <3>1, <3>2
    <2> QED
        BY <2>1, <2>2
<1>4. WorldTyped'
    BY <1>1, <1>3, InHand DEF WorldTyped, sendVars
<1> QED
    BY <1>1, <1>4, FreeStep DEF sendVars

(* What a received frame is.                                               *)
LEMMA FrameInHand ==
    ASSUME SandboxInv, NEW r \in Runners, upcoming[r] <= Len(session[r].frames)
    PROVE  /\ upcoming[r] \in Nat \ {0}
           /\ session[r].id \in Nat
           /\ session[r].frames[upcoming[r]] \in Sent
<1>1. session[r] \in [id : Nat, frames : Seq(Sent)] /\ upcoming[r] \in Nat \ {0}
    BY InHand DEF WorldTyped
<1>2. session[r].frames \in Seq(Sent) /\ session[r].id \in Nat
    BY <1>1
<1>3. upcoming[r] \in 1..Len(session[r].frames)
    BY <1>1, <1>2
<1> QED
    BY <1>1, <1>2, <1>3

LEMMA ReceivePreserves ==
    ASSUME SandboxInv, NEW r \in Runners, Receive(r)
    PROVE  SandboxInv'
<1> DEFINE s == upcoming[r]
           f == session[r].frames[s]
           seen == [reg[r] EXCEPT !.latest = s]
<1>1. /\ UNCHANGED <<storeVars, posted, session, sessions, lost, sendVars, crashes>>
      /\ upcoming' = [upcoming EXCEPT ![r] = @ + 1]
      /\ CASE f.t = "READY"   -> RecordCursor(r, [seen EXCEPT !.session = session[r].id], s,
                                            "identified", "receive")
         [] f.t = "RESUMED" -> RecordCursor(r, seen, s, "resuming", "receive")
         [] f.t = "other"   -> RecordCursor(r, seen, s, "identified", "receive")
         [] f.t = "message" -> Goto(r, "accept", [seen EXCEPT !.frame = f, !.seq = s])
    BY DEF Receive
<1>2. s \in Nat \ {0} /\ f \in Sent /\ session[r].id \in Nat
    BY FrameInHand DEF Receive
<1>3. WorldTyped'
    BY <1>1, <1>2, InHand DEF WorldTyped, sendVars
<1>4. seen \in Registers
    BY <1>2, InHand DEF Registers
<1>5. [seen EXCEPT !.session = session[r].id] \in Registers
    BY <1>2, <1>4 DEF Registers
<1>6. /\ "identified" \in CursorStatus /\ "resuming" \in CursorStatus /\ "receive" \in Returns
      /\ "receive" # "intent" /\ shown' = shown
    BY <1>1 DEF CursorStatus, Returns, sendVars
<1> HIDE DEF s, f, seen
<1>7. CASE f.t = "READY"
    BY <1>1, <1>2, <1>3, <1>5, <1>6, <1>7, RecordStep
<1>8. CASE f.t = "RESUMED"
    BY <1>1, <1>2, <1>3, <1>4, <1>6, <1>8, RecordStep
<1>9. CASE f.t = "other"
    BY <1>1, <1>2, <1>3, <1>4, <1>6, <1>9, RecordStep
<1>10. CASE f.t = "message"
    <2> DEFINE g == [seen EXCEPT !.frame = f, !.seq = s]
    <2>1. f \in MessageFrames
        BY <1>2, <1>10 DEF Sent, Frame
    <2>2. g \in Registers /\ g.frame = f /\ "accept" \in Labels
        BY <1>2, <1>4, SentAreFrames DEF Registers, Labels
    <2>3. Goto(r, "accept", g)
        BY <1>1, <1>10
    <2> HIDE DEF g
    <2>4. TablesAgree' /\ Grows /\ StoreTyped'
        BY <1>1, <1>6, InHand, TablesUnchanged DEF storeVars, StoreTyped
    <2>5. ASSUME pc'[r] = "accept" /\ reg'[r] = g PROVE Knows(r)'
        BY <2>1, <2>2, <2>5 DEF Knows, Recording, Holding
    <2> QED
        BY <1>3, <2>2, <2>3, <2>4, <2>5, RunnerStep
<1>11. f.t \in {"READY", "RESUMED", "other", "message"}
    BY <1>2 DEF Sent, Frame, MessageFrames
<1> QED
    BY <1>7, <1>8, <1>9, <1>10, <1>11

LEMMA ReconnectPreserves ==
    ASSUME SandboxInv, NEW r \in Runners, Reconnect(r)
    PROVE  SandboxInv'
<1> DEFINE tries == reg[r].reconnects + 1
           next == IF tries > MaxReconnects THEN "leave" ELSE "connect"
           regs == [reg[r] EXCEPT !.reconnects = tries, !.frame = NoFrame, !.seq = 0]
<1>1. /\ UNCHANGED <<storeVars, qqVars, sendVars, crashes>>
      /\ IF cursor = NoCursor THEN Goto(r, next, regs)
         ELSE RecordCursor(r, regs, cursor.seq, "disconnected", next)
    BY DEF Reconnect
<1>2. regs \in Registers
    <2>1. reg[r] \in Registers /\ NoFrame \in Frames
        BY InHand, SomeFrames
    <2>2. tries \in Nat
        BY <2>1 DEF Registers
    <2> HIDE DEF tries
    <2> QED
        BY <2>1, <2>2 DEF Registers
<1>3. /\ cursor.seq \in Nat /\ "disconnected" \in CursorStatus /\ shown' = shown
      /\ next \in {"leave", "connect"} /\ next \in Returns /\ next # "intent"
    BY <1>1, InHand DEF StoreTyped, Cursors, CursorStatus, Returns, sendVars
<1>4. WorldTyped'
    BY <1>1, InHand DEF WorldTyped, qqVars, sendVars
<1> HIDE DEF tries, next, regs
<1> QED
    BY <1>1, <1>2, <1>3, <1>4, FreeStep, RecordStep

LEMMA AcceptPreserves ==
    ASSUME SandboxInv, NEW r \in Runners, Accept(r)
    PROVE  SandboxInv'
<1> DEFINE failed == IF reg[r].replay THEN "leave" ELSE "reconnect"
<1>1. /\ UNCHANGED <<storeVars, qqVars, sendVars, crashes>> /\ pc[r] = "accept"
      /\ \/ Goto(r, failed, reg[r])
         \/ RecordCursor(r, reg[r], cursor.seq, "reconciliation_required", failed)
         \/ Goto(r, "intake", reg[r])
    BY DEF Accept
<1>2. reg[r] \in Registers /\ reg[r].frame \in MessageFrames /\ "intake" \in Labels
    BY <1>1, InHand DEF Knows, Labels
<1>3. /\ cursor.seq \in Nat /\ "reconciliation_required" \in CursorStatus /\ shown' = shown
      /\ failed \in {"leave", "reconnect"} /\ failed \in Returns /\ failed # "intent"
    BY <1>1, InHand DEF StoreTyped, Cursors, CursorStatus, Returns, sendVars
<1>4. WorldTyped' /\ TablesAgree' /\ Grows /\ StoreTyped'
    BY <1>1, InHand, TablesUnchanged DEF storeVars, qqVars, sendVars, StoreTyped, WorldTyped
<1> HIDE DEF failed
<1>5. CASE Goto(r, "intake", reg[r])
    <2>1. ASSUME pc'[r] = "intake" /\ reg'[r] = reg[r] PROVE Knows(r)'
        BY <1>2, <2>1 DEF Knows, Recording, Holding
    <2> QED
        BY <1>2, <1>4, <1>5, <2>1, RunnerStep
<1> QED
    BY <1>1, <1>2, <1>3, <1>4, <1>5, FreeStep, RecordStep

(* A captured message is a new one and makes one row.                      *)
LEMMA CapturedOnce ==
    ASSUME StoreTyped, TablesAgree, NEW f \in MessageFrames, Rows(f.msg) = {},
           receipts' = Captured([msg |-> f.msg, content |-> f.content]),
           UNCHANGED <<intents, completions, shown>>
    PROVE  /\ receipts' \in Seq([msg : Messages, content : Contents])
           /\ TablesAgree' /\ Grows
           /\ f.msg \in Received'
<1> DEFINE row == [msg |-> f.msg, content |-> f.content]
           S == [msg : Messages, content : Contents]
<1>1. row \in S /\ row.msg = f.msg
    BY DEF MessageFrames
<1>2. receipts \in Seq(S)
    BY DEF StoreTyped
<1>a. receipts' = Append(receipts, row)
    BY DEF Captured
<1> HIDE DEF row, S
<1>3. /\ receipts' \in Seq(S)
      /\ Len(receipts') = Len(receipts) + 1
      /\ \A i \in 1..Len(receipts) : receipts'[i] = receipts[i]
      /\ receipts'[Len(receipts) + 1] = row
    BY <1>1, <1>2, <1>a
<1>4. Len(receipts) \in Nat
    BY <1>2
<1>5. \A i \in 1..Len(receipts) : receipts[i].msg # f.msg
    BY DEF Rows
<1>6. \A i, j \in 1..Len(receipts') : receipts'[i].msg = receipts'[j].msg => i = j
    <2> SUFFICES ASSUME NEW i \in 1..Len(receipts'), NEW j \in 1..Len(receipts'),
                        receipts'[i].msg = receipts'[j].msg
                 PROVE  i = j
        OBVIOUS
    <2>1. i \in 1..Len(receipts) \/ i = Len(receipts) + 1
        BY <1>3, <1>4
    <2>2. j \in 1..Len(receipts) \/ j = Len(receipts) + 1
        BY <1>3, <1>4
    <2> QED
        BY <1>1, <1>3, <1>5, <2>1, <2>2 DEF TablesAgree
<1>7. /\ Grows /\ f.msg \in Received'
    <2>1. \A i \in 1..Len(receipts) : i \in 1..Len(receipts')
        BY <1>3, <1>4
    <2>2. Len(receipts) + 1 \in 1..Len(receipts')
        BY <1>3, <1>4
    <2> QED
        BY <1>1, <1>3, <2>1, <2>2 DEF Grows, Received
<1>8. TablesAgree'
    BY <1>6, <1>7 DEF TablesAgree, Grows, Received
<1> QED
    BY <1>3, <1>7, <1>8 DEF S

LEMMA IntakeQqPreserves ==
    ASSUME SandboxInv, NEW r \in Runners, IntakeQq(r)
    PROVE  SandboxInv'
<1> DEFINE f == reg[r].frame
           row == [msg |-> f.msg, content |-> f.content]
           h == [reg[r] EXCEPT !.write = [session |-> reg[r].session, seq |-> reg[r].seq,
                                          status |-> "identified"],
                               !.ret = "intent"]
<1>1. /\ pc[r] = "intake"
      /\ UNCHANGED <<cursor, intents, observations, completions, qqVars, sendVars, crashes>>
      /\ \/ /\ Rows(f.msg) = {} /\ receipts' = Captured(row) /\ Goto(r, "cursor", h)
         \/ /\ \E i \in Rows(f.msg) : receipts[i] = row
            /\ receipts' = receipts /\ Goto(r, "cursor", h)
         \/ /\ receipts' = receipts
            /\ RecordCursor(r, [reg[r] EXCEPT !.frame = NoFrame, !.seq = 0], reg[r].seq,
                            "identified", "receive")
    BY DEF IntakeQq, RecordCursor
<1>2. f \in MessageFrames /\ reg[r] \in Registers /\ reg[r].seq \in Nat
    BY <1>1, InHand DEF Knows, Registers
<1>3. h \in Registers /\ h.frame = f /\ h.ret = "intent" /\ "cursor" \in Labels
    BY <1>2 DEF Registers, Cursors, Labels, Returns, CursorStatus
<1>4. WorldTyped'
    BY <1>1, InHand DEF WorldTyped, qqVars, sendVars
<1> HIDE DEF f, h
<1>5. ASSUME Goto(r, "cursor", h), TablesAgree', Grows, StoreTyped', f.msg \in Received'
      PROVE  SandboxInv'
    <2>1. ASSUME pc'[r] = "cursor" /\ reg'[r] = h PROVE Knows(r)'
        BY <1>2, <1>3, <1>5, <2>1 DEF Knows, Recording, Holding, Returns
    <2> QED
        BY <1>3, <1>4, <1>5, <2>1, RunnerStep
<1>6. CASE Rows(f.msg) = {} /\ receipts' = Captured(row) /\ Goto(r, "cursor", h)
    <2>1. /\ receipts' \in Seq([msg : Messages, content : Contents])
          /\ TablesAgree' /\ Grows /\ f.msg \in Received'
        BY <1>1, <1>2, <1>6, InHand, CapturedOnce DEF sendVars
    <2>2. StoreTyped'
        BY <1>1, <2>1, InHand DEF StoreTyped
    <2> QED
        BY <1>5, <1>6, <2>1, <2>2
<1>7. CASE /\ \E i \in Rows(f.msg) : receipts[i] = row
           /\ receipts' = receipts /\ Goto(r, "cursor", h)
    <2>1. TablesAgree' /\ Grows /\ StoreTyped'
        BY <1>1, <1>7, InHand, TablesUnchanged DEF sendVars, StoreTyped
    <2>2. f.msg \in Received'
        BY <1>7 DEF Rows, Received
    <2> QED
        BY <1>5, <1>7, <2>1, <2>2
<1>8. CASE /\ receipts' = receipts
           /\ RecordCursor(r, [reg[r] EXCEPT !.frame = NoFrame, !.seq = 0], reg[r].seq,
                            "identified", "receive")
    <2>1. [reg[r] EXCEPT !.frame = NoFrame, !.seq = 0] \in Registers
        BY <1>2, SomeFrames DEF Registers
    <2>2. /\ UNCHANGED <<storeVars, shown>>
          /\ "identified" \in CursorStatus /\ "receive" \in Returns /\ "receive" # "intent"
        BY <1>1, <1>8 DEF storeVars, sendVars, CursorStatus, Returns
    <2> QED
        BY <1>2, <1>4, <1>8, <2>1, <2>2, RecordStep
<1> QED
    BY <1>1, <1>6, <1>7, <1>8

LEMMA CreateIntentPreserves ==
    ASSUME SandboxInv, NEW r \in Runners, CreateAcknowledgementIntent(r)
    PROVE  SandboxInv'
<1> DEFINE m == reg[r].frame.msg
           g == [reg[r] EXCEPT !.msg = reg[r].frame.msg]
<1>1. /\ pc[r] = "intent" /\ intents' = intents \cup {m} /\ Goto(r, "process", g)
      /\ UNCHANGED <<receipts, cursor, observations, completions, qqVars, sendVars, crashes>>
    BY DEF CreateAcknowledgementIntent
<1>2. reg[r].frame \in MessageFrames /\ m \in Received /\ m \in Messages
    BY <1>1, InHand DEF Knows, MessageFrames
<1>3. reg[r] \in Registers
    BY InHand
<1>4. g \in Registers /\ g.msg = m /\ g.frame = reg[r].frame /\ "process" \in Labels
    BY <1>2, <1>3 DEF Registers, Labels
<1> HIDE DEF m, g
<1>5. StoreTyped' /\ WorldTyped'
    BY <1>1, <1>2, InHand DEF StoreTyped, WorldTyped, qqVars, sendVars
<1>6. TablesAgree' /\ Grows
    BY <1>1, <1>2, InHand DEF TablesAgree, Grows, Received, sendVars
<1>7. ASSUME pc'[r] = "process" /\ reg'[r] = g PROVE Knows(r)'
    BY <1>1, <1>2, <1>4, <1>7 DEF Knows, Recording, Holding
<1> QED
    BY <1>1, <1>4, <1>5, <1>6, <1>7, RunnerStep

LEMMA ProcessPreserves ==
    ASSUME SandboxInv, NEW r \in Runners, Process(r)
    PROVE  SandboxInv'
<1> DEFINE g == [reg[r] EXCEPT !.out = "expired"]
<1>1. /\ pc[r] = "process" /\ UNCHANGED <<storeVars, qqVars, sendVars, crashes>>
      /\ \/ Goto(r, "done", reg[r]) \/ Goto(r, "send", reg[r]) \/ Goto(r, "observe", g)
    BY DEF Process
<1>2. TablesAgree' /\ Grows /\ StoreTyped' /\ WorldTyped'
    BY <1>1, InHand, TablesUnchanged DEF storeVars, qqVars, sendVars, StoreTyped, WorldTyped
<1>3. /\ reg[r] \in Registers /\ reg[r].msg \in intents
      /\ reg[r].verify => reg[r].frame \in MessageFrames
    BY <1>1, InHand DEF Knows, Holding
<1>4. /\ g \in Registers /\ g.msg = reg[r].msg /\ g.verify = reg[r].verify
      /\ g.frame = reg[r].frame /\ g.out = "expired" /\ "expired" \in Statuses
      /\ "expired" \notin Completable /\ {"done", "send", "observe"} \subseteq Labels
    BY <1>3 DEF Registers, Statuses, Completable, Labels
<1> HIDE DEF g
<1>5. ASSUME pc'[r] = "observe" /\ reg'[r] = g PROVE Knows(r)'
    BY <1>2, <1>3, <1>4, <1>5 DEF Knows, Recording, Holding, Grows
<1>6. ASSUME pc'[r] \in {"done", "send"} /\ reg'[r] = reg[r] PROVE Knows(r)'
    BY <1>2, <1>3, <1>6 DEF Knows, Recording, Holding, Grows
<1>7. CASE Goto(r, "observe", g)
    BY <1>2, <1>4, <1>5, <1>7, RunnerStep
<1>8. CASE Goto(r, "done", reg[r])
    BY <1>2, <1>3, <1>4, <1>6, <1>8, RunnerStep
<1>9. CASE Goto(r, "send", reg[r])
    BY <1>2, <1>3, <1>4, <1>6, <1>9, RunnerStep
<1> QED
    BY <1>1, <1>7, <1>8, <1>9

(* What a send leaves behind: one attempt more, and a reply that is shown  *)
(* if QQ said so.                                                          *)
LEMMA SendShape ==
    ASSUME SandboxInv, NEW r \in Runners, SendFixedAcknowledgement(r)
    PROVE  /\ pc[r] = "send" /\ reg[r].msg \in Messages
           /\ attempts' = [attempts EXCEPT ![reg[r].msg] = @ + 1]
           /\ failures' \in Nat
           /\ shown' \in {shown, shown \cup {reg[r].msg}}
           /\ UNCHANGED <<storeVars, qqVars, lapsed, crashes>>
           /\ \E out \in Statuses :
                 /\ Goto(r, "observe", [reg[r] EXCEPT !.out = out])
                 /\ out \in Completable => reg[r].msg \in shown'
<1> DEFINE m == reg[r].msg
           answer(out) == Goto(r, "observe", [reg[r] EXCEPT !.out = out])
           fails == failures < MaxFailures /\ failures' = failures + 1
<1>1. /\ pc[r] = "send" /\ attempts' = [attempts EXCEPT ![m] = @ + 1]
      /\ UNCHANGED <<storeVars, qqVars, lapsed, crashes>>
      /\ \/ m \in shown /\ answer("duplicate") /\ UNCHANGED <<shown, failures>>
         \/ /\ m \notin shown /\ m \notin lapsed
            /\ answer("accepted") /\ shown' = shown \cup {m} /\ UNCHANGED failures
         \/ m \notin shown /\ m \in lapsed /\ answer("expired") /\ UNCHANGED <<shown, failures>>
         \/ m \notin lapsed /\ fails /\ answer("unknown") /\ shown' = shown \cup {m}
         \/ /\ fails /\ UNCHANGED shown
            /\ \E out \in {"unknown", "unauthorized", "conflict"} : answer(out)
    BY DEF SendFixedAcknowledgement
<1>2. m \in Messages /\ failures \in Nat
    BY <1>1, InHand DEF Knows, Holding, StoreTyped, WorldTyped
<1>3. /\ {"accepted", "duplicate", "expired", "unknown", "unauthorized", "conflict"}
            \subseteq Statuses
      /\ \A out \in {"unknown", "unauthorized", "conflict", "expired"} : out \notin Completable
    BY DEF Statuses, Completable
<1> HIDE DEF m, answer
<1>4. failures' \in Nat /\ shown' \in {shown, shown \cup {m}}
    BY <1>1, <1>2
<1>5. \E out \in Statuses : answer(out) /\ (out \in Completable => m \in shown')
    BY <1>1, <1>3
<1> QED
    BY <1>1, <1>2, <1>4, <1>5 DEF m, answer

LEMMA SendPreserves ==
    ASSUME SandboxInv, NEW r \in Runners, SendFixedAcknowledgement(r)
    PROVE  SandboxInv'
<1>1. PICK out \in Statuses :
          /\ Goto(r, "observe", [reg[r] EXCEPT !.out = out])
          /\ out \in Completable => reg[r].msg \in shown'
    BY SendShape
<1> DEFINE g == [reg[r] EXCEPT !.out = out]
<1>2. /\ reg[r] \in Registers /\ reg[r].msg \in intents
      /\ reg[r].verify => reg[r].frame \in MessageFrames
    BY SendShape, InHand DEF Knows, Holding
<1>3. /\ g \in Registers /\ g.msg = reg[r].msg /\ g.verify = reg[r].verify
      /\ g.frame = reg[r].frame /\ g.out = out /\ "observe" \in Labels
    BY <1>2 DEF Registers, Labels
<1>4. Goto(r, "observe", g)
    BY <1>1
<1> HIDE DEF g
<1>5. StoreTyped' /\ WorldTyped'
    <2>1. /\ UNCHANGED <<storeVars, posted, session, upcoming, sessions, lost, lapsed, crashes>>
          /\ attempts' = [attempts EXCEPT ![reg[r].msg] = @ + 1] /\ reg[r].msg \in Messages
          /\ failures' \in Nat /\ shown' \in {shown, shown \cup {reg[r].msg}}
        BY SendShape DEF qqVars
    <2>2. attempts' \in [Messages -> Nat] /\ shown' \subseteq Messages
        BY <2>1, InHand DEF WorldTyped
    <2> QED
        BY <2>1, <2>2, InHand DEF storeVars, StoreTyped, WorldTyped
<1>6. TablesAgree' /\ Grows
    <2>1. UNCHANGED <<receipts, intents, completions>>
          /\ shown' \in {shown, shown \cup {reg[r].msg}}
        BY SendShape DEF storeVars
    <2> QED
        BY <1>2, <2>1, InHand DEF TablesAgree, Grows, Received
<1>7. ASSUME pc'[r] = "observe" /\ reg'[r] = g PROVE Knows(r)'
    BY <1>1, <1>2, <1>3, <1>6, <1>7 DEF Knows, Recording, Holding, Grows
<1> QED
    BY <1>3, <1>4, <1>5, <1>6, <1>7, RunnerStep

LEMMA AppendObservationPreserves ==
    ASSUME SandboxInv, NEW r \in Runners, AppendObservation(r)
    PROVE  SandboxInv'
<1> DEFINE l == IF reg[r].out \in Completable THEN "complete" ELSE "done"
<1>1. /\ pc[r] = "observe" /\ Goto(r, l, reg[r])
      /\ observations' = [observations EXCEPT ![reg[r].msg] = Append(@, reg[r].out)]
      /\ UNCHANGED <<receipts, cursor, intents, completions, qqVars, sendVars, crashes>>
    BY DEF AppendObservation
<1>2. /\ reg[r] \in Registers /\ reg[r].msg \in intents /\ reg[r].msg \in Messages
      /\ reg[r].verify => reg[r].frame \in MessageFrames
      /\ reg[r].out \in Statuses /\ (reg[r].out \in Completable => reg[r].msg \in shown)
    BY <1>1, InHand DEF Knows, Holding, StoreTyped
<1>3. TablesAgree' /\ Grows /\ WorldTyped'
    BY <1>1, InHand, TablesUnchanged DEF qqVars, sendVars, WorldTyped
<1>4. StoreTyped'
    <2>1. observations \in [Messages -> Seq(Statuses)]
        BY InHand DEF StoreTyped
    <2>2. Append(observations[reg[r].msg], reg[r].out) \in Seq(Statuses)
        BY <1>2, <2>1
    <2>3. observations' \in [Messages -> Seq(Statuses)]
        BY <1>1, <2>1, <2>2
    <2> QED
        BY <1>1, <2>3, InHand DEF StoreTyped
<1>5. l \in Labels
    BY DEF Labels
<1>6. ASSUME pc'[r] = l /\ reg'[r] = reg[r] PROVE Knows(r)'
    BY <1>2, <1>3, <1>6 DEF Knows, Recording, Holding, Grows
<1> HIDE DEF l
<1> QED
    BY <1>1, <1>2, <1>3, <1>4, <1>5, <1>6, RunnerStep

LEMMA CompletePreserves ==
    ASSUME SandboxInv, NEW r \in Runners, Complete(r)
    PROVE  SandboxInv'
<1>1. /\ pc[r] = "complete" /\ Goto(r, "done", reg[r])
      /\ completions' = [completions EXCEPT ![reg[r].msg] = IF @ = "none" THEN reg[r].out ELSE @]
      /\ UNCHANGED <<receipts, cursor, intents, observations, qqVars, sendVars, crashes>>
    BY DEF Complete
<1>2. /\ reg[r] \in Registers /\ reg[r].msg \in intents /\ reg[r].msg \in Messages
      /\ reg[r].verify => reg[r].frame \in MessageFrames
      /\ reg[r].out \in Completable /\ reg[r].msg \in shown
    BY <1>1, InHand DEF Knows, Holding, StoreTyped
<1>3. completions \in [Messages -> Completable \cup {"none"}]
    BY InHand DEF StoreTyped
<1>4. /\ completions' \in [Messages -> Completable \cup {"none"}]
      /\ \A m \in Messages : completions'[m] # "none" => m \in shown
    BY <1>1, <1>2, <1>3, InHand DEF TablesAgree
<1>5. StoreTyped' /\ WorldTyped'
    BY <1>1, <1>4, InHand DEF StoreTyped, WorldTyped, qqVars, sendVars
<1>6. TablesAgree' /\ Grows
    BY <1>1, <1>4, InHand DEF TablesAgree, Grows, Received, sendVars
<1>7. "done" \in Labels
    BY DEF Labels
<1>8. ASSUME pc'[r] = "done" /\ reg'[r] = reg[r] PROVE Knows(r)'
    BY <1>2, <1>6, <1>8 DEF Knows, Recording, Holding, Grows
<1> QED
    BY <1>1, <1>2, <1>5, <1>6, <1>7, <1>8, RunnerStep

LEMMA DonePreserves ==
    ASSUME SandboxInv, NEW r \in Runners, Done(r)
    PROVE  SandboxInv'
<1> DEFINE g == [reg[r] EXCEPT !.replay = TRUE, !.out = "none", !.msg = "none"]
<1>1. /\ pc[r] = "done" /\ UNCHANGED <<storeVars, qqVars, sendVars, crashes>>
      /\ \/ reg[r].verify /\ Goto(r, "accept", g)
         \/ Goto(r, "leave", reg[r])
    BY DEF Done
<1>2. reg[r] \in Registers /\ (reg[r].verify => reg[r].frame \in MessageFrames)
    BY <1>1, InHand DEF Knows, Holding
<1>3. g \in Registers /\ g.frame = reg[r].frame /\ "accept" \in Labels
    BY <1>2 DEF Registers, Labels
<1> HIDE DEF g
<1>4. TablesAgree' /\ Grows /\ StoreTyped' /\ WorldTyped'
    BY <1>1, InHand, TablesUnchanged DEF storeVars, qqVars, sendVars, StoreTyped, WorldTyped
<1>5. CASE reg[r].verify /\ Goto(r, "accept", g)
    <2>1. ASSUME pc'[r] = "accept" /\ reg'[r] = g PROVE Knows(r)'
        BY <1>2, <1>3, <1>5, <2>1 DEF Knows, Recording, Holding
    <2> QED
        BY <1>3, <1>4, <1>5, <2>1, RunnerStep
<1>6. CASE Goto(r, "leave", reg[r])
    BY <1>1, <1>2, <1>4, <1>6, FreeStep DEF sendVars
<1> QED
    BY <1>1, <1>5, <1>6

LEMMA GonePreserves ==
    ASSUME SandboxInv, NEW r \in Runners, EndRun(r) \/ Crash(r)
    PROVE  SandboxInv'
<1>1. /\ Goto(r, "idle", NoRegisters) /\ NoRegisters \in Registers
      /\ session' = [session EXCEPT ![r] = NoSession]
      /\ upcoming' = [upcoming EXCEPT ![r] = 1]
      /\ UNCHANGED <<storeVars, posted, sessions, lost, sendVars>>
      /\ crashes' \in Nat
    BY InHand, NoRegistersTyped DEF EndRun, Crash, Gone, Leave, WorldTyped
<1>2. NoSession \in [id : Nat, frames : Seq(Sent)]
    BY DEF NoSession
<1>3. /\ session' \in [Runners -> [id : Nat, frames : Seq(Sent)]]
      /\ upcoming' \in [Runners -> Nat \ {0}]
    BY <1>1, <1>2, InHand DEF WorldTyped
<1>4. WorldTyped'
    BY <1>1, <1>3, InHand DEF WorldTyped, sendVars
<1> QED
    BY <1>1, <1>4, FreeStep DEF sendVars

-----------------------------------------------------------------------------
(* The steps of the world.                                                 *)

LEMMA WorldStep ==
    ASSUME SandboxInv, UNCHANGED <<storeVars, shown, pc, reg>>, WorldTyped'
    PROVE  SandboxInv'
<1>1. TablesAgree' /\ Grows /\ StoreTyped' /\ RunnersTyped'
    BY TablesUnchanged DEF SandboxInv, storeVars, StoreTyped, RunnersTyped
<1>2. ASSUME NEW q \in Runners PROVE Knows(q)'
    <2>1. Knows(q) /\ pc'[q] = pc[q] /\ reg'[q] = reg[q]
        BY DEF SandboxInv
    <2> QED
        BY <1>1, <2>1 DEF Knows, Grows, Received
<1> QED
    BY <1>1, <1>2 DEF SandboxInv

LEMMA PostPreserves ==
    ASSUME SandboxInv, NEW m \in Messages, NEW c \in Contents, Post(m, c)
    PROVE  SandboxInv'
<1> DEFINE f == [t |-> "message", msg |-> m, content |-> c]
           S == [id : Nat, frames : Seq(Sent)]
<1>1. f \in Sent
    BY DEF Sent, MessageFrames
<1>2. session \in [Runners -> S]
    BY InHand DEF SandboxInv, WorldTyped
<1> HIDE DEF f
<1>3. ASSUME NEW r \in Runners PROVE [session[r] EXCEPT !.frames = Append(@, f)] \in S
    <2>1. session[r] \in S
        BY <1>2
    <2>2. Append(session[r].frames, f) \in Seq(Sent)
        BY <1>1, <2>1
    <2> QED
        BY <2>1, <2>2
<1>4. session' = [r \in Runners |->
          IF r \in Listening THEN [session[r] EXCEPT !.frames = Append(@, f)] ELSE session[r]]
    BY DEF Post, f
<1> HIDE DEF S
<1>5. session' \in [Runners -> S]
    BY <1>2, <1>3, <1>4
<1>6. posted' \subseteq Messages \X Contents
    BY InHand DEF Post, SandboxInv, WorldTyped
<1>7. UNCHANGED <<upcoming, shown, lapsed, attempts, sessions, lost, failures, crashes>>
    BY DEF Post, sendVars
<1>8. WorldTyped'
    BY <1>5, <1>6, <1>7 DEF SandboxInv, WorldTyped, S
<1> QED
    BY <1>8, WorldStep DEF Post, sendVars

LEMMA ChatterPreserves ==
    ASSUME SandboxInv, NEW r \in Runners, Chatter(r)
    PROVE  SandboxInv'
<1> DEFINE S == [id : Nat, frames : Seq(Sent)]
<1>1. session \in [Runners -> S] /\ Frame("other") \in Sent
    BY InHand, SomeFrames DEF WorldTyped
<1> HIDE DEF Frame
<1>2. session[r] \in S /\ Append(session[r].frames, Frame("other")) \in Seq(Sent)
    BY <1>1
<1>3. session' \in [Runners -> S]
    BY <1>1, <1>2 DEF Chatter
<1>4. WorldTyped'
    BY <1>3, InHand DEF Chatter, WorldTyped, sendVars
<1> QED
    BY <1>4, WorldStep DEF Chatter, sendVars

LEMMA LosePreserves ==
    ASSUME SandboxInv, NEW r \in Runners, Lose(r)
    PROVE  SandboxInv'
<1>1. upcoming' \in [Runners -> Nat \ {0}] /\ lost' \in Nat
    BY InHand DEF Lose, WorldTyped
<1>2. WorldTyped'
    BY <1>1, InHand DEF Lose, WorldTyped, sendVars
<1> QED
    BY <1>2, WorldStep DEF Lose, sendVars

LEMMA DisconnectPreserves ==
    ASSUME SandboxInv, NEW r \in Runners, Disconnect(r)
    PROVE  SandboxInv'
<1> DEFINE g == [reg[r] EXCEPT !.session = 0, !.latest = 0]
<1>1. /\ reg[r] \in Registers /\ session \in [Runners -> [id : Nat, frames : Seq(Sent)]]
      /\ NoSession \in [id : Nat, frames : Seq(Sent)]
    BY InHand DEF WorldTyped, NoSession
<1>2. g \in Registers
    BY <1>1 DEF Registers
<1>3. /\ \/ Goto(r, "reconnect", reg[r]) /\ session' = session
         \/ Goto(r, "reconnect", g) /\ session' = [session EXCEPT ![r] = NoSession]
      /\ UNCHANGED <<storeVars, posted, upcoming, sessions, lost, sendVars, crashes>>
    BY DEF Disconnect
<1> HIDE DEF g
<1>4. session' \in [Runners -> [id : Nat, frames : Seq(Sent)]]
    BY <1>1, <1>3
<1>5. WorldTyped'
    BY <1>3, <1>4, InHand DEF WorldTyped, sendVars
<1> QED
    BY <1>1, <1>2, <1>3, <1>5, FreeStep DEF sendVars

LEMMA LapsePreserves ==
    ASSUME SandboxInv, NEW m \in Messages, Lapse(m)
    PROVE  SandboxInv'
<1>1. WorldTyped'
    BY DEF Lapse, SandboxInv, WorldTyped, qqVars
<1> QED
    BY <1>1, WorldStep DEF Lapse

-----------------------------------------------------------------------------
LEMMA SandboxNext == SandboxInv /\ [Next]_vars => SandboxInv'
<1> SUFFICES ASSUME SandboxInv, [Next]_vars PROVE SandboxInv'
    OBVIOUS
<1>1. ASSUME NEW r \in Runners, IntakeStep(r) PROVE SandboxInv'
    BY <1>1, ReadCursorPreserves, WriteCursorPreserves, AuthenticatePreserves,
       ReceivePreserves, ReconnectPreserves, AcceptPreserves, IntakeQqPreserves,
       CreateIntentPreserves
    DEF IntakeStep
<1>2. ASSUME NEW r \in Runners, AcknowledgementStep(r) PROVE SandboxInv'
    BY <1>2, ProcessPreserves, SendPreserves, AppendObservationPreserves, CompletePreserves,
       DonePreserves, GonePreserves
    DEF AcknowledgementStep
<1>3. ASSUME NEW r \in Runners,
             StartRun(r) \/ Crash(r) \/ Chatter(r) \/ Lose(r) \/ Disconnect(r)
      PROVE  SandboxInv'
    BY <1>3, StartRunPreserves, GonePreserves, ChatterPreserves, LosePreserves,
       DisconnectPreserves
<1>4. ASSUME NEW m \in Messages, Lapse(m) \/ \E c \in Contents : Post(m, c)
      PROVE  SandboxInv'
    BY <1>4, LapsePreserves, PostPreserves
<1>5. CASE UNCHANGED vars
    <2>1. UNCHANGED <<storeVars, shown, pc, reg>>
        BY <1>5 DEF vars, sendVars
    <2>2. WorldTyped'
        BY <1>5 DEF vars, qqVars, sendVars, SandboxInv, WorldTyped
    <2> QED
        BY <2>1, <2>2, WorldStep
<1> QED
    BY <1>1, <1>2, <1>3, <1>4, <1>5 DEF Next, Step

LEMMA SandboxAlways == Spec => []SandboxInv
BY SandboxInit, SandboxNext, PTL DEF Spec

(* Every table, session and register of the QQ sandbox holds values of its *)
(* kind, for any number of runners, messages and frames.                   *)
THEOREM SandboxTypeCorrect == Spec => []TypeOK
<1>1. SandboxInv => TypeOK
    BY TypedIsTypeOK DEF SandboxInv
<1> QED
    BY <1>1, SandboxAlways, PTL

-----------------------------------------------------------------------------
(* What follows for the tables.                                            *)

LEMMA RowsAreFew ==
    ASSUME TablesAgree, NEW m \in Messages
    PROVE  Cardinality(Rows(m)) <= 1
<1>1. CASE Rows(m) = {}
    BY <1>1, FS_EmptySet
<1>2. CASE Rows(m) # {}
    <2>1. PICK i : i \in Rows(m)
        BY <1>2
    <2>2. \A j \in Rows(m) : j = i
        BY <2>1 DEF Rows, TablesAgree
    <2>3. Rows(m) = {i}
        BY <2>1, <2>2
    <2>4. Cardinality({i}) = 1
        BY FS_Singleton
    <2> QED
        BY <2>3, <2>4
<1> QED
    BY <1>1, <1>2

(* A group message becomes at most one receipt and Case, whichever         *)
(* runners take it in, in whatever sessions and however often the gateway  *)
(* delivers it, and an acknowledgement is intended only for such a Case.   *)
THEOREM MessagesTakenInOnce == Spec => []IntakeOnce
<1>1. SandboxInv => IntakeOnce
    BY RowsAreFew DEF SandboxInv, TablesAgree, IntakeOnce
<1> QED
    BY <1>1, SandboxAlways, PTL

-----------------------------------------------------------------------------
(* The acknowledgements implement EffectOnce.                              *)

Acknowledged == {m \in Messages : completions[m] # "none"}

ackVars == <<intents, shown, completions>>

LEMMA QuietForAcknowledgements ==
    ASSUME UNCHANGED ackVars
    PROVE  UNCHANGED Acknowledgement!effects
BY DEF ackVars, Acknowledgement!effects, Acknowledged

LEMMA IntendRefines ==
    ASSUME SandboxInv, NEW r \in Runners, CreateAcknowledgementIntent(r)
    PROVE  [Acknowledgement!Next]_(Acknowledgement!effects)
<1> DEFINE m == reg[r].frame.msg
<1>1. /\ intents' = intents \cup {m} /\ UNCHANGED <<shown, completions>> /\ pc[r] = "intent"
    BY DEF CreateAcknowledgementIntent, sendVars
<1>2. m \in Messages
    BY <1>1, InHand DEF Knows, MessageFrames
<1> HIDE DEF m
<1>3. CASE m \in intents
    BY <1>1, <1>3, QuietForAcknowledgements DEF ackVars
<1>4. CASE m \notin intents
    BY <1>1, <1>2, <1>4 DEF Acknowledgement!Next, Acknowledgement!Intend, NoEffect
<1> QED
    BY <1>3, <1>4

LEMMA SendRefines ==
    ASSUME SandboxInv, NEW r \in Runners, SendFixedAcknowledgement(r)
    PROVE  [Acknowledgement!Next]_(Acknowledgement!effects)
<1> DEFINE m == reg[r].msg
<1>1. /\ shown' \in {shown, shown \cup {m}} /\ UNCHANGED <<intents, completions>>
      /\ pc[r] = "send" /\ m \in Messages
    BY SendShape DEF storeVars
<1>2. m \in intents
    BY <1>1, InHand DEF Knows, Holding
<1> HIDE DEF m
<1>3. CASE shown' = shown
    BY <1>1, <1>3, QuietForAcknowledgements DEF ackVars
<1>4. CASE m \notin shown /\ shown' = shown \cup {m}
    BY <1>1, <1>2, <1>4 DEF Acknowledgement!Next, Acknowledgement!Execute
<1> QED
    BY <1>1, <1>3, <1>4

LEMMA CompleteRefines ==
    ASSUME SandboxInv, NEW r \in Runners, Complete(r)
    PROVE  [Acknowledgement!Next]_(Acknowledgement!effects)
<1> DEFINE m == reg[r].msg
<1>1. /\ UNCHANGED <<intents, shown>> /\ pc[r] = "complete"
      /\ completions' = [completions EXCEPT ![m] = IF @ = "none" THEN reg[r].out ELSE @]
    BY DEF Complete, sendVars
<1>2. /\ m \in Messages /\ m \in shown /\ reg[r].out # "none"
      /\ completions \in [Messages -> Completable \cup {"none"}]
    BY <1>1, InHand DEF Knows, Holding, StoreTyped, Completable
<1> HIDE DEF m
<1>3. CASE completions[m] # "none"
    <2>1. completions' = completions
        BY <1>1, <1>2, <1>3
    <2> QED
        BY <1>1, <2>1, QuietForAcknowledgements DEF ackVars
<1>4. CASE completions[m] = "none"
    <2>1. Acknowledged' = Acknowledged \cup {m} /\ m \notin Acknowledged
        BY <1>1, <1>2, <1>4 DEF Acknowledged
    <2> QED
        BY <1>1, <1>2, <2>1
        DEF Acknowledgement!Next, Acknowledgement!Complete, Acknowledged
<1> QED
    BY <1>3, <1>4

LEMMA AcknowledgementRefines ==
    SandboxInv /\ [Next]_vars => [Acknowledgement!Next]_(Acknowledgement!effects)
<1> SUFFICES ASSUME SandboxInv, [Next]_vars
             PROVE  [Acknowledgement!Next]_(Acknowledgement!effects)
    OBVIOUS
<1>1. CASE UNCHANGED ackVars
    BY <1>1, QuietForAcknowledgements
<1>2. ASSUME NEW r \in Runners, IntakeStep(r), ~CreateAcknowledgementIntent(r)
      PROVE  UNCHANGED ackVars
    BY <1>2 DEF IntakeStep, ReadCursor, WriteCursor, Authenticate, Receive, Reconnect, Accept,
                IntakeQq, ackVars, storeVars, sendVars
<1>3. ASSUME NEW r \in Runners, AcknowledgementStep(r), ~SendFixedAcknowledgement(r),
             ~Complete(r)
      PROVE  UNCHANGED ackVars
    BY <1>3 DEF AcknowledgementStep, Process, AppendObservation, Done, EndRun, ackVars,
                storeVars, sendVars
<1>4. ASSUME NEW r \in Runners,
             StartRun(r) \/ Crash(r) \/ Chatter(r) \/ Lose(r) \/ Disconnect(r)
      PROVE  UNCHANGED ackVars
    BY <1>4 DEF StartRun, Crash, Chatter, Lose, Disconnect, ackVars, storeVars, sendVars
<1>5. ASSUME NEW m \in Messages, Lapse(m) \/ \E c \in Contents : Post(m, c)
      PROVE  UNCHANGED ackVars
    BY <1>5 DEF Lapse, Post, ackVars, storeVars, sendVars
<1>6. UNCHANGED vars => UNCHANGED ackVars
    BY DEF vars, ackVars, storeVars, sendVars
<1> QED
    BY <1>1, <1>2, <1>3, <1>4, <1>5, <1>6, IntendRefines, SendRefines, CompleteRefines
    DEF Next, Step

(* An acknowledgement is shown only under its persisted intent, shown      *)
(* once, and recorded complete only when QQ shows it: the runners,         *)
(* crashes, lost answers and retries all disappear in EffectOnce.          *)
THEOREM AcknowledgementsRefineEffectOnce == Spec => ImplementsAckOnce
<1>1. Init => Acknowledgement!Init
    BY DEF Init, Acknowledgement!Init
<1> QED
    BY <1>1, AcknowledgementRefines, SandboxAlways, PTL
    DEF Spec, ImplementsAckOnce, Acknowledgement!Spec

-----------------------------------------------------------------------------
(* Nothing is sent too late.                                               *)

(* The deadline of m passed after n sends, and no runner is on its way to  *)
(* another one.                                                            *)
SentAtMost(m, n) ==
    /\ m \in lapsed /\ attempts[m] = n
    /\ \A r \in Runners : pc[r] = "send" => reg[r].msg # m

LEMMA SentAtMostStays ==
    ASSUME SandboxInv, [Next]_vars, NEW m \in Messages, NEW n, SentAtMost(m, n)
    PROVE  SentAtMost(m, n)'
<1>1. /\ m \in lapsed /\ attempts[m] = n /\ attempts \in [Messages -> Nat]
      /\ pc \in [Runners -> Labels] /\ reg \in [Runners -> Registers]
      /\ \A r \in Runners : pc[r] = "send" => reg[r].msg # m
    BY DEF SentAtMost, SandboxInv, WorldTyped, RunnersTyped
<1>2. lapsed \subseteq lapsed' /\ UNCHANGED <<attempts, pc, reg>> => SentAtMost(m, n)'
    BY <1>1 DEF SentAtMost
<1>3. ASSUME NEW r \in Runners, NEW l, NEW g, Goto(r, l, g), l # "send",
             UNCHANGED <<lapsed, attempts>>
      PROVE  SentAtMost(m, n)'
    BY <1>1, <1>3 DEF SentAtMost, Goto
<1>4. ASSUME NEW r \in Runners, IntakeStep(r) PROVE SentAtMost(m, n)'
    <2>1. UNCHANGED <<lapsed, attempts>>
        BY <1>4 DEF IntakeStep, ReadCursor, WriteCursor, Authenticate, Receive, Reconnect,
                    Accept, IntakeQq, CreateAcknowledgementIntent, sendVars
    <2>2. pc[r] = "write" => reg[r].ret # "send"
        BY InHand DEF Knows, Recording, Returns
    <2>3. \E l, g : Goto(r, l, g) /\ l # "send"
        <3>1. CASE ReadCursor(r) \/ WriteCursor(r) \/ Authenticate(r)
            BY <2>2, <3>1 DEF ReadCursor, WriteCursor, Authenticate
        <3>2. CASE Receive(r)
            <4>1. session[r].frames[upcoming[r]].t \in {"READY", "RESUMED", "other", "message"}
                BY <3>2, FrameInHand DEF Receive, Sent, Frame, MessageFrames
            <4>2. \/ \E h, k, status : RecordCursor(r, h, k, status, "receive")
                  \/ \E g : Goto(r, "accept", g)
                BY <3>2, <4>1 DEF Receive
            <4>3. CASE \E h, k, status : RecordCursor(r, h, k, status, "receive")
                BY <4>3 DEF RecordCursor
            <4> QED
                BY <4>2, <4>3
        <3>3. CASE Reconnect(r)
            BY <3>3 DEF Reconnect, RecordCursor
        <3>4. CASE Accept(r)
            BY <3>4 DEF Accept, RecordCursor
        <3>5. CASE IntakeQq(r)
            BY <3>5 DEF IntakeQq, RecordCursor
        <3>6. CASE CreateAcknowledgementIntent(r)
            BY <3>6 DEF CreateAcknowledgementIntent
        <3> QED
            BY <1>4, <3>1, <3>2, <3>3, <3>4, <3>5, <3>6 DEF IntakeStep
    <2> QED
        BY <1>3, <2>1, <2>3
<1>5. ASSUME NEW r \in Runners, Process(r) PROVE SentAtMost(m, n)'
    <2>1. UNCHANGED <<lapsed, attempts>>
        BY <1>5 DEF Process, sendVars
    <2>2. CASE reg[r].msg \in lapsed
        <3>1. \E l, g : Goto(r, l, g) /\ l # "send"
            BY <1>5, <2>2 DEF Process
        <3> QED
            BY <1>3, <2>1, <3>1
    <2>3. CASE reg[r].msg # m
        <3>1. PICK l, g : Goto(r, l, g) /\ (l = "send" => g = reg[r])
            BY <1>5 DEF Process
        <3> QED
            BY <1>1, <2>1, <2>3, <3>1 DEF SentAtMost, Goto
    <2> QED
        BY <1>1, <2>2, <2>3
<1>6. ASSUME NEW r \in Runners, SendFixedAcknowledgement(r) PROVE SentAtMost(m, n)'
    <2>1. /\ pc[r] = "send" /\ reg[r].msg \in Messages /\ lapsed' = lapsed
          /\ attempts' = [attempts EXCEPT ![reg[r].msg] = @ + 1]
          /\ \E g : Goto(r, "observe", g)
        BY <1>6, SendShape
    <2>2. attempts'[m] = n
        BY <1>1, <2>1
    <2> QED
        BY <1>1, <2>1, <2>2 DEF SentAtMost, Goto
<1>7. ASSUME NEW r \in Runners,
             AppendObservation(r) \/ Complete(r) \/ Done(r) \/ EndRun(r)
               \/ StartRun(r) \/ Crash(r) \/ Disconnect(r)
      PROVE  SentAtMost(m, n)'
    <2>1. UNCHANGED <<lapsed, attempts>>
        BY <1>7 DEF AppendObservation, Complete, Done, EndRun, StartRun, Crash, Disconnect,
                    sendVars
    <2>2. CASE AppendObservation(r) \/ Complete(r) \/ Done(r)
        <3>1. \E l, g : Goto(r, l, g) /\ l # "send"
            BY <2>2 DEF AppendObservation, Complete, Done
        <3> QED
            BY <1>3, <2>1, <3>1
    <2>3. CASE EndRun(r) \/ Crash(r) \/ Disconnect(r)
        <3>1. \E l, g : Goto(r, l, g) /\ l # "send"
            BY <2>3 DEF EndRun, Crash, Disconnect, Gone, Leave
        <3> QED
            BY <1>3, <2>1, <3>1
    <2>4. CASE StartRun(r)
        <3>1. ASSUME NEW m0, Goto(r, "process", [NoRegisters EXCEPT !.msg = m0])
              PROVE  SentAtMost(m, n)'
            BY <1>3, <2>1, <3>1
        <3>2. ASSUME NEW v, Goto(r, "connect", [NoRegisters EXCEPT !.verify = v])
              PROVE  SentAtMost(m, n)'
            BY <1>3, <2>1, <3>2
        <3> QED
            BY <2>4, <3>1, <3>2 DEF StartRun
    <2> QED
        BY <1>7, <2>2, <2>3, <2>4
<1>8. ASSUME NEW r \in Runners, Chatter(r) \/ Lose(r) PROVE SentAtMost(m, n)'
    BY <1>2, <1>8 DEF Chatter, Lose, sendVars
<1>9. ASSUME NEW k \in Messages, Lapse(k) \/ \E c \in Contents : Post(k, c)
      PROVE  SentAtMost(m, n)'
    BY <1>2, <1>9 DEF Lapse, Post, sendVars
<1>10. CASE UNCHANGED vars
    BY <1>2, <1>10 DEF vars, sendVars
<1> QED
    BY <1>4, <1>5, <1>6, <1>7, <1>8, <1>9, <1>10 DEF Next, Step, AcknowledgementStep

(* Once its deadline passed while no runner was at work, an                *)
(* acknowledgement is never sent again: every way to a send leads through  *)
(* process, which looks at the deadline.                                   *)
THEOREM LapsedStaysUnsent == Spec => LapsedIsNotSent
<1>1. ASSUME NEW m \in Messages, NEW n \in 0..MaxFailures
      PROVE  Spec => [](AllIdle /\ m \in lapsed /\ attempts[m] = n => [](attempts[m] = n))
    <2>1. AllIdle /\ m \in lapsed /\ attempts[m] = n => SentAtMost(m, n)
        BY DEF AllIdle, SentAtMost
    <2>2. SentAtMost(m, n) => attempts[m] = n
        BY DEF SentAtMost
    <2>3. SandboxInv /\ [Next]_vars /\ SentAtMost(m, n) => SentAtMost(m, n)'
        BY SentAtMostStays
    <2> QED
        BY <2>1, <2>2, <2>3, SandboxAlways, PTL DEF Spec
<1> QED
    BY <1>1 DEF LapsedIsNotSent

-----------------------------------------------------------------------------
(* The cursor of a store that a single runner uses.                        *)

(* The messages among the first n frames are in the set seen.              *)
Accounted(frames, seen, n) ==
    \A i \in 1..n : frames[i].t = "message" => frames[i].msg \in seen

(* Sessions are numbered upwards and begin with READY; the runner is in    *)
(* its session from READY on and takes the frames in order.                *)
SessionOrder(r) ==
    /\ session[r].id <= sessions /\ cursor.session <= sessions
    /\ session[r].id = 0 => session[r] = NoSession
    /\ session[r].id # 0 => Len(session[r].frames) # 0
    /\ \A i \in 1..Len(session[r].frames) : session[r].frames[i].t = "READY" <=> i = 1
    /\ reg[r].session \in {0, session[r].id}
    /\ reg[r].session # 0 => reg[r].latest \in 1..Len(session[r].frames)
    /\ reg[r].session = 0 => reg[r].latest = 0
    /\ session[r].id # 0 => upcoming[r] <= reg[r].latest + 1
    /\ pc[r] = "idle" => reg[r].session = 0

(* A cursor of the session accounts for the messages up to its number, and *)
(* between frames it has the latest number.                                *)
CursorInStep(r) ==
    /\ session[r].id # 0 /\ cursor.session = session[r].id =>
          /\ cursor.seq <= Len(session[r].frames)
          /\ Accounted(session[r].frames, Received, cursor.seq)
          /\ reg[r].session = session[r].id
    /\ reg[r].session # 0 /\ pc[r] \notin Recording =>
          /\ cursor.session = reg[r].session
          /\ reg[r].latest <= cursor.seq + 1
          /\ pc[r] \notin {"accept", "intake"} => reg[r].latest <= cursor.seq

(* So does the cursor that is about to be written.                         *)
WriteInStep(r) ==
    /\ pc[r] \in Recording => reg[r].write.session = reg[r].session
    /\ pc[r] = "write" => reg[r].read = cursor
    /\ pc[r] \in Recording /\ reg[r].session # 0 =>
          /\ reg[r].write.seq <= Len(session[r].frames)
          /\ Accounted(session[r].frames, Received, reg[r].write.seq)
          /\ reg[r].latest <= reg[r].write.seq
          /\ cursor.session = reg[r].session \/ reg[r].write.status = "identified"

(* A message in hand is the latest frame.                                  *)
InMessage(label, regs) ==
    \/ label \in {"accept", "intake", "intent"}
    \/ label \in Holding /\ regs.verify
    \/ label \in Recording /\ regs.ret = "intent"

FrameInStep(r) ==
    InMessage(pc[r], reg[r]) =>
        /\ reg[r].session # 0 /\ reg[r].seq = reg[r].latest
        /\ session[r].frames[reg[r].latest] = reg[r].frame

InStep(r) == SessionOrder(r) /\ CursorInStep(r) /\ WriteInStep(r) /\ FrameInStep(r)

LEMMA AccountedGrows ==
    ASSUME NEW f, NEW h, NEW A, NEW B, NEW n \in Nat, A \subseteq B, Accounted(f, A, n),
           \A i \in 1..n : h[i] = f[i]
    PROVE  Accounted(h, B, n)
BY DEF Accounted

LEMMA AccountedOneMore ==
    ASSUME NEW f, NEW A, NEW n \in Nat, NEW s \in Nat, Accounted(f, A, n), s <= n + 1,
           f[s].t = "message" => f[s].msg \in A
    PROVE  Accounted(f, A, s)
<1> SUFFICES ASSUME NEW i \in 1..s, f[i].t = "message" PROVE f[i].msg \in A
    BY DEF Accounted
<1>1. i = s \/ i \in 1..n
    OBVIOUS
<1> QED
    BY <1>1 DEF Accounted

(* The types that the arithmetic needs.                                    *)
LEMMA NumbersInHand ==
    ASSUME SandboxInv, NEW r \in Runners
    PROVE  /\ session[r] \in [id : Nat, frames : Seq(Sent)]
           /\ session[r].id \in Nat /\ session[r].frames \in Seq(Sent)
           /\ Len(session[r].frames) \in Nat
           /\ sessions \in Nat /\ lost \in Nat /\ upcoming[r] \in Nat \ {0}
           /\ cursor \in Cursors /\ cursor.session \in Nat /\ cursor.seq \in Nat
           /\ reg[r] \in Registers /\ reg[r].session \in Nat /\ reg[r].latest \in Nat
           /\ reg[r].seq \in Nat /\ reg[r].write \in Cursors /\ reg[r].read \in Cursors
           /\ reg[r].write.session \in Nat /\ reg[r].write.seq \in Nat
<1>1. /\ session[r] \in [id : Nat, frames : Seq(Sent)] /\ cursor \in Cursors
      /\ reg[r] \in Registers /\ sessions \in Nat /\ lost \in Nat
      /\ upcoming[r] \in Nat \ {0}
    BY InHand DEF WorldTyped, StoreTyped
<1>2. session[r].frames \in Seq(Sent) /\ session[r].id \in Nat
    BY <1>1
<1>3. Len(session[r].frames) \in Nat
    BY <1>2
<1>4. /\ reg[r].session \in Nat /\ reg[r].latest \in Nat /\ reg[r].seq \in Nat
      /\ reg[r].write \in Cursors /\ reg[r].read \in Cursors
    BY <1>1 DEF Registers
<1>5. /\ cursor.session \in Nat /\ cursor.seq \in Nat
      /\ reg[r].write.session \in Nat /\ reg[r].write.seq \in Nat
    BY <1>1, <1>4 DEF Cursors
<1> QED
    BY <1>1, <1>2, <1>3, <1>4, <1>5

(* Where a runner goes.                                                    *)
LEMMA GotoSets ==
    ASSUME SandboxInv, NEW r \in Runners, NEW l, NEW g, Goto(r, l, g)
    PROVE  pc'[r] = l /\ reg'[r] = g
BY DEF SandboxInv, RunnersTyped, Goto

(* The steps between two movements of the cursor, and those after a        *)
(* message is accounted for.                                               *)
LEMMA StillStep ==
    ASSUME SandboxInv, NEW r \in Runners, InStep(r), NEW l, NEW g, Goto(r, l, g),
           UNCHANGED <<cursor, session, sessions, receipts, upcoming>>,
           g.session = reg[r].session, g.latest = reg[r].latest,
           l \notin Recording \cup {"idle"}, pc[r] \notin Recording,
           pc[r] \in {"accept", "intake"} => l \in {"accept", "intake"},
           InMessage(l, g) =>
               InMessage(pc[r], reg[r]) /\ g.seq = reg[r].seq /\ g.frame = reg[r].frame
    PROVE  InStep(r)'
<1>1. pc'[r] = l /\ reg'[r] = g /\ Received' = Received
    BY GotoSets DEF Received
<1>2. SessionOrder(r)'
    BY <1>1 DEF InStep, SessionOrder
<1>3. CursorInStep(r)'
    BY <1>1 DEF InStep, CursorInStep
<1>4. WriteInStep(r)'
    BY <1>1 DEF WriteInStep, Recording
<1>5. FrameInStep(r)'
    BY <1>1 DEF InStep, FrameInStep
<1> QED
    BY <1>2, <1>3, <1>4, <1>5 DEF InStep

LEMMA StillSteps ==
    ASSUME SandboxInv, NEW r \in Runners, InStep(r),
           CreateAcknowledgementIntent(r) \/ AcknowledgementStep(r), ~EndRun(r)
    PROVE  InStep(r)'
<1>1. UNCHANGED <<cursor, session, sessions, receipts, upcoming>>
    BY DEF CreateAcknowledgementIntent, AcknowledgementStep, Process, SendFixedAcknowledgement,
           AppendObservation, Complete, Done, storeVars, qqVars
<1>2. reg[r] \in Registers
    BY InHand
<1>3. ASSUME NEW l, NEW g, Goto(r, l, g), l \in Holding,
             pc[r] \in {"intent"} \cup Holding,
             /\ g.session = reg[r].session /\ g.latest = reg[r].latest /\ g.seq = reg[r].seq
             /\ g.frame = reg[r].frame /\ g.verify = reg[r].verify
      PROVE  InStep(r)'
    BY <1>1, <1>3, StillStep DEF InMessage, Holding, Recording
<1>4. CASE CreateAcknowledgementIntent(r)
    <2> DEFINE g == [reg[r] EXCEPT !.msg = reg[r].frame.msg]
    <2>1. Goto(r, "process", g) /\ pc[r] = "intent"
        BY <1>4 DEF CreateAcknowledgementIntent
    <2>2. /\ g.session = reg[r].session /\ g.latest = reg[r].latest /\ g.seq = reg[r].seq
          /\ g.frame = reg[r].frame /\ g.verify = reg[r].verify
        BY <1>2 DEF Registers
    <2> HIDE DEF g
    <2> QED
        BY <1>3, <2>1, <2>2 DEF Holding
<1>5. ASSUME NEW o, Goto(r, "observe", [reg[r] EXCEPT !.out = o]), pc[r] \in Holding
      PROVE  InStep(r)'
    <2> DEFINE g == [reg[r] EXCEPT !.out = o]
    <2>1. Goto(r, "observe", g)
        BY <1>5
    <2>2. /\ g.session = reg[r].session /\ g.latest = reg[r].latest /\ g.seq = reg[r].seq
          /\ g.frame = reg[r].frame /\ g.verify = reg[r].verify
        BY <1>2 DEF Registers
    <2> HIDE DEF g
    <2> QED
        BY <1>3, <1>5, <2>1, <2>2 DEF Holding
<1>6. CASE Process(r)
    <2>1. pc[r] = "process" /\ ( \/ Goto(r, "done", reg[r]) \/ Goto(r, "send", reg[r])
                                 \/ Goto(r, "observe", [reg[r] EXCEPT !.out = "expired"]))
        BY <1>6 DEF Process
    <2> QED
        BY <1>3, <1>5, <2>1 DEF Holding
<1>7. CASE SendFixedAcknowledgement(r)
    BY <1>5, <1>7, SendShape DEF Holding
<1>8. CASE AppendObservation(r) \/ Complete(r)
    <2>1. /\ pc[r] \in {"observe", "complete"}
          /\ Goto(r, "complete", reg[r]) \/ Goto(r, "done", reg[r])
        BY <1>8 DEF AppendObservation, Complete
    <2> QED
        BY <1>3, <2>1 DEF Holding
<1>9. CASE Done(r)
    <2> DEFINE g == [reg[r] EXCEPT !.replay = TRUE, !.out = "none", !.msg = "none"]
    <2>1. /\ pc[r] = "done"
          /\ \/ reg[r].verify /\ Goto(r, "accept", g)
             \/ Goto(r, "leave", reg[r])
        BY <1>9 DEF Done
    <2>2. /\ g.session = reg[r].session /\ g.latest = reg[r].latest /\ g.seq = reg[r].seq
          /\ g.frame = reg[r].frame
        BY <1>2 DEF Registers
    <2> HIDE DEF g
    <2>3. CASE Goto(r, "leave", reg[r])
        BY <1>1, <2>1, <2>3, StillStep DEF InMessage, Holding, Recording
    <2>4. CASE reg[r].verify /\ Goto(r, "accept", g)
        BY <1>1, <2>1, <2>2, <2>4, StillStep DEF InMessage, Holding, Recording
    <2> QED
        BY <2>1, <2>3, <2>4
<1> QED
    BY <1>4, <1>6, <1>7, <1>8, <1>9 DEF AcknowledgementStep

LEMMA ReadCursorInStep ==
    ASSUME SandboxInv, NEW r \in Runners, InStep(r), ReadCursor(r)
    PROVE  InStep(r)'
<1> DEFINE g == [reg[r] EXCEPT !.read = cursor]
<1>1. /\ Goto(r, "write", g) /\ pc[r] = "cursor"
      /\ UNCHANGED <<cursor, session, sessions, receipts, upcoming>>
    BY DEF ReadCursor, storeVars, qqVars
<1>2. reg[r] \in Registers
    BY InHand
<1>3. /\ g.session = reg[r].session /\ g.latest = reg[r].latest /\ g.seq = reg[r].seq
      /\ g.frame = reg[r].frame /\ g.write = reg[r].write /\ g.ret = reg[r].ret
      /\ g.read = cursor
    BY <1>2 DEF Registers
<1> HIDE DEF g
<1>4. pc'[r] = "write" /\ reg'[r] = g /\ Received' = Received
    BY <1>1, GotoSets DEF Received
<1>5. SessionOrder(r)'
    BY <1>1, <1>3, <1>4 DEF InStep, SessionOrder
<1>6. CursorInStep(r)'
    BY <1>1, <1>3, <1>4 DEF InStep, CursorInStep, Recording
<1>7. WriteInStep(r)'
    BY <1>1, <1>3, <1>4 DEF InStep, WriteInStep, Recording
<1>8. FrameInStep(r)'
    BY <1>1, <1>3, <1>4 DEF InStep, FrameInStep, InMessage, Recording, Holding
<1> QED
    BY <1>5, <1>6, <1>7, <1>8 DEF InStep

(* What the upsert makes of a cursor of the session and of another one.    *)
LEMMA NextCursorIs ==
    ASSUME NEW new \in Cursors, NEW current \in Cursors
    PROVE  /\ new.session = 0 => NextCursor(new, current).session = current.session
           /\ new.session # 0 => NextCursor(new, current).session = new.session
           /\ new.session # 0 /\ current.session = new.session =>
                 NextCursor(new, current).seq =
                     IF new.seq > current.seq THEN new.seq ELSE current.seq
           /\ new.session # 0 /\ current.session # new.session /\ new.status = "identified" =>
                 NextCursor(new, current).seq = new.seq
<1>1. current = NoCursor => current.seq = 0
    BY DEF NoCursor
<1>2. new.seq \in Nat /\ current.seq \in Nat
    BY DEF Cursors
<1>3. \E s, n : NextCursor(new, current) = [new EXCEPT !.session = s, !.seq = n]
                /\ s = (IF new.session = 0 THEN current.session ELSE new.session)
                /\ n = (IF /\ new.status = "identified" /\ new.session # 0
                           /\ current # NoCursor /\ new.session # current.session
                        THEN new.seq
                        ELSE IF new.seq > current.seq THEN new.seq ELSE current.seq)
    BY DEF NextCursor, Cursors
<1>4. PICK s, n : /\ NextCursor(new, current) = [new EXCEPT !.session = s, !.seq = n]
                  /\ s = (IF new.session = 0 THEN current.session ELSE new.session)
                  /\ n = (IF /\ new.status = "identified" /\ new.session # 0
                             /\ current # NoCursor /\ new.session # current.session
                          THEN new.seq
                          ELSE IF new.seq > current.seq THEN new.seq ELSE current.seq)
    BY <1>3
<1>5. NextCursor(new, current).session = s /\ NextCursor(new, current).seq = n
    BY <1>4 DEF Cursors
<1> QED
    BY <1>1, <1>2, <1>4, <1>5

LEMMA WriteCursorInStep ==
    ASSUME SandboxInv, NEW r \in Runners, InStep(r), WriteCursor(r)
    PROVE  InStep(r)'
<1> DEFINE g == [reg[r] EXCEPT !.write = NoCursor, !.read = NoCursor]
           w == reg[r].write
<1>1. /\ Goto(r, reg[r].ret, g) /\ pc[r] = "write"
      /\ cursor' = NextCursor(w, reg[r].read)
      /\ UNCHANGED <<session, sessions, receipts, upcoming>>
    BY DEF WriteCursor, qqVars
<1>2. reg[r] \in Registers
    BY InHand
<1>3. /\ g.session = reg[r].session /\ g.latest = reg[r].latest /\ g.seq = reg[r].seq
      /\ g.frame = reg[r].frame
    BY <1>2 DEF Registers
<1> HIDE DEF g
<1>4. /\ pc'[r] = reg[r].ret /\ reg'[r] = g /\ Received' = Received
      /\ reg[r].ret \in Returns
    BY <1>1, GotoSets, InHand DEF Received, Knows, Recording
<1>5. reg[r].read = cursor /\ w.session = reg[r].session /\ pc[r] \in Recording
    BY <1>1 DEF InStep, WriteInStep, Recording
<1>6. /\ w.session = 0 => cursor'.session = cursor.session
      /\ w.session # 0 => cursor'.session = w.session
      /\ w.session # 0 /\ cursor.session = w.session =>
            cursor'.seq = IF w.seq > cursor.seq THEN w.seq ELSE cursor.seq
      /\ w.session # 0 /\ cursor.session # w.session /\ w.status = "identified" =>
            cursor'.seq = w.seq
    BY <1>1, <1>5, NumbersInHand, NextCursorIs
<1>7. w.seq \in Nat /\ cursor.seq \in Nat /\ reg[r].latest \in Nat
    BY NumbersInHand
<1> DEFINE fr == session[r].frames
<1>8. reg[r].session # 0 =>
          /\ cursor'.session = reg[r].session
          /\ cursor'.seq <= Len(fr) /\ Accounted(fr, Received, cursor'.seq)
          /\ reg[r].latest <= cursor'.seq
    <2> SUFFICES ASSUME reg[r].session # 0
                 PROVE  /\ cursor'.session = reg[r].session
                        /\ cursor'.seq <= Len(fr) /\ Accounted(fr, Received, cursor'.seq)
                        /\ reg[r].latest <= cursor'.seq
        OBVIOUS
    <2>1. /\ w.seq <= Len(fr) /\ Accounted(fr, Received, w.seq) /\ reg[r].latest <= w.seq
          /\ cursor.session = reg[r].session \/ w.status = "identified"
        BY <1>5 DEF InStep, WriteInStep
    <2>2. CASE cursor.session = reg[r].session
        <3>1. cursor.seq <= Len(fr) /\ Accounted(fr, Received, cursor.seq)
            BY <2>2 DEF InStep, SessionOrder, CursorInStep
        <3>2. cursor'.seq \in {w.seq, cursor.seq} /\ cursor'.seq >= w.seq
            BY <1>5, <1>6, <1>7, <2>2
        <3>3. reg[r].latest <= cursor'.seq
            BY <1>7, <2>1, <3>2
        <3> QED
            BY <1>5, <1>6, <2>1, <3>1, <3>2, <3>3
    <2>3. CASE cursor.session # reg[r].session
        BY <1>5, <1>6, <2>1, <2>3
    <2> QED
        BY <2>2, <2>3
<1>9. SessionOrder(r)'
    BY <1>1, <1>3, <1>4, <1>5, <1>6 DEF InStep, SessionOrder, Returns
<1>10. CursorInStep(r)'
    <2>1. reg[r].session = 0 => cursor'.session # session[r].id \/ session[r].id = 0
        BY <1>5, <1>6 DEF InStep, CursorInStep
    <2>2. reg[r].session # 0 => reg[r].session = session[r].id
        BY DEF InStep, SessionOrder
    <2>3. cursor'.seq \in Nat
        BY WriteCursorPreserves DEF SandboxInv, StoreTyped, Cursors
    <2>4. reg[r].latest <= cursor'.seq => reg[r].latest <= cursor'.seq + 1
        BY <1>7, <2>3
    <2> QED
        BY <1>1, <1>3, <1>4, <1>8, <2>1, <2>2, <2>4 DEF CursorInStep
<1>11. WriteInStep(r)'
    BY <1>4 DEF WriteInStep, Recording, Returns
<1>12. FrameInStep(r)'
    BY <1>1, <1>3, <1>4, <1>5 DEF InStep, FrameInStep, InMessage, Recording, Returns, Holding
<1> QED
    BY <1>9, <1>10, <1>11, <1>12 DEF InStep

(* A frame is received in order: the first is READY, and what lies before  *)
(* it is accounted for.                                                    *)
LEMMA ReceivedInOrder ==
    ASSUME SandboxInv, NEW r \in Runners, InStep(r), pc[r] = "receive",
           upcoming[r] <= Len(session[r].frames)
    PROVE  /\ upcoming[r] \in 1..Len(session[r].frames)
           /\ session[r].id # 0
           /\ session[r].frames[upcoming[r]].t = "READY" <=> upcoming[r] = 1
           /\ upcoming[r] <= reg[r].latest + 1
           /\ upcoming[r] # 1 =>
                 /\ reg[r].session = session[r].id /\ cursor.session = session[r].id
                 /\ upcoming[r] <= cursor.seq + 1
                 /\ Accounted(session[r].frames, Received, cursor.seq)
<1> DEFINE s == upcoming[r]
           fr == session[r].frames
<1>1. s \in 1..Len(fr)
    BY NumbersInHand
<1>2. session[r].id # 0
    <2>1. session[r] = NoSession => Len(fr) = 0
        BY DEF NoSession
    <2> QED
        BY <1>1, <2>1 DEF InStep, SessionOrder
<1>3. s <= reg[r].latest + 1 /\ (fr[s].t = "READY" <=> s = 1)
    BY <1>1, <1>2 DEF InStep, SessionOrder
<1>4. ASSUME s # 1
      PROVE  /\ reg[r].session = session[r].id /\ cursor.session = session[r].id
             /\ s <= cursor.seq + 1 /\ Accounted(fr, Received, cursor.seq)
    <2>1. reg[r].latest # 0
        BY <1>1, <1>3, <1>4, NumbersInHand
    <2>2. reg[r].session = session[r].id /\ reg[r].session # 0
        BY <1>2, <2>1 DEF InStep, SessionOrder
    <2>3. cursor.session = session[r].id /\ reg[r].latest <= cursor.seq
        BY <2>2 DEF InStep, CursorInStep, Recording
    <2>4. s <= cursor.seq + 1
        BY <1>3, <2>3, NumbersInHand
    <2> QED
        BY <1>2, <2>2, <2>3, <2>4 DEF InStep, CursorInStep
<1> QED
    BY <1>1, <1>2, <1>3, <1>4

LEMMA ReceiveInStep ==
    ASSUME SandboxInv, NEW r \in Runners, InStep(r), Receive(r)
    PROVE  InStep(r)'
<1> DEFINE s == upcoming[r]
           fr == session[r].frames
           f == fr[s]
           seen == [reg[r] EXCEPT !.latest = s]
           ready == [seen EXCEPT !.session = session[r].id]
<1>1. /\ pc[r] = "receive" /\ upcoming[r] <= Len(session[r].frames)
      /\ UNCHANGED <<cursor, receipts, session, sessions>>
      /\ upcoming' = [upcoming EXCEPT ![r] = @ + 1]
      /\ CASE f.t = "READY"   -> RecordCursor(r, ready, s, "identified", "receive")
         [] f.t = "RESUMED" -> RecordCursor(r, seen, s, "resuming", "receive")
         [] f.t = "other"   -> RecordCursor(r, seen, s, "identified", "receive")
         [] f.t = "message" -> Goto(r, "accept", [seen EXCEPT !.frame = f, !.seq = s])
    BY DEF Receive, storeVars
<1>2. /\ s \in 1..Len(fr) /\ session[r].id # 0
      /\ f.t = "READY" <=> s = 1
      /\ s <= reg[r].latest + 1
      /\ s # 1 =>
            /\ reg[r].session = session[r].id /\ cursor.session = session[r].id
            /\ s <= cursor.seq + 1 /\ Accounted(fr, Received, cursor.seq)
    BY <1>1, ReceivedInOrder
<1>3. f \in Sent /\ reg[r] \in Registers /\ s \in Nat /\ Len(fr) \in Nat /\ cursor.seq \in Nat
    BY <1>1, NumbersInHand, FrameInHand
<1>4. f.t \in {"READY", "RESUMED", "other", "message"}
    BY <1>3 DEF Sent, Frame, MessageFrames
<1>5. upcoming'[r] = s + 1
    BY <1>1, InHand DEF WorldTyped
<1>6. Received' = Received
    BY <1>1 DEF Received
<1>7. /\ seen.session = reg[r].session /\ seen.latest = s
      /\ ready.session = session[r].id /\ ready.latest = s /\ seen \in Registers
      /\ ready \in Registers
    BY <1>3, NumbersInHand DEF Registers
<1> HIDE DEF f, seen, ready
<1>8. ASSUME NEW h \in Registers, NEW status, RecordCursor(r, h, s, status, "receive"),
             h.session = session[r].id, h.latest = s,
             cursor.session = session[r].id \/ status = "identified",
             Accounted(fr, Received, s)
      PROVE  InStep(r)'
    <2> DEFINE g == [h EXCEPT !.write = [session |-> h.session, seq |-> s, status |-> status],
                              !.ret = "receive"]
    <2>1. Goto(r, "cursor", g)
        BY <1>8 DEF RecordCursor
    <2>2. /\ g.session = session[r].id /\ g.latest = s /\ g.ret = "receive"
          /\ g.write.session = session[r].id /\ g.write.seq = s /\ g.write.status = status
        BY <1>8 DEF Registers
    <2> HIDE DEF g
    <2>3. pc'[r] = "cursor" /\ reg'[r] = g
        BY <2>1, GotoSets
    <2>4. SessionOrder(r)'
        BY <1>1, <1>2, <1>5, <2>2, <2>3 DEF InStep, SessionOrder
    <2>5. CursorInStep(r)'
        BY <1>1, <1>6, <2>2, <2>3 DEF InStep, CursorInStep, Recording
    <2>6. WriteInStep(r)'
        BY <1>1, <1>2, <1>3, <1>6, <1>8, <2>2, <2>3 DEF WriteInStep, Recording
    <2>7. FrameInStep(r)'
        BY <2>2, <2>3 DEF FrameInStep, InMessage, Recording, Holding
    <2> QED
        BY <2>4, <2>5, <2>6, <2>7 DEF InStep
<1>9. CASE f.t = "READY"
    <2>1. s = 1 /\ Accounted(fr, Received, s)
        BY <1>2, <1>9 DEF Accounted, f
    <2> QED
        BY <1>1, <1>7, <1>8, <1>9, <2>1
<1>10. CASE f.t \in {"RESUMED", "other"}
    <2>1. Accounted(fr, Received, s)
        BY <1>2, <1>3, <1>10, AccountedOneMore DEF f
    <2> QED
        BY <1>1, <1>2, <1>7, <1>8, <1>10, <2>1
<1>11. CASE f.t = "message"
    <2> DEFINE g == [seen EXCEPT !.frame = f, !.seq = s]
    <2>1. Goto(r, "accept", g)
        BY <1>1, <1>11
    <2>2. /\ g.session = reg[r].session /\ g.latest = s /\ g.seq = s /\ g.frame = f
        BY <1>7 DEF Registers
    <2> HIDE DEF g
    <2>3. pc'[r] = "accept" /\ reg'[r] = g
        BY <2>1, GotoSets
    <2>4. s # 1
        BY <1>2, <1>11
    <2>5. SessionOrder(r)'
        BY <1>1, <1>2, <1>5, <2>2, <2>3, <2>4 DEF InStep, SessionOrder
    <2>6. CursorInStep(r)'
        BY <1>1, <1>2, <1>6, <2>2, <2>3, <2>4 DEF InStep, CursorInStep, Recording
    <2>7. WriteInStep(r)'
        BY <2>3 DEF WriteInStep, Recording
    <2>8. FrameInStep(r)'
        BY <1>1, <1>2, <2>2, <2>3, <2>4 DEF FrameInStep, f
    <2> QED
        BY <2>5, <2>6, <2>7, <2>8 DEF InStep
<1> QED
    BY <1>4, <1>9, <1>10, <1>11

(* While no frame was lost, a message is neither refused as late nor taken *)
(* for one beyond a gap.                                                   *)
LEMMA AcceptInStep ==
    ASSUME SandboxInv, NEW r \in Runners, InStep(r), Accept(r)
    PROVE  InStep(r)'
<1> DEFINE s == reg[r].seq
           fr == session[r].frames
<1>1. /\ pc[r] = "accept"
      /\ UNCHANGED <<cursor, session, sessions, receipts, upcoming>>
    BY DEF Accept, storeVars, qqVars
<1>2. /\ reg[r].session # 0 /\ s = reg[r].latest /\ fr[s] = reg[r].frame
      /\ reg[r].frame.t = "message"
    BY <1>1, InHand DEF InStep, FrameInStep, InMessage, Knows, MessageFrames
<1>3. /\ reg[r].session = session[r].id /\ cursor.session = session[r].id
      /\ session[r].id # 0 /\ s \in 1..Len(fr) /\ s <= cursor.seq + 1
      /\ Accounted(fr, Received, cursor.seq)
    BY <1>1, <1>2 DEF InStep, SessionOrder, CursorInStep, Recording
<1>4. s <= cursor.seq => reg[r].frame.msg \in Received
    BY <1>2, <1>3, NumbersInHand DEF Accounted
<1>5. ~(s > cursor.seq + 1)
    BY <1>3, NumbersInHand
<1>6. Goto(r, "intake", reg[r])
    BY <1>4, <1>5 DEF Accept
<1> QED
    BY <1>1, <1>6, StillStep DEF InMessage, Recording

LEMMA IntakeQqInStep ==
    ASSUME SandboxInv, NEW r \in Runners, InStep(r), IntakeQq(r)
    PROVE  InStep(r)'
<1> DEFINE s == reg[r].seq
           f == reg[r].frame
           row == [msg |-> f.msg, content |-> f.content]
           fr == session[r].frames
           blank == [reg[r] EXCEPT !.frame = NoFrame, !.seq = 0]
<1>1. /\ pc[r] = "intake"
      /\ UNCHANGED <<cursor, session, sessions, upcoming, intents, completions, shown>>
      /\ \/ /\ Rows(f.msg) = {}
            /\ receipts' = Captured(row) /\ RecordCursor(r, reg[r], s, "identified", "intent")
         \/ /\ Rows(f.msg) # {} /\ receipts' = receipts
            /\ \/ RecordCursor(r, reg[r], s, "identified", "intent")
               \/ RecordCursor(r, blank, s, "identified", "receive")
    BY DEF IntakeQq, qqVars, sendVars
<1>2. /\ reg[r].session # 0 /\ s = reg[r].latest /\ fr[s] = f
      /\ f \in MessageFrames /\ reg[r] \in Registers
    BY <1>1, InHand DEF InStep, FrameInStep, InMessage, Knows
<1>3. /\ reg[r].session = session[r].id /\ cursor.session = session[r].id
      /\ session[r].id # 0 /\ s \in 1..Len(fr) /\ s <= cursor.seq + 1
      /\ cursor.seq <= Len(fr) /\ Accounted(fr, Received, cursor.seq)
    BY <1>1, <1>2 DEF InStep, SessionOrder, CursorInStep, Recording
<1>4. Received \subseteq Received' /\ f.msg \in Received'
    <2>1. CASE Rows(f.msg) = {}
        <3>1. Grows /\ f.msg \in Received'
            BY <1>1, <1>2, <2>1, InHand, CapturedOnce
        <3> QED
            BY <3>1 DEF Grows, Received
    <2>2. CASE Rows(f.msg) # {}
        BY <1>1, <2>2 DEF Rows, Received
    <2> QED
        BY <2>1, <2>2
<1>5. cursor.seq \in Nat /\ s \in Nat /\ Len(fr) \in Nat
    BY NumbersInHand
<1>6. Accounted(fr, Received', cursor.seq) /\ Accounted(fr, Received', s)
    <2>1. Accounted(fr, Received', cursor.seq)
        BY <1>3, <1>4, <1>5, AccountedGrows
    <2> QED
        BY <1>2, <1>3, <1>4, <1>5, <2>1, AccountedOneMore
<1>7. /\ blank \in Registers /\ blank.session = reg[r].session /\ blank.latest = reg[r].latest
    BY <1>2, SomeFrames DEF Registers
<1> HIDE DEF f, blank
<1>8. ASSUME NEW h \in Registers, NEW ret, RecordCursor(r, h, s, "identified", ret),
             h.session = reg[r].session, h.latest = reg[r].latest, ret \in {"intent", "receive"},
             ret = "intent" => h.seq = s /\ h.frame = f
      PROVE  InStep(r)'
    <2> DEFINE g == [h EXCEPT !.write = [session |-> h.session, seq |-> s,
                                         status |-> "identified"],
                              !.ret = ret]
    <2>1. Goto(r, "cursor", g)
        BY <1>8 DEF RecordCursor
    <2>2. /\ g.session = reg[r].session /\ g.latest = reg[r].latest /\ g.ret = ret
          /\ g.write.session = reg[r].session /\ g.write.seq = s
          /\ g.write.status = "identified" /\ g.seq = h.seq /\ g.frame = h.frame
        BY <1>8 DEF Registers
    <2> HIDE DEF g
    <2>3. pc'[r] = "cursor" /\ reg'[r] = g
        BY <2>1, GotoSets
    <2>4. SessionOrder(r)'
        BY <1>1, <2>2, <2>3 DEF InStep, SessionOrder
    <2>5. CursorInStep(r)'
        BY <1>1, <1>3, <1>6, <2>2, <2>3 DEF CursorInStep, Recording
    <2>6. WriteInStep(r)'
        BY <1>1, <1>2, <1>3, <1>5, <1>6, <2>2, <2>3 DEF WriteInStep, Recording
    <2>7. FrameInStep(r)'
        BY <1>1, <1>2, <1>8, <2>2, <2>3 DEF FrameInStep, InMessage, Recording, Holding
    <2> QED
        BY <2>4, <2>5, <2>6, <2>7 DEF InStep
<1>9. RecordCursor(r, reg[r], s, "identified", "intent") => InStep(r)'
    BY <1>2, <1>8 DEF f
<1>10. RecordCursor(r, blank, s, "identified", "receive") => InStep(r)'
    BY <1>7, <1>8
<1> QED
    BY <1>1, <1>9, <1>10

LEMMA OneFrameMore ==
    ASSUME NEW f, NEW h, NEW n \in Nat \ {0}, NEW e, e.t # "READY", h[n + 1] = e,
           \A i \in 1..n : h[i] = f[i],
           \A i \in 1..n : f[i].t = "READY" <=> i = 1
    PROVE  \A i \in 1..(n + 1) : h[i].t = "READY" <=> i = 1
<1> SUFFICES ASSUME NEW i \in 1..(n + 1) PROVE h[i].t = "READY" <=> i = 1
    OBVIOUS
<1>1. i = n + 1 \/ i \in 1..n
    OBVIOUS
<1> QED
    BY <1>1

LEMMA AuthenticateInStep ==
    ASSUME SandboxInv, NEW r \in Runners, InStep(r), Authenticate(r)
    PROVE  InStep(r)'
<1> DEFINE fr == session[r].frames
<1>1. /\ Goto(r, "receive", reg[r]) /\ pc[r] = "connect"
      /\ UNCHANGED <<cursor, receipts>>
    BY DEF Authenticate, storeVars
<1>2. /\ session \in [Runners -> [id : Nat, frames : Seq(Sent)]]
      /\ upcoming \in [Runners -> Nat \ {0}]
    BY InHand DEF WorldTyped
<1>3. /\ pc'[r] = "receive" /\ reg'[r] = reg[r] /\ Received' = Received
    BY <1>1, GotoSets DEF Received
<1>4. WriteInStep(r)' /\ FrameInStep(r)'
    BY <1>3 DEF WriteInStep, FrameInStep, InMessage, Recording, Holding
<1>5. CASE reg[r].session # 0 /\ reg[r].latest # 0
    <2>1. /\ session' = [session EXCEPT ![r].frames = Append(@, Frame("RESUMED"))]
          /\ \E n \in {reg[r].latest, reg[r].latest + 1} : upcoming' = [upcoming EXCEPT ![r] = n]
          /\ sessions' = sessions
        BY <1>5 DEF Authenticate
    <2>2. upcoming'[r] <= reg[r].latest + 1
        BY <1>2, <2>1, NumbersInHand
    <2> DEFINE e == Frame("RESUMED")
    <2>3. e \in Sent /\ e.t # "READY"
        BY SomeFrames DEF Frame
    <2> HIDE DEF e
    <2>4. session'[r].id = session[r].id /\ session'[r].frames = Append(fr, e)
        BY <1>2, <2>1 DEF e
    <2>5. /\ Len(session'[r].frames) = Len(fr) + 1
          /\ \A i \in 1..Len(fr) : session'[r].frames[i] = fr[i]
          /\ session'[r].frames[Len(fr) + 1] = e
        BY <2>3, <2>4, NumbersInHand
    <2>6. /\ reg[r].session = session[r].id /\ session[r].id # 0 /\ cursor.session = session[r].id
          /\ reg[r].latest <= cursor.seq /\ cursor.seq <= Len(fr)
          /\ Accounted(fr, Received, cursor.seq) /\ reg[r].latest \in 1..Len(fr)
        BY <1>1, <1>5 DEF InStep, SessionOrder, CursorInStep, Recording
    <2>7. /\ cursor.seq \in Nat /\ Len(fr) \in Nat /\ Len(fr) # 0
        BY <2>6, NumbersInHand
    <2>8. Accounted(session'[r].frames, Received, cursor.seq)
        BY <2>5, <2>6, <2>7, AccountedGrows
    <2>9. SessionOrder(r)'
        <3>1. \A i \in 1..Len(session'[r].frames) : session'[r].frames[i].t = "READY" <=> i = 1
            <4>1. \A i \in 1..Len(fr) : fr[i].t = "READY" <=> i = 1
                BY DEF InStep, SessionOrder
            <4>2. Len(fr) \in Nat \ {0}
                BY <2>7
            <4> DEFINE h == session'[r].frames
            <4>3. /\ Len(h) = Len(fr) + 1 /\ h[Len(fr) + 1] = e /\ e.t # "READY"
                  /\ \A i \in 1..Len(fr) : h[i] = fr[i]
                BY <2>3, <2>5
            <4> HIDE DEF h, fr
            <4>4. \A i \in 1..(Len(fr) + 1) : h[i].t = "READY" <=> i = 1
                BY <4>1, <4>2, <4>3, OneFrameMore
            <4>5. \A i \in 1..Len(h) : h[i].t = "READY" <=> i = 1
                BY <4>3, <4>4
            <4> QED
                BY <4>5 DEF h
        <3>2. reg[r].latest \in 1..Len(session'[r].frames)
            BY <2>5, <2>6, <2>7
        <3> QED
            BY <1>1, <1>3, <1>5, <2>1, <2>2, <2>4, <2>6, <3>1, <3>2 DEF InStep, SessionOrder
    <2>10. CursorInStep(r)'
        BY <1>1, <1>3, <2>4, <2>5, <2>6, <2>7, <2>8, NumbersInHand DEF CursorInStep
    <2> QED
        BY <1>4, <2>9, <2>10 DEF InStep
<1>6. CASE ~(reg[r].session # 0 /\ reg[r].latest # 0)
    <2>1. /\ session' = [session EXCEPT ![r] = [id |-> sessions + 1,
                                                frames |-> <<Frame("READY")>>]]
          /\ upcoming' = [upcoming EXCEPT ![r] = 1] /\ sessions' = sessions + 1
        BY <1>6 DEF Authenticate
    <2>2. reg[r].session = 0 /\ reg[r].latest = 0
        BY <1>6, NumbersInHand DEF InStep, SessionOrder
    <2>3. /\ session'[r].id = sessions + 1 /\ session'[r].frames = <<Frame("READY")>>
          /\ upcoming'[r] = 1
        BY <1>2, <2>1
    <2>4. \A i \in 1..Len(session'[r].frames) : session'[r].frames[i].t = "READY" <=> i = 1
        BY <2>3 DEF Frame
    <2>a. Len(session'[r].frames) # 0
        BY <2>3
    <2>5. cursor.session <= sessions /\ cursor.session \in Nat /\ sessions \in Nat
        BY NumbersInHand DEF InStep, SessionOrder
    <2>6. SessionOrder(r)'
        BY <1>1, <1>3, <2>1, <2>2, <2>3, <2>4, <2>5, <2>a DEF SessionOrder
    <2>7. CursorInStep(r)'
        BY <1>1, <1>3, <2>2, <2>3, <2>5 DEF CursorInStep
    <2> QED
        BY <1>4, <2>6, <2>7 DEF InStep
<1> QED
    BY <1>5, <1>6

LEMMA ReconnectInStep ==
    ASSUME SandboxInv, NEW r \in Runners, InStep(r), Reconnect(r)
    PROVE  InStep(r)'
<1> DEFINE next == IF reg[r].reconnects + 1 > MaxReconnects THEN "leave" ELSE "connect"
           regs == [reg[r] EXCEPT !.reconnects = reg[r].reconnects + 1, !.frame = NoFrame,
                                  !.seq = 0]
<1>1. /\ pc[r] = "reconnect"
      /\ UNCHANGED <<cursor, session, sessions, receipts, upcoming>>
      /\ IF cursor = NoCursor THEN Goto(r, next, regs)
         ELSE RecordCursor(r, regs, cursor.seq, "disconnected", next)
    BY DEF Reconnect, storeVars, qqVars
<1>2. next \in {"leave", "connect"} /\ Received' = Received
    BY <1>1 DEF Received
<1>3. regs.session = reg[r].session /\ regs.latest = reg[r].latest /\ regs \in Registers
    <2>1. reg[r] \in Registers /\ NoFrame \in Frames
        BY InHand, SomeFrames
    <2>2. reg[r].reconnects + 1 \in Nat
        BY <2>1 DEF Registers
    <2> QED
        BY <2>1, <2>2 DEF Registers
<1> HIDE DEF next, regs
<1>4. CASE Goto(r, next, regs)
    BY <1>1, <1>2, <1>3, <1>4, StillStep DEF InMessage, Recording, Holding
<1>5. CASE RecordCursor(r, regs, cursor.seq, "disconnected", next)
    <2> DEFINE g == [regs EXCEPT !.write = [session |-> regs.session, seq |-> cursor.seq,
                                            status |-> "disconnected"],
                                 !.ret = next]
    <2>1. Goto(r, "cursor", g)
        BY <1>5 DEF RecordCursor
    <2>2. /\ g.session = reg[r].session /\ g.latest = reg[r].latest /\ g.ret = next
          /\ g.write.session = reg[r].session /\ g.write.seq = cursor.seq
        BY <1>3 DEF Registers
    <2> HIDE DEF g
    <2>3. pc'[r] = "cursor" /\ reg'[r] = g
        BY <2>1, GotoSets
    <2>4. reg[r].session # 0 =>
              /\ cursor.session = reg[r].session /\ reg[r].latest <= cursor.seq
              /\ cursor.seq <= Len(session[r].frames)
              /\ Accounted(session[r].frames, Received, cursor.seq)
        BY <1>1 DEF InStep, SessionOrder, CursorInStep, Recording
    <2>5. SessionOrder(r)'
        BY <1>1, <2>2, <2>3 DEF InStep, SessionOrder
    <2>6. CursorInStep(r)'
        BY <1>1, <1>2, <2>2, <2>3 DEF InStep, CursorInStep, Recording
    <2>7. WriteInStep(r)'
        BY <1>1, <1>2, <2>2, <2>3, <2>4 DEF WriteInStep, Recording
    <2>8. FrameInStep(r)'
        BY <1>2, <2>2, <2>3 DEF FrameInStep, InMessage, Recording, Holding
    <2> QED
        BY <2>5, <2>6, <2>7, <2>8 DEF InStep
<1> QED
    BY <1>1, <1>4, <1>5

LEMMA StartRunInStep ==
    ASSUME SandboxInv, NEW r \in Runners, InStep(r), StartRun(r)
    PROVE  InStep(r)'
<1>1. /\ pc[r] = "idle" /\ UNCHANGED <<cursor, session, sessions, receipts, upcoming>>
    BY DEF StartRun, storeVars, qqVars
<1>2. reg[r].session = 0 /\ reg[r].latest = 0
    BY <1>1 DEF InStep, SessionOrder
<1>3. ASSUME NEW l \in {"process", "connect"}, NEW g, Goto(r, l, g),
             g.session = 0, g.latest = 0, l = "process" => ~g.verify
      PROVE  InStep(r)'
    BY <1>1, <1>2, <1>3, StillStep DEF InMessage, Recording, Holding
<1>4. ASSUME NEW m, Goto(r, "process", [NoRegisters EXCEPT !.msg = m]) PROVE InStep(r)'
    <2> DEFINE g == [NoRegisters EXCEPT !.msg = m]
    <2>1. g.session = 0 /\ g.latest = 0 /\ ~g.verify /\ Goto(r, "process", g)
        BY <1>4 DEF NoRegisters
    <2> HIDE DEF g
    <2> QED
        BY <1>3, <2>1
<1>5. ASSUME NEW v, Goto(r, "connect", [NoRegisters EXCEPT !.verify = v]) PROVE InStep(r)'
    <2> DEFINE g == [NoRegisters EXCEPT !.verify = v]
    <2>1. g.session = 0 /\ g.latest = 0 /\ Goto(r, "connect", g)
        BY <1>5 DEF NoRegisters
    <2> HIDE DEF g
    <2> QED
        BY <1>3, <2>1
<1> QED
    BY <1>4, <1>5 DEF StartRun

(* A session that ends is not the cursor's any more.                       *)
LEMMA SessionEnds ==
    ASSUME SandboxInv, NEW r \in Runners, InStep(r), NEW l, NEW g, Goto(r, l, g),
           UNCHANGED <<cursor, sessions, receipts>>,
           l \in {"idle", "reconnect"}, g.session = 0, g.latest = 0,
           session' = [session EXCEPT ![r] = NoSession]
    PROVE  InStep(r)'
<1>1. pc'[r] = l /\ reg'[r] = g
    BY GotoSets
<1>2. session'[r] = NoSession
    BY InHand DEF WorldTyped
<1>3. NoSession.id = 0 /\ Len(NoSession.frames) = 0
    BY DEF NoSession
<1>4. SessionOrder(r)'
    BY <1>1, <1>2, <1>3, NumbersInHand DEF InStep, SessionOrder
<1>5. CursorInStep(r)' /\ WriteInStep(r)' /\ FrameInStep(r)'
    BY <1>1, <1>2, <1>3
    DEF CursorInStep, WriteInStep, FrameInStep, InMessage, Recording, Holding
<1> QED
    BY <1>4, <1>5 DEF InStep

LEMMA GoneInStep ==
    ASSUME SandboxInv, NEW r \in Runners, InStep(r), EndRun(r) \/ Crash(r)
    PROVE  InStep(r)'
<1>1. /\ Goto(r, "idle", NoRegisters) /\ session' = [session EXCEPT ![r] = NoSession]
      /\ UNCHANGED <<cursor, sessions, receipts>>
    BY DEF EndRun, Crash, Gone, Leave, storeVars
<1>2. NoRegisters.session = 0 /\ NoRegisters.latest = 0
    BY DEF NoRegisters
<1> QED
    BY <1>1, <1>2, SessionEnds

LEMMA DisconnectInStep ==
    ASSUME SandboxInv, NEW r \in Runners, InStep(r), Disconnect(r)
    PROVE  InStep(r)'
<1> DEFINE g == [reg[r] EXCEPT !.session = 0, !.latest = 0]
<1>1. /\ pc[r] = "receive" /\ UNCHANGED <<cursor, sessions, receipts, upcoming>>
      /\ \/ Goto(r, "reconnect", reg[r]) /\ session' = session
         \/ Goto(r, "reconnect", g) /\ session' = [session EXCEPT ![r] = NoSession]
    BY DEF Disconnect, storeVars
<1>2. reg[r] \in Registers
    BY InHand
<1>3. g.session = 0 /\ g.latest = 0
    BY <1>2 DEF Registers
<1> HIDE DEF g
<1>4. CASE Goto(r, "reconnect", reg[r]) /\ session' = session
    BY <1>1, <1>4, StillStep DEF InMessage, Recording, Holding
<1>5. CASE Goto(r, "reconnect", g) /\ session' = [session EXCEPT ![r] = NoSession]
    BY <1>1, <1>3, <1>5, SessionEnds
<1> QED
    BY <1>1, <1>4, <1>5

(* A frame more changes nothing about the earlier ones.                    *)
LEMMA FrameArrives ==
    ASSUME SandboxInv, NEW r \in Runners, InStep(r), NEW e \in Sent, e.t # "READY",
           UNCHANGED <<cursor, sessions, receipts, upcoming, pc, reg>>,
           session[r] # NoSession,
           session'[r] = [session[r] EXCEPT !.frames = Append(@, e)]
    PROVE  InStep(r)'
<1> DEFINE fr == session[r].frames
<1>1. session'[r].id = session[r].id /\ session'[r].frames = Append(fr, e)
    BY NumbersInHand
<1>2. /\ Len(session'[r].frames) = Len(fr) + 1
      /\ \A i \in 1..Len(fr) : session'[r].frames[i] = fr[i]
      /\ session'[r].frames[Len(fr) + 1] = e
    BY <1>1, NumbersInHand
<1>3. Len(fr) \in Nat /\ Received' = Received /\ session[r].id # 0
    BY NumbersInHand DEF InStep, SessionOrder, Received
<1>4. \A n \in Nat : n <= Len(fr) /\ Accounted(fr, Received, n) =>
          Accounted(session'[r].frames, Received, n)
    <2> SUFFICES ASSUME NEW n \in Nat, n <= Len(fr), Accounted(fr, Received, n)
                 PROVE  Accounted(session'[r].frames, Received, n)
        OBVIOUS
    <2>1. \A i \in 1..n : session'[r].frames[i] = fr[i]
        BY <1>2, <1>3
    <2> QED
        BY <2>1, AccountedGrows
<1>5. SessionOrder(r)'
    <2>1. \A i \in 1..Len(session'[r].frames) : session'[r].frames[i].t = "READY" <=> i = 1
        BY <1>2, <1>3, OneFrameMore DEF InStep, SessionOrder
    <2>2. reg[r].session # 0 => reg[r].latest \in 1..Len(session'[r].frames)
        BY <1>2, <1>3 DEF InStep, SessionOrder
    <2> QED
        BY <1>1, <1>3, <2>1, <2>2 DEF InStep, SessionOrder
<1>6. CursorInStep(r)'
    BY <1>1, <1>2, <1>3, <1>4, NumbersInHand DEF InStep, CursorInStep
<1>7. WriteInStep(r)'
    BY <1>1, <1>2, <1>3, <1>4, NumbersInHand DEF InStep, WriteInStep
<1>8. FrameInStep(r)'
    BY <1>1, <1>2 DEF InStep, SessionOrder, FrameInStep
<1> QED
    BY <1>5, <1>6, <1>7, <1>8 DEF InStep

LEMMA WorldInStep ==
    ASSUME SandboxInv, NEW r \in Runners, InStep(r),
           \/ Chatter(r)
           \/ \E m \in Messages : Lapse(m) \/ \E c \in Contents : Post(m, c)
           \/ UNCHANGED vars
    PROVE  InStep(r)'
<1>1. ASSUME UNCHANGED <<cursor, receipts, session, upcoming, sessions, pc, reg>>
      PROVE  InStep(r)'
    <2>1. Received' = Received
        BY <1>1 DEF Received
    <2> QED
        BY <1>1, <2>1 DEF InStep, SessionOrder, CursorInStep, WriteInStep, FrameInStep
<1>2. CASE Chatter(r)
    <2> DEFINE e == Frame("other")
    <2>1. e \in Sent /\ e.t # "READY"
        BY SomeFrames DEF Frame
    <2> HIDE DEF e
    <2>2. /\ UNCHANGED <<cursor, sessions, receipts, upcoming, pc, reg>>
          /\ session[r] # NoSession
          /\ session'[r] = [session[r] EXCEPT !.frames = Append(@, e)]
        BY <1>2, InHand DEF Chatter, Listening, WorldTyped, storeVars, e
    <2> QED
        BY <2>1, <2>2, FrameArrives
<1>3. ASSUME NEW m \in Messages, NEW c \in Contents, Post(m, c) PROVE InStep(r)'
    <2> DEFINE e == [t |-> "message", msg |-> m, content |-> c]
    <2>1. e \in Sent /\ e.t # "READY"
        BY DEF Sent, MessageFrames
    <2>2. UNCHANGED <<cursor, sessions, receipts, upcoming, pc, reg>>
        BY <1>3 DEF Post, storeVars
    <2>3. session'[r] = IF r \in Listening
                        THEN [session[r] EXCEPT !.frames = Append(@, e)] ELSE session[r]
        BY <1>3 DEF Post
    <2> HIDE DEF e
    <2>4. CASE session[r] # NoSession
        BY <2>1, <2>2, <2>3, <2>4, FrameArrives DEF Listening
    <2>5. CASE session[r] = NoSession
        <3>1. session'[r] = session[r] /\ Received' = Received
            BY <2>2, <2>3, <2>5 DEF Listening, Received
        <3> QED
            BY <2>2, <3>1
            DEF InStep, SessionOrder, CursorInStep, WriteInStep, FrameInStep
    <2> QED
        BY <2>4, <2>5
<1>4. ASSUME NEW m \in Messages, Lapse(m) PROVE InStep(r)'
    BY <1>1, <1>4 DEF Lapse, storeVars, qqVars
<1>5. CASE UNCHANGED vars
    BY <1>1, <1>5 DEF vars, storeVars, qqVars
<1> QED
    BY <1>2, <1>3, <1>4, <1>5

LEMMA InStepInit == ASSUME NEW r \in Runners, Init PROVE InStep(r)
<1> USE DEF Init
<1>1. SessionOrder(r)
    BY DEF SessionOrder, NoSession, NoCursor, NoRegisters
<1>2. CursorInStep(r) /\ WriteInStep(r) /\ FrameInStep(r)
    BY DEF CursorInStep, WriteInStep, FrameInStep, InMessage, Recording, Holding, NoSession,
           NoRegisters
<1> QED
    BY <1>1, <1>2 DEF InStep

(* A step of the only runner that loses no frame keeps the cursor in step. *)
LEMMA InStepNext ==
    ASSUME SandboxInv, NEW r \in Runners, Runners = {r}, [Next]_vars, lost = 0 => InStep(r)
    PROVE  lost' = 0 => InStep(r)'
<1> SUFFICES ASSUME lost' = 0 PROVE InStep(r)'
    OBVIOUS
<1>1. CASE \E q \in Runners : Lose(q)
    BY <1>1, NumbersInHand DEF Lose
<1>2. lost' = lost \/ \E q \in Runners : Lose(q)
    BY DEF Next, Step, IntakeStep, AcknowledgementStep, ReadCursor, WriteCursor, Authenticate,
           Receive, Reconnect, Accept, IntakeQq, CreateAcknowledgementIntent, Process,
           SendFixedAcknowledgement, AppendObservation, Complete, Done, EndRun, StartRun, Crash,
           Chatter, Disconnect, Lapse, Post, vars, qqVars
<1>3. ASSUME InStep(r), ~Lose(r) PROVE InStep(r)'
    <2>1. CASE IntakeStep(r)
        BY <1>3, <2>1, ReadCursorInStep, WriteCursorInStep, AuthenticateInStep, ReceiveInStep,
           ReconnectInStep, AcceptInStep, IntakeQqInStep, StillSteps
        DEF IntakeStep, EndRun, CreateAcknowledgementIntent
    <2>2. CASE AcknowledgementStep(r)
        BY <1>3, <2>2, StillSteps, GoneInStep
    <2>3. CASE StartRun(r) \/ Crash(r) \/ Disconnect(r)
        BY <1>3, <2>3, StartRunInStep, GoneInStep, DisconnectInStep
    <2>4. CASE \/ Chatter(r)
               \/ \E m \in Messages : Lapse(m) \/ \E c \in Contents : Post(m, c)
               \/ UNCHANGED vars
        BY <1>3, <2>4, WorldInStep
    <2> QED
        BY <1>3, <2>1, <2>2, <2>3, <2>4 DEF Next, Step
<1> QED
    BY <1>1, <1>2, <1>3

LEMMA InStepAccounts ==
    ASSUME SandboxInv, NEW r \in Runners, Runners = {r}, lost = 0 => InStep(r)
    PROVE  CursorAccountsForAll
<1> SUFFICES ASSUME InStep(r), session[r].id # 0, cursor.session = session[r].id,
                    NEW i \in 1..cursor.seq, session[r].frames[i].t = "message"
             PROVE  session[r].frames[i].msg \in Received
    BY DEF CursorAccountsForAll, CursorSkipsNothing
<1> QED
    BY DEF InStep, CursorInStep, Accounted

(* While the gateway loses no frame, the cursor of a store that one runner *)
(* uses never passes a message without a receipt: intake_qq stores the     *)
(* Case before record_cursor moves the number, a connection is resumed     *)
(* from the number of its own session, and a new session begins a count of *)
(* its own.  The hypothesis is needed: of two runners, one that lost its   *)
(* session may write that session's number under the session of the other. *)
THEOREM CursorPassesNothing ==
    ASSUME NEW r, Runners = {r}
    PROVE  Spec => []CursorAccountsForAll
<1> DEFINE InStepWhileNoneLost == lost = 0 => InStep(r)
<1>1. Init => InStepWhileNoneLost
    BY InStepInit
<1>2. SandboxInv /\ InStepWhileNoneLost /\ [Next]_vars => InStepWhileNoneLost'
    BY InStepNext
<1>3. SandboxInv /\ InStepWhileNoneLost => CursorAccountsForAll
    BY InStepAccounts
<1> QED
    BY <1>1, <1>2, <1>3, SandboxAlways, PTL DEF Spec
=============================================================================
