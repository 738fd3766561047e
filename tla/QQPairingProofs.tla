--------------------------- MODULE QQPairingProofs ---------------------------
(* The pairing protocols grant exclusively, for any number of processes,   *)
(* groups, challenges and sessions.                                        *)
EXTENDS QQPairing, TLAPS

(* Stage 1: a locator belongs to a completion, only a completed pairing    *)
(* expires, at most one is current, and what a process is about to purge   *)
(* has expired.                                                            *)
LocatorsInv ==
    /\ \A c \in Challenges : locator[c] = "none" <=> completion[c] = {}
    /\ \A c \in Challenges : <<"locator", c>> \in lapsed => completion[c] # {}
    /\ \A c, d \in Challenges : c \in Current /\ d \in Current => c = d
    /\ \A p \in Processes, c \in Challenges :
          c \in reg[p].rows => <<"locator", c>> \in lapsed

(* What a process has in hand.                                             *)
RegistersInv ==
    \A p \in Processes :
        /\ pc[p] \in {"listen", "begin"} => reg[p].id \in Challenges
        /\ pc[p] = "begin" => completion[reg[p].id] # {}
        /\ pc[p] \in {"observe", "confirm"} => reg[p].id \in Sessions /\ session[reg[p].id] # {}

(* Stage 2: a session is for one completed pairing and so for one group, a *)
(* binding belongs to a session, only a binding expires, and a group has   *)
(* at most one active binding.                                             *)
BindingsInv ==
    /\ \A c \in Challenges : completion[c] = {} \/ \E g \in Groups : completion[c] = {g}
    /\ \A s \in Sessions :
          session[s] = {} \/ \E c \in Challenges : session[s] = {c} /\ completion[c] # {}
    /\ \A s \in Sessions : binding[s] # "none" => session[s] # {}
    /\ \A s \in Sessions : <<"binding", s>> \in lapsed => binding[s] # "none"
    /\ \A s, t \in Sessions : Active(s) /\ Active(t) /\ GroupOf(s) = GroupOf(t) => s = t

PairingInv == TypeOK /\ LocatorsInv /\ RegistersInv /\ BindingsInv

-----------------------------------------------------------------------------
(* Types.                                                                  *)

RegisterType ==
    [id : Challenges \cup Sessions \cup {0}, rows : SUBSET Challenges,
     command : {"none", "pair_group", "pair_handler"}]

Labels == {"idle", "purge", "create", "listen", "resolve", "begin", "observe", "confirm"}

LEMMA TypeOKInit == Init => TypeOK
BY DEF Init, TypeOK, NoRegisters

LEMMA GotoTypes ==
    ASSUME TypeOK, NEW p \in Processes, NEW label \in Labels, NEW regs \in RegisterType,
           Goto(p, label, regs)
    PROVE  /\ pc' \in [Processes -> Labels] /\ reg' \in [Processes -> RegisterType]
           /\ pc'[p] = label /\ reg'[p] = regs
           /\ \A q \in Processes \ {p} : pc'[q] = pc[q] /\ reg'[q] = reg[q]
BY DEF TypeOK, Goto, Labels, RegisterType

LEMMA NoRegistersType == NoRegisters \in RegisterType
BY DEF NoRegisters, RegisterType

LEMMA TypeOKNext == TypeOK /\ RegistersInv /\ [Next]_vars => TypeOK'
<1> SUFFICES ASSUME TypeOK, RegistersInv, [Next]_vars PROVE TypeOK'
    OBVIOUS
<1> USE NoRegistersType DEF Labels, RegisterType
<1>a. ASSUME NEW p \in Processes PROVE Leave(p) =>
          pc' \in [Processes -> Labels] /\ reg' \in [Processes -> RegisterType]
    BY GotoTypes DEF Leave
<1>1. ASSUME NEW p \in Processes, NEW command \in {"pair_group", "pair_handler"},
             BeginPurge(p, command)
      PROVE  TypeOK'
    <2> DEFINE rows == {c \in Challenges : locator[c] = "COMPLETED" /\ c \notin Current}
    <2>1. [NoRegisters EXCEPT !.command = command, !.rows = rows] \in RegisterType
        BY DEF NoRegisters
    <2>2. (IF rows = {} THEN Purged(command) ELSE "purge") \in Labels
        BY DEF Purged
    <2>3. pc' \in [Processes -> Labels] /\ reg' \in [Processes -> RegisterType]
        BY <1>1, <2>1, <2>2, GotoTypes DEF BeginPurge
    <2> QED
        BY <1>1, <2>3 DEF BeginPurge, TypeOK, stage1, stage2
<1>2. ASSUME NEW p \in Processes, PurgeRow(p) PROVE TypeOK'
    <2>1. PICK c \in reg[p].rows :
              /\ locator' = [locator EXCEPT ![c] = "EXPIRED"]
              /\ Goto(p, IF reg[p].rows = {c} THEN Purged(reg[p].command) ELSE "purge",
                      [reg[p] EXCEPT !.rows = @ \ {c}])
        BY <1>2 DEF PurgeRow
    <2>2. [reg[p] EXCEPT !.rows = @ \ {c}] \in RegisterType
        BY DEF TypeOK
    <2>3. (IF reg[p].rows = {c} THEN Purged(reg[p].command) ELSE "purge") \in Labels
        BY DEF Purged
    <2>4. pc' \in [Processes -> Labels] /\ reg' \in [Processes -> RegisterType]
        BY <2>1, <2>2, <2>3, GotoTypes
    <2> QED
        BY <1>2, <2>1, <2>4 DEF PurgeRow, TypeOK, stage2
<1>3. ASSUME NEW p \in Processes, RecordChallenge(p) PROVE TypeOK'
    <2>1. PICK c \in Challenges :
              /\ lifecycle' = [d \in Challenges |-> CASE d = c -> "PENDING"
                                                      [] lifecycle[d] = "PENDING" -> "CANCELLED"
                                                      [] OTHER -> lifecycle[d]]
              /\ Goto(p, "listen", [NoRegisters EXCEPT !.id = c])
        BY <1>3 DEF RecordChallenge, Fresh
    <2>2. [NoRegisters EXCEPT !.id = c] \in RegisterType
        BY DEF NoRegisters
    <2>3. pc' \in [Processes -> Labels] /\ reg' \in [Processes -> RegisterType]
        BY <2>1, <2>2, GotoTypes
    <2>4. lifecycle' \in [Challenges ->
              {"none", "PENDING", "CANCELLED", "EXPIRED", "COMPLETED", "CONFLICT", "REVOKED"}]
        BY <2>1 DEF TypeOK
    <2> QED
        BY <1>3, <2>3, <2>4 DEF RecordChallenge, Fresh, TypeOK, stage2
<1>4. ASSUME NEW p \in Processes, NEW g \in Groups, Accept(p, g) PROVE TypeOK'
    <2>1. CASE Current # {}
        BY <1>4, <2>1 DEF Accept, Heard, TypeOK, stage2, control
    <2>2. CASE Current = {}
        <3>1. pc' \in [Processes -> Labels] /\ reg' \in [Processes -> RegisterType]
            BY <1>4, <2>2, <1>a DEF Accept, Heard
        <3>2. completion' \in [Challenges -> SUBSET Groups]
            BY <1>4, <2>2 DEF Accept, Heard, TypeOK
        <3>3. locator' \in [Challenges -> {"none", "COMPLETED", "EXPIRED", "REVOKED"}]
            BY <1>4, <2>2 DEF Accept, Heard, TypeOK
        <3>4. lifecycle' \in [Challenges ->
                  {"none", "PENDING", "CANCELLED", "EXPIRED", "COMPLETED", "CONFLICT", "REVOKED"}]
            BY <1>4, <2>2 DEF Accept, Heard, TypeOK
        <3> QED
            BY <1>4, <3>1, <3>2, <3>3, <3>4 DEF Accept, Heard, TypeOK, stage2
    <2> QED
        BY <2>1, <2>2
<1>5. ASSUME NEW p \in Processes, ExpireChallenge(p) PROVE TypeOK'
    BY <1>5, <1>a DEF ExpireChallenge, TypeOK, stage2
<1>6. ASSUME NEW p \in Processes, NEW c \in Challenges, Resolve(p, c) PROVE TypeOK'
    <2>1. [NoRegisters EXCEPT !.id = c] \in RegisterType
        BY DEF NoRegisters
    <2>2. pc' \in [Processes -> Labels] /\ reg' \in [Processes -> RegisterType]
        BY <1>6, <1>a, <2>1, GotoTypes DEF Resolve
    <2> QED
        BY <1>6, <2>2 DEF Resolve, TypeOK, stage1, stage2
<1>7. ASSUME NEW p \in Processes, BeginHandlerPairing(p) PROVE TypeOK'
    <2>1. CASE Leave(p) /\ UNCHANGED session
        BY <1>7, <2>1, <1>a DEF BeginHandlerPairing, FreshSession, BoundBefore, TypeOK, stage1
    <2>2. CASE \E s \in Sessions : /\ session' = [session EXCEPT ![s] = {reg[p].id}]
                                   /\ Goto(p, "observe", [NoRegisters EXCEPT !.id = s])
        <3>1. PICK s \in Sessions : /\ session' = [session EXCEPT ![s] = {reg[p].id}]
                                    /\ Goto(p, "observe", [NoRegisters EXCEPT !.id = s])
            BY <2>2
        <3>2. [NoRegisters EXCEPT !.id = s] \in RegisterType
            BY DEF NoRegisters
        <3>3. pc' \in [Processes -> Labels] /\ reg' \in [Processes -> RegisterType]
            BY <3>1, <3>2, GotoTypes
        <3>4. session' \in [Sessions -> SUBSET Challenges]
            BY <1>7, <3>1 DEF BeginHandlerPairing, FreshSession, BoundBefore, RegistersInv, TypeOK
        <3> QED
            BY <1>7, <3>3, <3>4 DEF BeginHandlerPairing, FreshSession, BoundBefore, TypeOK, stage1
    <2> QED
        BY <1>7, <2>1, <2>2 DEF BeginHandlerPairing, FreshSession, BoundBefore
<1>8. ASSUME NEW p \in Processes, NEW surface \in Surfaces, RecordObservation(p, surface)
      PROVE  TypeOK'
    <2>1. observed' \in [Sessions -> SUBSET Surfaces]
        BY <1>8 DEF RecordObservation, Observable, RegistersInv, TypeOK
    <2>2. reg[p] \in RegisterType
        BY DEF TypeOK
    <2>3. pc' \in [Processes -> Labels] /\ reg' \in [Processes -> RegisterType]
        BY <1>8, <2>2, GotoTypes DEF RecordObservation, Observable
    <2> QED
        BY <1>8, <2>1, <2>3 DEF RecordObservation, Observable, TypeOK, stage1
<1>9. ASSUME NEW p \in Processes, ConfirmHandlerBinding(p) PROVE TypeOK'
    BY <1>9, <1>a DEF ConfirmHandlerBinding, TypeOK, stage1
<1>10. ASSUME NEW p \in Processes, Stop(p) PROVE TypeOK'
    BY <1>10, <1>a DEF Stop, TypeOK, stage1, stage2
<1>11. ASSUME NEW c \in Challenges, Revoke(c) PROVE TypeOK'
    BY <1>11 DEF Revoke, TypeOK, stage2, control
<1>12. ASSUME NEW s \in Sessions, RevokeHandlerBinding(s) PROVE TypeOK'
    BY <1>12 DEF RevokeHandlerBinding, TypeOK, stage1, control
<1>13. ASSUME NEW d \in Deadlines, Pass(d) PROVE TypeOK'
    BY <1>13 DEF Pass, TypeOK, stage1, stage2, control
<1>14. ASSUME NEW c \in Challenges, RecordRevocation(c) PROVE TypeOK'
    BY <1>14 DEF RecordRevocation, TypeOK, stage2, control
<1>15. CASE UNCHANGED vars
    BY <1>15 DEF vars, stage1, stage2, control, TypeOK
<1> QED
    BY <1>1, <1>2, <1>3, <1>4, <1>5, <1>6, <1>7, <1>8, <1>9, <1>10, <1>11, <1>12, <1>13, <1>14,
       <1>15
    DEF Next

-----------------------------------------------------------------------------
(* What does not touch a grant.                                            *)

GroupStep   == [PairedExclusively!Next]_(PairedExclusively!grantVars)
HandlerStep == [BoundExclusively!Next]_(BoundExclusively!grantVars)

SameLapsed(kind, ids) == \A i \in ids : <<kind, i>> \in lapsed' <=> <<kind, i>> \in lapsed

LEMMA GroupQuiet ==
    ASSUME UNCHANGED <<completion, locator>>, SameLapsed("locator", Challenges)
    PROVE  Current' = Current /\ GroupStep
<1>1. Current' = Current
    BY DEF Current, SameLapsed
<1> QED
    BY <1>1 DEF GroupStep, PairedExclusively!grantVars, EndedPairings

LEMMA HandlerQuiet ==
    ASSUME UNCHANGED binding, SameLapsed("binding", Sessions),
           \A s \in Sessions : binding[s] # "none" => GroupOf(s)' = GroupOf(s)
    PROVE  (\A s \in Sessions : Active(s)' <=> Active(s)) /\ HandlerStep
<1>1. \A s \in Sessions : Active(s)' <=> Active(s)
    BY DEF Active, SameLapsed
<1>2. \A s \in Sessions : Active(s) => GroupOf(s)' = GroupOf(s)
    BY DEF Active
<1>3. \A g \in Groups : HandlersOf(g)' = HandlersOf(g)
    BY <1>1, <1>2 DEF HandlersOf
<1>4. EndedBindings' = EndedBindings
    BY <1>1 DEF EndedBindings
<1> QED
    BY <1>1, <1>3, <1>4 DEF HandlerStep, BoundExclusively!grantVars

(* A session's group is the one its pairing was completed in.              *)
LEMMA GroupOfPairing ==
    ASSUME NEW s \in Sessions, NEW c, session[s] = {c}
    PROVE  GroupOf(s) = completion[c]
BY DEF GroupOf

(* Steps that leave pairings, sessions, bindings and deadlines alone.      *)
LEMMA StoreQuiet ==
    ASSUME PairingInv, TypeOK', RegistersInv',
           UNCHANGED <<completion, locator, session, binding, lapsed>>,
           \A p \in Processes, c \in Challenges :
               c \in reg'[p].rows => <<"locator", c>> \in lapsed
    PROVE  PairingInv' /\ GroupStep /\ HandlerStep
<1>1. SameLapsed("locator", Challenges) /\ SameLapsed("binding", Sessions)
    BY DEF SameLapsed
<1>2. \A s \in Sessions : GroupOf(s)' = GroupOf(s)
    BY DEF GroupOf
<1>3. Current' = Current /\ GroupStep
    BY <1>1, GroupQuiet
<1>4. (\A s \in Sessions : Active(s)' <=> Active(s)) /\ HandlerStep
    BY <1>1, <1>2, HandlerQuiet
<1>5. LocatorsInv'
    BY <1>3 DEF PairingInv, LocatorsInv
<1>6. BindingsInv'
    BY <1>2, <1>4 DEF PairingInv, BindingsInv
<1> QED
    BY <1>3, <1>4, <1>5, <1>6 DEF PairingInv

(* Leaving keeps what is said of registers.                                *)
LEMMA LeaveRegisters ==
    ASSUME PairingInv, NEW p \in Processes, Leave(p), UNCHANGED <<completion, session>>
    PROVE  /\ RegistersInv'
           /\ \A q \in Processes, c \in Challenges :
                  c \in reg'[q].rows => <<"locator", c>> \in lapsed
<1>1. /\ pc'[p] = "idle" /\ reg'[p] = NoRegisters
      /\ \A q \in Processes \ {p} : pc'[q] = pc[q] /\ reg'[q] = reg[q]
    BY GotoTypes, NoRegistersType DEF Leave, Labels, PairingInv
<1>2. RegistersInv'
    BY <1>1 DEF PairingInv, RegistersInv
<1>3. reg'[p].rows = {}
    BY <1>1 DEF NoRegisters
<1> QED
    BY <1>1, <1>2, <1>3 DEF PairingInv, LocatorsInv

-----------------------------------------------------------------------------
(* The steps that touch no grant.                                          *)

LEMMA BeginPurgeQuiet ==
    ASSUME PairingInv, TypeOK', NEW p \in Processes,
           NEW command \in {"pair_group", "pair_handler"}, BeginPurge(p, command)
    PROVE  PairingInv' /\ GroupStep /\ HandlerStep
<1> DEFINE rows == {c \in Challenges : locator[c] = "COMPLETED" /\ c \notin Current}
           regs == [NoRegisters EXCEPT !.command = command, !.rows = rows]
           label == IF rows = {} THEN Purged(command) ELSE "purge"
<1>a. rows \subseteq Challenges
    OBVIOUS
<1> HIDE DEF rows
<1>1. regs \in RegisterType /\ regs.rows = rows
    BY <1>a DEF NoRegisters, RegisterType
<1> USE DEF rows
<1>2. label \in Labels /\ label \in {"purge", "create", "resolve"}
    BY DEF Purged, Labels
<1>3. /\ pc'[p] = label /\ reg'[p] = regs
      /\ \A q \in Processes \ {p} : pc'[q] = pc[q] /\ reg'[q] = reg[q]
    BY <1>1, <1>2, GotoTypes DEF BeginPurge, PairingInv
<1>4. UNCHANGED <<completion, locator, session, binding, lapsed>>
    BY DEF BeginPurge, stage1, stage2
<1>5. \A c \in rows : <<"locator", c>> \in lapsed
    BY DEF Current
<1>6. RegistersInv'
    BY <1>2, <1>3, <1>4 DEF PairingInv, RegistersInv
<1> HIDE DEF rows, regs
<1>7. \A q \in Processes, c \in Challenges : c \in reg'[q].rows => <<"locator", c>> \in lapsed
    <2>1. reg'[p].rows = rows
        BY <1>1, <1>3
    <2>2. \A q \in Processes \ {p}, c \in Challenges : c \in reg'[q].rows => <<"locator", c>> \in lapsed
        BY <1>3 DEF PairingInv, LocatorsInv
    <2> QED
        BY <1>5, <2>1, <2>2
<1> QED
    BY <1>4, <1>6, <1>7, StoreQuiet

LEMMA RecordChallengeQuiet ==
    ASSUME PairingInv, TypeOK', NEW p \in Processes, RecordChallenge(p)
    PROVE  PairingInv' /\ GroupStep /\ HandlerStep
<1>1. PICK c \in Challenges : Goto(p, "listen", [NoRegisters EXCEPT !.id = c])
    BY DEF RecordChallenge, Fresh
<1> DEFINE regs == [NoRegisters EXCEPT !.id = c]
<1>2. regs \in RegisterType /\ regs.rows = {} /\ regs.id = c
    BY DEF NoRegisters, RegisterType
<1>3. /\ pc'[p] = "listen" /\ reg'[p] = regs
      /\ \A q \in Processes \ {p} : pc'[q] = pc[q] /\ reg'[q] = reg[q]
    BY <1>1, <1>2, GotoTypes DEF PairingInv, Labels
<1>4. UNCHANGED <<completion, locator, session, binding, lapsed>>
    BY DEF RecordChallenge, Fresh, stage2
<1>5. RegistersInv'
    BY <1>2, <1>3, <1>4 DEF PairingInv, RegistersInv
<1>6. \A q \in Processes, d \in Challenges : d \in reg'[q].rows => <<"locator", d>> \in lapsed
    BY <1>2, <1>3 DEF PairingInv, LocatorsInv
<1> QED
    BY <1>4, <1>5, <1>6, StoreQuiet

LEMMA ResolveQuiet ==
    ASSUME PairingInv, TypeOK', NEW p \in Processes, NEW c \in Challenges, Resolve(p, c)
    PROVE  PairingInv' /\ GroupStep /\ HandlerStep
<1>1. UNCHANGED <<completion, locator, session, binding, lapsed>>
    BY DEF Resolve, stage1, stage2
<1>2. CASE Leave(p)
    BY <1>1, <1>2, LeaveRegisters, StoreQuiet
<1>3. CASE locator[c] = "COMPLETED" /\ Goto(p, "begin", [NoRegisters EXCEPT !.id = c])
    <2> DEFINE regs == [NoRegisters EXCEPT !.id = c]
    <2>1. regs \in RegisterType /\ regs.rows = {} /\ regs.id = c
        BY DEF NoRegisters, RegisterType
    <2>2. /\ pc'[p] = "begin" /\ reg'[p] = regs
          /\ \A q \in Processes \ {p} : pc'[q] = pc[q] /\ reg'[q] = reg[q]
        BY <1>3, <2>1, GotoTypes DEF PairingInv, Labels
    <2>3. completion[c] # {}
        BY <1>3 DEF PairingInv, LocatorsInv
    <2>4. RegistersInv'
        BY <1>1, <2>1, <2>2, <2>3 DEF PairingInv, RegistersInv
    <2>5. \A q \in Processes, d \in Challenges : d \in reg'[q].rows => <<"locator", d>> \in lapsed
        BY <2>1, <2>2 DEF PairingInv, LocatorsInv
    <2> QED
        BY <1>1, <2>4, <2>5, StoreQuiet
<1> QED
    BY <1>2, <1>3 DEF Resolve

LEMMA RecordObservationQuiet ==
    ASSUME PairingInv, TypeOK', NEW p \in Processes, NEW surface \in Surfaces,
           RecordObservation(p, surface)
    PROVE  PairingInv' /\ GroupStep /\ HandlerStep
<1> DEFINE label == IF observed'[reg[p].id] = Surfaces THEN "confirm" ELSE "observe"
<1>1. reg[p] \in RegisterType /\ label \in Labels /\ label \in {"confirm", "observe"}
    BY DEF PairingInv, TypeOK, RegisterType, Labels
<1>2. /\ pc'[p] = label /\ reg'[p] = reg[p]
      /\ \A q \in Processes \ {p} : pc'[q] = pc[q] /\ reg'[q] = reg[q]
    BY <1>1, GotoTypes DEF RecordObservation, Observable, PairingInv
<1>3. UNCHANGED <<completion, locator, session, binding, lapsed>> /\ pc[p] = "observe"
    BY DEF RecordObservation, Observable, stage1
<1>4. RegistersInv'
    BY <1>1, <1>2, <1>3 DEF PairingInv, RegistersInv
<1>5. \A q \in Processes, d \in Challenges : d \in reg'[q].rows => <<"locator", d>> \in lapsed
    BY <1>2 DEF PairingInv, LocatorsInv
<1> QED
    BY <1>3, <1>4, <1>5, StoreQuiet

(* A purge only touches what has expired.                                  *)
LEMMA PurgeRowQuiet ==
    ASSUME PairingInv, TypeOK', NEW p \in Processes, PurgeRow(p)
    PROVE  PairingInv' /\ GroupStep /\ HandlerStep
<1>1. PICK c \in reg[p].rows :
          /\ locator' = [locator EXCEPT ![c] = "EXPIRED"]
          /\ Goto(p, IF reg[p].rows = {c} THEN Purged(reg[p].command) ELSE "purge",
                  [reg[p] EXCEPT !.rows = @ \ {c}])
    BY DEF PurgeRow
<1> DEFINE regs == [reg[p] EXCEPT !.rows = @ \ {c}]
           label == IF reg[p].rows = {c} THEN Purged(reg[p].command) ELSE "purge"
<1>a. reg[p] \in RegisterType
    BY DEF PairingInv, TypeOK, RegisterType
<1>2. regs \in RegisterType /\ regs.rows \subseteq reg[p].rows
    BY <1>a DEF RegisterType
<1>3. label \in Labels /\ label \in {"purge", "create", "resolve"}
    BY DEF Purged, Labels
<1>4. /\ pc'[p] = label /\ reg'[p] = regs
      /\ \A q \in Processes \ {p} : pc'[q] = pc[q] /\ reg'[q] = reg[q]
    BY <1>1, <1>2, <1>3, GotoTypes DEF PairingInv
<1>5. UNCHANGED <<completion, session, binding, lapsed>>
    BY DEF PurgeRow, stage2
<1>6. c \in Challenges /\ <<"locator", c>> \in lapsed /\ completion[c] # {}
    BY DEF PairingInv, TypeOK, LocatorsInv
<1>7. \A d \in Challenges : locator'[d] = IF d = c THEN "EXPIRED" ELSE locator[d]
    BY <1>1 DEF PairingInv, TypeOK
<1>8. Current' = Current
    BY <1>5, <1>6, <1>7 DEF Current
<1>9. GroupStep
    BY <1>5, <1>8 DEF GroupStep, PairedExclusively!grantVars, EndedPairings
<1>10. RegistersInv'
    BY <1>3, <1>4, <1>5 DEF PairingInv, RegistersInv
<1>11. LocatorsInv'
    <2>1. \A d \in Challenges : locator'[d] = "none" <=> completion'[d] = {}
        BY <1>5, <1>6, <1>7 DEF PairingInv, LocatorsInv
    <2>2. \A q \in Processes, d \in Challenges :
              d \in reg'[q].rows => <<"locator", d>> \in lapsed'
        BY <1>2, <1>4, <1>5 DEF PairingInv, LocatorsInv
    <2> QED
        BY <1>5, <1>8, <2>1, <2>2 DEF PairingInv, LocatorsInv
<1>12. \A s \in Sessions : GroupOf(s)' = GroupOf(s)
    BY <1>5 DEF GroupOf
<1>13. (\A s \in Sessions : Active(s)' <=> Active(s)) /\ HandlerStep
    BY <1>5, <1>12, HandlerQuiet DEF SameLapsed
<1>14. BindingsInv'
    BY <1>5, <1>12, <1>13 DEF PairingInv, BindingsInv
<1> QED
    BY <1>9, <1>10, <1>11, <1>13, <1>14 DEF PairingInv

LEMMA StopQuiet ==
    ASSUME PairingInv, TypeOK', NEW p \in Processes, Stop(p)
    PROVE  PairingInv' /\ GroupStep /\ HandlerStep
<1>1. UNCHANGED <<completion, locator, session, binding, lapsed>> /\ Leave(p)
    BY DEF Stop, stage1, stage2
<1> QED
    BY <1>1, LeaveRegisters, StoreQuiet

LEMMA ExpireChallengeQuiet ==
    ASSUME PairingInv, TypeOK', NEW p \in Processes, ExpireChallenge(p)
    PROVE  PairingInv' /\ GroupStep /\ HandlerStep
<1>1. UNCHANGED <<completion, locator, session, binding, lapsed>> /\ Leave(p)
    BY DEF ExpireChallenge, stage2
<1> QED
    BY <1>1, LeaveRegisters, StoreQuiet

(* A process without work keeps what is said of registers.                 *)
LEMMA SameControl ==
    ASSUME PairingInv, UNCHANGED <<control, completion, session>>
    PROVE  RegistersInv'
BY DEF control, PairingInv, RegistersInv

-----------------------------------------------------------------------------
(* Grants and releases of the application's group.                         *)

(* A pairing is made only when none is current.                            *)
LEMMA AcceptGrants ==
    ASSUME PairingInv, TypeOK', NEW p \in Processes, NEW g \in Groups, Accept(p, g)
    PROVE  PairingInv' /\ GroupStep /\ HandlerStep
<1> DEFINE c == reg[p].id
<1>1. c \in Challenges /\ completion[c] = {} /\ <<"locator", c>> \notin lapsed
    BY DEF Accept, Heard, PairingInv, RegistersInv, LocatorsInv
<1>2. CASE Current # {}
    <2>1. UNCHANGED <<completion, locator, session, binding, lapsed, control>>
        BY <1>2 DEF Accept, Heard, stage2
    <2>2. RegistersInv'
        BY <2>1, SameControl
    <2>3. \A q \in Processes, d \in Challenges : d \in reg'[q].rows => <<"locator", d>> \in lapsed
        BY <2>1 DEF control, PairingInv, LocatorsInv
    <2> QED
        BY <2>1, <2>2, <2>3, StoreQuiet
<1>3. CASE Current = {}
    <2>1. /\ completion' = [completion EXCEPT ![c] = {g}]
          /\ locator' = [locator EXCEPT ![c] = "COMPLETED"]
          /\ UNCHANGED <<session, binding, lapsed>>
          /\ Leave(p)
        BY <1>3 DEF Accept, Heard, stage2
    <2>2. /\ \A d \in Challenges : completion'[d] = IF d = c THEN {g} ELSE completion[d]
          /\ \A d \in Challenges : locator'[d] = IF d = c THEN "COMPLETED" ELSE locator[d]
        BY <1>1, <2>1 DEF PairingInv, TypeOK
    <2> HIDE DEF c
    <2>3. Current' = {c}
        BY <1>1, <1>3, <2>1, <2>2 DEF Current
    <2>4. c \notin EndedPairings /\ EndedPairings' = EndedPairings
        BY <1>1, <1>3, <2>2, <2>3 DEF EndedPairings
    <2>5. GroupStep
        <3>1. [a \in {"application"} |-> Current'] = [[a \in {"application"} |-> Current] EXCEPT !["application"] = {c}]
            BY <2>3
        <3>2. PairedExclusively!Grant("application", c)
            BY <1>3, <2>4, <3>1 DEF PairedExclusively!Grant
        <3> QED
            BY <1>1, <3>2 DEF GroupStep, PairedExclusively!Next
    <2>6. /\ pc'[p] = "idle" /\ reg'[p] = NoRegisters
          /\ \A q \in Processes \ {p} : pc'[q] = pc[q] /\ reg'[q] = reg[q]
        BY <2>1, GotoTypes, NoRegistersType DEF Leave, Labels, PairingInv
    <2>7. RegistersInv'
        BY <2>1, <2>2, <2>6 DEF PairingInv, RegistersInv
    <2>8. LocatorsInv'
        <3>1. \A d \in Challenges : locator'[d] = "none" <=> completion'[d] = {}
            BY <2>2 DEF PairingInv, LocatorsInv
        <3>2. \A d \in Challenges : <<"locator", d>> \in lapsed' => completion'[d] # {}
            BY <2>1, <2>2 DEF PairingInv, LocatorsInv
        <3>3. \A q \in Processes, d \in Challenges :
                  d \in reg'[q].rows => <<"locator", d>> \in lapsed'
            BY <2>1, <2>6 DEF PairingInv, LocatorsInv, NoRegisters
        <3> QED
            BY <2>3, <3>1, <3>2, <3>3 DEF LocatorsInv
    <2>9. \A s \in Sessions : GroupOf(s)' = GroupOf(s)
        <3> SUFFICES ASSUME NEW s \in Sessions PROVE GroupOf(s)' = GroupOf(s)
            OBVIOUS
        <3>1. CASE session[s] = {}
            BY <2>1, <3>1 DEF GroupOf
        <3>2. CASE \E d \in Challenges : session[s] = {d} /\ completion[d] # {}
            <4>1. PICK d \in Challenges : session[s] = {d} /\ completion[d] # {}
                BY <3>2
            <4>2. d # c /\ completion'[d] = completion[d]
                BY <1>1, <2>2, <4>1
            <4> QED
                BY <2>1, <4>1, <4>2 DEF GroupOf
        <3> QED
            BY <3>1, <3>2 DEF PairingInv, BindingsInv
    <2>10. (\A s \in Sessions : Active(s)' <=> Active(s)) /\ HandlerStep
        BY <2>1, <2>9, HandlerQuiet DEF SameLapsed
    <2>11. BindingsInv'
        <3>1. \A d \in Challenges : completion'[d] = {} \/ \E h \in Groups : completion'[d] = {h}
            BY <2>2 DEF PairingInv, BindingsInv
        <3>2. \A s \in Sessions :
                  session'[s] = {} \/ \E d \in Challenges : session'[s] = {d} /\ completion'[d] # {}
            BY <2>1, <2>2 DEF PairingInv, BindingsInv
        <3> QED
            BY <2>1, <2>9, <2>10, <3>1, <3>2 DEF PairingInv, BindingsInv
    <2> QED
        BY <2>5, <2>7, <2>8, <2>10, <2>11 DEF PairingInv
<1> QED
    BY <1>2, <1>3

(* A revocation releases the current pairing, and changes nothing else     *)
(* when the pairing has expired already.                                   *)
LEMMA RevokeReleases ==
    ASSUME PairingInv, TypeOK', NEW c \in Challenges, Revoke(c)
    PROVE  PairingInv' /\ GroupStep /\ HandlerStep
<1>1. UNCHANGED <<completion, session, binding, lapsed, control>> /\ locator[c] = "COMPLETED"
    BY DEF Revoke, stage2
<1>2. \A d \in Challenges : locator'[d] = IF d = c THEN "REVOKED" ELSE locator[d]
    BY DEF Revoke, PairingInv, TypeOK
<1>3. Current' = Current \ {c}
    BY <1>1, <1>2 DEF Current
<1>4. completion[c] # {}
    BY <1>1 DEF PairingInv, LocatorsInv
<1>5. GroupStep
    <2>1. CASE c \in Current
        <3>1. Current = {c} /\ Current' = {}
            BY <1>3, <2>1 DEF PairingInv, LocatorsInv, Current
        <3>2. EndedPairings' = EndedPairings \cup {c}
            BY <1>1, <1>4, <3>1 DEF EndedPairings
        <3>3. [a \in {"application"} |-> Current']
                  = [[a \in {"application"} |-> Current] EXCEPT !["application"] = {}]
            BY <3>1
        <3>4. PairedExclusively!Release("application", c)
            BY <2>1, <3>2, <3>3 DEF PairedExclusively!Release
        <3> QED
            BY <3>4 DEF GroupStep, PairedExclusively!Next
    <2>2. CASE c \notin Current
        BY <1>1, <1>3, <2>2 DEF GroupStep, PairedExclusively!grantVars, EndedPairings
    <2> QED
        BY <2>1, <2>2
<1>6. RegistersInv'
    BY <1>1, SameControl
<1>7. LocatorsInv'
    <2>1. \A d \in Challenges : locator'[d] = "none" <=> completion'[d] = {}
        BY <1>1, <1>2, <1>4 DEF PairingInv, LocatorsInv
    <2>2. \A q \in Processes, d \in Challenges :
              d \in reg'[q].rows => <<"locator", d>> \in lapsed'
        BY <1>1 DEF control, PairingInv, LocatorsInv
    <2> QED
        BY <1>1, <1>3, <2>1, <2>2 DEF PairingInv, LocatorsInv
<1>8. \A s \in Sessions : GroupOf(s)' = GroupOf(s)
    BY <1>1 DEF GroupOf
<1>9. (\A s \in Sessions : Active(s)' <=> Active(s)) /\ HandlerStep
    BY <1>1, <1>8, HandlerQuiet DEF SameLapsed
<1>10. BindingsInv'
    BY <1>1, <1>8, <1>9 DEF PairingInv, BindingsInv
<1> QED
    BY <1>5, <1>6, <1>7, <1>9, <1>10 DEF PairingInv

-----------------------------------------------------------------------------
(* Grants and releases of a group's handler.                               *)

(* A new session has no binding yet.                                       *)
LEMMA RecordRevocationQuiet ==
    ASSUME PairingInv, TypeOK', NEW c \in Challenges, RecordRevocation(c)
    PROVE  PairingInv' /\ GroupStep /\ HandlerStep
<1>1. UNCHANGED <<completion, locator, session, binding, lapsed, control>>
    BY DEF RecordRevocation, stage2
<1>2. RegistersInv'
    BY <1>1, SameControl
<1>3. \A p \in Processes, d \in Challenges : d \in reg'[p].rows => <<"locator", d>> \in lapsed
    BY <1>1 DEF control, PairingInv, LocatorsInv
<1> QED
    BY <1>1, <1>2, <1>3, StoreQuiet

LEMMA BeginHandlerPairingQuiet ==
    ASSUME PairingInv, TypeOK', NEW p \in Processes, BeginHandlerPairing(p)
    PROVE  PairingInv' /\ GroupStep /\ HandlerStep
<1>1. UNCHANGED <<completion, locator, binding, lapsed>> /\ pc[p] = "begin"
    BY DEF BeginHandlerPairing, FreshSession, BoundBefore, stage1
<1>2. CASE Leave(p) /\ UNCHANGED session
    BY <1>1, <1>2, LeaveRegisters, StoreQuiet
<1>3. CASE \E s \in Sessions : /\ session[s] = {}
                               /\ session' = [session EXCEPT ![s] = {reg[p].id}]
                               /\ Goto(p, "observe", [NoRegisters EXCEPT !.id = s])
    <2>1. PICK s \in Sessions : /\ session[s] = {}
                                /\ session' = [session EXCEPT ![s] = {reg[p].id}]
                                /\ Goto(p, "observe", [NoRegisters EXCEPT !.id = s])
        BY <1>3
    <2> DEFINE regs == [NoRegisters EXCEPT !.id = s]
               c == reg[p].id
    <2>2. c \in Challenges /\ completion[c] # {}
        BY <1>1 DEF PairingInv, RegistersInv
    <2>3. regs \in RegisterType /\ regs.rows = {} /\ regs.id = s
        BY DEF NoRegisters, RegisterType
    <2>4. /\ pc'[p] = "observe" /\ reg'[p] = regs
          /\ \A q \in Processes \ {p} : pc'[q] = pc[q] /\ reg'[q] = reg[q]
        BY <2>1, <2>3, GotoTypes DEF PairingInv, Labels
    <2>5. \A t \in Sessions : session'[t] = IF t = s THEN {c} ELSE session[t]
        BY <2>1, <2>2 DEF PairingInv, TypeOK
    <2> HIDE DEF c, regs
    <2>6. RegistersInv'
        BY <1>1, <2>3, <2>4, <2>5 DEF PairingInv, RegistersInv
    <2>7. Current' = Current /\ GroupStep
        BY <1>1, GroupQuiet DEF SameLapsed
    <2>8. LocatorsInv'
        <3>1. \A q \in Processes, d \in Challenges :
                  d \in reg'[q].rows => <<"locator", d>> \in lapsed'
            BY <1>1, <2>3, <2>4 DEF PairingInv, LocatorsInv
        <3> QED
            BY <1>1, <2>7, <3>1 DEF PairingInv, LocatorsInv
    <2>9. binding[s] = "none"
        BY <2>1 DEF PairingInv, BindingsInv
    <2>10. \A t \in Sessions : binding[t] # "none" => GroupOf(t)' = GroupOf(t)
        BY <1>1, <2>5, <2>9 DEF GroupOf
    <2>11. (\A t \in Sessions : Active(t)' <=> Active(t)) /\ HandlerStep
        BY <1>1, <2>10, HandlerQuiet DEF SameLapsed
    <2>12. BindingsInv'
        <3>1. \A t \in Sessions :
                  session'[t] = {} \/ \E d \in Challenges : session'[t] = {d} /\ completion'[d] # {}
            BY <1>1, <2>2, <2>5 DEF PairingInv, BindingsInv
        <3>2. \A t \in Sessions : binding'[t] # "none" => session'[t] # {}
            BY <1>1, <2>5 DEF PairingInv, BindingsInv
        <3>3. \A t \in Sessions : Active(t) => GroupOf(t)' = GroupOf(t)
            BY <2>10 DEF Active
        <3>4. \A t, u \in Sessions : Active(t)' /\ Active(u)' /\ GroupOf(t)' = GroupOf(u)' => t = u
            BY <2>11, <3>3 DEF PairingInv, BindingsInv
        <3> QED
            BY <1>1, <3>1, <3>2, <3>4 DEF PairingInv, BindingsInv
    <2> QED
        BY <2>6, <2>7, <2>8, <2>11, <2>12 DEF PairingInv
<1> QED
    BY <1>2, <1>3 DEF BeginHandlerPairing, FreshSession, BoundBefore

(* A session that has been opened is for one group.                        *)
LEMMA OneGroup ==
    ASSUME PairingInv, NEW s \in Sessions, session[s] # {}
    PROVE  \E g \in Groups : GroupOf(s) = {g}
<1>1. PICK c \in Challenges : session[s] = {c} /\ completion[c] # {}
    BY DEF PairingInv, BindingsInv
<1> QED
    BY <1>1, GroupOfPairing DEF PairingInv, BindingsInv

(* Steps that change bindings only leave stage 1 and the sessions.         *)
LEMMA StageOneQuiet ==
    ASSUME PairingInv, RegistersInv', UNCHANGED <<completion, locator, session>>,
           SameLapsed("locator", Challenges),
           \A p \in Processes, c \in Challenges :
               c \in reg'[p].rows => <<"locator", c>> \in lapsed
    PROVE  /\ GroupStep /\ LocatorsInv'
           /\ \A s \in Sessions : GroupOf(s)' = GroupOf(s)
<1>1. Current' = Current /\ GroupStep
    BY GroupQuiet
<1>2. \A s \in Sessions : GroupOf(s)' = GroupOf(s)
    BY DEF GroupOf
<1>3. LocatorsInv'
    BY <1>1 DEF PairingInv, LocatorsInv, SameLapsed
<1> QED
    BY <1>1, <1>2, <1>3

(* A confirmation binds only a group that has no handler.                  *)
LEMMA ConfirmGrants ==
    ASSUME PairingInv, TypeOK', NEW p \in Processes, ConfirmHandlerBinding(p)
    PROVE  PairingInv' /\ GroupStep /\ HandlerStep
<1> DEFINE s == reg[p].id
<1>1. UNCHANGED <<completion, locator, session, lapsed>> /\ Leave(p)
    BY DEF ConfirmHandlerBinding, stage1
<1>2. s \in Sessions /\ session[s] # {}
    BY DEF ConfirmHandlerBinding, PairingInv, RegistersInv
<1>3. /\ RegistersInv'
      /\ \A q \in Processes, c \in Challenges : c \in reg'[q].rows => <<"locator", c>> \in lapsed
    BY <1>1, LeaveRegisters
<1>4. CASE ~Confirmable(s)
    <2>1. binding' = binding
        BY <1>2, <1>4 DEF ConfirmHandlerBinding, PairingInv, TypeOK
    <2> QED
        BY <1>1, <1>3, <2>1, StoreQuiet
<1>5. CASE Confirmable(s)
    <2>1. \A t \in Sessions : binding'[t] = IF t = s THEN "ACTIVE" ELSE binding[t]
        BY <1>2, <1>5 DEF ConfirmHandlerBinding, PairingInv, TypeOK
    <2>2. binding[s] = "none" /\ \A t \in Sessions : ~(Active(t) /\ GroupOf(t) = GroupOf(s))
        BY <1>5 DEF Confirmable
    <2> HIDE DEF s
    <2>3. /\ GroupStep /\ LocatorsInv'
          /\ \A t \in Sessions : GroupOf(t)' = GroupOf(t)
        BY <1>1, <1>3, StageOneQuiet DEF SameLapsed
    <2>4. <<"binding", s>> \notin lapsed
        BY <1>2, <2>2 DEF PairingInv, BindingsInv
    <2>5. \A t \in Sessions : Active(t)' <=> (Active(t) \/ t = s)
        BY <1>1, <2>1, <2>4 DEF Active
    <2>6. PICK g \in Groups : GroupOf(s) = {g}
        BY <1>2, OneGroup
    <2>7. HandlersOf(g) = {} /\ HandlersOf(g)' = {s}
        BY <1>2, <2>2, <2>3, <2>5, <2>6 DEF HandlersOf
    <2>8. \A h \in Groups \ {g} : HandlersOf(h)' = HandlersOf(h)
        BY <2>3, <2>5, <2>6 DEF HandlersOf
    <2>9. s \notin EndedBindings /\ \A h \in Groups : s \notin HandlersOf(h)
        BY <2>2 DEF EndedBindings, HandlersOf, Active
    <2>10. EndedBindings' = EndedBindings
        BY <1>2, <2>1, <2>2, <2>5 DEF EndedBindings
    <2>11. [h \in Groups |-> HandlersOf(h)'] = [[h \in Groups |-> HandlersOf(h)] EXCEPT ![g] = {s}]
        BY <2>7, <2>8
    <2>12. BoundExclusively!Grant(g, s)
        BY <2>7, <2>9, <2>10, <2>11 DEF BoundExclusively!Grant
    <2>13. HandlerStep
        BY <1>2, <2>12 DEF HandlerStep, BoundExclusively!Next
    <2>14. BindingsInv'
        <3>1. \A t \in Sessions : binding'[t] # "none" => session'[t] # {}
            BY <1>1, <1>2, <2>1 DEF PairingInv, BindingsInv
        <3>2. \A t \in Sessions : <<"binding", t>> \in lapsed' => binding'[t] # "none"
            BY <1>1, <2>1 DEF PairingInv, BindingsInv
        <3>3. \A t, u \in Sessions : Active(t)' /\ Active(u)' /\ GroupOf(t)' = GroupOf(u)' => t = u
            BY <2>2, <2>3, <2>5 DEF PairingInv, BindingsInv
        <3> QED
            BY <1>1, <3>1, <3>2, <3>3 DEF PairingInv, BindingsInv
    <2> QED
        BY <1>3, <2>3, <2>13, <2>14 DEF PairingInv
<1> QED
    BY <1>4, <1>5

(* An active binding that is no longer active has ended.                   *)
LEMMA BindingEnds ==
    ASSUME PairingInv, NEW s \in Sessions, Active(s), binding'[s] # "none",
           \A t \in Sessions \ {s} : binding'[t] = binding[t],
           \A t \in Sessions : Active(t)' <=> (Active(t) /\ t # s),
           \A t \in Sessions : GroupOf(t)' = GroupOf(t)
    PROVE  HandlerStep
<1>1. binding[s] # "none" /\ session[s] # {}
    BY DEF Active, PairingInv, BindingsInv
<1>2. PICK g \in Groups : GroupOf(s) = {g}
    BY <1>1, OneGroup
<1>3. s \in HandlersOf(g) /\ HandlersOf(g)' = {}
    <2>1. s \in HandlersOf(g)
        BY <1>2 DEF HandlersOf
    <2>2. \A t \in Sessions : Active(t) /\ GroupOf(t) = {g} => t = s
        BY <1>2 DEF PairingInv, BindingsInv
    <2> QED
        BY <2>1, <2>2 DEF HandlersOf
<1>4. \A h \in Groups \ {g} : HandlersOf(h)' = HandlersOf(h)
    BY <1>2 DEF HandlersOf
<1>5. EndedBindings' = EndedBindings \cup {s}
    BY <1>1 DEF EndedBindings
<1>6. [h \in Groups |-> HandlersOf(h)'] = [[h \in Groups |-> HandlersOf(h)] EXCEPT ![g] = {}]
    BY <1>3, <1>4
<1>7. BoundExclusively!Release(g, s)
    BY <1>3, <1>5, <1>6 DEF BoundExclusively!Release
<1> QED
    BY <1>7 DEF HandlerStep, BoundExclusively!Next

LEMMA RevokeHandlerReleases ==
    ASSUME PairingInv, TypeOK', NEW s \in Sessions, RevokeHandlerBinding(s)
    PROVE  PairingInv' /\ GroupStep /\ HandlerStep
<1>1. UNCHANGED <<completion, locator, session, lapsed, control>> /\ Active(s)
    BY DEF RevokeHandlerBinding, stage1
<1>2. \A t \in Sessions : binding'[t] = IF t = s THEN "REVOKED" ELSE binding[t]
    BY DEF RevokeHandlerBinding, PairingInv, TypeOK
<1>3. RegistersInv'
    BY <1>1, SameControl
<1>4. \A q \in Processes, c \in Challenges : c \in reg'[q].rows => <<"locator", c>> \in lapsed
    BY <1>1 DEF control, PairingInv, LocatorsInv
<1>5. /\ GroupStep /\ LocatorsInv'
      /\ \A t \in Sessions : GroupOf(t)' = GroupOf(t)
    BY <1>1, <1>3, <1>4, StageOneQuiet DEF SameLapsed
<1>6. \A t \in Sessions : Active(t)' <=> (Active(t) /\ t # s)
    BY <1>1, <1>2 DEF Active
<1>7. HandlerStep
    BY <1>1, <1>2, <1>5, <1>6, BindingEnds
<1>8. BindingsInv'
    <2>1. binding[s] # "none"
        BY <1>1 DEF Active
    <2>2. \A t \in Sessions : binding'[t] = "none" <=> binding[t] = "none"
        BY <1>2, <2>1
    <2>3. \A t, u \in Sessions : Active(t)' /\ Active(u)' /\ GroupOf(t)' = GroupOf(u)' => t = u
        BY <1>5, <1>6 DEF PairingInv, BindingsInv
    <2> QED
        BY <1>1, <2>2, <2>3 DEF PairingInv, BindingsInv
<1> QED
    BY <1>3, <1>5, <1>7, <1>8 DEF PairingInv

(* The end of a locator's or a binding's lifetime releases it.             *)
LEMMA PassReleases ==
    ASSUME PairingInv, TypeOK', NEW d \in Deadlines, Pass(d)
    PROVE  PairingInv' /\ GroupStep /\ HandlerStep
<1>1. /\ UNCHANGED <<completion, locator, session, binding, control>>
      /\ lapsed' = lapsed \cup {d}
    BY DEF Pass, stage1, stage2
<1>2. RegistersInv'
    BY <1>1, SameControl
<1>3. \A s \in Sessions : GroupOf(s)' = GroupOf(s)
    BY <1>1 DEF GroupOf
<1>4. \A q \in Processes, c \in Challenges : c \in reg'[q].rows => <<"locator", c>> \in lapsed
    BY <1>1 DEF control, PairingInv, LocatorsInv
<1>5. CASE d[1] \in {"challenge", "session"}
    <2>1. SameLapsed("locator", Challenges) /\ SameLapsed("binding", Sessions)
        BY <1>1, <1>5 DEF SameLapsed
    <2>2. GroupStep /\ LocatorsInv'
        BY <1>1, <1>2, <1>4, <2>1, StageOneQuiet
    <2>3. (\A s \in Sessions : Active(s)' <=> Active(s)) /\ HandlerStep
        BY <1>1, <1>3, <2>1, HandlerQuiet
    <2>4. BindingsInv'
        BY <1>1, <1>3, <2>1, <2>3 DEF PairingInv, BindingsInv, SameLapsed
    <2> QED
        BY <1>2, <2>2, <2>3, <2>4 DEF PairingInv
<1>6. CASE d \in {"locator"} \X Challenges
    <2>1. PICK c \in Challenges : d = <<"locator", c>>
        BY <1>6
    <2>2. completion[c] # {}
        BY <2>1 DEF Pass
    <2>3. Current' = Current \ {c}
        BY <1>1, <2>1 DEF Current
    <2>4. GroupStep
        <3>1. CASE c \in Current
            <4>1. Current = {c} /\ Current' = {}
                BY <2>3, <3>1 DEF PairingInv, LocatorsInv, Current
            <4>2. EndedPairings' = EndedPairings \cup {c}
                BY <1>1, <2>2, <4>1 DEF EndedPairings
            <4>3. [a \in {"application"} |-> Current']
                      = [[a \in {"application"} |-> Current] EXCEPT !["application"] = {}]
                BY <4>1
            <4>4. PairedExclusively!Release("application", c)
                BY <3>1, <4>2, <4>3 DEF PairedExclusively!Release
            <4> QED
                BY <4>4 DEF GroupStep, PairedExclusively!Next
        <3>2. CASE c \notin Current
            BY <1>1, <2>3, <3>2 DEF GroupStep, PairedExclusively!grantVars, EndedPairings
        <3> QED
            BY <3>1, <3>2
    <2>5. LocatorsInv'
        <3>1. \A e \in Challenges : <<"locator", e>> \in lapsed' => completion'[e] # {}
            BY <1>1, <2>1, <2>2 DEF PairingInv, LocatorsInv
        <3>2. \A q \in Processes, e \in Challenges :
                  e \in reg'[q].rows => <<"locator", e>> \in lapsed'
            BY <1>1, <1>4
        <3> QED
            BY <1>1, <2>3, <3>1, <3>2 DEF PairingInv, LocatorsInv
    <2>6. SameLapsed("binding", Sessions)
        BY <1>1, <2>1 DEF SameLapsed
    <2>7. (\A s \in Sessions : Active(s)' <=> Active(s)) /\ HandlerStep
        BY <1>1, <1>3, <2>6, HandlerQuiet
    <2>8. BindingsInv'
        BY <1>1, <1>3, <2>6, <2>7 DEF PairingInv, BindingsInv, SameLapsed
    <2> QED
        BY <1>2, <2>4, <2>5, <2>7, <2>8 DEF PairingInv
<1>7. CASE d \in {"binding"} \X Sessions
    <2>1. PICK s \in Sessions : d = <<"binding", s>>
        BY <1>7
    <2>2. binding[s] # "none"
        BY <2>1 DEF Pass
    <2>3. SameLapsed("locator", Challenges)
        BY <1>1, <2>1 DEF SameLapsed
    <2>4. GroupStep /\ LocatorsInv'
        BY <1>1, <1>2, <1>4, <2>3, StageOneQuiet
    <2>5. \A t \in Sessions : Active(t)' <=> (Active(t) /\ t # s)
        BY <1>1, <2>1 DEF Active
    <2>6. HandlerStep
        <3>1. CASE Active(s)
            BY <1>1, <1>3, <2>2, <2>5, <3>1, BindingEnds
        <3>2. CASE ~Active(s)
            <4>1. \A t \in Sessions : Active(t)' <=> Active(t)
                BY <2>5, <3>2
            <4>2. \A g \in Groups : HandlersOf(g)' = HandlersOf(g)
                BY <1>3, <4>1 DEF HandlersOf
            <4>3. EndedBindings' = EndedBindings
                BY <1>1, <4>1 DEF EndedBindings
            <4> QED
                BY <4>2, <4>3 DEF HandlerStep, BoundExclusively!grantVars
        <3> QED
            BY <3>1, <3>2
    <2>7. BindingsInv'
        <3>1. \A t \in Sessions : <<"binding", t>> \in lapsed' => binding'[t] # "none"
            BY <1>1, <2>1, <2>2 DEF PairingInv, BindingsInv
        <3>2. \A t, u \in Sessions : Active(t)' /\ Active(u)' /\ GroupOf(t)' = GroupOf(u)' => t = u
            BY <1>3, <2>5 DEF PairingInv, BindingsInv
        <3> QED
            BY <1>1, <3>1, <3>2 DEF PairingInv, BindingsInv
    <2> QED
        BY <1>2, <2>4, <2>6, <2>7 DEF PairingInv
<1> QED
    BY <1>5, <1>6, <1>7 DEF Deadlines

-----------------------------------------------------------------------------
(* The two refinements.                                                    *)

LEMMA PairingInvInit == Init => PairingInv
<1> SUFFICES ASSUME Init PROVE PairingInv
    OBVIOUS
<1>1. TypeOK
    BY TypeOKInit
<1>2. LocatorsInv
    BY DEF Init, LocatorsInv, Current, NoRegisters
<1>3. RegistersInv
    BY DEF Init, RegistersInv
<1>4. BindingsInv
    BY DEF Init, BindingsInv, Active
<1> QED
    BY <1>1, <1>2, <1>3, <1>4 DEF PairingInv

LEMMA PairingInvNext == PairingInv /\ [Next]_vars => PairingInv' /\ GroupStep /\ HandlerStep
<1> SUFFICES ASSUME PairingInv, [Next]_vars PROVE PairingInv' /\ GroupStep /\ HandlerStep
    OBVIOUS
<1>1. TypeOK'
    BY TypeOKNext DEF PairingInv
<1>2. CASE UNCHANGED vars
    <2>1. UNCHANGED <<completion, locator, session, binding, lapsed, control>>
        BY <1>2 DEF vars, stage1, stage2
    <2>2. RegistersInv'
        BY <2>1, SameControl
    <2>3. \A p \in Processes, c \in Challenges : c \in reg'[p].rows => <<"locator", c>> \in lapsed
        BY <2>1 DEF control, PairingInv, LocatorsInv
    <2> QED
        BY <1>1, <2>1, <2>2, <2>3, StoreQuiet
<1>3. CASE Next
    BY <1>1, <1>3, BeginPurgeQuiet, PurgeRowQuiet, RecordChallengeQuiet, AcceptGrants,
       ExpireChallengeQuiet, ResolveQuiet, BeginHandlerPairingQuiet, RecordObservationQuiet,
       ConfirmGrants, StopQuiet, RevokeReleases, RecordRevocationQuiet, RevokeHandlerReleases,
       PassReleases
    DEF Next
<1> QED
    BY <1>2, <1>3

LEMMA PairingInvAlways == Spec => []PairingInv
<1>1. PairingInv /\ [Next]_vars => PairingInv'
    BY PairingInvNext
<1> QED
    BY <1>1, PairingInvInit, PTL DEF Spec

(* For any number of processes, challenges, revocations and lapses, the    *)
(* application is paired with at most one group at a time, and a pairing   *)
(* that ended stays ended.                                                 *)
THEOREM PairingsRefineGrant == Spec => ImplementsGroupGrant
<1>1. Init => PairedExclusively!Init
    BY DEF Init, PairedExclusively!Init, Current, EndedPairings
<1>2. PairingInv /\ [Next]_vars => [PairedExclusively!Next]_(PairedExclusively!grantVars)
    BY PairingInvNext DEF GroupStep
<1> QED
    BY <1>1, <1>2, PairingInvAlways, PTL DEF Spec, ImplementsGroupGrant, PairedExclusively!Spec

(* For any number of sessions and pairings of the same group, a group has  *)
(* at most one handler at a time, and a binding that ended stays ended.    *)
THEOREM BindingsRefineGrant == Spec => ImplementsHandlerGrant
<1>1. Init => BoundExclusively!Init
    BY DEF Init, BoundExclusively!Init, HandlersOf, Active, EndedBindings
<1>2. PairingInv /\ [Next]_vars => [BoundExclusively!Next]_(BoundExclusively!grantVars)
    BY PairingInvNext DEF HandlerStep
<1> QED
    BY <1>1, <1>2, PairingInvAlways, PTL DEF Spec, ImplementsHandlerGrant, BoundExclusively!Spec
=============================================================================
