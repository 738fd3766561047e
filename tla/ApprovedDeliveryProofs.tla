------------------------ MODULE ApprovedDeliveryProofs ------------------------
(***************************************************************************)
(* Proofs about ApprovedDelivery for every set of workers and approvers,   *)
(* serialized or not, and for every value of the bounds: nothing is        *)
(* delivered twice, or without an approval, and the delivery implements    *)
(* EffectOnce.                                                             *)
(*                                                                         *)
(* The statements are about the tables, but a table row is written by a    *)
(* process that decided to write it some transactions ago.  The inductive  *)
(* invariant therefore says what each process knows at each label (Knows), *)
(* and that every checkpoint is backed by what must come before it         *)
(* (Backed).  What a process knows cannot become false while others move,  *)
(* because the tables only grow and a vote stands (Grows).                 *)
(*                                                                         *)
(* That the journal stays valid is for calls that follow one another and   *)
(* a grant that is not revoked; its invariant (CallInv) comes last.        *)
(***************************************************************************)
EXTENDS ApprovedDelivery, SequenceTheorems, TLAPS

-----------------------------------------------------------------------------
(* The inductive invariant.                                                *)

Returns       == {"idle", "sync", "process", "record"}
Continuations == {"idle", "dispatch", "finish", "decision", "deliver"}
Handless      == {"idle", "append", "optin", "rebuild", "finish", "grant", "evaluate",
                  "decide", "bind", "request", "enter"}
WithIntent    == {"mark", "process", "observe", "execute", "complete", "block",
                  "driven", "record", "reconciled"}

Granted(J) == \E i \in 1..Len(J) : J[i].kind = APPROVAL_GRANTED

(* A checkpoint that the persisted decision, the checkpoints before it and *)
(* the intent justify.                                                     *)
Backed(c, J, decision, intended) ==
    /\ c.kind = APPROVAL_GRANTED => Approved(decision)
    /\ c.state = DELIVERING => c.kind = APPROVAL_GRANTED \/ Granted(J)
    /\ c.state = NEEDS_RECONCILIATION => intended

(* What process p holds at a label: except where it has not read the       *)
(* journal yet, a checkpoint of it; and, while it waits to append a        *)
(* checkpoint, what it needs at the label it will go on at.                *)
Holds(p, label, r, n) ==
    /\ label \notin Handless => r.at >= 1 /\ r.at <= n
    /\ label = "vote" => p \in Approvers /\ r.vote \in Votes
    /\ r.ret \in Returns /\ r.cont \in Continuations

Knows(label, r, J, decision, intended, delivered) ==
    LET here == IF label = "append" THEN r.ret ELSE label IN
    /\ here = "intent" => Granted(J)
    /\ here \in WithIntent => intended
    /\ here = "observe" /\ r.status = "present" => delivered > 0
    /\ here = "complete" => delivered > 0
    /\ Backed(r.want, J, decision, intended)

StoreTypes ==
    /\ optIn \in BOOLEAN /\ grant \in BOOLEAN /\ revoked \in BOOLEAN
    /\ decisions \in Seq(Decisions)
    /\ binding \in BOOLEAN /\ request \in BOOLEAN
    /\ approval \in [vote : Votes, by : Approvers] \cup {NoApproval}
    /\ intent \in BOOLEAN /\ deliveries \in {0, 1}
    /\ observations \in SUBSET [phase : Phases, status : Statuses]
    /\ completion \in Phases \cup {"none"}
    /\ grantExpired \in BOOLEAN /\ bindingExpired \in BOOLEAN
    /\ sweeps \in Nat /\ submits \in Nat /\ crashes \in Nat /\ timeouts \in Nat
    /\ journal \in Seq(Checkpoints) /\ Len(journal) >= 2
    /\ events \in Seq([at : Nat, from : WORKFLOW_STATES, to : WORKFLOW_STATES])

Control ==
    /\ pc \in [Procs -> Labels] /\ reg \in [Procs -> Registers]
    /\ result \in [Procs -> Results]
    /\ \A p \in Procs : Holds(p, pc[p], reg[p], Len(journal))
    /\ \A p \in Procs : Knows(pc[p], reg[p], journal, approval, intent, deliveries)

(* The order of the tables: granted, intended, delivered, known complete.  *)
DeliveryOrder ==
    /\ \A i \in 1..Len(journal) : Backed(journal[i], journal, approval, intent)
    /\ intent => Granted(journal)
    /\ deliveries > 0 => intent
    /\ completion # "none" => deliveries > 0

IInv == StoreTypes /\ Control /\ DeliveryOrder

-----------------------------------------------------------------------------
(* What is known stays true.                                               *)

Grows ==
    /\ Len(journal) <= Len(journal')
    /\ Granted(journal) => Granted(journal')
    /\ Approved(approval) => Approved(approval')
    /\ intent => intent'
    /\ deliveries > 0 => deliveries' > 0

store == <<journal, approval, intent, deliveries>>

LEMMA QuietGrows ==
    ASSUME StoreTypes, UNCHANGED store PROVE Grows
<1>1. Len(journal) \in Nat
  BY DEF StoreTypes
<1> QED
  BY <1>1 DEF Grows, store

LEMMA BackedIsStable ==
    ASSUME Grows, NEW c, Backed(c, journal, approval, intent)
    PROVE  Backed(c, journal', approval', intent')
BY DEF Grows, Backed

LEMMA KnowledgeIsStable ==
    ASSUME Grows, NEW label, NEW r,
           Knows(label, r, journal, approval, intent, deliveries)
    PROVE  Knows(label, r, journal', approval', intent', deliveries')
<1>1. Backed(r.want, journal, approval, intent)
  BY DEF Knows
<1>2. Backed(r.want, journal', approval', intent')
  BY <1>1, BackedIsStable
<1> QED
  BY <1>2 DEF Knows, Grows

LEMMA HoldsIsStable ==
    ASSUME NEW p, NEW label, NEW r \in Registers, NEW n \in Nat, NEW m \in Nat, n <= m,
           Holds(p, label, r, n)
    PROVE  Holds(p, label, r, m)
<1>1. r.at \in Nat
  BY DEF Registers
<1> QED
  BY <1>1 DEF Holds

(* The empty registers hold and claim nothing.                             *)
LEMMA EmptyHanded ==
    ASSUME NEW p, NEW label \in {"idle", "finish"}, NEW n, NEW J, NEW decision,
           NEW intended, NEW delivered
    PROVE  /\ NoRegisters \in Registers
           /\ Holds(p, label, NoRegisters, n)
           /\ Knows(label, NoRegisters, J, decision, intended, delivered)
           /\ Backed(NoRegisters.want, J, decision, intended)
<1>1. NoRegisters.want \in Checkpoints
  BY DEF NoRegisters, Checkpoint, Checkpoints, Causes, WORKFLOW_STATES, RECEIVED
<1>2. NoRegisters \in Registers
  BY <1>1 DEF NoRegisters, Registers, Labels, WORKFLOW_STATES, RECEIVED, Decisions,
         NoDecision, Phases, Statuses
<1>3. Holds(p, label, NoRegisters, n)
  BY DEF Holds, NoRegisters, Handless, Returns, Continuations
<1>4. Backed(NoRegisters.want, J, decision, intended)
  BY DEF Backed, NoRegisters, Checkpoint, APPROVAL_GRANTED, RECEIVED, DELIVERING,
         NEEDS_RECONCILIATION
<1>5. Knows(label, NoRegisters, J, decision, intended, delivered)
  BY <1>4 DEF Knows, WithIntent
<1> QED
  BY <1>2, <1>3, <1>4, <1>5

-----------------------------------------------------------------------------
(* The control operators.                                                  *)

LEMMA GotoKeepsControl ==
    ASSUME Control, StoreTypes, StoreTypes', Grows,
           NEW p \in Procs, NEW label \in Labels, NEW r \in Registers,
           Holds(p, label, r, Len(journal')),
           Knows(label, r, journal', approval', intent', deliveries'),
           Goto(p, label, r)
    PROVE  Control'
<1>1. /\ pc' \in [Procs -> Labels] /\ reg' \in [Procs -> Registers]
      /\ result' \in [Procs -> Results]
  BY DEF Control, Goto
<1>2. Len(journal) \in Nat /\ Len(journal') \in Nat /\ Len(journal) <= Len(journal')
  BY DEF StoreTypes, Grows
<1>3. ASSUME NEW q \in Procs
      PROVE  /\ Holds(q, pc'[q], reg'[q], Len(journal'))
             /\ Knows(pc'[q], reg'[q], journal', approval', intent', deliveries')
  <2>1. CASE q = p
    <3>1. pc'[q] = label /\ reg'[q] = r
      BY <2>1 DEF Goto, Control
    <3> QED
      BY <2>1, <3>1
  <2>2. CASE q # p
    <3>1. pc'[q] = pc[q] /\ reg'[q] = reg[q] /\ reg[q] \in Registers
      BY <2>2 DEF Goto, Control
    <3>2. /\ Holds(q, pc[q], reg[q], Len(journal))
          /\ Knows(pc[q], reg[q], journal, approval, intent, deliveries)
      BY DEF Control
    <3> QED
      BY <3>1, <3>2, <1>2, HoldsIsStable, KnowledgeIsStable
  <2> QED
    BY <2>1, <2>2
<1> QED
  BY <1>1, <1>3 DEF Control

LEMMA StopKeepsControl ==
    ASSUME Control, StoreTypes, StoreTypes', Grows,
           NEW p \in Procs, NEW outcome \in Results, Stop(p, outcome)
    PROVE  Control'
<1>1. /\ pc' \in [Procs -> Labels] /\ reg' \in [Procs -> Registers]
      /\ result' \in [Procs -> Results]
  BY EmptyHanded DEF Control, Stop, Labels
<1>2. Len(journal) \in Nat /\ Len(journal') \in Nat /\ Len(journal) <= Len(journal')
  BY DEF StoreTypes, Grows
<1>3. ASSUME NEW q \in Procs
      PROVE  /\ Holds(q, pc'[q], reg'[q], Len(journal'))
             /\ Knows(pc'[q], reg'[q], journal', approval', intent', deliveries')
  <2>1. CASE q = p
    <3>1. pc'[q] = "idle" /\ reg'[q] = NoRegisters
      BY <2>1 DEF Stop, Control
    <3> QED
      BY <3>1, EmptyHanded
  <2>2. CASE q # p
    <3>1. pc'[q] = pc[q] /\ reg'[q] = reg[q] /\ reg[q] \in Registers
      BY <2>2 DEF Stop, Control
    <3>2. /\ Holds(q, pc[q], reg[q], Len(journal))
          /\ Knows(pc[q], reg[q], journal, approval, intent, deliveries)
      BY DEF Control
    <3> QED
      BY <3>1, <3>2, <1>2, HoldsIsStable, KnowledgeIsStable
  <2> QED
    BY <2>1, <2>2
<1> QED
  BY <1>1, <1>3 DEF Control

(* Registers that claim nothing but what their checkpoint needs.           *)
Carried(p, r) ==
    /\ r \in Registers /\ Holds(p, "idle", r, Len(journal))
    /\ Backed(r.want, journal, approval, intent)

LEMMA InHand ==
    ASSUME Control, NEW p \in Procs
    PROVE  Carried(p, reg[p])
<1>1. Backed(reg[p].want, journal, approval, intent)
  <2>1. Knows(pc[p], reg[p], journal, approval, intent, deliveries)
    BY DEF Control
  <2> QED
    BY <2>1 DEF Knows
<1>2. Holds(p, pc[p], reg[p], Len(journal)) /\ reg[p] \in Registers
  BY DEF Control
<1> QED
  BY <1>1, <1>2 DEF Carried, Holds, Handless

LEMMA EnsureCheckpointKeepsControl ==
    ASSUME Control, StoreTypes, StoreTypes', UNCHANGED store,
           NEW p \in Procs, NEW r, Carried(p, r),
           NEW want \in Checkpoints, Backed(want, journal, approval, intent),
           NEW ret \in {"sync", "process", "record"}, ret # "sync" => intent,
           NEW cont \in Continuations, EnsureCheckpoint(p, r, want, ret, cont)
    PROVE  Control'
<1> DEFINE prev == Len(journal)
<1>1. prev \in Nat /\ prev >= 2 /\ journal' = journal /\ approval' = approval
      /\ intent' = intent /\ deliveries' = deliveries
  BY DEF StoreTypes, store
<1>2. Grows
  BY QuietGrows
<1>3. ret \in Labels /\ cont \in Labels /\ "append" \in Labels /\ ret \in Returns
  BY DEF Returns, Continuations, Labels
<1>4. CASE Stop(p, "workflow_checkpoint_effect_overlap")
           \/ Stop(p, "workflow_checkpoint_predecessor_invalid")
  BY <1>2, <1>4, StopKeepsControl DEF Results
<1>5. CASE Goto(p, ret, [r EXCEPT !.at = prev, !.cont = cont])
  <2> DEFINE s == [r EXCEPT !.at = prev, !.cont = cont]
  <2>1. s \in Registers /\ s.at = prev /\ s.cont = cont /\ s.ret = r.ret /\ s.want = r.want
    BY <1>1, <1>3 DEF Carried, Registers
  <2> HIDE DEF s
  <2>2. Holds(p, ret, s, prev)
    BY <1>1, <2>1 DEF Carried, Holds
  <2>3. Knows(ret, s, journal, approval, intent, deliveries)
    BY <2>1 DEF Carried, Knows, WithIntent
  <2>4. Goto(p, ret, s)
    BY <1>5 DEF s
  <2> QED
    BY <1>1, <1>2, <1>3, <2>1, <2>2, <2>3, <2>4, GotoKeepsControl
<1>6. CASE Goto(p, "append", [r EXCEPT !.base = prev, !.want = want,
                                       !.ret = ret, !.cont = cont])
  <2> DEFINE s == [r EXCEPT !.base = prev, !.want = want, !.ret = ret, !.cont = cont]
  <2>1. s \in Registers /\ s.cont = cont /\ s.ret = ret /\ s.want = want
    BY <1>1, <1>3 DEF Carried, Registers
  <2> HIDE DEF s
  <2>2. Holds(p, "append", s, prev)
    BY <1>3, <2>1 DEF Holds, Handless
  <2>3. Knows("append", s, journal, approval, intent, deliveries)
    BY <2>1 DEF Knows, WithIntent
  <2>4. Goto(p, "append", s)
    BY <1>6 DEF s
  <2> QED
    BY <1>1, <1>2, <1>3, <2>1, <2>2, <2>3, <2>4, GotoKeepsControl
<1> QED
  BY <1>1, <1>4, <1>5, <1>6 DEF EnsureCheckpoint

LEMMA TransitionKeepsControl ==
    ASSUME Control, StoreTypes, StoreTypes', UNCHANGED store,
           NEW p \in Procs, NEW r, Carried(p, r),
           NEW kind \in WORKFLOW_TRANSITION_KINDS, NEW next \in WORKFLOW_STATES,
           NEW resume \in WORKFLOW_STATES, NEW cause \in Causes,
           NEW pending \in SUBSET {DELIVERY}, NEW completed \in SUBSET {DELIVERY},
           NEW cont \in Continuations,
           kind = APPROVAL_GRANTED => Approved(approval),
           next = DELIVERING => kind = APPROVAL_GRANTED \/ Granted(journal),
           next = NEEDS_RECONCILIATION => intent,
           Transition(p, r, kind, next, resume, cause, pending, completed, cont)
    PROVE  Control'
<1> DEFINE want == [state |-> next, resume |-> resume, pending |-> pending,
                    completed |-> completed, cause |-> cause, kind |-> kind]
<1>1. want \in Checkpoints
  BY DEF Checkpoints
<1>2. Backed(want, journal, approval, intent)
  BY DEF Backed
<1>3. CASE EnsureCheckpoint(p, r, want, "sync", cont)
  <2> HIDE DEF want
  <2> QED
    BY <1>1, <1>2, <1>3, EnsureCheckpointKeepsControl
<1>4. CASE Stop(p, "workflow_transition_not_allowed")
  BY <1>4, QuietGrows, StopKeepsControl DEF Results
<1> QED
  BY <1>3, <1>4 DEF Transition

(* A transition that carries the effects of the checkpoint in hand along.  *)
LEMMA KeepKeepsControl ==
    ASSUME Control, StoreTypes, StoreTypes', UNCHANGED store,
           NEW p \in Procs, NEW r, Carried(p, r), r.at \in 1..Len(journal),
           NEW kind \in WORKFLOW_TRANSITION_KINDS, NEW next \in WORKFLOW_STATES,
           NEW cause \in Causes, NEW cont \in Continuations,
           kind = APPROVAL_GRANTED => Approved(approval),
           next = DELIVERING => kind = APPROVAL_GRANTED \/ Granted(journal),
           next = NEEDS_RECONCILIATION => intent,
           Keep(p, r, kind, next, cause, cont)
    PROVE  Control'
<1>1. journal[r.at] \in Checkpoints
  BY DEF StoreTypes
<1>2. journal[r.at].pending \in SUBSET {DELIVERY} /\ journal[r.at].completed \in SUBSET {DELIVERY}
  BY <1>1 DEF Checkpoints
<1> QED
  BY <1>2, TransitionKeepsControl DEF Keep

(* A process that keeps its registers, or a field of them, and reads.      *)
LEMMA MoveKeepsControl ==
    ASSUME Control, StoreTypes, StoreTypes', Grows,
           NEW p \in Procs, NEW label \in Labels, NEW r \in Registers,
           NEW s, Carried(p, s), r.ret = s.ret, r.cont = s.cont, r.want = s.want,
           label \notin Handless => r.at >= 1 /\ r.at <= Len(journal'),
           label = "vote" => p \in Approvers /\ r.vote \in Votes,
           label # "append", label = "intent" => Granted(journal'),
           label \in WithIntent => intent',
           label = "observe" /\ r.status = "present" => deliveries' > 0,
           label = "complete" => deliveries' > 0,
           Goto(p, label, r)
    PROVE  Control'
<1>1. Holds(p, label, r, Len(journal'))
  BY DEF Holds, Carried
<1>2. Backed(r.want, journal', approval', intent')
  BY BackedIsStable DEF Carried
<1>3. Knows(label, r, journal', approval', intent', deliveries')
  BY <1>2 DEF Knows
<1> QED
  BY <1>1, <1>3, GotoKeepsControl

-----------------------------------------------------------------------------
(* Each action keeps the invariant: the journal and the Case events.       *)

LEMMA QuietOrder ==
    ASSUME DeliveryOrder, UNCHANGED <<store, completion>> PROVE DeliveryOrder'
BY DEF DeliveryOrder, store

LEMMA ReadsKeepStore ==
    ASSUME IInv, ReadsOnly
    PROVE  StoreTypes' /\ DeliveryOrder' /\ Grows /\ UNCHANGED store
<1>1. UNCHANGED <<store, completion>> /\ StoreTypes'
  BY DEF IInv, ReadsOnly, StoreTypes, policyVars, deliveryVars, clockVars, boundVars, store
<1> QED
  BY <1>1, QuietOrder, QuietGrows DEF IInv

LEMMA Labelled ==
    ASSUME Control, NEW p \in Procs
    PROVE  /\ pc[p] \notin Handless => reg[p].at \in 1..Len(journal)
           /\ reg[p] \in Registers
           /\ reg[p].ret \in Returns /\ reg[p].cont \in Continuations
           /\ pc[p] = "vote" => p \in Approvers /\ reg[p].vote \in Votes
           /\ pc[p] = "intent" => Granted(journal)
           /\ pc[p] \in WithIntent => intent
           /\ pc[p] = "append" /\ reg[p].ret \in WithIntent => intent
           /\ pc[p] = "observe" /\ reg[p].status = "present" => deliveries > 0
           /\ pc[p] = "complete" => deliveries > 0
           /\ Backed(reg[p].want, journal, approval, intent)
<1>1. /\ Holds(p, pc[p], reg[p], Len(journal)) /\ reg[p] \in Registers
      /\ Knows(pc[p], reg[p], journal, approval, intent, deliveries)
  BY DEF Control
<1>2. reg[p].at \in Nat
  BY <1>1 DEF Registers
<1>3. "append" \notin WithIntent
  BY DEF WithIntent
<1>4. Backed(reg[p].want, journal, approval, intent)
  BY <1>1 DEF Knows
<1>5. pc[p] \notin Handless => reg[p].at \in 1..Len(journal)
  BY <1>1, <1>2 DEF Holds
<1>6. pc[p] # "append" =>
         /\ pc[p] = "intent" => Granted(journal)
         /\ pc[p] \in WithIntent => intent
         /\ pc[p] = "observe" /\ reg[p].status = "present" => deliveries > 0
         /\ pc[p] = "complete" => deliveries > 0
  BY <1>1 DEF Knows
<1>7. pc[p] = "append" /\ reg[p].ret \in WithIntent => intent
  BY <1>1 DEF Knows
<1> QED
  BY <1>1, <1>3, <1>4, <1>5, <1>6, <1>7 DEF Holds

(* A checkpoint goes in: it was backed when it was built, and still is.    *)
LEMMA AppendCheckpointKeeps ==
    ASSUME IInv, NEW p \in Procs, AppendCheckpoint(p)
    PROVE  IInv'
<1> DEFINE want == reg[p].want
           s == [reg[p] EXCEPT !.at = Len(journal'), !.base = 0,
                               !.want = NoRegisters.want, !.ret = "idle"]
<1>1. /\ pc[p] = "append" /\ Goto(p, reg[p].ret, s)
      /\ journal' = IF Len(journal) > reg[p].base THEN journal ELSE Append(journal, want)
      /\ UNCHANGED <<events, policyVars, deliveryVars, clockVars, boundVars>>
  BY DEF AppendCheckpoint, AppendRow
<1>2. journal \in Seq(Checkpoints) /\ Len(journal) \in Nat /\ Len(journal) >= 2
  BY DEF IInv, StoreTypes
<1>3. reg[p] \in Registers /\ want \in Checkpoints
  BY DEF IInv, Control, Registers
<1>4. /\ journal' \in Seq(Checkpoints) /\ Len(journal') >= Len(journal) /\ Len(journal') \in Nat
      /\ \A i \in 1..Len(journal) : journal'[i] = journal[i]
      /\ \A i \in 1..Len(journal') : i > Len(journal) => journal'[i] = want
  <2> DEFINE C == Checkpoints
             appended == Append(journal, want)
  <2>1. journal \in Seq(C) /\ want \in C
    BY <1>2, <1>3
  <2> HIDE DEF C, want
  <2>2. /\ appended \in Seq(C) /\ Len(appended) = Len(journal) + 1
        /\ \A i \in 1..Len(journal) : appended[i] = journal[i]
        /\ appended[Len(journal) + 1] = want
    BY <2>1, <1>2
  <2>3. CASE journal' = journal
    BY <2>1, <2>3, <1>2 DEF C
  <2>4. CASE journal' = appended
    BY <2>2, <2>4, <1>2 DEF C
  <2> QED
    BY <1>1, <2>3, <2>4 DEF want
<1>5. Granted(journal) => Granted(journal')
  BY <1>2, <1>4 DEF Granted
<1>6. /\ approval' = approval /\ intent' = intent /\ deliveries' = deliveries
      /\ completion' = completion
  BY <1>1 DEF policyVars, deliveryVars
<1>7. Grows
  BY <1>4, <1>5, <1>6 DEF Grows
<1>8. StoreTypes'
  BY <1>1, <1>2, <1>4 DEF IInv, StoreTypes, policyVars, deliveryVars, clockVars, boundVars
<1>9. Backed(want, journal, approval, intent)
  BY Labelled DEF IInv
<1>10. DeliveryOrder'
  <2>1. ASSUME NEW i \in 1..Len(journal')
        PROVE  Backed(journal'[i], journal', approval', intent')
    <3>1. CASE i <= Len(journal)
      <4>1. journal'[i] = journal[i] /\ i \in 1..Len(journal)
        BY <1>2, <1>4, <3>1
      <4>2. Backed(journal[i], journal, approval, intent)
        BY <4>1 DEF IInv, DeliveryOrder
      <4> QED
        BY <4>1, <4>2, <1>7, BackedIsStable
    <3>2. CASE i > Len(journal)
      <4>1. journal'[i] = want
        BY <1>4, <3>2
      <4> HIDE DEF want
      <4> QED
        BY <4>1, <1>7, <1>9, BackedIsStable
    <3> QED
      BY <3>1, <3>2, <1>2, <1>4
  <2> QED
    BY <2>1, <1>5, <1>6 DEF IInv, DeliveryOrder
<1>11. Control'
  <2>1. /\ s \in Registers /\ s.at = Len(journal') /\ s.want = NoRegisters.want
        /\ s.ret = "idle" /\ s.cont = reg[p].cont
    BY <1>3, <1>4, EmptyHanded DEF Registers, Labels
  <2> HIDE DEF s
  <2>2. reg[p].ret \in Returns /\ reg[p].cont \in Continuations /\ "idle" \in Returns
        /\ (reg[p].ret \in WithIntent => intent)
    BY <1>1, Labelled DEF IInv, Returns
  <2>3. reg[p].ret \in Labels
    BY <1>3 DEF Registers
  <2>4. Holds(p, reg[p].ret, s, Len(journal'))
    BY <2>1, <2>2, <1>2, <1>4 DEF Holds, Returns
  <2>5. Backed(s.want, journal', approval', intent')
    BY <2>1, EmptyHanded
  <2>6. Knows(reg[p].ret, s, journal', approval', intent', deliveries')
    BY <2>2, <2>5, <1>6 DEF Knows, Returns
  <2>7. Control /\ StoreTypes
    BY DEF IInv
  <2> QED
    BY <1>1, <1>7, <1>8, <2>1, <2>3, <2>4, <2>6, <2>7, GotoKeepsControl
<1> QED
  BY <1>8, <1>10, <1>11 DEF IInv

LEMMA SyncCaseStateKeeps ==
    ASSUME IInv, NEW p \in Procs, SyncCaseState(p)
    PROVE  IInv'
<1> DEFINE back == [reg[p] EXCEPT !.cont = "idle"]
           go   == [reg[p] EXCEPT !.from = journal[Len(journal) - 1].state]
<1>1. ReadsOnly
  BY DEF SyncCaseState, ReadsOnly
<1>2. StoreTypes' /\ DeliveryOrder' /\ Grows /\ UNCHANGED store
  BY <1>1, ReadsKeepStore
<1>3. pc[p] = "sync" /\ Carried(p, reg[p]) /\ reg[p] \in Registers
      /\ reg[p].at \in 1..Len(journal) /\ reg[p].cont \in Continuations
  BY InHand, Labelled DEF SyncCaseState, ReadCaseState, IInv, Handless
<1>4. Len(journal) \in Nat /\ Len(journal) >= 2 /\ journal \in Seq(Checkpoints)
      /\ Len(journal') = Len(journal)
  BY <1>2 DEF IInv, StoreTypes, store
<1>5. "idle" \in Continuations /\ "idle" \in Labels /\ "event" \in Labels
      /\ reg[p].cont \in Labels
  BY <1>3 DEF Continuations, Labels
<1>6. CASE Goto(p, reg[p].cont, back)
  <2>1. back \in Registers /\ back.cont = "idle" /\ back.at = reg[p].at /\ back.want = reg[p].want
        /\ back.ret = reg[p].ret
    BY <1>3, <1>5 DEF Registers
  <2> HIDE DEF back
  <2>2. Holds(p, reg[p].cont, back, Len(journal'))
    BY <2>1, <1>3, <1>4, <1>5 DEF Carried, Holds, Continuations
  <2>3. Knows(reg[p].cont, back, journal', approval', intent', deliveries')
    <3>1. Backed(back.want, journal', approval', intent')
      BY <2>1, <1>2, <1>3, BackedIsStable DEF Carried
    <3> QED
      BY <3>1, <1>3 DEF Knows, Continuations, WithIntent
  <2> QED
    BY <1>2, <1>5, <2>1, <2>2, <2>3, <1>6, GotoKeepsControl DEF IInv
<1>7. CASE Goto(p, "event", go)
  <2>1. journal[Len(journal) - 1] \in Checkpoints
    BY <1>4
  <2>2. journal[Len(journal) - 1].state \in WORKFLOW_STATES
    BY <2>1 DEF Checkpoints
  <2>3. go \in Registers /\ go.cont = reg[p].cont /\ go.at = reg[p].at /\ go.want = reg[p].want
        /\ go.ret = reg[p].ret
    BY <1>3, <2>2 DEF Registers
  <2> HIDE DEF go
  <2> QED
    BY <1>2, <1>3, <1>4, <1>5, <2>3, <1>7, MoveKeepsControl DEF IInv, WithIntent
<1>8. CASE Stop(p, "workflow_transition_not_allowed")
  BY <1>2, <1>8, StopKeepsControl DEF IInv, Results
<1>9. \/ Goto(p, reg[p].cont, back)
      \/ Goto(p, "event", go)
      \/ Stop(p, "workflow_transition_not_allowed")
  BY Zenon DEF SyncCaseState, ReadCaseState
<1> QED
  BY <1>2, <1>6, <1>7, <1>8, <1>9 DEF IInv

LEMMA AppendWorkflowStateEventKeeps ==
    ASSUME IInv, NEW p \in Procs, AppendWorkflowStateEvent(p)
    PROVE  IInv'
<1> DEFINE Event == [at : Nat, from : WORKFLOW_STATES, to : WORKFLOW_STATES]
           e == [at |-> reg[p].at, from |-> reg[p].from, to |-> journal[reg[p].at].state]
           s == [reg[p] EXCEPT !.cont = "idle", !.from = RECEIVED]
<1>1. /\ UNCHANGED <<journal, policyVars, deliveryVars, clockVars, boundVars>>
      /\ pc[p] = "event"
      /\ events' = events \/ events' = Append(events, e)
      /\ \/ Goto(p, reg[p].cont, s)
         \/ Stop(p, "workflow_event_conflict")
         \/ Stop(p, "workflow_event_predecessor_mismatch")
  BY DEF AppendWorkflowStateEvent, AppendStateEvent
<1>2. Carried(p, reg[p]) /\ reg[p] \in Registers
      /\ reg[p].at \in 1..Len(journal) /\ reg[p].cont \in Continuations
  BY <1>1, InHand, Labelled DEF IInv, Handless
<1>3. e \in Event
  <2>1. journal[reg[p].at] \in Checkpoints
    BY <1>2 DEF IInv, StoreTypes
  <2>2. journal[reg[p].at].state \in WORKFLOW_STATES
    BY <2>1 DEF Checkpoints
  <2> QED
    BY <1>2, <2>2 DEF Registers
<1>4. events \in Seq(Event)
  BY DEF IInv, StoreTypes
<1>5. events' \in Seq(Event)
  <2> HIDE DEF Event, e
  <2> QED
    BY <1>1, <1>3, <1>4
<1>6. StoreTypes'
  BY <1>1, <1>5 DEF IInv, StoreTypes, policyVars, deliveryVars, clockVars, boundVars
<1>7. UNCHANGED <<store, completion>>
  BY <1>1 DEF store, policyVars, deliveryVars
<1>8. Grows /\ DeliveryOrder' /\ Len(journal') = Len(journal) /\ Len(journal) \in Nat
  BY <1>7, QuietGrows, QuietOrder DEF IInv, store, StoreTypes
<1>9. CASE Goto(p, reg[p].cont, s)
  <2>1. s \in Registers /\ s.cont = "idle" /\ s.at = reg[p].at /\ s.want = reg[p].want
        /\ s.ret = reg[p].ret
    BY <1>2 DEF Registers, Labels, WORKFLOW_STATES
  <2> HIDE DEF s
  <2>2. reg[p].cont \in Labels /\ "idle" \in Continuations
    BY <1>2 DEF Registers, Continuations
  <2>3. Holds(p, reg[p].cont, s, Len(journal'))
    BY <2>1, <2>2, <1>2, <1>8 DEF Carried, Holds, Continuations
  <2>4. Knows(reg[p].cont, s, journal', approval', intent', deliveries')
    <3>1. Backed(s.want, journal', approval', intent')
      BY <2>1, <1>2, <1>8, BackedIsStable DEF Carried
    <3> QED
      BY <3>1, <1>2 DEF Knows, Continuations, WithIntent
  <2> QED
    BY <1>6, <1>8, <1>9, <2>1, <2>2, <2>3, <2>4, GotoKeepsControl DEF IInv
<1>10. CASE Stop(p, "workflow_event_conflict") \/ Stop(p, "workflow_event_predecessor_mismatch")
  BY <1>6, <1>8, <1>10, StopKeepsControl DEF IInv, Results
<1> QED
  BY <1>1, <1>6, <1>8, <1>9, <1>10 DEF IInv

-----------------------------------------------------------------------------
(* Steps that leave the journal, the decision and the delivery alone: a    *)
(* process moves on with its registers, drops them, or ends its call.      *)

LEMMA MovesOn ==
    ASSUME IInv, StoreTypes', UNCHANGED <<store, completion>>,
           NEW p \in Procs, NEW label \in Labels, label # "append",
           NEW r \in Registers,
           r.ret = reg[p].ret, r.cont = reg[p].cont, r.want = reg[p].want,
           label \notin Handless => r.at >= 1 /\ r.at <= Len(journal),
           label = "vote" => p \in Approvers /\ r.vote \in Votes,
           label = "intent" => Granted(journal),
           label \in WithIntent => intent,
           label = "observe" /\ r.status = "present" => deliveries > 0,
           label = "complete" => deliveries > 0,
           Goto(p, label, r)
    PROVE  IInv'
<1>1. Grows /\ DeliveryOrder' /\ Carried(p, reg[p])
  BY QuietGrows, QuietOrder, InHand DEF IInv
<1>2. journal' = journal /\ intent' = intent /\ deliveries' = deliveries
  BY DEF store
<1>3. Control'
  BY <1>1, <1>2, MoveKeepsControl DEF IInv
<1> QED
  BY <1>1, <1>3 DEF IInv

LEMMA MovesOnAsIs ==
    ASSUME IInv, StoreTypes', UNCHANGED <<store, completion>>,
           NEW p \in Procs, NEW label \in Labels,
           label \notin {"append", "vote", "intent", "observe", "complete"},
           label \notin Handless => pc[p] \notin Handless,
           label \in WithIntent => intent,
           Goto(p, label, reg[p])
    PROVE  IInv'
<1>1. reg[p] \in Registers /\ (pc[p] \notin Handless => reg[p].at \in 1..Len(journal))
  BY Labelled DEF IInv
<1> QED
  BY <1>1, MovesOn

LEMMA GoesToFinish ==
    ASSUME IInv, StoreTypes', UNCHANGED <<store, completion>>,
           NEW p \in Procs, Goto(p, "finish", NoRegisters)
    PROVE  IInv'
<1>1. Grows /\ DeliveryOrder'
  BY QuietGrows, QuietOrder DEF IInv
<1>2. "finish" \in Labels
  BY DEF Labels
<1> QED
  BY <1>1, <1>2, EmptyHanded, GotoKeepsControl DEF IInv

LEMMA EndsCall ==
    ASSUME IInv, StoreTypes', UNCHANGED <<store, completion>>,
           NEW p \in Procs, NEW outcome \in Results, Stop(p, outcome)
    PROVE  IInv'
<1>1. Grows /\ DeliveryOrder'
  BY QuietGrows, QuietOrder DEF IInv
<1> QED
  BY <1>1, StopKeepsControl DEF IInv

LEMMA ReadsOnlyKeeps ==
    ASSUME IInv, ReadsOnly
    PROVE  StoreTypes' /\ UNCHANGED <<store, completion>>
BY ReadsKeepStore DEF ReadsOnly, deliveryVars

-----------------------------------------------------------------------------
(* Each action keeps the invariant: starting, ending and the environment.  *)

LEMMA BeginKeeps ==
    ASSUME IInv, NEW p \in Procs, Begin(p), NEW label \in {"optin", "grant", "rebuild"},
           pc' = [pc EXCEPT ![p] = label]
    PROVE  IInv'
<1>1. /\ UNCHANGED <<policyVars, deliveryVars, clockVars, submits, crashes, timeouts,
                     journal, events, reg>>
      /\ pc[p] = "idle" /\ result' = [result EXCEPT ![p] = "none"]
      /\ sweeps' = IF Serialized THEN sweeps ELSE sweeps + 1
  BY DEF Begin, MayStart
<1>2. StoreTypes' /\ UNCHANGED <<store, completion>>
  BY <1>1 DEF IInv, StoreTypes, policyVars, deliveryVars, clockVars, store
<1>3. Grows /\ DeliveryOrder'
  BY <1>2, QuietGrows, QuietOrder DEF IInv
<1>4. Carried(p, reg[p])
  BY InHand DEF IInv
<1>5. Holds(p, label, reg[p], Len(journal))
  BY <1>4 DEF Carried, Holds, Handless
<1>6. Knows(label, reg[p], journal, approval, intent, deliveries)
  BY <1>4 DEF Carried, Knows, WithIntent
<1>7. Control'
  <2>1. /\ pc' \in [Procs -> Labels] /\ reg' = reg /\ reg \in [Procs -> Registers]
        /\ result' \in [Procs -> Results]
    BY <1>1 DEF IInv, Control, Labels, Results
  <2>2. ASSUME NEW q \in Procs
        PROVE  /\ Holds(q, pc'[q], reg'[q], Len(journal'))
               /\ Knows(pc'[q], reg'[q], journal', approval', intent', deliveries')
    <3>1. journal' = journal /\ approval' = approval /\ intent' = intent
          /\ deliveries' = deliveries
      BY <1>2 DEF store
    <3>2. CASE q = p
      <4>1. pc'[q] = label /\ reg'[q] = reg[p]
        BY <2>1, <3>2 DEF IInv, Control
      <4> QED
        BY <3>1, <3>2, <4>1, <1>5, <1>6
    <3>3. CASE q # p
      <4>1. pc'[q] = pc[q] /\ reg'[q] = reg[q]
        BY <2>1, <3>3 DEF IInv, Control
      <4>2. /\ Holds(q, pc[q], reg[q], Len(journal))
            /\ Knows(pc[q], reg[q], journal, approval, intent, deliveries)
        BY DEF IInv, Control
      <4> QED
        BY <3>1, <4>1, <4>2
    <3> QED
      BY <3>2, <3>3
  <2> QED
    BY <2>1, <2>2 DEF Control
<1> QED
  BY <1>2, <1>3, <1>7 DEF IInv

LEMMA StartsKeep ==
    ASSUME IInv, NEW p \in Procs, ActivatePolicyApproval(p) \/ StartSweep(p)
    PROVE  IInv'
<1>1. CASE ActivatePolicyApproval(p)
  <2> DEFINE label == IF Latest.state = RESPONSE_READY THEN "optin" ELSE "grant"
  <2>1. Begin(p) /\ pc' = [pc EXCEPT ![p] = label]
    BY <1>1 DEF ActivatePolicyApproval
  <2>2. label \in {"optin", "grant", "rebuild"}
    OBVIOUS
  <2> HIDE DEF label
  <2> QED
    BY <2>1, <2>2, BeginKeeps
<1>2. CASE StartSweep(p)
  BY <1>2, BeginKeeps DEF StartSweep
<1> QED
  BY <1>1, <1>2

LEMMA CrashKeeps ==
    ASSUME IInv, NEW p \in Procs, Crash(p)
    PROVE  IInv'
<1>1. StoreTypes' /\ UNCHANGED <<store, completion>>
  BY DEF Crash, IInv, StoreTypes, policyVars, deliveryVars, clockVars, store
<1>2. Stop(p, "interrupted") /\ "interrupted" \in Results
  BY DEF Crash, Results
<1> QED
  BY <1>1, <1>2, EndsCall

LEMMA EnvironmentKeeps ==
    ASSUME IInv, RevokeFixtureGrant \/ Expire
    PROVE  IInv'
<1>1. StoreTypes' /\ UNCHANGED <<store, completion, pc, reg, result>>
  BY DEF RevokeFixtureGrant, Expire, IInv, StoreTypes, policyVars, deliveryVars, clockVars,
         boundVars, store
<1>2. DeliveryOrder'
  BY <1>1, QuietOrder DEF IInv
<1>3. Control'
  BY <1>1 DEF IInv, Control, store
<1> QED
  BY <1>1, <1>2, <1>3 DEF IInv

(* A call of submit_approval_decision holds the latest checkpoint.         *)
LEMMA SubmitApprovalDecisionKeeps ==
    ASSUME IInv, NEW p \in Procs, SubmitApprovalDecision(p)
    PROVE  IInv'
<1>1. StoreTypes' /\ UNCHANGED <<store, completion>>
  BY DEF SubmitApprovalDecision, IInv, StoreTypes, policyVars, deliveryVars, clockVars, store
<1>2. Grows /\ DeliveryOrder' /\ journal' = journal /\ Len(journal) \in Nat /\ Len(journal) >= 2
  BY <1>1, QuietGrows, QuietOrder DEF IInv, store, StoreTypes
<1> DEFINE r == [NoRegisters EXCEPT !.at = Len(journal)]
           v(vote) == [r EXCEPT !.vote = vote]
<1>3. /\ r \in Registers /\ r.at = Len(journal) /\ r.ret = NoRegisters.ret
      /\ r.cont = NoRegisters.cont /\ r.want = NoRegisters.want
  BY <1>2, EmptyHanded DEF Registers
<1>4. Carried(p, NoRegisters)
  BY EmptyHanded DEF Carried
<1>5. "decided" \in Labels /\ "vote" \in Labels
  BY DEF Labels
<1>6. ASSUME Goto(p, "decided", r) PROVE Control'
  <2> HIDE DEF r
  <2> QED
    BY <1>1, <1>2, <1>3, <1>4, <1>5, <1>6, MoveKeepsControl DEF IInv, WithIntent
<1>7. ASSUME NEW vote \in Votes, p \in Approvers, Goto(p, "vote", v(vote)) PROVE Control'
  <2>1. /\ v(vote) \in Registers /\ v(vote).at = Len(journal) /\ v(vote).ret = NoRegisters.ret
        /\ v(vote).cont = NoRegisters.cont /\ v(vote).want = NoRegisters.want
        /\ v(vote).vote = vote
    BY <1>3 DEF Registers
  <2> HIDE DEF v
  <2> QED
    BY <1>1, <1>2, <1>4, <1>5, <1>7, <2>1, MoveKeepsControl DEF IInv, WithIntent
<1>8. ASSUME NEW outcome \in {"approval_decision_conflict", "workflow_version_conflict",
                              "approval_decision_not_available"},
             Stop(p, outcome)
      PROVE  Control'
  BY <1>1, <1>2, <1>8, StopKeepsControl DEF IInv, Results
<1>9. /\ p \in Approvers
      /\ \E vote \in Votes :
            \/ Goto(p, "decided", r)
            \/ Goto(p, "vote", v(vote))
            \/ Stop(p, "approval_decision_conflict")
            \/ Stop(p, "workflow_version_conflict")
            \/ Stop(p, "approval_decision_not_available")
  BY Zenon DEF SubmitApprovalDecision
<1>10. Control'
  BY <1>6, <1>7, <1>8, <1>9
<1> QED
  BY <1>1, <1>2, <1>10 DEF IInv

-----------------------------------------------------------------------------
(* Each action keeps the invariant: the policy.                            *)

LEMMA LatestIsACheckpoint ==
    ASSUME IInv
    PROVE  /\ Len(journal) \in Nat /\ Len(journal) >= 2 /\ Len(journal) \in 1..Len(journal)
           /\ Latest \in Checkpoints /\ Backed(Latest, journal, approval, intent)
           /\ Pending \in SUBSET {DELIVERY} /\ Completed \in SUBSET {DELIVERY}
<1>1. Len(journal) \in Nat /\ Len(journal) >= 2 /\ journal \in Seq(Checkpoints)
  BY DEF IInv, StoreTypes
<1>2. Len(journal) \in 1..Len(journal)
  BY <1>1
<1>3. Latest \in Checkpoints /\ Backed(Latest, journal, approval, intent)
  BY <1>1, <1>2 DEF Latest, IInv, DeliveryOrder
<1> QED
  BY <1>1, <1>2, <1>3 DEF Pending, Completed

(* A process that takes the latest checkpoint in hand.                     *)
LEMMA TakesLatest ==
    ASSUME IInv, NEW p \in Procs
    PROVE  LET r == [reg[p] EXCEPT !.at = Len(journal)] IN
           /\ r \in Registers /\ r.at = Len(journal) /\ r.ret = reg[p].ret
           /\ r.cont = reg[p].cont /\ r.want = reg[p].want /\ r.status = reg[p].status
           /\ Carried(p, r) /\ journal[r.at] = Latest
<1> DEFINE r == [reg[p] EXCEPT !.at = Len(journal)]
<1>1. reg[p] \in Registers /\ Len(journal) \in Nat /\ Carried(p, reg[p])
  BY InHand, LatestIsACheckpoint DEF Carried, IInv
<1>2. /\ r \in Registers /\ r.at = Len(journal) /\ r.ret = reg[p].ret
      /\ r.cont = reg[p].cont /\ r.want = reg[p].want /\ r.status = reg[p].status
  BY <1>1 DEF Registers
<1> HIDE DEF r
<1>3. Carried(p, r)
  BY <1>1, <1>2 DEF Carried, Holds, Handless
<1> QED
  BY <1>2, <1>3 DEF r, Latest

LEMMA EnsuresKeep ==
    ASSUME IInv, NEW p \in Procs,
           \/ EnsurePolicyApprovalActivation(p) \/ EnsureFixtureGrant(p)
           \/ EnsureAuthorizationBinding(p) \/ EnsureApprovalRequest(p)
    PROVE  IInv'
<1>1. CASE EnsurePolicyApprovalActivation(p)
  <2>1. StoreTypes' /\ UNCHANGED <<store, completion>>
    BY <1>1 DEF EnsurePolicyApprovalActivation, IInv, StoreTypes, deliveryVars, clockVars,
                boundVars, store
  <2>2. Goto(p, "grant", reg[p]) /\ "grant" \in Labels /\ "grant" \in Handless
        /\ "grant" \notin WithIntent
    BY <1>1 DEF EnsurePolicyApprovalActivation, Labels, Handless, WithIntent
  <2> QED
    BY <2>1, <2>2, MovesOnAsIs
<1>2. CASE EnsureFixtureGrant(p)
  <2>1. StoreTypes' /\ UNCHANGED <<store, completion>>
    BY <1>2 DEF EnsureFixtureGrant, IInv, StoreTypes, deliveryVars, clockVars,
                boundVars, store
  <2>2. Goto(p, "evaluate", reg[p]) /\ "evaluate" \in Labels /\ "evaluate" \in Handless
        /\ "evaluate" \notin WithIntent
    BY <1>2 DEF EnsureFixtureGrant, Labels, Handless, WithIntent
  <2> QED
    BY <2>1, <2>2, MovesOnAsIs
<1>3. CASE EnsureAuthorizationBinding(p)
  <2>1. StoreTypes' /\ UNCHANGED <<store, completion>>
    BY <1>3 DEF EnsureAuthorizationBinding, IInv, StoreTypes, deliveryVars, clockVars,
                boundVars, store
  <2>2. Goto(p, "request", reg[p]) /\ "request" \in Labels /\ "request" \in Handless
        /\ "request" \notin WithIntent
    BY <1>3 DEF EnsureAuthorizationBinding, Labels, Handless, WithIntent
  <2> QED
    BY <2>1, <2>2, MovesOnAsIs
<1>4. CASE EnsureApprovalRequest(p)
  <2>1. StoreTypes' /\ UNCHANGED <<store, completion>>
    BY <1>4 DEF EnsureApprovalRequest, IInv, StoreTypes, deliveryVars, clockVars,
                boundVars, store
  <2>2. Goto(p, "enter", reg[p]) /\ "enter" \in Labels /\ "enter" \in Handless
        /\ "enter" \notin WithIntent
    BY <1>4 DEF EnsureApprovalRequest, Labels, Handless, WithIntent
  <2> QED
    BY <2>1, <2>2, MovesOnAsIs
<1> QED
  BY <1>1, <1>2, <1>3, <1>4

LEMMA RecoverWorkflowKeeps ==
    ASSUME IInv, NEW p \in Procs, RecoverWorkflow(p)
    PROVE  IInv'
<1> DEFINE s == [reg[p] EXCEPT !.at = Len(journal), !.cont = "dispatch"]
<1>1. ReadsOnly /\ (Goto(p, "sync", s) \/ Stop(p, "policy_journal_invalid"))
  BY DEF RecoverWorkflow
<1>2. StoreTypes' /\ UNCHANGED <<store, completion>>
  BY <1>1, ReadsOnlyKeeps
<1>3. CASE Goto(p, "sync", s)
  <2>1. Len(journal) \in Nat /\ Len(journal) >= 2 /\ reg[p] \in Registers
        /\ Carried(p, reg[p])
    BY LatestIsACheckpoint, InHand DEF Carried, IInv
  <2>2. s \in Registers /\ s.at = Len(journal) /\ s.cont = "dispatch"
        /\ s.ret = reg[p].ret /\ s.want = reg[p].want
    BY <2>1 DEF Registers, Labels
  <2> HIDE DEF s
  <2>3. Holds(p, "sync", s, Len(journal))
    BY <2>1, <2>2 DEF Carried, Holds, Continuations
  <2>4. Knows("sync", s, journal, approval, intent, deliveries)
    BY <2>1, <2>2 DEF Carried, Knows, WithIntent
  <2>5. Grows /\ DeliveryOrder' /\ "sync" \in Labels
    BY <1>2, QuietGrows, QuietOrder DEF IInv, Labels
  <2>6. Control'
    BY <1>2, <1>3, <2>2, <2>3, <2>4, <2>5, GotoKeepsControl DEF IInv, store
  <2> QED
    BY <1>2, <2>5, <2>6 DEF IInv
<1>4. CASE Stop(p, "policy_journal_invalid")
  BY <1>2, <1>4, EndsCall DEF Results
<1> QED
  BY <1>1, <1>3, <1>4

(* A workflow that needs reconciliation has an intent to reconcile.        *)
LEMMA DispatchKeeps ==
    ASSUME IInv, NEW p \in Procs, Dispatch(p)
    PROVE  IInv'
<1> DEFINE r == [reg[p] EXCEPT !.at = Len(journal)]
<1>1. ReadsOnly
  BY DEF Dispatch
<1>2. StoreTypes' /\ UNCHANGED <<store, completion>>
  BY <1>1, ReadsOnlyKeeps
<1>3. /\ r \in Registers /\ r.at = Len(journal) /\ r.ret = reg[p].ret
      /\ r.cont = reg[p].cont /\ r.want = reg[p].want
  BY TakesLatest
<1>4. Len(journal) >= 1 /\ Backed(Latest, journal, approval, intent)
      /\ Len(journal) <= Len(journal)
  BY LatestIsACheckpoint
<1>5. \/ Stop(p, "policy_journal_invalid")
      \/ Latest.state = NEEDS_RECONCILIATION /\ Goto(p, "process", r)
      \/ Goto(p, "grant", r)
      \/ Goto(p, "finish", NoRegisters)
  BY Zenon DEF Dispatch
<1> HIDE DEF r
<1>6. CASE Latest.state = NEEDS_RECONCILIATION /\ Goto(p, "process", r)
  <2>1. intent
    BY <1>4, <1>6 DEF Backed
  <2>2. "process" \in Labels
    BY DEF Labels
  <2> QED
    BY <1>2, <1>3, <1>4, <1>6, <2>1, <2>2, MovesOn
<1>7. CASE Goto(p, "grant", r)
  <2>1. "grant" \in Labels /\ "grant" \in Handless /\ "grant" \notin WithIntent
    BY DEF Labels, Handless, WithIntent
  <2> QED
    BY <1>2, <1>3, <1>7, <2>1, MovesOn
<1>8. CASE Goto(p, "finish", NoRegisters)
  BY <1>2, <1>8, GoesToFinish
<1>9. CASE Stop(p, "policy_journal_invalid")
  BY <1>2, <1>9, EndsCall DEF Results
<1> QED
  BY <1>5, <1>6, <1>7, <1>8, <1>9

LEMMA FinishKeeps ==
    ASSUME IInv, NEW p \in Procs, Finish(p)
    PROVE  IInv'
<1>1. ReadsOnly /\ (Stop(p, "ok") \/ Stop(p, "policy_journal_invalid"))
  BY DEF Finish
<1>2. StoreTypes' /\ UNCHANGED <<store, completion>>
  BY <1>1, ReadsOnlyKeeps
<1> QED
  BY <1>1, <1>2, EndsCall DEF Results

LEMMA EvaluateFixturePolicyKeeps ==
    ASSUME IInv, NEW p \in Procs, EvaluateFixturePolicy(p)
    PROVE  IInv'
<1> DEFINE row == [granted |-> ~revoked, allow |-> ~revoked /\ ~grantExpired]
           s == [reg[p] EXCEPT !.row = row]
<1>1. ReadsOnly /\ Goto(p, "decide", s)
  BY DEF EvaluateFixturePolicy
<1>2. StoreTypes' /\ UNCHANGED <<store, completion>>
  BY <1>1, ReadsOnlyKeeps
<1>3. row \in Decisions
  BY DEF Decisions
<1>4. reg[p] \in Registers
  BY DEF IInv, Control
<1>5. s \in Registers /\ s.ret = reg[p].ret /\ s.cont = reg[p].cont /\ s.want = reg[p].want
  <2> HIDE DEF row
  <2> QED
    BY <1>3, <1>4 DEF Registers
<1>6. "decide" \in Labels /\ "decide" \in Handless /\ "decide" \notin WithIntent
  BY DEF Labels, Handless, WithIntent
<1> HIDE DEF s
<1> QED
  BY <1>1, <1>2, <1>5, <1>6, MovesOn

LEMMA EnsurePolicyDecisionKeeps ==
    ASSUME IInv, NEW p \in Procs, EnsurePolicyDecision(p)
    PROVE  IInv'
<1> DEFINE s == [reg[p] EXCEPT !.row = NoDecision]
           row == reg[p].row
<1>1. /\ decisions' \in {decisions, Append(decisions, row)}
      /\ Goto(p, "bind", s) \/ Goto(p, "finish", s)
      /\ UNCHANGED <<optIn, grant, revoked, binding, request, approval, deliveryVars,
                     clockVars, boundVars, journal, events>>
  BY DEF EnsurePolicyDecision
<1>2. reg[p] \in Registers /\ row \in Decisions
  BY DEF IInv, Control, Registers
<1>3. decisions' \in Seq(Decisions)
  <2> DEFINE D == Decisions
  <2>1. decisions \in Seq(D) /\ row \in D
    BY <1>2 DEF IInv, StoreTypes
  <2> HIDE DEF D, row
  <2>2. decisions' \in Seq(D)
    BY <1>1, <2>1
  <2> QED
    BY <2>2 DEF D
<1>4. StoreTypes' /\ UNCHANGED <<store, completion>>
  BY <1>1, <1>3 DEF IInv, StoreTypes, deliveryVars, clockVars, boundVars, store
<1>5. s \in Registers /\ s.ret = reg[p].ret /\ s.cont = reg[p].cont /\ s.want = reg[p].want
  BY <1>2 DEF Registers, NoDecision, Decisions
<1>6. ASSUME NEW label \in {"bind", "finish"}
      PROVE  label \in Labels /\ label \in Handless /\ label \notin WithIntent
  BY DEF Labels, Handless, WithIntent
<1> HIDE DEF s
<1> QED
  BY <1>1, <1>4, <1>5, <1>6, MovesOn

LEMMA EnterApprovalKeeps ==
    ASSUME IInv, NEW p \in Procs, EnterApproval(p)
    PROVE  IInv'
<1> DEFINE r == [reg[p] EXCEPT !.at = Len(journal)]
<1>1. ReadsOnly
  BY DEF EnterApproval
<1>2. StoreTypes' /\ UNCHANGED <<store, completion>> /\ DeliveryOrder'
  BY <1>1, ReadsOnlyKeeps, ReadsKeepStore
<1>3. /\ r \in Registers /\ r.at = Len(journal) /\ r.ret = reg[p].ret
      /\ r.cont = reg[p].cont /\ r.want = reg[p].want /\ Carried(p, r)
  BY TakesLatest
<1>4. Len(journal) >= 1 /\ Len(journal) \in 1..Len(journal)
      /\ Len(journal) <= Len(journal)
  BY LatestIsACheckpoint
<1>5. \/ Keep(p, r, POLICY_APPROVAL_ACTIVATED, AWAITING_APPROVAL, "approval-request",
              "decision")
      \/ Goto(p, "decision", r) \/ Goto(p, "deliver", r)
      \/ Goto(p, "finish", NoRegisters)
  BY DEF EnterApproval
<1> HIDE DEF r
<1>6. CASE Keep(p, r, POLICY_APPROVAL_ACTIVATED, AWAITING_APPROVAL, "approval-request",
                "decision")
  <2>1. /\ POLICY_APPROVAL_ACTIVATED \in WORKFLOW_TRANSITION_KINDS
        /\ AWAITING_APPROVAL \in WORKFLOW_STATES /\ "approval-request" \in Causes
        /\ "decision" \in Continuations
        /\ POLICY_APPROVAL_ACTIVATED # APPROVAL_GRANTED
        /\ AWAITING_APPROVAL # DELIVERING /\ AWAITING_APPROVAL # NEEDS_RECONCILIATION
    BY DEF WORKFLOW_TRANSITION_KINDS, WORKFLOW_STATES, Causes, Continuations,
           POLICY_APPROVAL_ACTIVATED, APPROVAL_GRANTED, AWAITING_APPROVAL, DELIVERING,
           NEEDS_RECONCILIATION
  <2>2. Control'
    BY <1>2, <1>3, <1>4, <1>6, <2>1, KeepKeepsControl DEF IInv
  <2> QED
    BY <1>2, <2>2 DEF IInv
<1>7. ASSUME NEW label \in {"decision", "deliver"}, Goto(p, label, r) PROVE IInv'
  <2>1. label \in Labels /\ label \notin WithIntent
    BY DEF Labels, WithIntent
  <2> QED
    BY <1>2, <1>3, <1>4, <1>7, <2>1, MovesOn
<1>8. CASE Goto(p, "finish", NoRegisters)
  BY <1>2, <1>8, GoesToFinish
<1> QED
  BY <1>5, <1>6, <1>7, <1>8

LEMMA ReadDecisionKeeps ==
    ASSUME IInv, NEW p \in Procs, ReadDecision(p)
    PROVE  IInv'
<1>1. ReadsOnly /\ pc[p] = "decision"
      /\ (Goto(p, "finish", NoRegisters) \/ Goto(p, "decided", reg[p]))
  BY DEF ReadDecision
<1>2. StoreTypes' /\ UNCHANGED <<store, completion>>
  BY <1>1, ReadsOnlyKeeps
<1>3. "decided" \in Labels /\ "decided" \notin WithIntent /\ "decision" \notin Handless
  BY DEF Labels, WithIntent, Handless
<1> QED
  BY <1>1, <1>2, <1>3, MovesOnAsIs, GoesToFinish

(* The vote that became the decision stands.                               *)
LEMMA PersistApprovalDecisionKeeps ==
    ASSUME IInv, NEW p \in Procs, PersistApprovalDecision(p)
    PROVE  IInv'
<1> DEFINE s == [reg[p] EXCEPT !.vote = "none"]
<1>1. pc[p] = "vote" /\ p \in Approvers /\ reg[p].vote \in Votes /\ reg[p] \in Registers
      /\ Carried(p, reg[p]) /\ reg[p].at \in 1..Len(journal)
  BY Labelled, InHand DEF PersistApprovalDecision, IInv, Handless
<1>2. UNCHANGED <<optIn, grant, revoked, decisions, binding, request, deliveryVars,
                  clockVars, boundVars, journal, events>>
  BY DEF PersistApprovalDecision
<1>3. CASE /\ approval = NoApproval /\ approval' = [vote |-> reg[p].vote, by |-> p]
           /\ Goto(p, "decided", s)
  <2>1. StoreTypes'
    BY <1>1, <1>2, <1>3 DEF IInv, StoreTypes, deliveryVars, clockVars, boundVars
  <2>2. ~Approved(approval)
    BY <1>3 DEF Approved, NoApproval
  <2>3. Grows /\ Len(journal') = Len(journal)
    <3>1. Len(journal) \in Nat
      BY DEF IInv, StoreTypes
    <3> QED
      BY <1>2, <2>2, <3>1 DEF Grows, deliveryVars
  <2>4. DeliveryOrder'
    <3>1. journal' = journal /\ intent' = intent /\ deliveries' = deliveries
          /\ completion' = completion
      BY <1>2 DEF deliveryVars
    <3>2. \A i \in 1..Len(journal) : Backed(journal[i], journal', approval', intent')
      BY <2>3, BackedIsStable DEF IInv, DeliveryOrder
    <3> QED
      BY <3>1, <3>2 DEF IInv, DeliveryOrder
  <2>5. s \in Registers /\ s.ret = reg[p].ret /\ s.cont = reg[p].cont
        /\ s.want = reg[p].want /\ s.at = reg[p].at
    BY <1>1 DEF Registers
  <2>6. "decided" \in Labels /\ "decided" \notin WithIntent
    BY DEF Labels, WithIntent
  <2> HIDE DEF s
  <2>7. Control'
    BY <1>1, <1>3, <2>1, <2>3, <2>5, <2>6, MoveKeepsControl DEF IInv
  <2> QED
    BY <2>1, <2>4, <2>7 DEF IInv
<1>4. CASE UNCHANGED approval /\ Stop(p, "approval_decision_conflict")
  <2>1. StoreTypes' /\ UNCHANGED <<store, completion>>
    BY <1>2, <1>4 DEF IInv, StoreTypes, deliveryVars, clockVars, boundVars, store
  <2> QED
    BY <1>4, <2>1, EndsCall DEF Results
<1>5. \/ /\ approval = NoApproval /\ approval' = [vote |-> reg[p].vote, by |-> p]
         /\ Goto(p, "decided", s)
      \/ UNCHANGED approval /\ Stop(p, "approval_decision_conflict")
  BY DEF PersistApprovalDecision
<1> QED
  BY <1>3, <1>4, <1>5

(* The gate: a granting checkpoint is built on an approval only.           *)
LEMMA ApplyDecisionKeeps ==
    ASSUME IInv, NEW p \in Procs, ApplyDecision(p)
    PROVE  IInv'
<1>1. ReadsOnly
  BY DEF ApplyDecision
<1>2. StoreTypes' /\ UNCHANGED <<store, completion>> /\ DeliveryOrder'
  BY <1>1, ReadsOnlyKeeps, ReadsKeepStore
<1>3. Carried(p, reg[p]) /\ reg[p].at \in 1..Len(journal)
  BY Labelled, InHand DEF ApplyDecision, IInv, Handless
<1>4. /\ {AUTHORIZATION_DENIED, APPROVAL_GRANTED} \subseteq WORKFLOW_TRANSITION_KINDS
      /\ {WAITING_FOR_OPERATOR, DELIVERING} \subseteq WORKFLOW_STATES
      /\ {"approval", "approval-invalid"} \subseteq Causes
      /\ {"finish", "deliver"} \subseteq Continuations
      /\ AUTHORIZATION_DENIED # APPROVAL_GRANTED
      /\ WAITING_FOR_OPERATOR # DELIVERING /\ WAITING_FOR_OPERATOR # NEEDS_RECONCILIATION
      /\ DELIVERING # NEEDS_RECONCILIATION
  BY DEF WORKFLOW_TRANSITION_KINDS, WORKFLOW_STATES, Causes, Continuations,
         AUTHORIZATION_DENIED, APPROVAL_GRANTED, WAITING_FOR_OPERATOR, DELIVERING,
         NEEDS_RECONCILIATION
<1>5. CASE Goto(p, "finish", NoRegisters)
  BY <1>2, <1>5, GoesToFinish
<1>6. ASSUME NEW cause \in {"approval", "approval-invalid"},
             Keep(p, reg[p], AUTHORIZATION_DENIED, WAITING_FOR_OPERATOR, cause, "finish")
      PROVE  IInv'
  <2>1. Control'
    BY <1>2, <1>3, <1>4, <1>6, KeepKeepsControl DEF IInv
  <2> QED
    BY <1>2, <2>1 DEF IInv
<1>7. CASE /\ Approved(approval)
           /\ Keep(p, reg[p], APPROVAL_GRANTED, DELIVERING, "approval", "deliver")
  <2>1. Control'
    BY <1>2, <1>3, <1>4, <1>7, KeepKeepsControl DEF IInv
  <2> QED
    BY <1>2, <2>1 DEF IInv
<1>8. \/ Goto(p, "finish", NoRegisters)
      \/ Keep(p, reg[p], AUTHORIZATION_DENIED, WAITING_FOR_OPERATOR, "approval", "finish")
      \/ Keep(p, reg[p], AUTHORIZATION_DENIED, WAITING_FOR_OPERATOR, "approval-invalid",
              "finish")
      \/ /\ Approved(approval)
         /\ Keep(p, reg[p], APPROVAL_GRANTED, DELIVERING, "approval", "deliver")
  BY DEF ApplyDecision
<1> QED
  BY <1>5, <1>6, <1>7, <1>8

-----------------------------------------------------------------------------
(* Each action keeps the invariant: the delivery.                          *)

(* The intent is written on a checkpoint in state DELIVERING, which is     *)
(* backed by a granting one.                                               *)
LEMMA RecoverDeliveryKeeps ==
    ASSUME IInv, NEW p \in Procs, RecoverDelivery(p)
    PROVE  IInv'
<1> DEFINE s == [reg[p] EXCEPT !.driving = TRUE]
           denied == Transition(p, reg[p], AUTHORIZATION_DENIED, WAITING_FOR_OPERATOR,
                                WAITING_FOR_OPERATOR, "authorization-denied", Pending,
                                Completed, "finish")
<1>1. ReadsOnly
  BY DEF RecoverDelivery
<1>2. StoreTypes' /\ UNCHANGED <<store, completion>> /\ DeliveryOrder'
  BY <1>1, ReadsOnlyKeeps, ReadsKeepStore
<1>3. Carried(p, reg[p]) /\ reg[p].at \in 1..Len(journal) /\ reg[p] \in Registers
  BY Labelled, InHand DEF RecoverDelivery, IInv, Handless
<1>4. \/ Goto(p, "finish", NoRegisters)
      \/ journal[reg[p].at].state = DELIVERING /\ Goto(p, "intent", s)
      \/ denied
  BY DEF RecoverDelivery
<1>5. CASE Goto(p, "finish", NoRegisters)
  BY <1>2, <1>5, GoesToFinish
<1>6. CASE journal[reg[p].at].state = DELIVERING /\ Goto(p, "intent", s)
  <2>1. Granted(journal)
    <3>1. Backed(journal[reg[p].at], journal, approval, intent)
      BY <1>3 DEF IInv, DeliveryOrder
    <3> QED
      BY <1>3, <1>6, <3>1 DEF Backed, Granted
  <2>2. s \in Registers /\ s.ret = reg[p].ret /\ s.cont = reg[p].cont
        /\ s.want = reg[p].want /\ s.at = reg[p].at
    BY <1>3 DEF Registers
  <2>3. "intent" \in Labels /\ "intent" \notin WithIntent
    BY DEF Labels, WithIntent
  <2> HIDE DEF s
  <2> QED
    BY <1>2, <1>3, <1>6, <2>1, <2>2, <2>3, MovesOn
<1>7. CASE denied
  <2>1. /\ AUTHORIZATION_DENIED \in WORKFLOW_TRANSITION_KINDS
        /\ WAITING_FOR_OPERATOR \in WORKFLOW_STATES /\ "authorization-denied" \in Causes
        /\ "finish" \in Continuations /\ AUTHORIZATION_DENIED # APPROVAL_GRANTED
        /\ WAITING_FOR_OPERATOR # DELIVERING /\ WAITING_FOR_OPERATOR # NEEDS_RECONCILIATION
    BY DEF WORKFLOW_TRANSITION_KINDS, WORKFLOW_STATES, Causes, Continuations,
           AUTHORIZATION_DENIED, APPROVAL_GRANTED, WAITING_FOR_OPERATOR, DELIVERING,
           NEEDS_RECONCILIATION
  <2>2. Control'
    BY <1>2, <1>3, <1>7, <2>1, LatestIsACheckpoint, TransitionKeepsControl DEF IInv
  <2> QED
    BY <1>2, <2>2 DEF IInv
<1> HIDE DEF s, denied
<1> QED
  BY <1>4, <1>5, <1>6, <1>7

LEMMA EnsureDeliveryIntentKeeps ==
    ASSUME IInv, NEW p \in Procs, EnsureDeliveryIntent(p)
    PROVE  IInv'
<1>1. /\ pc[p] = "intent" /\ intent' = TRUE /\ Goto(p, "mark", reg[p])
      /\ UNCHANGED <<policyVars, deliveries, observations, completion, clockVars, boundVars,
                     journal, events>>
  BY DEF EnsureDeliveryIntent
<1>2. Granted(journal) /\ Carried(p, reg[p]) /\ reg[p] \in Registers
      /\ reg[p].at \in 1..Len(journal)
  BY <1>1, Labelled, InHand DEF IInv, Handless
<1>3. StoreTypes'
  BY <1>1 DEF IInv, StoreTypes, policyVars, clockVars, boundVars
<1>4. journal' = journal /\ approval' = approval /\ deliveries' = deliveries
      /\ completion' = completion /\ Len(journal) \in Nat
  BY <1>1 DEF policyVars, IInv, StoreTypes
<1>5. Grows
  BY <1>1, <1>4 DEF Grows
<1>6. DeliveryOrder'
  <2>1. \A i \in 1..Len(journal) : Backed(journal[i], journal', approval', intent')
    BY <1>5, BackedIsStable DEF IInv, DeliveryOrder
  <2> QED
    BY <1>1, <1>2, <1>4, <2>1 DEF IInv, DeliveryOrder
<1>7. "mark" \in Labels
  BY DEF Labels
<1>8. Control'
  BY <1>1, <1>2, <1>3, <1>4, <1>5, <1>7, MoveKeepsControl DEF IInv
<1> QED
  BY <1>3, <1>6, <1>8 DEF IInv

LEMMA MarkDeliveryKeeps ==
    ASSUME IInv, NEW p \in Procs, ReadsOnly, intent,
           NEW cause \in Causes, NEW ret \in {"process", "record"},
           MarkDelivery(p, cause, ret)
    PROVE  IInv'
<1> DEFINE want == [Checkpoint(DELIVERING, cause, "none") EXCEPT !.pending = Pending,
                                                                 !.completed = Completed]
<1>1. StoreTypes' /\ UNCHANGED <<store, completion>> /\ DeliveryOrder'
  BY ReadsOnlyKeeps, ReadsKeepStore
<1>2. Checkpoint(DELIVERING, cause, "none") \in Checkpoints
  BY DEF Checkpoint, Checkpoints, WORKFLOW_STATES
<1>3. want \in Checkpoints /\ want.state = DELIVERING /\ want.kind = "none"
  <2>1. /\ Checkpoint(DELIVERING, cause, "none").state = DELIVERING
        /\ Checkpoint(DELIVERING, cause, "none").kind = "none"
    BY DEF Checkpoint
  <2> QED
    BY <1>2, <2>1, LatestIsACheckpoint DEF Checkpoints
<1>4. Granted(journal)
  BY DEF IInv, DeliveryOrder
<1>5. Backed(want, journal, approval, intent)
  BY <1>3, <1>4 DEF Backed, APPROVAL_GRANTED, DELIVERING, NEEDS_RECONCILIATION
<1>6. EnsureCheckpoint(p, reg[p], want, ret, "idle")
  BY DEF MarkDelivery
<1>7. Carried(p, reg[p]) /\ "idle" \in Continuations
  BY InHand DEF IInv, Continuations
<1> HIDE DEF want
<1>8. Control'
  BY <1>1, <1>3, <1>5, <1>6, <1>7, EnsureCheckpointKeepsControl DEF IInv
<1> QED
  BY <1>1, <1>8 DEF IInv

LEMMA MarksKeep ==
    ASSUME IInv, NEW p \in Procs, MarkIntent(p) \/ MarkCompletion(p)
    PROVE  IInv'
<1>1. "delivery-intent" \in Causes /\ "delivery-completion" \in Causes
  BY DEF Causes
<1>2. ReadsOnly /\ pc[p] \in WithIntent
  BY DEF MarkIntent, MarkCompletion, WithIntent
<1>3. intent
  BY <1>2, Labelled DEF IInv
<1> QED
  BY <1>1, <1>2, <1>3, MarkDeliveryKeeps DEF MarkIntent, MarkCompletion

(* What is found present was delivered; what is not known is not sent.     *)
LEMMA ProcessDeliveryIntentKeeps ==
    ASSUME IInv, NEW p \in Procs, ProcessDeliveryIntent(p)
    PROVE  IInv'
<1> DEFINE found == [reg[p] EXCEPT !.status = Reconciled, !.phase = "reconcile"]
           lost  == [reg[p] EXCEPT !.status = "unknown", !.phase = "reconcile-timeout"]
           after == AfterProcess(reg[p])
<1>1. /\ pc[p] = "process"
      /\ UNCHANGED <<policyVars, deliveryVars, clockVars, sweeps, submits, crashes,
                     journal, events>>
      /\ timeouts' = timeouts \/ timeouts' = timeouts + 1
      /\ Goto(p, after, reg[p]) \/ Goto(p, "observe", found) \/ Goto(p, "observe", lost)
  BY DEF ProcessDeliveryIntent
<1>2. StoreTypes' /\ UNCHANGED <<store, completion>>
  BY <1>1 DEF IInv, StoreTypes, policyVars, deliveryVars, clockVars, store
<1>3. "process" \in WithIntent /\ "process" \notin Handless
  BY DEF WithIntent, Handless
<1>4. intent /\ reg[p] \in Registers /\ reg[p].at \in 1..Len(journal)
  BY <1>1, <1>3, Labelled DEF IInv
<1>5. Reconciled \in Statuses /\ (Reconciled = "present" => deliveries > 0)
  BY DEF Reconciled, Statuses, IInv, StoreTypes
<1>6. /\ found \in Registers /\ found.ret = reg[p].ret /\ found.cont = reg[p].cont
      /\ found.want = reg[p].want /\ found.at = reg[p].at
      /\ (found.status = "present" => deliveries > 0)
  BY <1>4, <1>5 DEF Registers, Phases
<1>7. /\ lost \in Registers /\ lost.ret = reg[p].ret /\ lost.cont = reg[p].cont
      /\ lost.want = reg[p].want /\ lost.at = reg[p].at /\ lost.status # "present"
  BY <1>4 DEF Registers, Phases, Statuses
<1>8. "observe" \in Labels /\ after \in Labels
      /\ after \notin {"append", "vote", "intent", "observe", "complete"}
  BY DEF AfterProcess, Labels
<1> HIDE DEF found, lost, after
<1> QED
  BY <1>1, <1>2, <1>3, <1>4, <1>6, <1>7, <1>8, MovesOn, MovesOnAsIs

LEMMA RecordDeliveryObservationKeeps ==
    ASSUME IInv, NEW p \in Procs, RecordDeliveryObservation(p)
    PROVE  IInv'
<1> DEFINE after == AfterObservation(reg[p])
           seen  == [phase |-> reg[p].phase, status |-> reg[p].status]
<1>1. /\ pc[p] = "observe" /\ Goto(p, after, reg[p])
      /\ observations' = observations \cup {seen}
      /\ UNCHANGED <<policyVars, intent, deliveries, completion, clockVars, boundVars,
                     journal, events>>
  BY DEF RecordDeliveryObservation
<1>2. intent /\ reg[p] \in Registers /\ reg[p].at \in 1..Len(journal)
      /\ (reg[p].status = "present" => deliveries > 0)
  BY <1>1, Labelled DEF IInv, WithIntent, Handless
<1>3. seen \in [phase : Phases, status : Statuses]
  BY <1>2 DEF Registers
<1>4. StoreTypes' /\ UNCHANGED <<store, completion>>
  <2> HIDE DEF seen
  <2> QED
    BY <1>1, <1>3 DEF IInv, StoreTypes, policyVars, clockVars, boundVars, store
<1>5. /\ after \in {"complete", "execute", "block", "finish"}
      /\ after = "complete" => reg[p].status = "present"
  BY DEF AfterObservation
<1>6. {"complete", "execute", "block", "finish"} \subseteq Labels
  BY DEF Labels
<1> HIDE DEF after
<1> QED
  BY <1>1, <1>2, <1>4, <1>5, <1>6, MovesOn

(* The adapter sends at most once, and under an intent only.               *)
LEMMA ExecuteDeliveryIntentKeeps ==
    ASSUME IInv, NEW p \in Procs, ExecuteDeliveryIntent(p)
    PROVE  IInv'
<1> DEFINE s == [reg[p] EXCEPT !.status = "present", !.phase = "execute"]
<1>1. /\ pc[p] = "execute" /\ Goto(p, "observe", s)
      /\ deliveries' = IF deliveries = 0 THEN 1 ELSE deliveries
      /\ UNCHANGED <<policyVars, intent, observations, completion, clockVars, boundVars,
                     journal, events>>
  BY DEF ExecuteDeliveryIntent
<1>2. intent /\ reg[p] \in Registers /\ reg[p].at \in 1..Len(journal) /\ Carried(p, reg[p])
  BY <1>1, Labelled, InHand DEF IInv, WithIntent, Handless
<1>3. StoreTypes' /\ deliveries' > 0
  BY <1>1 DEF IInv, StoreTypes, policyVars, clockVars, boundVars
<1>4. journal' = journal /\ approval' = approval /\ intent' = intent
      /\ completion' = completion /\ Len(journal) \in Nat
  BY <1>1 DEF policyVars, IInv, StoreTypes
<1>5. Grows
  BY <1>3, <1>4 DEF Grows
<1>6. DeliveryOrder'
  BY <1>2, <1>3, <1>4 DEF IInv, DeliveryOrder
<1>7. s \in Registers /\ s.ret = reg[p].ret /\ s.cont = reg[p].cont
      /\ s.want = reg[p].want /\ s.at = reg[p].at
  BY <1>2 DEF Registers, Phases, Statuses
<1>8. "observe" \in Labels
  BY DEF Labels
<1> HIDE DEF s
<1>9. Control'
  BY <1>1, <1>2, <1>3, <1>4, <1>5, <1>7, <1>8, MoveKeepsControl DEF IInv
<1> QED
  BY <1>3, <1>6, <1>9 DEF IInv

LEMMA RecordDeliveryCompletionKeeps ==
    ASSUME IInv, NEW p \in Procs, RecordDeliveryCompletion(p)
    PROVE  IInv'
<1> DEFINE s == [reg[p] EXCEPT !.status = "unknown", !.phase = "reconcile"]
           after == AfterProcess(reg[p])
<1>1. /\ pc[p] = "complete" /\ Goto(p, after, s)
      /\ completion' = IF completion = "none" THEN reg[p].phase ELSE completion
      /\ UNCHANGED <<policyVars, intent, deliveries, observations, clockVars, boundVars,
                     journal, events>>
  BY DEF RecordDeliveryCompletion
<1>2. intent /\ reg[p] \in Registers /\ reg[p].at \in 1..Len(journal) /\ Carried(p, reg[p])
      /\ deliveries > 0
  BY <1>1, Labelled, InHand DEF IInv, WithIntent, Handless
<1>3. reg[p].phase \in Phases
  BY <1>2 DEF Registers
<1>4. StoreTypes'
  BY <1>1, <1>3 DEF IInv, StoreTypes, policyVars, clockVars, boundVars
<1>5. UNCHANGED store /\ journal' = journal /\ approval' = approval /\ intent' = intent
      /\ deliveries' = deliveries
  BY <1>1 DEF store, policyVars
<1>6. Grows
  BY <1>5, QuietGrows DEF IInv
<1>7. DeliveryOrder'
  BY <1>2, <1>5 DEF IInv, DeliveryOrder
<1>8. s \in Registers /\ s.ret = reg[p].ret /\ s.cont = reg[p].cont
      /\ s.want = reg[p].want /\ s.at = reg[p].at
  BY <1>2 DEF Registers, Phases, Statuses
<1>9. after \in Labels /\ after \notin {"append", "vote", "intent", "observe", "complete"}
  BY DEF AfterProcess, Labels
<1> HIDE DEF s, after
<1>10. Control'
  BY <1>1, <1>2, <1>4, <1>5, <1>6, <1>8, <1>9, MoveKeepsControl DEF IInv
<1> QED
  BY <1>4, <1>7, <1>10 DEF IInv

(* The three transitions of a delivery: all of them under the intent.      *)
LEMMA DeliveryTransitionsKeep ==
    ASSUME IInv, NEW p \in Procs,
           BlockDelivery(p) \/ RecordDelivery(p) \/ FinishReconciliation(p)
    PROVE  IInv'
<1>1. ReadsOnly /\ pc[p] \in WithIntent /\ pc[p] \notin Handless
  BY DEF BlockDelivery, RecordDelivery, FinishReconciliation, WithIntent, Handless
<1>2. StoreTypes' /\ UNCHANGED <<store, completion>> /\ DeliveryOrder'
  BY <1>1, ReadsOnlyKeeps, ReadsKeepStore
<1>3. Carried(p, reg[p]) /\ reg[p].at \in 1..Len(journal) /\ intent
  BY <1>1, Labelled, InHand DEF IInv
<1>4. Granted(journal)
  BY <1>3 DEF IInv, DeliveryOrder
<1>5. /\ {RECONCILIATION_REQUIRED, RECONCILIATION_COMPLETE, DELIVERY_COMPLETE}
            \subseteq WORKFLOW_TRANSITION_KINDS
      /\ {NEEDS_RECONCILIATION, DELIVERING, DELIVERY_RECORDED} \subseteq WORKFLOW_STATES
      /\ {"delivery-reconciliation", "delivery-completion", "delivery-reconciled"}
            \subseteq Causes
      /\ {"finish", "deliver"} \subseteq Continuations
      /\ APPROVAL_GRANTED \notin {RECONCILIATION_REQUIRED, RECONCILIATION_COMPLETE,
                                  DELIVERY_COMPLETE}
      /\ NEEDS_RECONCILIATION # DELIVERING
      /\ DELIVERY_RECORDED \notin {DELIVERING, NEEDS_RECONCILIATION}
  BY DEF WORKFLOW_TRANSITION_KINDS, WORKFLOW_STATES, Causes, Continuations,
         APPROVAL_GRANTED, RECONCILIATION_REQUIRED, RECONCILIATION_COMPLETE,
         DELIVERY_COMPLETE, NEEDS_RECONCILIATION, DELIVERING, DELIVERY_RECORDED
<1>6. CASE BlockDelivery(p)
  <2>1. Control'
    BY <1>2, <1>3, <1>5, <1>6, LatestIsACheckpoint, TransitionKeepsControl
    DEF BlockDelivery, IInv
  <2> QED
    BY <1>2, <2>1 DEF IInv
<1>7. CASE RecordDelivery(p)
  <2>1. Control'
    BY <1>2, <1>3, <1>5, <1>7, KeepKeepsControl DEF RecordDelivery, IInv
  <2> QED
    BY <1>2, <2>1 DEF IInv
<1>8. CASE FinishReconciliation(p)
  <2>1. Control'
    BY <1>2, <1>3, <1>4, <1>5, <1>8, LatestIsACheckpoint, TransitionKeepsControl
    DEF FinishReconciliation, IInv
  <2> QED
    BY <1>2, <2>1 DEF IInv
<1> QED
  BY <1>6, <1>7, <1>8

-----------------------------------------------------------------------------
(* The invariant.                                                          *)

LEMMA InitIInv == Init => IInv
<1> SUFFICES ASSUME Init PROVE IInv
  OBVIOUS
<1> DEFINE one == Checkpoint(INVESTIGATING, "candidate", INVESTIGATION_STARTED)
           two == Checkpoint(RESPONSE_READY, "candidate", RESPONSE_CANDIDATE_VERIFIED)
<1>1. one \in Checkpoints /\ two \in Checkpoints
  BY DEF Checkpoint, Checkpoints, WORKFLOW_STATES, WORKFLOW_TRANSITION_KINDS, Causes,
         INVESTIGATING, INVESTIGATION_STARTED, RESPONSE_READY, RESPONSE_CANDIDATE_VERIFIED
<1>2. /\ \A J : Backed(one, J, approval, intent)
      /\ \A J : Backed(two, J, approval, intent)
  BY DEF Checkpoint, Backed, INVESTIGATING, INVESTIGATION_STARTED, RESPONSE_READY,
         RESPONSE_CANDIDATE_VERIFIED, DELIVERING, NEEDS_RECONCILIATION, APPROVAL_GRANTED
<1>3. journal = <<one, two>>
  BY DEF Init
<1>4. journal \in Seq(Checkpoints) /\ Len(journal) = 2
  <2> DEFINE C == Checkpoints
  <2> HIDE DEF one, two, C
  <2>1. one \in C /\ two \in C
    BY <1>1 DEF C
  <2>2. journal \in Seq(C) /\ Len(journal) = 2
    BY <1>3, <2>1
  <2> QED
    BY <2>2 DEF C
<1>5. StoreTypes
  <2>1. /\ optIn \in BOOLEAN /\ grant \in BOOLEAN /\ revoked \in BOOLEAN
        /\ binding \in BOOLEAN /\ request \in BOOLEAN
        /\ approval \in [vote : Votes, by : Approvers] \cup {NoApproval}
        /\ intent \in BOOLEAN /\ deliveries \in {0, 1} /\ completion \in Phases \cup {"none"}
        /\ grantExpired \in BOOLEAN /\ bindingExpired \in BOOLEAN
        /\ sweeps \in Nat /\ submits \in Nat /\ crashes \in Nat /\ timeouts \in Nat
    BY DEF Init
  <2>2. observations \in SUBSET [phase : Phases, status : Statuses]
        /\ decisions \in Seq(Decisions)
    BY DEF Init
  <2>3. events \in Seq([at : Nat, from : WORKFLOW_STATES, to : WORKFLOW_STATES])
    BY DEF Init, WORKFLOW_STATES
  <2> QED
    BY <2>1, <2>2, <2>3, <1>4 DEF StoreTypes
<1>6. DeliveryOrder
  <2>1. ~intent /\ deliveries = 0 /\ completion = "none"
    BY DEF Init
  <2>2. ASSUME NEW i \in 1..Len(journal) PROVE Backed(journal[i], journal, approval, intent)
    <3> HIDE DEF one, two
    <3>1. i = 1 \/ i = 2
      BY <1>4
    <3>2. journal[1] = one /\ journal[2] = two
      BY <1>3
    <3> QED
      BY <1>2, <3>1, <3>2
  <2> QED
    BY <2>1, <2>2 DEF DeliveryOrder
<1>7. Control
  <2>1. pc = [p \in Procs |-> "idle"] /\ reg = [p \in Procs |-> NoRegisters]
        /\ result = [p \in Procs |-> "none"]
    BY DEF Init
  <2>2. "idle" \in Labels /\ "none" \in Results
    BY DEF Labels, Results
  <2> QED
    BY <2>1, <2>2, EmptyHanded DEF Control
<1> QED
  BY <1>5, <1>6, <1>7 DEF IInv

LEMMA StepKeeps ==
    ASSUME IInv, NEW p \in Procs, Step(p)
    PROVE  IInv'
<1>1. CASE JournalStep(p)
  BY <1>1, AppendCheckpointKeeps, SyncCaseStateKeeps, AppendWorkflowStateEventKeeps
  DEF JournalStep
<1>2. CASE PolicyStep(p)
  BY <1>2, EnsuresKeep, RecoverWorkflowKeeps, DispatchKeeps, FinishKeeps,
     EvaluateFixturePolicyKeeps, EnsurePolicyDecisionKeeps, EnterApprovalKeeps,
     ReadDecisionKeeps, PersistApprovalDecisionKeeps, ApplyDecisionKeeps
  DEF PolicyStep
<1>3. CASE DeliveryStep(p)
  BY <1>3, RecoverDeliveryKeeps, EnsureDeliveryIntentKeeps, MarksKeep,
     ProcessDeliveryIntentKeeps, RecordDeliveryObservationKeeps,
     ExecuteDeliveryIntentKeeps, RecordDeliveryCompletionKeeps, DeliveryTransitionsKeep
  DEF DeliveryStep
<1> QED
  BY <1>1, <1>2, <1>3 DEF Step

LEMMA NextKeeps == IInv /\ [Next]_vars => IInv'
<1> SUFFICES ASSUME IInv, [Next]_vars PROVE IInv'
  OBVIOUS
<1>1. CASE UNCHANGED vars
  <2>1. StoreTypes' /\ UNCHANGED <<store, completion, pc, reg, result>>
    BY <1>1 DEF vars, policyVars, deliveryVars, clockVars, boundVars, IInv, StoreTypes, store
  <2>2. DeliveryOrder' /\ Control'
    BY <2>1, QuietOrder DEF IInv, Control, store
  <2> QED
    BY <2>1, <2>2 DEF IInv
<1>2. CASE RevokeFixtureGrant \/ Expire
  BY <1>2, EnvironmentKeeps
<1>3. ASSUME NEW p \in Procs,
             \/ ActivatePolicyApproval(p) \/ StartSweep(p)
             \/ SubmitApprovalDecision(p) \/ Step(p) \/ Crash(p)
      PROVE  IInv'
  BY <1>3, StartsKeep, SubmitApprovalDecisionKeeps, StepKeeps, CrashKeeps
<1> QED
  BY <1>1, <1>2, <1>3 DEF Next

(* In every reachable state each table row is preceded by the rows that    *)
(* justify it, and each process knows what it acts on.                     *)
THEOREM ApprovedDeliveryInvariant == Spec => []IInv
BY InitIInv, NextKeeps, PTL DEF Spec

-----------------------------------------------------------------------------
(* The theorems.                                                           *)

(* Every table and every register holds a record of its kind.              *)
THEOREM ApprovedDeliveryTypes == Spec => []TypeOK
<1>1. IInv => TypeOK
  <2> SUFFICES ASSUME IInv PROVE TypeOK
    OBVIOUS
  <2>1. {optIn, grant, revoked, binding, request, intent, grantExpired, bindingExpired}
           \subseteq BOOLEAN
    BY DEF IInv, StoreTypes
  <2>2. {sweeps, submits, crashes, timeouts} \subseteq Nat /\ deliveries \in Nat
    BY DEF IInv, StoreTypes
  <2> QED
    BY <2>1, <2>2 DEF TypeOK, IInv, StoreTypes, Control
<1> QED
  BY <1>1, ApprovedDeliveryInvariant, PTL

(* The adapter holds at most one record of the delivery, however many      *)
(* sweeps and approvers race to _execute_delivery_intent.                  *)
THEOREM DeliversOnce == Spec => []DeliveredOnce
<1>1. IInv => DeliveredOnce
  BY DEF IInv, StoreTypes, DeliveredOnce
<1> QED
  BY <1>1, ApprovedDeliveryInvariant, PTL

(* What was delivered was approved: the persisted decision is "approved"   *)
(* and a checkpoint granted the delivery.                                  *)
THEOREM DeliversOnlyApproved == Spec => []DeliveredOnlyApproved
<1>1. IInv => DeliveredOnlyApproved
  <2> SUFFICES ASSUME IInv, deliveries > 0
               PROVE  /\ intent /\ approval.vote = "approved"
                      /\ \E i \in 1..Len(journal) : journal[i].kind = APPROVAL_GRANTED
    BY DEF DeliveredOnlyApproved
  <2>1. intent /\ Granted(journal)
    BY DEF IInv, DeliveryOrder
  <2>2. PICK i \in 1..Len(journal) : journal[i].kind = APPROVAL_GRANTED
    BY <2>1 DEF Granted
  <2>3. Backed(journal[i], journal, approval, intent)
    BY DEF IInv, DeliveryOrder
  <2> QED
    BY <2>1, <2>2, <2>3 DEF Backed, Approved
<1> QED
  BY <1>1, ApprovedDeliveryInvariant, PTL

(* Only three steps touch the intent, the adapter and the completion.      *)
LEMMA DeliverySteps ==
    ASSUME [Next]_vars
    PROVE  \/ UNCHANGED <<intent, deliveries, completion>>
           \/ \E p \in Procs : \/ EnsureDeliveryIntent(p) \/ ExecuteDeliveryIntent(p)
                               \/ RecordDeliveryCompletion(p)
<1> DEFINE quiet == UNCHANGED <<intent, deliveries, completion>>
<1>1. UNCHANGED vars \/ RevokeFixtureGrant \/ Expire => quiet
  BY DEF vars, deliveryVars, RevokeFixtureGrant, Expire
<1>2. ASSUME NEW p \in Procs,
             \/ ActivatePolicyApproval(p) \/ StartSweep(p) \/ SubmitApprovalDecision(p)
             \/ Crash(p) \/ JournalStep(p)
      PROVE  quiet
  BY <1>2 DEF ActivatePolicyApproval, StartSweep, Begin, SubmitApprovalDecision, Crash,
              JournalStep, AppendCheckpoint, SyncCaseState, AppendWorkflowStateEvent,
              deliveryVars
<1>3. ASSUME NEW p \in Procs, PolicyStep(p)
      PROVE  quiet
  BY <1>3 DEF PolicyStep, EnsurePolicyApprovalActivation, RecoverWorkflow, Dispatch, Finish,
              EnsureFixtureGrant, EvaluateFixturePolicy, EnsurePolicyDecision,
              EnsureAuthorizationBinding, EnsureApprovalRequest, EnterApproval,
              ReadDecision, PersistApprovalDecision, ApplyDecision, ReadsOnly, deliveryVars
<1>4. ASSUME NEW p \in Procs,
             \/ RecoverDelivery(p) \/ MarkIntent(p) \/ ProcessDeliveryIntent(p)
             \/ RecordDeliveryObservation(p) \/ BlockDelivery(p) \/ MarkCompletion(p)
             \/ RecordDelivery(p) \/ FinishReconciliation(p)
      PROVE  quiet
  BY <1>4 DEF RecoverDelivery, MarkIntent, ProcessDeliveryIntent, RecordDeliveryObservation,
              BlockDelivery, MarkCompletion, RecordDelivery, FinishReconciliation,
              ReadsOnly, deliveryVars
<1> QED
  BY <1>1, <1>2, <1>3, <1>4 DEF Next, Step, DeliveryStep

LEMMA DeliveryStepRefines ==
    ASSUME IInv, [Next]_vars PROVE [Delivery!Next]_(Delivery!effects)
<1> DEFINE intended  == IF intent THEN {DELIVERY} ELSE {}
           executed  == IF deliveries > 0 THEN {DELIVERY} ELSE {}
<1>1. CASE UNCHANGED <<intent, deliveries, completion>>
  BY <1>1 DEF Delivery!effects, Completed
<1>2. ASSUME NEW p \in Procs, EnsureDeliveryIntent(p)
      PROVE  [Delivery!Next]_(Delivery!effects)
  <2>1. intent' = TRUE /\ deliveries' = deliveries /\ completion' = completion
    BY <1>2 DEF EnsureDeliveryIntent
  <2>2. executed' = executed /\ Completed' = Completed
    BY <2>1 DEF Completed
  <2>3. CASE intent
    BY <2>1, <2>2, <2>3 DEF Delivery!effects
  <2>4. CASE ~intent
    <3>1. intended = {} /\ intended' = {DELIVERY}
      BY <2>1, <2>4
    <3>2. Delivery!Intend(DELIVERY)
      BY <2>2, <3>1 DEF Delivery!Intend, NoEffect
    <3> QED
      BY <3>2 DEF Delivery!Next
  <2> QED
    BY <2>3, <2>4
<1>3. ASSUME NEW p \in Procs, ExecuteDeliveryIntent(p)
      PROVE  [Delivery!Next]_(Delivery!effects)
  <2>1. /\ deliveries' = IF deliveries = 0 THEN 1 ELSE deliveries
        /\ intent' = intent /\ completion' = completion /\ pc[p] = "execute"
    BY <1>3 DEF ExecuteDeliveryIntent
  <2>2. intent
    BY <2>1, Labelled DEF IInv, WithIntent
  <2>3. intended' = intended /\ Completed' = Completed /\ intended = {DELIVERY}
    BY <2>1, <2>2 DEF Completed
  <2>4. CASE deliveries > 0
    <3>1. executed' = executed
      BY <2>1, <2>4
    <3> QED
      BY <2>3, <3>1 DEF Delivery!effects
  <2>5. CASE ~(deliveries > 0)
    <3>1. executed = {} /\ executed' = {DELIVERY}
      BY <2>1, <2>5 DEF IInv, StoreTypes
    <3>2. Delivery!Execute(DELIVERY)
      BY <2>3, <3>1 DEF Delivery!Execute
    <3> QED
      BY <3>2 DEF Delivery!Next
  <2> QED
    BY <2>4, <2>5
<1>4. ASSUME NEW p \in Procs, RecordDeliveryCompletion(p)
      PROVE  [Delivery!Next]_(Delivery!effects)
  <2>1. /\ completion' = IF completion = "none" THEN reg[p].phase ELSE completion
        /\ intent' = intent /\ deliveries' = deliveries /\ pc[p] = "complete"
    BY <1>4 DEF RecordDeliveryCompletion, policyVars
  <2>2. deliveries > 0 /\ reg[p].phase # "none"
    BY <2>1, Labelled DEF IInv, Registers, Phases
  <2>3. intended' = intended /\ executed' = executed /\ executed = {DELIVERY}
    BY <2>1, <2>2
  <2>4. CASE completion # "none"
    <3>1. Completed' = Completed
      BY <2>1, <2>4 DEF Completed
    <3> QED
      BY <2>3, <3>1 DEF Delivery!effects
  <2>5. CASE completion = "none"
    <3>1. Completed = {} /\ Completed' = {DELIVERY}
      BY <2>1, <2>2, <2>5 DEF Completed
    <3>2. Delivery!Complete(DELIVERY)
      BY <2>3, <3>1 DEF Delivery!Complete
    <3> QED
      BY <3>2 DEF Delivery!Next
  <2> QED
    BY <2>4, <2>5
<1> QED
  BY <1>1, <1>2, <1>3, <1>4, DeliverySteps

(* The delivery implements EffectOnce: intended, executed once and only    *)
(* then known complete, under crashes, lost answers and racing processes.  *)
THEOREM DeliveryRefinesEffectOnce == Spec => ImplementsDeliveryOnce
<1>1. Init => Delivery!Init
  BY DEF Init, Delivery!Init, Completed
<1>2. IInv /\ [Next]_vars => [Delivery!Next]_(Delivery!effects)
  BY DeliveryStepRefines
<1> QED
  BY <1>1, <1>2, ApprovedDeliveryInvariant, PTL
  DEF Spec, ImplementsDeliveryOnce, Delivery!Spec

-----------------------------------------------------------------------------
(* A lapsed authorization.                                                 *)

(* Past the point of no return nobody is left: once the authorization      *)
(* lapsed, only a process that already passed the check of                 *)
(* _recover_delivery could still write the intent.                         *)
NothingUnderway == Lapsed /\ ~intent /\ \A p \in Procs : pc[p] # "intent"

LEMMA LapsedStays ==
    ASSUME [Next]_vars, Lapsed, IInv PROVE Lapsed'
<1> DEFINE clock == <<revoked, grantExpired, bindingExpired>>
<1>1. UNCHANGED vars => UNCHANGED clock
  BY DEF vars, policyVars, clockVars
<1>2. RevokeFixtureGrant \/ Expire => Lapsed'
  BY DEF RevokeFixtureGrant, Expire, Lapsed, policyVars, clockVars
<1>3. ASSUME NEW p \in Procs,
             \/ ActivatePolicyApproval(p) \/ StartSweep(p) \/ SubmitApprovalDecision(p)
             \/ Crash(p) \/ JournalStep(p)
      PROVE  UNCHANGED clock
  BY <1>3 DEF ActivatePolicyApproval, StartSweep, Begin, SubmitApprovalDecision, Crash,
              JournalStep, AppendCheckpoint, SyncCaseState, AppendWorkflowStateEvent,
              policyVars, clockVars
<1>4. ASSUME NEW p \in Procs, PolicyStep(p)
      PROVE  UNCHANGED clock
  BY <1>4 DEF PolicyStep, EnsurePolicyApprovalActivation, RecoverWorkflow, Dispatch, Finish,
              EnsureFixtureGrant, EvaluateFixturePolicy, EnsurePolicyDecision,
              EnsureAuthorizationBinding, EnsureApprovalRequest, EnterApproval,
              ReadDecision, PersistApprovalDecision, ApplyDecision, ReadsOnly,
              policyVars, clockVars
<1>5. ASSUME NEW p \in Procs, DeliveryStep(p)
      PROVE  UNCHANGED clock
  BY <1>5 DEF DeliveryStep, RecoverDelivery, EnsureDeliveryIntent, MarkIntent,
              ProcessDeliveryIntent, RecordDeliveryObservation, ExecuteDeliveryIntent,
              RecordDeliveryCompletion, BlockDelivery, MarkCompletion, RecordDelivery,
              FinishReconciliation, ReadsOnly, policyVars, clockVars
<1>6. UNCHANGED clock => Lapsed'
  BY DEF Lapsed
<1> QED
  BY <1>1, <1>2, <1>3, <1>4, <1>5, <1>6 DEF Next, Step

(* The process that steps does not come to the intent.                     *)
KeepsOff(p) == \E label \in Labels \ {"intent"} : pc' = [pc EXCEPT ![p] = label]

LEMMA ControlKeepsOff ==
    ASSUME NEW p, NEW r, NEW cont
    PROVE  /\ \A label \in Labels \ {"intent"} : Goto(p, label, r) => KeepsOff(p)
           /\ \A outcome : Stop(p, outcome) => KeepsOff(p)
           /\ \A want : \A ret \in Returns : EnsureCheckpoint(p, r, want, ret, cont) => KeepsOff(p)
           /\ \A kind, next, resume, cause, pending, completed :
                 Transition(p, r, kind, next, resume, cause, pending, completed, cont)
                    => KeepsOff(p)
<1>1. \A s : \A label \in Labels \ {"intent"} : Goto(p, label, s) => KeepsOff(p)
  BY DEF Goto, KeepsOff
<1>2. \A outcome : Stop(p, outcome) => KeepsOff(p)
  BY DEF Stop, KeepsOff, Labels
<1>3. ASSUME NEW want, NEW ret \in Returns, EnsureCheckpoint(p, r, want, ret, cont)
      PROVE  KeepsOff(p)
  <2>1. ret \in Labels \ {"intent"} /\ "append" \in Labels \ {"intent"}
    BY DEF Returns, Labels
  <2>2. \/ Stop(p, "workflow_checkpoint_effect_overlap")
        \/ Stop(p, "workflow_checkpoint_predecessor_invalid")
        \/ \E s : Goto(p, ret, s) \/ Goto(p, "append", s)
    BY <1>3, Zenon DEF EnsureCheckpoint
  <2> QED
    BY <1>1, <1>2, <2>1, <2>2
<1>4. ASSUME NEW kind, NEW next, NEW resume, NEW cause, NEW pending, NEW completed,
             Transition(p, r, kind, next, resume, cause, pending, completed, cont)
      PROVE  KeepsOff(p)
  <2>1. "sync" \in Returns
    BY DEF Returns
  <2> DEFINE want == [state |-> next, resume |-> resume, pending |-> pending,
                      completed |-> completed, cause |-> cause, kind |-> kind]
  <2>2. \/ EnsureCheckpoint(p, r, want, "sync", cont)
        \/ Stop(p, "workflow_transition_not_allowed")
    BY <1>4, Zenon DEF Transition
  <2> HIDE DEF want
  <2> QED
    BY <1>2, <1>3, <2>1, <2>2
<1> QED
  BY <1>1, <1>2, <1>3, <1>4

LEMMA TransitionKeepsOff ==
    ASSUME NEW p, NEW r, NEW kind, NEW next, NEW resume, NEW cause, NEW pending,
           NEW completed, NEW cont,
           Transition(p, r, kind, next, resume, cause, pending, completed, cont)
    PROVE  KeepsOff(p)
BY ControlKeepsOff, Zenon

LEMMA StepKeepsOff ==
    ASSUME IInv, NEW p \in Procs, Step(p), ~RecoverDelivery(p)
    PROVE  KeepsOff(p)
<1> DEFINE Off == Labels \ {"intent"}
           OffReturns == {reg[p].ret, reg[p].cont} \subseteq Off
<1>1. OffReturns
  BY Labelled DEF IInv, Returns, Continuations, Labels
<1>2. {"event", "sync", "grant", "process", "finish", "evaluate", "decide", "bind", "request",
       "enter", "decision", "deliver", "decided", "mark", "observe", "complete",
       "execute", "block", "driven", "reconciled"} \subseteq Off
  BY DEF Labels
<1>3. "process" \in Returns /\ "record" \in Returns
  BY DEF Returns
<1>4. CASE JournalStep(p)
  <2>1. \E s, outcome : \/ Goto(p, reg[p].ret, s) \/ Goto(p, reg[p].cont, s)
                        \/ Goto(p, "event", s) \/ Stop(p, outcome)
    <3>1. CASE AppendCheckpoint(p)
      BY <3>1, Zenon DEF AppendCheckpoint, AppendRow
    <3>2. CASE SyncCaseState(p)
      BY <3>2, Zenon DEF SyncCaseState, ReadCaseState
    <3>3. CASE AppendWorkflowStateEvent(p)
      BY <3>3, Zenon DEF AppendWorkflowStateEvent, AppendStateEvent
    <3> QED
      BY <1>4, <3>1, <3>2, <3>3 DEF JournalStep
  <2> QED
    BY <1>1, <1>2, <2>1, ControlKeepsOff
<1>5. CASE PolicyStep(p)
  <2>1. CASE \/ EnsurePolicyApprovalActivation(p) \/ EnsureFixtureGrant(p)
             \/ EnsureAuthorizationBinding(p) \/ EnsureApprovalRequest(p)
             \/ EvaluateFixturePolicy(p) \/ Finish(p) \/ RecoverWorkflow(p)
             \/ EnsurePolicyDecision(p) \/ ReadDecision(p)
    <3>1. \E s, outcome :
             \/ Stop(p, outcome) \/ Goto(p, "grant", s) \/ Goto(p, "evaluate", s)
             \/ Goto(p, "request", s) \/ Goto(p, "enter", s) \/ Goto(p, "decide", s)
             \/ Goto(p, "sync", s) \/ Goto(p, "finish", s) \/ Goto(p, "decided", s)
             \/ Goto(p, "bind", s)
      <4>1. CASE \/ EnsurePolicyApprovalActivation(p) \/ EnsureFixtureGrant(p)
                 \/ EnsureAuthorizationBinding(p) \/ EnsureApprovalRequest(p)
                 \/ EvaluateFixturePolicy(p)
        BY <4>1, Zenon DEF EnsurePolicyApprovalActivation, EnsureFixtureGrant,
               EnsureAuthorizationBinding, EnsureApprovalRequest, EvaluateFixturePolicy
      <4>2. CASE Finish(p) \/ RecoverWorkflow(p) \/ ReadDecision(p)
        BY <4>2, Zenon DEF Finish, RecoverWorkflow, ReadDecision
      <4>3. CASE EnsurePolicyDecision(p)
        <5> DEFINE s == [reg[p] EXCEPT !.row = NoDecision]
        <5>1. Goto(p, "bind", s) \/ Goto(p, "finish", s)
          BY <4>3 DEF EnsurePolicyDecision
        <5> HIDE DEF s
        <5> QED
          BY <5>1
      <4> QED
        BY <2>1, <4>1, <4>2, <4>3
    <3> QED
      BY <1>2, <3>1, ControlKeepsOff
  <2>2. CASE Dispatch(p)
    <3>1. \E s, outcome : \/ Stop(p, outcome) \/ Goto(p, "process", s) \/ Goto(p, "grant", s)
                          \/ Goto(p, "finish", s)
      BY <2>2, Zenon DEF Dispatch
    <3> QED
      BY <1>2, <3>1, ControlKeepsOff
  <2>3. CASE EnterApproval(p)
    <3> DEFINE r == [reg[p] EXCEPT !.at = Len(journal)]
    <3>1. \/ Keep(p, r, POLICY_APPROVAL_ACTIVATED, AWAITING_APPROVAL, "approval-request",
                  "decision")
          \/ Goto(p, "decision", r) \/ Goto(p, "deliver", r)
          \/ Goto(p, "finish", NoRegisters)
      BY <2>3 DEF EnterApproval
    <3> HIDE DEF r
    <3> QED
      BY <1>2, <3>1, ControlKeepsOff DEF Keep
  <2>4. CASE PersistApprovalDecision(p)
    <3>1. \E s, outcome : Goto(p, "decided", s) \/ Stop(p, outcome)
      BY <2>4, Zenon DEF PersistApprovalDecision
    <3> QED
      BY <1>2, <3>1, ControlKeepsOff
  <2>5. CASE ApplyDecision(p)
    <3>1. \/ Goto(p, "finish", NoRegisters)
          \/ Keep(p, reg[p], AUTHORIZATION_DENIED, WAITING_FOR_OPERATOR, "approval", "finish")
          \/ Keep(p, reg[p], AUTHORIZATION_DENIED, WAITING_FOR_OPERATOR, "approval-invalid",
                  "finish")
          \/ Keep(p, reg[p], APPROVAL_GRANTED, DELIVERING, "approval", "deliver")
      BY <2>5 DEF ApplyDecision
    <3> QED
      BY <1>2, <3>1, ControlKeepsOff DEF Keep
  <2> QED
    BY <1>5, <2>1, <2>2, <2>3, <2>4, <2>5 DEF PolicyStep
<1>6. CASE DeliveryStep(p)
  <2>1. CASE MarkIntent(p) \/ MarkCompletion(p)
    <3>1. \E want : \/ EnsureCheckpoint(p, reg[p], want, "process", "idle")
                    \/ EnsureCheckpoint(p, reg[p], want, "record", "idle")
      BY <2>1, Zenon DEF MarkIntent, MarkCompletion, MarkDelivery
    <3> QED
      BY <1>3, <3>1, ControlKeepsOff
  <2>2. CASE \/ EnsureDeliveryIntent(p) \/ ProcessDeliveryIntent(p)
             \/ RecordDeliveryObservation(p) \/ ExecuteDeliveryIntent(p)
             \/ RecordDeliveryCompletion(p)
    <3>1. AfterProcess(reg[p]) \in Off /\ AfterObservation(reg[p]) \in Off
      BY <1>2 DEF AfterProcess, AfterObservation
    <3>2. \E s : \/ Goto(p, "mark", s) \/ Goto(p, "observe", s)
                 \/ Goto(p, AfterProcess(reg[p]), s) \/ Goto(p, AfterObservation(reg[p]), s)
      BY <2>2, Zenon DEF EnsureDeliveryIntent, ProcessDeliveryIntent,
             RecordDeliveryObservation, ExecuteDeliveryIntent, RecordDeliveryCompletion
    <3> QED
      BY <1>2, <3>1, <3>2, ControlKeepsOff
  <2>3. CASE BlockDelivery(p) \/ RecordDelivery(p) \/ FinishReconciliation(p)
    <3>1. CASE BlockDelivery(p)
      BY <3>1, TransitionKeepsOff DEF BlockDelivery
    <3>2. CASE RecordDelivery(p)
      BY <3>2, TransitionKeepsOff DEF RecordDelivery, Keep
    <3>3. CASE FinishReconciliation(p)
      BY <3>3, TransitionKeepsOff DEF FinishReconciliation
    <3> QED
      BY <2>3, <3>1, <3>2, <3>3
  <2> QED
    BY <1>6, <2>1, <2>2, <2>3 DEF DeliveryStep
<1> QED
  BY <1>4, <1>5, <1>6 DEF Step

(* _recover_delivery checks the profile again before the intent.           *)
LEMMA RecoverDeliveryKeepsOff ==
    ASSUME IInv, NEW p \in Procs, RecoverDelivery(p), Lapsed
    PROVE  KeepsOff(p)
<1>1. ~ProfileCurrent
  BY DEF Lapsed, ProfileCurrent, AuthorizationProfileValid
<1>2. \/ Goto(p, "finish", NoRegisters)
      \/ Transition(p, reg[p], AUTHORIZATION_DENIED, WAITING_FOR_OPERATOR,
                    WAITING_FOR_OPERATOR, "authorization-denied", Pending, Completed,
                    "finish")
  BY <1>1, Zenon DEF RecoverDelivery
<1>3. "finish" \in Labels \ {"intent"}
  BY DEF Labels
<1> QED
  BY <1>2, <1>3, ControlKeepsOff

LEMMA NothingUnderwayStays ==
    ASSUME IInv, [Next]_vars, NothingUnderway
    PROVE  NothingUnderway'
<1>1. Lapsed'
  BY LapsedStays DEF NothingUnderway
<1>2. ~intent'
  BY DeliverySteps DEF NothingUnderway, EnsureDeliveryIntent, ExecuteDeliveryIntent,
     RecordDeliveryCompletion
<1>3. ASSUME NEW p \in Procs, KeepsOff(p)
      PROVE  \A q \in Procs : pc'[q] # "intent"
  BY <1>3 DEF KeepsOff, NothingUnderway, IInv, Control
<1>4. \A q \in Procs : pc'[q] # "intent"
  <2>1. CASE UNCHANGED vars \/ RevokeFixtureGrant \/ Expire
    BY <2>1 DEF vars, RevokeFixtureGrant, Expire, NothingUnderway
  <2>2. ASSUME NEW p \in Procs, ActivatePolicyApproval(p) \/ StartSweep(p)
        PROVE  \A q \in Procs : pc'[q] # "intent"
    <3>1. KeepsOff(p)
      BY <2>2 DEF ActivatePolicyApproval, StartSweep, KeepsOff, Labels
    <3> QED
      BY <3>1, <1>3
  <2>3. ASSUME NEW p \in Procs, SubmitApprovalDecision(p)
        PROVE  \A q \in Procs : pc'[q] # "intent"
    <3>1. \E s, outcome : \/ Goto(p, "decided", s) \/ Goto(p, "vote", s) \/ Stop(p, outcome)
      BY <2>3, Zenon DEF SubmitApprovalDecision
    <3>2. "decided" \in Labels \ {"intent"} /\ "vote" \in Labels \ {"intent"}
      BY DEF Labels
    <3> QED
      BY <3>1, <3>2, <1>3, ControlKeepsOff
  <2>4. ASSUME NEW p \in Procs, Crash(p)
        PROVE  \A q \in Procs : pc'[q] # "intent"
    BY <2>4, <1>3, ControlKeepsOff DEF Crash
  <2>5. ASSUME NEW p \in Procs, Step(p)
        PROVE  \A q \in Procs : pc'[q] # "intent"
    BY <2>5, <1>3, StepKeepsOff, RecoverDeliveryKeepsOff DEF NothingUnderway
  <2> QED
    BY <2>1, <2>2, <2>3, <2>4, <2>5 DEF Next
<1> QED
  BY <1>1, <1>2, <1>4 DEF NothingUnderway

(* An authorization that lapsed while nobody was at work starts no         *)
(* delivery any more: every way to the intent goes through the second      *)
(* check in _recover_delivery.                                             *)
THEOREM LapsedNeverStarts == Spec => LapsedStartsNoDelivery
<1>1. Lapsed /\ AllIdle /\ ~intent => NothingUnderway
  BY DEF AllIdle, NothingUnderway
<1>2. NothingUnderway => ~intent
  BY DEF NothingUnderway
<1>3. IInv /\ [Next]_vars /\ NothingUnderway => NothingUnderway'
  BY NothingUnderwayStays
<1> QED
  BY <1>1, <1>2, <1>3, ApprovedDeliveryInvariant, PTL DEF Spec, LapsedStartsNoDelivery

-----------------------------------------------------------------------------
(* Calls that follow one another, of a workflow whose grant is not         *)
(* revoked, leave a journal that passes its own validation.  What a call   *)
(* has read is so when it writes, so the invariant says of the process at  *)
(* work which rows it has seen (Informed) and that it has the latest       *)
(* checkpoint in hand and carries only what may follow it (InCall).        *)

(* A policy row is there only when the one it is made from is, and a       *)
(* checkpoint that asks for an approval only when the request is.          *)
PolicyTables ==
    /\ ~revoked
    /\ grant => optIn
    /\ decisions # <<>> => grant /\ Len(decisions) = 1 /\ decisions[1].granted
    /\ binding => decisions # <<>>
    /\ request => binding
    /\ approval # NoApproval => request
    /\ intent => request
    /\ completion # "none" => [phase |-> completion, status |-> "present"] \in observations
    /\ \A i \in 1..Len(journal) : journal[i].state \in GatedStates => request

(* The effects that a checkpoint lists are on record.                      *)
OnRecord(c) ==
    /\ c.pending \cap c.completed = {}
    /\ c.pending \cup c.completed # {} => intent
    /\ c.completed # {} => completion # "none"

JournalRows ==
    /\ \A i \in 2..Len(journal) : ValidSuccessor(journal[i-1], journal[i])
    /\ \A i \in 1..Len(journal) : OnRecord(journal[i])

OneAtATime == \A p, q \in Procs : pc[p] # "idle" /\ pc[q] # "idle" => p = q

(* The rows that process p has made or found on its way to its label.      *)
Informed(p) ==
    /\ pc[p] = "grant" => optIn
    /\ pc[p] \in {"evaluate", "decide"} => grant
    /\ pc[p] = "decide" => reg[p].row.granted
    /\ pc[p] = "bind" => decisions # <<>>
    /\ pc[p] = "request" => binding
    /\ pc[p] \in {"enter", "vote", "intent"} => request
    /\ pc[p] = "complete" => [phase |-> reg[p].phase, status |-> "present"] \in observations
    /\ pc[p] = "append" /\ reg[p].want.state \in GatedStates => request

(* The checkpoint in hand is the latest, the row to append may follow it,  *)
(* and a delivery is driven only in DELIVERING.                            *)
Drives(p) ==
    \/ pc[p] \in {"intent", "mark", "driven", "block"}
    \/ pc[p] \in {"process", "observe", "execute", "complete"} /\ reg[p].driving

InCall(p) ==
    /\ pc[p] \notin Handless => reg[p].at = Len(journal)
    /\ pc[p] = "append" => /\ reg[p].base = Len(journal)
                           /\ ValidSuccessor(Latest, reg[p].want) /\ OnRecord(reg[p].want)
    /\ Drives(p) => Latest.state = DELIVERING
    /\ pc[p] = "append" /\ reg[p].ret # "sync" =>
         /\ reg[p].ret # "idle" /\ reg[p].cont = "idle"
         /\ reg[p].want.state = DELIVERING
    /\ pc[p] \notin {"append", "sync", "event"} => reg[p].cont = "idle"
    /\ pc[p] \in {"sync", "event"} => reg[p].cont # "idle"
    /\ pc[p] = "append" /\ reg[p].ret = "sync" => reg[p].cont # "idle"
    /\ pc[p] \in {"idle", "rebuild", "dispatch"} \/ reg[p].cont = "dispatch" => ~reg[p].driving

CallInv ==
    /\ PolicyTables /\ JournalRows /\ OneAtATime
    /\ \A p \in Procs : Informed(p) /\ InCall(p)

-----------------------------------------------------------------------------
(* What a step of the one process at work leaves to the invariant.         *)

policyStore == <<policyVars, deliveryVars, journal>>

Alone(p)  == \A q \in Procs : q # p => pc[q] = "idle"
Others(p) == \A q \in Procs : q # p => pc'[q] = pc[q] /\ reg'[q] = reg[q]

LEMMA AtWorkAlone ==
    ASSUME CallInv, NEW p \in Procs, pc[p] # "idle"
    PROVE  Alone(p)
BY DEF CallInv, OneAtATime, Alone

LEMMA QuietTables ==
    ASSUME CallInv, UNCHANGED policyStore
    PROVE  PolicyTables' /\ JournalRows'
<1>1. PolicyTables'
  BY DEF CallInv, PolicyTables, policyStore, policyVars, deliveryVars
<1>2. journal' = journal /\ intent' = intent /\ completion' = completion
  BY DEF policyStore, deliveryVars
<1>3. JournalRows'
  BY <1>2 DEF CallInv, JournalRows, OnRecord
<1> QED
  BY <1>1, <1>3

(* Whoever rests claims nothing, so only the process that steps is asked.  *)
LEMMA OneSteps ==
    ASSUME CallInv, NEW p \in Procs, Alone(p), Others(p),
           PolicyTables', JournalRows', Informed(p)', InCall(p)'
    PROVE  CallInv'
<1>1. OneAtATime'
  BY DEF OneAtATime, Alone, Others
<1>2. ASSUME NEW q \in Procs, q # p
      PROVE  Informed(q)' /\ InCall(q)'
  <2>1. pc'[q] = "idle" /\ pc[q] = "idle" /\ reg'[q] = reg[q]
    BY <1>2 DEF Alone, Others
  <2>2. reg[q].cont = "idle" /\ ~reg[q].driving
    BY <2>1 DEF CallInv, InCall
  <2> QED
    BY <2>1, <2>2 DEF Informed, InCall, Drives, Handless
<1> QED
  BY <1>1, <1>2 DEF CallInv

LEMMA Arrives ==
    ASSUME Control, NEW p \in Procs, NEW label, NEW r, Goto(p, label, r)
    PROVE  pc'[p] = label /\ reg'[p] = r /\ Others(p)
BY DEF Control, Goto, Others

(* A call that ends, or only has to return.                                *)
LEMMA StopKeepsCalls ==
    ASSUME Control, CallInv, NEW p \in Procs, Alone(p), NEW outcome, Stop(p, outcome),
           PolicyTables', JournalRows'
    PROVE  CallInv'
<1>1. pc'[p] = "idle" /\ reg'[p] = NoRegisters /\ Others(p)
  BY DEF Control, Stop, Others
<1>2. Informed(p)' /\ InCall(p)'
  BY <1>1 DEF Informed, InCall, Drives, Handless, NoRegisters
<1> QED
  BY <1>1, <1>2, OneSteps

LEMMA FinishKeepsCalls ==
    ASSUME Control, CallInv, NEW p \in Procs, Alone(p), Goto(p, "finish", NoRegisters),
           PolicyTables', JournalRows'
    PROVE  CallInv'
<1>1. pc'[p] = "finish" /\ reg'[p] = NoRegisters /\ Others(p)
  BY Arrives
<1>2. Informed(p)' /\ InCall(p)'
  BY <1>1 DEF Informed, InCall, Drives, Handless, NoRegisters
<1> QED
  BY <1>1, <1>2, OneSteps

(* A checkpoint that may follow the latest one is built on it, or found.   *)
LEMMA EnsureCheckpointKeepsCalls ==
    ASSUME Control, StoreTypes, CallInv, NEW p \in Procs, Alone(p), UNCHANGED policyStore,
           NEW r \in Registers, NEW want \in Checkpoints,
           NEW ret \in {"sync", "process", "record"},
           NEW cont \in {"idle", "finish", "decision", "deliver"},
           EnsureCheckpoint(p, r, want, ret, cont),
           Latest # want => ValidSuccessor(Latest, want), OnRecord(want),
           want.state \in GatedStates => request,
           IF ret = "sync" THEN cont # "idle" ELSE cont = "idle" /\ want.state = DELIVERING
    PROVE  CallInv'
<1> DEFINE prev == Len(journal)
<1>1. prev \in Nat /\ prev >= 2 /\ journal' = journal /\ request' = request
      /\ intent' = intent /\ completion' = completion
  BY DEF StoreTypes, policyStore, policyVars, deliveryVars
<1>2. PolicyTables' /\ JournalRows'
  BY QuietTables
<1>3. CASE \/ Stop(p, "workflow_checkpoint_effect_overlap")
           \/ Stop(p, "workflow_checkpoint_predecessor_invalid")
  BY <1>2, <1>3, StopKeepsCalls
<1>4. CASE Latest = want /\ Goto(p, ret, [r EXCEPT !.at = prev, !.cont = cont])
  <2> DEFINE s == [r EXCEPT !.at = prev, !.cont = cont]
  <2>1. s.at = prev /\ s.cont = cont
    BY DEF Registers
  <2> HIDE DEF s
  <2>2. Goto(p, ret, s)
    BY <1>4 DEF s
  <2>3. pc'[p] = ret /\ reg'[p] = s /\ Others(p)
    BY <2>2, Arrives
  <2>4. Latest' = Latest
    BY <1>1 DEF Latest
  <2>5. Informed(p)' /\ InCall(p)'
    BY <1>1, <1>4, <2>1, <2>3, <2>4 DEF Informed, InCall, Drives, Handless
  <2> QED
    BY <1>2, <2>3, <2>5, OneSteps
<1>5. CASE Latest # want /\ Goto(p, "append", [r EXCEPT !.base = prev, !.want = want,
                                                        !.ret = ret, !.cont = cont])
  <2> DEFINE s == [r EXCEPT !.base = prev, !.want = want, !.ret = ret, !.cont = cont]
  <2>1. s.base = prev /\ s.cont = cont /\ s.ret = ret /\ s.want = want
    BY DEF Registers
  <2> HIDE DEF s
  <2>2. Goto(p, "append", s)
    BY <1>5 DEF s
  <2>3. pc'[p] = "append" /\ reg'[p] = s /\ Others(p)
    BY <2>2, Arrives
  <2>4. Latest' = Latest
    BY <1>1 DEF Latest
  <2>5. OnRecord(reg[p].want)'
    BY <1>1, <2>1, <2>3 DEF OnRecord
  <2>6. ValidSuccessor(Latest', want)
    BY <1>5, <2>4
  <2>7. Informed(p)'
    BY <1>1, <2>1, <2>3 DEF Informed
  <2>8. InCall(p)'
    BY <1>1, <2>1, <2>3, <2>4, <2>5, <2>6 DEF InCall, Drives, Handless
  <2> QED
    BY <1>2, <2>3, <2>7, <2>8, OneSteps
<1> QED
  BY <1>1, <1>3, <1>4, <1>5 DEF EnsureCheckpoint, Latest

(* Every fact of this stage leaves the state it is allowed in, but one     *)
(* that blocks the workflow.                                               *)
LEMMA LeavesItsState ==
    ASSUME NEW current, NEW next, NEW resume, NEW unresolved,
           NEW kind \in {POLICY_APPROVAL_ACTIVATED, APPROVAL_GRANTED, AUTHORIZATION_DENIED,
                         DELIVERY_COMPLETE, RECONCILIATION_REQUIRED, RECONCILIATION_COMPLETE},
           kind = RECONCILIATION_REQUIRED => current = DELIVERING,
           TransitionAllowed(current, kind, next, resume, unresolved)
    PROVE  next # current /\ kind # "none"
BY DEF TransitionAllowed, AllowedTargets, AllowedSources, TargetOf, WORKFLOW_STATES,
       POLICY_APPROVAL_ACTIVATED, APPROVAL_GRANTED, AUTHORIZATION_DENIED, DELIVERY_COMPLETE,
       RECONCILIATION_REQUIRED, RECONCILIATION_COMPLETE, TICKET_HANDOFF_COMPLETE,
       INVESTIGATION_STARTED, RESPONSE_CANDIDATE_VERIFIED, PAUSE, RESUME, CANCEL, SLA_EXPIRED,
       TERMINAL_STATES, RESPONSE_READY, AWAITING_APPROVAL, DELIVERING, DELIVERY_RECORDED,
       WAITING_FOR_OPERATOR, NEEDS_RECONCILIATION, PAUSED, CANCELLED, RECEIVED, TICKET_READY,
       INVESTIGATING

LEMMA TransitionKeepsCalls ==
    ASSUME Control, StoreTypes, CallInv, NEW p \in Procs, Alone(p), UNCHANGED policyStore,
           NEW r \in Registers, r.at = Len(journal),
           NEW kind \in {POLICY_APPROVAL_ACTIVATED, APPROVAL_GRANTED, AUTHORIZATION_DENIED,
                         DELIVERY_COMPLETE, RECONCILIATION_REQUIRED, RECONCILIATION_COMPLETE},
           kind = RECONCILIATION_REQUIRED => Latest.state = DELIVERING,
           NEW next \in WORKFLOW_STATES, NEW resume \in WORKFLOW_STATES, NEW cause \in Causes,
           NEW pending \in SUBSET {DELIVERY}, NEW completed \in SUBSET {DELIVERY},
           NEW cont \in {"finish", "decision", "deliver"},
           Transition(p, r, kind, next, resume, cause, pending, completed, cont),
           next \in GatedStates => request,
           Latest.completed \subseteq completed,
           pending \cap completed = {}, pending \cup completed # {} => intent,
           completed # {} => completion # "none"
    PROVE  CallInv'
<1> DEFINE want == [state |-> next, resume |-> resume, pending |-> pending,
                    completed |-> completed, cause |-> cause, kind |-> kind]
<1>1. want \in Checkpoints
  BY DEF Checkpoints, WORKFLOW_TRANSITION_KINDS
<1>2. OnRecord(want)
  BY DEF OnRecord
<1>3. want.state = next /\ want.resume = resume /\ want.completed = completed /\ want.kind = kind
  OBVIOUS
<1>4. CASE /\ TransitionAllowed(Latest.state, kind, next, resume, Latest.pending # {})
           /\ EnsureCheckpoint(p, r, want, "sync", cont)
  <2>1. next # Latest.state /\ kind # "none"
    BY <1>4, LeavesItsState
  <2> HIDE DEF want
  <2>2. ValidSuccessor(Latest, want)
    BY <1>3, <1>4, <2>1 DEF ValidSuccessor
  <2> QED
    BY <1>1, <1>2, <1>3, <1>4, <2>2, EnsureCheckpointKeepsCalls
<1>5. CASE Stop(p, "workflow_transition_not_allowed")
  BY <1>5, QuietTables, StopKeepsCalls
<1> QED
  BY <1>4, <1>5 DEF Transition, Latest

(* The latest checkpoint, and what the effects of the workflow are to it.  *)
LEMMA LatestOnRecord ==
    ASSUME IInv, CallInv
    PROVE  /\ Len(journal) \in Nat /\ Len(journal) \in 1..Len(journal) /\ Latest \in Checkpoints
           /\ OnRecord(Latest)
           /\ Latest.state \in GatedStates => request
           /\ Pending \in SUBSET {DELIVERY} /\ Completed \in SUBSET {DELIVERY}
           /\ Pending \cap Completed = {} /\ Latest.completed \subseteq Completed
           /\ Pending \cup Completed # {} => intent
           /\ Completed # {} => completion # "none"
<1>1. Len(journal) \in Nat /\ Len(journal) \in 1..Len(journal) /\ Latest \in Checkpoints
  BY DEF IInv, StoreTypes, Latest
<1>2. OnRecord(Latest) /\ (Latest.state \in GatedStates => request)
  BY <1>1 DEF CallInv, PolicyTables, JournalRows, Latest
<1>3. Pending \in SUBSET {DELIVERY} /\ Completed \in SUBSET {DELIVERY}
      /\ Pending \cap Completed = {} /\ (Completed # {} => completion # "none")
  BY DEF Pending, Completed
<1>4. Pending \cup Completed # {} => intent
  BY DEF Pending, Completed, IInv, DeliveryOrder
<1>5. Latest.completed \subseteq Completed
  BY <1>1, <1>2 DEF OnRecord, Completed, Checkpoints
<1> QED
  BY <1>1, <1>2, <1>3, <1>4, <1>5

LEMMA KeepKeepsCalls ==
    ASSUME IInv, CallInv, NEW p \in Procs, Alone(p), UNCHANGED policyStore,
           NEW r \in Registers, r.at = Len(journal),
           NEW kind \in {POLICY_APPROVAL_ACTIVATED, APPROVAL_GRANTED, AUTHORIZATION_DENIED,
                         DELIVERY_COMPLETE},
           NEW next \in WORKFLOW_STATES, NEW cause \in Causes,
           NEW cont \in {"finish", "decision", "deliver"},
           Keep(p, r, kind, next, cause, cont),
           next \in GatedStates => request
    PROVE  CallInv'
<1>1. /\ Latest.pending \in SUBSET {DELIVERY} /\ Latest.completed \in SUBSET {DELIVERY}
      /\ OnRecord(Latest)
  BY LatestOnRecord DEF Checkpoints
<1>2. Transition(p, r, kind, next, next, cause, Latest.pending, Latest.completed, cont)
  BY DEF Keep, Latest
<1>3. kind # RECONCILIATION_REQUIRED
  BY DEF RECONCILIATION_REQUIRED, POLICY_APPROVAL_ACTIVATED, APPROVAL_GRANTED,
         AUTHORIZATION_DENIED, DELIVERY_COMPLETE
<1> QED
  BY <1>1, <1>2, <1>3, TransitionKeepsCalls DEF OnRecord, IInv

-----------------------------------------------------------------------------
(* Each action keeps it: the journal and the Case events.                  *)

LEMMA ReadsLeaveStore == ReadsOnly => UNCHANGED policyStore
BY DEF ReadsOnly, policyStore

(* The row that goes in was built on the latest checkpoint, and nobody has *)
(* appended since.                                                         *)
LEMMA AppendCheckpointKeepsCalls ==
    ASSUME IInv, CallInv, NEW p \in Procs, AppendCheckpoint(p)
    PROVE  CallInv'
<1> DEFINE want == reg[p].want
           n == Len(journal)
           s == [reg[p] EXCEPT !.at = Len(journal'), !.base = 0,
                               !.want = NoRegisters.want, !.ret = "idle"]
<1>1. pc[p] = "append" /\ InCall(p) /\ Informed(p) /\ Alone(p) /\ reg[p] \in Registers
  BY AtWorkAlone DEF AppendCheckpoint, AppendRow, CallInv, IInv, Control
<1>2. want \in Checkpoints /\ n \in Nat /\ n >= 2 /\ journal \in Seq(Checkpoints)
      /\ reg[p].ret \in Returns
  BY <1>1, Labelled DEF Registers, IInv, StoreTypes
<1>3. /\ reg[p].base = n /\ ValidSuccessor(Latest, want) /\ OnRecord(want)
      /\ reg[p].ret # "sync" => reg[p].ret # "idle" /\ reg[p].cont = "idle" /\ want.state = DELIVERING
      /\ reg[p].ret = "sync" => reg[p].cont # "idle"
      /\ reg[p].cont = "dispatch" => ~reg[p].driving
      /\ want.state \in GatedStates => request
  BY <1>1 DEF InCall, Informed
<1>4. journal' = Append(journal, want) /\ Goto(p, reg[p].ret, s)
      /\ UNCHANGED <<policyVars, deliveryVars>>
  BY <1>1, <1>2, <1>3 DEF AppendCheckpoint, AppendRow
<1>5. Len(journal') = n + 1 /\ journal'[n + 1] = want
      /\ \A i \in 1..n : journal'[i] = journal[i]
  BY <1>2, <1>4
<1>6. Latest' = want
  BY <1>2, <1>5 DEF Latest
<1>7. PolicyTables'
  <2>1. \A i \in 1..Len(journal') : i \in 1..n \/ i = n + 1
    BY <1>2, <1>5
  <2>2. \A i \in 1..Len(journal') : journal'[i].state \in GatedStates => request
    BY <1>3, <1>5, <2>1 DEF CallInv, PolicyTables
  <2> QED
    BY <1>4, <2>2 DEF CallInv, PolicyTables, policyVars, deliveryVars
<1>8. JournalRows'
  <2>1. intent' = intent /\ completion' = completion
    BY <1>4 DEF deliveryVars
  <2>2. \A i \in 1..Len(journal') : i \in 1..n \/ i = n + 1
    BY <1>2, <1>5
  <2>3. \A i \in 1..Len(journal') : OnRecord(journal'[i])
    BY <1>3, <1>5, <2>2 DEF CallInv, JournalRows
  <2>4. \A i \in 1..Len(journal') : OnRecord(journal[i])'
    BY <2>1, <2>3 DEF OnRecord
  <2>5. ASSUME NEW i \in 2..Len(journal')
        PROVE  ValidSuccessor(journal'[i-1], journal'[i])
    <3>1. CASE i = n + 1
      BY <1>2, <1>3, <1>5, <3>1 DEF Latest
    <3>2. CASE i # n + 1
      <4>1. i \in 2..n /\ i \in 1..n /\ i - 1 \in 1..n
        BY <1>2, <1>5, <3>2
      <4> QED
        BY <1>5, <4>1 DEF CallInv, JournalRows
    <3> QED
      BY <3>1, <3>2
  <2> QED
    BY <2>4, <2>5 DEF JournalRows
<1>9. s.at = Len(journal') /\ s.cont = reg[p].cont /\ s.driving = reg[p].driving
  BY <1>1 DEF Registers
<1> HIDE DEF s
<1>10. pc'[p] = reg[p].ret /\ reg'[p] = s /\ Others(p)
  BY <1>4, Arrives DEF IInv
<1>11. Informed(p)'
  BY <1>2, <1>10 DEF Informed, Returns
<1>12. InCall(p)'
  BY <1>2, <1>3, <1>6, <1>9, <1>10 DEF InCall, Drives, Handless, Returns
<1> QED
  BY <1>1, <1>7, <1>8, <1>10, <1>11, <1>12, OneSteps

(* On from the Case event, still with the latest checkpoint in hand.       *)
LEMMA ContinuesKeepsCalls ==
    ASSUME IInv, CallInv, NEW p \in Procs, Alone(p), UNCHANGED policyStore,
           pc[p] \in {"sync", "event"}, NEW r \in Registers,
           Goto(p, reg[p].cont, r), r.cont = "idle", r.at = reg[p].at,
           r.driving = reg[p].driving
    PROVE  CallInv'
<1>1. PolicyTables' /\ JournalRows' /\ journal' = journal
  BY QuietTables DEF policyStore
<1>2. pc'[p] = reg[p].cont /\ reg'[p] = r /\ Others(p)
  BY Arrives DEF IInv
<1>3. reg[p].cont \in Continuations
  BY Labelled DEF IInv
<1>4. reg[p].at = Len(journal) /\ reg[p].cont # "idle"
      /\ (reg[p].cont = "dispatch" => ~reg[p].driving)
  BY DEF CallInv, InCall, Handless
<1>5. Informed(p)'
  BY <1>2, <1>3 DEF Informed, Continuations
<1>6. InCall(p)'
  BY <1>1, <1>2, <1>3, <1>4 DEF InCall, Drives, Handless, Continuations
<1> QED
  BY <1>1, <1>2, <1>5, <1>6, OneSteps

LEMMA SyncCaseStateKeepsCalls ==
    ASSUME IInv, CallInv, NEW p \in Procs, SyncCaseState(p)
    PROVE  CallInv'
<1> DEFINE from == journal[Len(journal) - 1].state
           s == [reg[p] EXCEPT !.cont = "idle"]
           t == [reg[p] EXCEPT !.from = from]
<1>1. pc[p] = "sync" /\ Alone(p) /\ UNCHANGED policyStore /\ reg[p] \in Registers
  BY AtWorkAlone DEF SyncCaseState, ReadCaseState, policyStore, IInv, Control
<1>2. \/ Goto(p, reg[p].cont, s) \/ Goto(p, "event", t)
      \/ Stop(p, "workflow_transition_not_allowed")
  BY DEF SyncCaseState, ReadCaseState
<1>3. s.cont = "idle" /\ s.at = reg[p].at /\ s.driving = reg[p].driving /\ s \in Registers
  BY <1>1 DEF Registers, Labels
<1>4. t.cont = reg[p].cont /\ t.at = reg[p].at /\ t.driving = reg[p].driving
  BY <1>1 DEF Registers
<1> HIDE DEF s, t
<1>5. PolicyTables' /\ JournalRows' /\ journal' = journal
  BY <1>1, QuietTables DEF policyStore
<1>6. CASE Goto(p, "event", t)
  <2>1. pc'[p] = "event" /\ reg'[p] = t /\ Others(p)
    BY <1>6, Arrives DEF IInv
  <2>2. reg[p].at = Len(journal) /\ reg[p].cont # "idle"
        /\ (reg[p].cont = "dispatch" => ~reg[p].driving)
    BY <1>1 DEF CallInv, InCall, Handless
  <2>3. Informed(p)' /\ InCall(p)'
    BY <1>4, <1>5, <2>1, <2>2 DEF Informed, InCall, Drives, Handless
  <2> QED
    BY <1>1, <1>5, <2>1, <2>3, OneSteps
<1> QED
  BY <1>1, <1>2, <1>3, <1>5, <1>6, ContinuesKeepsCalls, StopKeepsCalls DEF IInv

LEMMA AppendWorkflowStateEventKeepsCalls ==
    ASSUME IInv, CallInv, NEW p \in Procs, AppendWorkflowStateEvent(p)
    PROVE  CallInv'
<1> DEFINE s == [reg[p] EXCEPT !.cont = "idle", !.from = RECEIVED]
<1>1. pc[p] = "event" /\ Alone(p) /\ UNCHANGED policyStore /\ reg[p] \in Registers
  BY AtWorkAlone DEF AppendWorkflowStateEvent, AppendStateEvent, policyStore, IInv, Control
<1>2. \/ Goto(p, reg[p].cont, s) \/ Stop(p, "workflow_event_conflict")
      \/ Stop(p, "workflow_event_predecessor_mismatch")
  BY Zenon DEF AppendWorkflowStateEvent, AppendStateEvent
<1>3. s.cont = "idle" /\ s.at = reg[p].at /\ s.driving = reg[p].driving /\ s \in Registers
  BY <1>1 DEF Registers, Labels, WORKFLOW_STATES
<1> HIDE DEF s
<1> QED
  BY <1>1, <1>2, <1>3, QuietTables, ContinuesKeepsCalls, StopKeepsCalls DEF IInv

-----------------------------------------------------------------------------
(* Each action keeps it: starting, and the policy rows.                    *)

LEMMA StartsKeepCalls ==
    ASSUME Serialized, IInv, CallInv, NEW p \in Procs,
           ActivatePolicyApproval(p) \/ StartSweep(p)
    PROVE  CallInv'
<1>1. pc[p] = "idle" /\ Alone(p) /\ UNCHANGED <<policyStore, reg>>
  BY DEF ActivatePolicyApproval, StartSweep, Begin, MayStart, Alone, policyStore
<1>2. \E label \in {"optin", "grant", "rebuild"} :
         pc' = [pc EXCEPT ![p] = label] /\ (label = "grant" => optIn)
  BY DEF ActivatePolicyApproval, StartSweep
<1>3. PICK label \in {"optin", "grant", "rebuild"} :
         pc' = [pc EXCEPT ![p] = label] /\ (label = "grant" => optIn)
  BY <1>2
<1>4. pc'[p] = label /\ reg' = reg /\ Others(p) /\ optIn' = optIn
  BY <1>1, <1>3 DEF IInv, Control, Others, policyStore, policyVars
<1>5. reg[p].cont = "idle" /\ ~reg[p].driving
  BY <1>1 DEF CallInv, InCall
<1>6. Informed(p)' /\ InCall(p)'
  BY <1>3, <1>4, <1>5 DEF Informed, InCall, Drives, Handless
<1> QED
  BY <1>1, <1>4, <1>6, QuietTables, OneSteps

(* The steps that write one policy row each, and what they then know.      *)
LEMMA EnsuresKeepCalls ==
    ASSUME IInv, CallInv, NEW p \in Procs,
           \/ EnsurePolicyApprovalActivation(p) \/ EnsureFixtureGrant(p)
           \/ EnsureAuthorizationBinding(p) \/ EnsureApprovalRequest(p)
    PROVE  CallInv'
<1>1. pc[p] \in {"optin", "grant", "bind", "request"} /\ Alone(p) /\ reg[p].cont = "idle"
      /\ Informed(p)
  BY AtWorkAlone DEF EnsurePolicyApprovalActivation, EnsureFixtureGrant,
     EnsureAuthorizationBinding, EnsureApprovalRequest, CallInv, InCall
<1>2. UNCHANGED <<revoked, decisions, approval, intent, completion, observations, journal>>
  BY DEF EnsurePolicyApprovalActivation, EnsureFixtureGrant, EnsureAuthorizationBinding,
     EnsureApprovalRequest, deliveryVars
<1>3. JournalRows'
  BY <1>2 DEF CallInv, JournalRows, OnRecord
<1>4. CASE EnsurePolicyApprovalActivation(p)
  <2>1. optIn' = TRUE /\ UNCHANGED <<grant, binding, request>>
        /\ pc'[p] = "grant" /\ reg'[p] = reg[p] /\ Others(p)
    BY <1>4, Arrives DEF EnsurePolicyApprovalActivation, IInv
  <2>2. PolicyTables'
    BY <1>2, <2>1 DEF CallInv, PolicyTables
  <2>3. Informed(p)' /\ InCall(p)'
    BY <1>1, <2>1 DEF Informed, InCall, Drives, Handless, CallInv
  <2> QED
    BY <1>1, <1>3, <2>1, <2>2, <2>3, OneSteps
<1>5. CASE EnsureFixtureGrant(p)
  <2>1. grant' = TRUE /\ UNCHANGED <<optIn, binding, request>> /\ optIn
        /\ pc'[p] = "evaluate" /\ reg'[p] = reg[p] /\ Others(p)
    BY <1>1, <1>5, Arrives DEF EnsureFixtureGrant, IInv, Informed
  <2>2. PolicyTables'
    BY <1>2, <2>1 DEF CallInv, PolicyTables
  <2>3. Informed(p)' /\ InCall(p)'
    BY <1>1, <2>1 DEF Informed, InCall, Drives, Handless, CallInv
  <2> QED
    BY <1>1, <1>3, <2>1, <2>2, <2>3, OneSteps
<1>6. CASE EnsureAuthorizationBinding(p)
  <2>1. binding' = TRUE /\ UNCHANGED <<optIn, grant, request>> /\ decisions # <<>>
        /\ pc'[p] = "request" /\ reg'[p] = reg[p] /\ Others(p)
    BY <1>1, <1>6, Arrives DEF EnsureAuthorizationBinding, IInv, Informed
  <2>2. PolicyTables'
    BY <1>2, <2>1 DEF CallInv, PolicyTables
  <2>3. Informed(p)' /\ InCall(p)'
    BY <1>1, <2>1 DEF Informed, InCall, Drives, Handless, CallInv
  <2> QED
    BY <1>1, <1>3, <2>1, <2>2, <2>3, OneSteps
<1>7. CASE EnsureApprovalRequest(p)
  <2>1. request' = TRUE /\ UNCHANGED <<optIn, grant, binding>> /\ binding
        /\ pc'[p] = "enter" /\ reg'[p] = reg[p] /\ Others(p)
    BY <1>1, <1>7, Arrives DEF EnsureApprovalRequest, IInv, Informed
  <2>2. PolicyTables'
    BY <1>2, <2>1 DEF CallInv, PolicyTables
  <2>3. Informed(p)' /\ InCall(p)'
    BY <1>1, <2>1 DEF Informed, InCall, Drives, Handless, CallInv
  <2> QED
    BY <1>1, <1>3, <2>1, <2>2, <2>3, OneSteps
<1> QED
  BY <1>4, <1>5, <1>6, <1>7

LEMMA RecoverWorkflowKeepsCalls ==
    ASSUME IInv, CallInv, NEW p \in Procs, RecoverWorkflow(p) \/ Finish(p)
    PROVE  CallInv'
<1> DEFINE s == [reg[p] EXCEPT !.at = Len(journal), !.cont = "dispatch"]
<1>1. pc[p] \in {"rebuild", "finish"} /\ Alone(p) /\ UNCHANGED policyStore
      /\ reg[p] \in Registers /\ (pc[p] = "rebuild" => ~reg[p].driving)
  BY AtWorkAlone, ReadsLeaveStore DEF RecoverWorkflow, Finish, CallInv, InCall, IInv, Control
<1>2. PolicyTables' /\ JournalRows' /\ journal' = journal
  BY <1>1, QuietTables DEF policyStore
<1>3. \/ pc[p] = "rebuild" /\ Goto(p, "sync", s)
      \/ \E outcome : Stop(p, outcome)
  BY Zenon DEF RecoverWorkflow, Finish
<1>4. s.at = Len(journal) /\ s.cont = "dispatch" /\ s.driving = reg[p].driving
  BY <1>1 DEF Registers
<1> HIDE DEF s
<1>5. CASE pc[p] = "rebuild" /\ Goto(p, "sync", s)
  <2>1. pc'[p] = "sync" /\ reg'[p] = s /\ Others(p)
    BY <1>5, Arrives DEF IInv
  <2>2. Informed(p)' /\ InCall(p)'
    BY <1>1, <1>2, <1>4, <1>5, <2>1 DEF Informed, InCall, Drives, Handless
  <2> QED
    BY <1>1, <1>2, <2>1, <2>2, OneSteps
<1> QED
  BY <1>1, <1>2, <1>3, <1>5, StopKeepsCalls DEF IInv

(* A sweep drives a delivery only once it has passed its checks.           *)
LEMMA DispatchKeepsCalls ==
    ASSUME IInv, CallInv, NEW p \in Procs, Dispatch(p)
    PROVE  CallInv'
<1> DEFINE s == [reg[p] EXCEPT !.at = Len(journal)]
<1>1. pc[p] = "dispatch" /\ Alone(p) /\ UNCHANGED policyStore
      /\ reg[p] \in Registers /\ ~reg[p].driving /\ reg[p].cont = "idle"
  BY AtWorkAlone, ReadsLeaveStore DEF Dispatch, CallInv, InCall, IInv, Control
<1>2. PolicyTables' /\ JournalRows' /\ journal' = journal /\ optIn' = optIn
  BY <1>1, QuietTables DEF policyStore, policyVars
<1>3. \/ Stop(p, "policy_journal_invalid") \/ Goto(p, "process", s)
      \/ optIn /\ Goto(p, "grant", s)
      \/ Goto(p, "finish", NoRegisters)
  BY DEF Dispatch
<1>4. s.at = Len(journal) /\ s.cont = "idle" /\ ~s.driving
  BY <1>1 DEF Registers
<1> HIDE DEF s
<1>5. CASE Goto(p, "process", s) \/ (optIn /\ Goto(p, "grant", s))
  <2>1. pc'[p] \in {"process", "grant"} /\ reg'[p] = s /\ Others(p)
        /\ (pc'[p] = "grant" => optIn)
    BY <1>5, Arrives DEF IInv
  <2>2. Informed(p)' /\ InCall(p)'
    BY <1>2, <1>4, <2>1 DEF Informed, InCall, Drives, Handless
  <2> QED
    BY <1>1, <1>2, <2>1, <2>2, OneSteps
<1>6. CASE Stop(p, "policy_journal_invalid")
  BY <1>1, <1>2, <1>6, StopKeepsCalls DEF IInv
<1>7. CASE Goto(p, "finish", NoRegisters)
  BY <1>1, <1>2, <1>7, FinishKeepsCalls DEF IInv
<1> QED
  BY <1>3, <1>5, <1>6, <1>7

(* Without a revocation every evaluation is of the same policy input.      *)
LEMMA EvaluateFixturePolicyKeepsCalls ==
    ASSUME IInv, CallInv, NEW p \in Procs, EvaluateFixturePolicy(p)
    PROVE  CallInv'
<1> DEFINE row == [granted |-> ~revoked, allow |-> ~revoked /\ ~grantExpired]
           s == [reg[p] EXCEPT !.row = row]
<1>1. pc[p] = "evaluate" /\ Alone(p) /\ UNCHANGED policyStore
      /\ reg[p] \in Registers /\ reg[p].cont = "idle" /\ grant
  BY AtWorkAlone, ReadsLeaveStore DEF EvaluateFixturePolicy, CallInv, InCall, Informed, IInv, Control
<1>2. PolicyTables' /\ JournalRows' /\ grant' = grant
  BY <1>1, QuietTables DEF policyStore, policyVars
<1>3. row.granted = ~revoked /\ ~revoked
  BY DEF CallInv, PolicyTables
<1> HIDE DEF row
<1>4. s.row = row /\ s.cont = "idle"
  BY <1>1 DEF Registers
<1>5. Goto(p, "decide", s)
  BY DEF EvaluateFixturePolicy, row
<1> HIDE DEF s
<1>6. pc'[p] = "decide" /\ reg'[p] = s /\ Others(p)
  BY <1>5, Arrives DEF IInv
<1>7. Informed(p)' /\ InCall(p)'
  BY <1>1, <1>2, <1>3, <1>4, <1>6 DEF Informed, InCall, Drives, Handless
<1> QED
  BY <1>1, <1>2, <1>6, <1>7, OneSteps

(* There is one decision at most: a second evaluation finds the first.     *)
LEMMA EnsurePolicyDecisionKeepsCalls ==
    ASSUME IInv, CallInv, NEW p \in Procs, EnsurePolicyDecision(p)
    PROVE  CallInv'
<1> DEFINE row == reg[p].row
           same == {i \in 1..Len(decisions) : decisions[i].granted = row.granted}
           s == [reg[p] EXCEPT !.row = NoDecision]
<1>1. pc[p] = "decide" /\ Alone(p) /\ reg[p] \in Registers /\ reg[p].cont = "idle"
      /\ grant /\ row.granted /\ row \in Decisions
  BY AtWorkAlone DEF EnsurePolicyDecision, CallInv, InCall, Informed, IInv, Control, Registers
<1>2. /\ decisions' = IF same = {} THEN Append(decisions, row) ELSE decisions
      /\ Goto(p, "bind", s) \/ Goto(p, "finish", s)
      /\ UNCHANGED <<optIn, grant, revoked, binding, request, approval, intent, completion,
                     observations, journal>>
  BY DEF EnsurePolicyDecision, deliveryVars
<1>3. decisions \in Seq(Decisions)
  BY DEF IInv, StoreTypes
<1>4. decisions' # <<>> /\ Len(decisions') = 1 /\ decisions'[1].granted
  <2>1. CASE decisions = <<>>
    <3>1. same = {}
      BY <2>1
    <3> QED
      BY <1>1, <1>2, <2>1, <3>1
  <2>2. CASE decisions # <<>>
    <3>1. Len(decisions) = 1 /\ decisions[1].granted
      BY <2>2 DEF CallInv, PolicyTables
    <3>2. decisions[1] \in Decisions
      BY <1>3, <3>1
    <3>3. decisions[1].granted = TRUE /\ row.granted = TRUE
      BY <1>1, <3>1, <3>2 DEF Decisions
    <3>4. 1 \in 1..Len(decisions)
      BY <3>1
    <3>5. 1 \in same
      BY <3>3, <3>4, Zenon
    <3> QED
      BY <1>2, <2>2, <3>1, <3>5
  <2> QED
    BY <2>1, <2>2
<1>5. PolicyTables'
  BY <1>1, <1>2, <1>4 DEF CallInv, PolicyTables
<1>6. JournalRows'
  BY <1>2 DEF CallInv, JournalRows, OnRecord
<1>7. s.cont = "idle"
  BY <1>1 DEF Registers
<1> HIDE DEF s, same
<1>8. pc'[p] \in {"bind", "finish"} /\ reg'[p] = s /\ Others(p)
  BY <1>2, Arrives DEF IInv
<1>9. Informed(p)' /\ InCall(p)'
  BY <1>4, <1>7, <1>8 DEF Informed, InCall, Drives, Handless
<1> QED
  BY <1>1, <1>5, <1>6, <1>8, <1>9, OneSteps

LEMMA EnterApprovalKeepsCalls ==
    ASSUME IInv, CallInv, NEW p \in Procs, EnterApproval(p)
    PROVE  CallInv'
<1> DEFINE s == [reg[p] EXCEPT !.at = Len(journal)]
<1>1. pc[p] = "enter" /\ Alone(p) /\ UNCHANGED policyStore
      /\ reg[p] \in Registers /\ reg[p].cont = "idle" /\ request
  BY AtWorkAlone, ReadsLeaveStore DEF EnterApproval, CallInv, InCall, Informed, IInv, Control
<1>2. PolicyTables' /\ JournalRows' /\ journal' = journal
  BY <1>1, QuietTables DEF policyStore
<1>3. \/ Keep(p, s, POLICY_APPROVAL_ACTIVATED, AWAITING_APPROVAL, "approval-request", "decision")
      \/ Goto(p, "decision", s) \/ Goto(p, "deliver", s) \/ Goto(p, "finish", NoRegisters)
  BY DEF EnterApproval
<1>4. s.at = Len(journal) /\ s.cont = "idle" /\ s \in Registers
  BY <1>1, LatestOnRecord DEF Registers
<1> HIDE DEF s
<1>5. CASE Keep(p, s, POLICY_APPROVAL_ACTIVATED, AWAITING_APPROVAL, "approval-request", "decision")
  <2>1. AWAITING_APPROVAL \in WORKFLOW_STATES /\ "approval-request" \in Causes
    BY DEF WORKFLOW_STATES, Causes
  <2> QED
    BY <1>1, <1>4, <1>5, <2>1, KeepKeepsCalls
<1>6. CASE Goto(p, "decision", s) \/ Goto(p, "deliver", s)
  <2>1. pc'[p] \in {"decision", "deliver"} /\ reg'[p] = s /\ Others(p)
    BY <1>6, Arrives DEF IInv
  <2>2. Informed(p)' /\ InCall(p)'
    BY <1>2, <1>4, <2>1 DEF Informed, InCall, Drives, Handless
  <2> QED
    BY <1>1, <1>2, <2>1, <2>2, OneSteps
<1> QED
  BY <1>1, <1>2, <1>3, <1>5, <1>6, FinishKeepsCalls DEF IInv

LEMMA ReadDecisionKeepsCalls ==
    ASSUME IInv, CallInv, NEW p \in Procs, ReadDecision(p)
    PROVE  CallInv'
<1>1. pc[p] = "decision" /\ Alone(p) /\ UNCHANGED policyStore
      /\ reg[p].cont = "idle" /\ reg[p].at = Len(journal)
  BY AtWorkAlone, ReadsLeaveStore DEF ReadDecision, CallInv, InCall, Handless
<1>2. PolicyTables' /\ JournalRows' /\ journal' = journal
  BY <1>1, QuietTables DEF policyStore
<1>3. Goto(p, "finish", NoRegisters) \/ Goto(p, "decided", reg[p])
  BY DEF ReadDecision
<1>4. CASE Goto(p, "decided", reg[p])
  <2>1. pc'[p] = "decided" /\ reg'[p] = reg[p] /\ Others(p)
    BY <1>4, Arrives DEF IInv
  <2>2. Informed(p)' /\ InCall(p)'
    BY <1>1, <1>2, <2>1 DEF Informed, InCall, Drives, Handless
  <2> QED
    BY <1>1, <1>2, <2>1, <2>2, OneSteps
<1> QED
  BY <1>1, <1>2, <1>3, <1>4, FinishKeepsCalls DEF IInv

LEMMA PersistApprovalDecisionKeepsCalls ==
    ASSUME IInv, CallInv, NEW p \in Procs, PersistApprovalDecision(p)
    PROVE  CallInv'
<1> DEFINE s == [reg[p] EXCEPT !.vote = "none"]
<1>1. pc[p] = "vote" /\ Alone(p) /\ reg[p] \in Registers /\ reg[p].cont = "idle"
      /\ request /\ reg[p].at = Len(journal)
  BY AtWorkAlone DEF PersistApprovalDecision, CallInv, InCall, Informed, IInv, Control, Handless
<1>2. UNCHANGED <<optIn, grant, revoked, decisions, binding, request, intent, completion,
                  observations, journal>>
  BY DEF PersistApprovalDecision, deliveryVars
<1>3. Goto(p, "decided", s) \/ Stop(p, "approval_decision_conflict")
  BY DEF PersistApprovalDecision
<1>4. JournalRows'
  BY <1>2 DEF CallInv, JournalRows, OnRecord
<1>5. PolicyTables'
  BY <1>1, <1>2 DEF CallInv, PolicyTables
<1>6. s.at = Len(journal) /\ s.cont = "idle"
  BY <1>1 DEF Registers
<1> HIDE DEF s
<1>7. CASE Goto(p, "decided", s)
  <2>1. pc'[p] = "decided" /\ reg'[p] = s /\ Others(p)
    BY <1>7, Arrives DEF IInv
  <2>2. Informed(p)' /\ InCall(p)'
    BY <1>2, <1>6, <2>1 DEF Informed, InCall, Drives, Handless
  <2> QED
    BY <1>1, <1>4, <1>5, <2>1, <2>2, OneSteps
<1>8. CASE Stop(p, "approval_decision_conflict")
  BY <1>1, <1>4, <1>5, <1>8, StopKeepsCalls DEF IInv
<1> QED
  BY <1>3, <1>7, <1>8

(* The decision is applied to the latest checkpoint, in AWAITING_APPROVAL. *)
LEMMA ApplyDecisionKeepsCalls ==
    ASSUME IInv, CallInv, NEW p \in Procs, ApplyDecision(p)
    PROVE  CallInv'
<1>1. pc[p] = "decided" /\ Alone(p) /\ UNCHANGED policyStore /\ reg[p] \in Registers
      /\ reg[p].at = Len(journal)
  BY AtWorkAlone, ReadsLeaveStore DEF ApplyDecision, CallInv, InCall, IInv, Control, Handless
<1>2. \/ Goto(p, "finish", NoRegisters)
      \/ Latest.state = AWAITING_APPROVAL /\
         \/ Keep(p, reg[p], AUTHORIZATION_DENIED, WAITING_FOR_OPERATOR, "approval", "finish")
         \/ Keep(p, reg[p], AUTHORIZATION_DENIED, WAITING_FOR_OPERATOR, "approval-invalid",
                 "finish")
         \/ Keep(p, reg[p], APPROVAL_GRANTED, DELIVERING, "approval", "deliver")
  BY <1>1 DEF ApplyDecision, Latest
<1>3. CASE Goto(p, "finish", NoRegisters)
  BY <1>1, <1>3, QuietTables, FinishKeepsCalls DEF IInv
<1>4. CASE Latest.state = AWAITING_APPROVAL /\ ~Goto(p, "finish", NoRegisters)
  <2>1. request
    BY <1>4, LatestOnRecord DEF GatedStates
  <2>2. {WAITING_FOR_OPERATOR, DELIVERING} \subseteq WORKFLOW_STATES
        /\ {"approval", "approval-invalid"} \subseteq Causes
    BY DEF WORKFLOW_STATES, Causes
  <2> QED
    BY <1>1, <1>2, <1>4, <2>1, <2>2, KeepKeepsCalls
<1> QED
  BY <1>2, <1>3, <1>4

-----------------------------------------------------------------------------
(* Each action keeps it: the delivery.                                     *)

LEMMA RecoverDeliveryKeepsCalls ==
    ASSUME IInv, CallInv, NEW p \in Procs, RecoverDelivery(p)
    PROVE  CallInv'
<1> DEFINE s == [reg[p] EXCEPT !.driving = TRUE]
<1>1. pc[p] = "deliver" /\ Alone(p) /\ UNCHANGED policyStore /\ reg[p] \in Registers
      /\ reg[p].at = Len(journal) /\ reg[p].cont = "idle"
  BY AtWorkAlone, ReadsLeaveStore DEF RecoverDelivery, CallInv, InCall, IInv, Control, Handless
<1>2. PolicyTables' /\ JournalRows' /\ journal' = journal /\ request' = request
  BY <1>1, QuietTables DEF policyStore, policyVars
<1>3. \/ Goto(p, "finish", NoRegisters)
      \/ Latest.state = DELIVERING /\ Goto(p, "intent", s)
      \/ Transition(p, reg[p], AUTHORIZATION_DENIED, WAITING_FOR_OPERATOR,
                    WAITING_FOR_OPERATOR, "authorization-denied", Pending, Completed, "finish")
  BY <1>1 DEF RecoverDelivery, Latest
<1>4. s.at = Len(journal) /\ s.cont = "idle"
  BY <1>1 DEF Registers
<1> HIDE DEF s
<1>5. CASE Goto(p, "finish", NoRegisters)
  BY <1>1, <1>2, <1>5, FinishKeepsCalls DEF IInv
<1>6. CASE Latest.state = DELIVERING /\ Goto(p, "intent", s)
  <2>1. request
    BY <1>6, LatestOnRecord DEF GatedStates
  <2>2. pc'[p] = "intent" /\ reg'[p] = s /\ Others(p)
    BY <1>6, Arrives DEF IInv
  <2>3. Latest' = Latest
    BY <1>2 DEF Latest
  <2>4. Informed(p)' /\ InCall(p)'
    BY <1>2, <1>4, <1>6, <2>1, <2>2, <2>3 DEF Informed, InCall, Drives, Handless
  <2> QED
    BY <1>1, <1>2, <2>2, <2>4, OneSteps
<1>7. CASE Transition(p, reg[p], AUTHORIZATION_DENIED, WAITING_FOR_OPERATOR,
                      WAITING_FOR_OPERATOR, "authorization-denied", Pending, Completed, "finish")
  <2>1. /\ WAITING_FOR_OPERATOR \in WORKFLOW_STATES /\ "authorization-denied" \in Causes
        /\ WAITING_FOR_OPERATOR \notin GatedStates
        /\ AUTHORIZATION_DENIED # RECONCILIATION_REQUIRED
    BY DEF WORKFLOW_STATES, Causes, GatedStates, WAITING_FOR_OPERATOR, AWAITING_APPROVAL,
           DELIVERING, DELIVERY_RECORDED, AUTHORIZATION_DENIED, RECONCILIATION_REQUIRED
  <2> QED
    BY <1>1, <1>7, <2>1, LatestOnRecord, TransitionKeepsCalls DEF IInv
<1> QED
  BY <1>3, <1>5, <1>6, <1>7

LEMMA EnsureDeliveryIntentKeepsCalls ==
    ASSUME IInv, CallInv, NEW p \in Procs, EnsureDeliveryIntent(p)
    PROVE  CallInv'
<1>1. pc[p] = "intent" /\ Alone(p) /\ reg[p].cont = "idle" /\ request
      /\ reg[p].at = Len(journal) /\ Latest.state = DELIVERING
  BY AtWorkAlone DEF EnsureDeliveryIntent, CallInv, InCall, Informed, Handless, Drives
<1>2. intent' = TRUE /\ UNCHANGED <<policyVars, completion, observations, journal>>
      /\ Goto(p, "mark", reg[p])
  BY DEF EnsureDeliveryIntent
<1>3. JournalRows'
  BY <1>2 DEF CallInv, JournalRows, OnRecord
<1>4. PolicyTables'
  BY <1>1, <1>2 DEF CallInv, PolicyTables, policyVars
<1>5. pc'[p] = "mark" /\ reg'[p] = reg[p] /\ Others(p)
  BY <1>2, Arrives DEF IInv
<1>6. Latest' = Latest /\ journal' = journal
  BY <1>2 DEF Latest
<1>7. Informed(p)' /\ InCall(p)'
  BY <1>1, <1>5, <1>6 DEF Informed, InCall, Drives, Handless
<1> QED
  BY <1>1, <1>3, <1>4, <1>5, <1>7, OneSteps

(* Progress of a delivery is marked in DELIVERING, on the latest row.      *)
LEMMA MarksKeepCalls ==
    ASSUME IInv, CallInv, NEW p \in Procs, MarkIntent(p) \/ MarkCompletion(p)
    PROVE  CallInv'
<1>1. pc[p] \in {"mark", "driven"} /\ Alone(p) /\ UNCHANGED policyStore
      /\ reg[p] \in Registers /\ Latest.state = DELIVERING
  BY AtWorkAlone, ReadsLeaveStore DEF MarkIntent, MarkCompletion, CallInv, InCall, Drives,
     IInv, Control
<1>2. PICK cause \in {"delivery-intent", "delivery-completion"}, ret \in {"process", "record"} :
         MarkDelivery(p, cause, ret)
  BY DEF MarkIntent, MarkCompletion
<1> DEFINE want == [Checkpoint(DELIVERING, cause, "none") EXCEPT !.pending = Pending,
                                                                 !.completed = Completed]
<1>3. EnsureCheckpoint(p, reg[p], want, ret, "idle")
  BY <1>2 DEF MarkDelivery
<1>4. /\ want.state = DELIVERING /\ want.kind = "none" /\ want.resume = DELIVERING
      /\ want.pending = Pending /\ want.completed = Completed
  BY DEF Checkpoint
<1>5. want \in Checkpoints
  BY LatestOnRecord DEF Checkpoint, Checkpoints, WORKFLOW_STATES, Causes
<1> HIDE DEF want
<1>6. OnRecord(want)
  BY <1>4, LatestOnRecord DEF OnRecord
<1>7. ValidSuccessor(Latest, want)
  BY <1>1, <1>4, LatestOnRecord DEF ValidSuccessor
<1>8. want.state \in GatedStates => request
  BY <1>1, <1>4, LatestOnRecord
<1>9. ret # "sync" /\ "idle" \in {"idle", "finish", "decision", "deliver"}
      /\ ret \in {"sync", "process", "record"}
  BY <1>2
<1> QED
  BY <1>1, <1>3, <1>4, <1>5, <1>6, <1>7, <1>8, <1>9, EnsureCheckpointKeepsCalls DEF IInv

LEMMA ProcessDeliveryIntentKeepsCalls ==
    ASSUME IInv, CallInv, NEW p \in Procs, ProcessDeliveryIntent(p)
    PROVE  CallInv'
<1> DEFINE found == [reg[p] EXCEPT !.status = Reconciled, !.phase = "reconcile"]
           lost  == [reg[p] EXCEPT !.status = "unknown", !.phase = "reconcile-timeout"]
<1>1. pc[p] = "process" /\ Alone(p) /\ UNCHANGED policyStore /\ reg[p] \in Registers
      /\ reg[p].at = Len(journal) /\ reg[p].cont = "idle"
      /\ (reg[p].driving => Latest.state = DELIVERING)
  BY AtWorkAlone DEF ProcessDeliveryIntent, CallInv, InCall, Drives, Handless, policyStore,
     IInv, Control
<1>2. PolicyTables' /\ JournalRows' /\ journal' = journal /\ Latest' = Latest
  BY <1>1, QuietTables DEF policyStore, Latest
<1>3. \/ Goto(p, AfterProcess(reg[p]), reg[p]) \/ Goto(p, "observe", found)
      \/ Goto(p, "observe", lost)
  BY DEF ProcessDeliveryIntent
<1>4. /\ found.at = reg[p].at /\ found.cont = reg[p].cont /\ found.driving = reg[p].driving
      /\ lost.at = reg[p].at /\ lost.cont = reg[p].cont /\ lost.driving = reg[p].driving
  BY <1>1 DEF Registers
<1> HIDE DEF found, lost
<1>5. /\ pc'[p] \in {"observe", AfterProcess(reg[p])} /\ Others(p)
      /\ reg'[p] \in {reg[p], found, lost}
  BY <1>3, Arrives DEF IInv
<1>6. /\ pc'[p] \in {"observe", "driven", "reconciled"}
      /\ pc'[p] = "driven" => reg[p].driving
  BY <1>5 DEF AfterProcess
<1>7. /\ reg'[p].at = Len(journal) /\ reg'[p].cont = "idle"
      /\ reg'[p].driving = reg[p].driving
  BY <1>1, <1>4, <1>5
<1>8. Informed(p)' /\ InCall(p)'
  BY <1>1, <1>2, <1>6, <1>7 DEF Informed, InCall, Drives, Handless
<1> QED
  BY <1>1, <1>2, <1>5, <1>8, OneSteps

(* An answer "present" is on record before its completion.                 *)
LEMMA RecordDeliveryObservationKeepsCalls ==
    ASSUME IInv, CallInv, NEW p \in Procs, RecordDeliveryObservation(p)
    PROVE  CallInv'
<1>1. pc[p] = "observe" /\ Alone(p) /\ reg[p] \in Registers
      /\ reg[p].at = Len(journal) /\ reg[p].cont = "idle"
      /\ (reg[p].driving => Latest.state = DELIVERING)
  BY AtWorkAlone DEF RecordDeliveryObservation, CallInv, InCall, Drives, Handless, IInv, Control
<1>2. /\ observations' = observations \cup {[phase |-> reg[p].phase, status |-> reg[p].status]}
      /\ UNCHANGED <<policyVars, intent, completion, journal>>
      /\ Goto(p, AfterObservation(reg[p]), reg[p])
  BY DEF RecordDeliveryObservation
<1>3. JournalRows' /\ Latest' = Latest /\ journal' = journal
  BY <1>2 DEF CallInv, JournalRows, OnRecord, Latest
<1>4. PolicyTables'
  BY <1>2 DEF CallInv, PolicyTables, policyVars
<1>5. pc'[p] = AfterObservation(reg[p]) /\ reg'[p] = reg[p] /\ Others(p)
  BY <1>2, Arrives DEF IInv
<1>6. /\ pc'[p] \in {"complete", "execute", "block", "finish"}
      /\ pc'[p] = "complete" => reg[p].status = "present"
      /\ pc'[p] = "block" => reg[p].driving
  BY <1>5 DEF AfterObservation
<1>7. Informed(p)'
  BY <1>2, <1>5, <1>6 DEF Informed
<1>8. InCall(p)'
  BY <1>1, <1>3, <1>5, <1>6 DEF InCall, Drives, Handless
<1> QED
  BY <1>1, <1>3, <1>4, <1>5, <1>7, <1>8, OneSteps

LEMMA ExecuteDeliveryIntentKeepsCalls ==
    ASSUME IInv, CallInv, NEW p \in Procs, ExecuteDeliveryIntent(p)
    PROVE  CallInv'
<1> DEFINE s == [reg[p] EXCEPT !.status = "present", !.phase = "execute"]
<1>1. pc[p] = "execute" /\ Alone(p) /\ reg[p] \in Registers
      /\ reg[p].at = Len(journal) /\ reg[p].cont = "idle"
      /\ (reg[p].driving => Latest.state = DELIVERING)
  BY AtWorkAlone DEF ExecuteDeliveryIntent, CallInv, InCall, Drives, Handless, IInv, Control
<1>2. /\ UNCHANGED <<policyVars, intent, observations, completion, journal>>
      /\ Goto(p, "observe", s)
  BY DEF ExecuteDeliveryIntent
<1>3. JournalRows' /\ Latest' = Latest /\ journal' = journal
  BY <1>2 DEF CallInv, JournalRows, OnRecord, Latest
<1>4. PolicyTables'
  BY <1>2 DEF CallInv, PolicyTables, policyVars
<1>5. s.at = reg[p].at /\ s.cont = reg[p].cont /\ s.driving = reg[p].driving
  BY <1>1 DEF Registers
<1> HIDE DEF s
<1>6. pc'[p] = "observe" /\ reg'[p] = s /\ Others(p)
  BY <1>2, Arrives DEF IInv
<1>7. Informed(p)' /\ InCall(p)'
  BY <1>1, <1>3, <1>5, <1>6 DEF Informed, InCall, Drives, Handless
<1> QED
  BY <1>1, <1>3, <1>4, <1>6, <1>7, OneSteps

LEMMA RecordDeliveryCompletionKeepsCalls ==
    ASSUME IInv, CallInv, NEW p \in Procs, RecordDeliveryCompletion(p)
    PROVE  CallInv'
<1> DEFINE s == [reg[p] EXCEPT !.status = "unknown", !.phase = "reconcile"]
<1>1. pc[p] = "complete" /\ Alone(p) /\ reg[p] \in Registers
      /\ reg[p].at = Len(journal) /\ reg[p].cont = "idle"
      /\ (reg[p].driving => Latest.state = DELIVERING)
      /\ [phase |-> reg[p].phase, status |-> "present"] \in observations
  BY AtWorkAlone DEF RecordDeliveryCompletion, CallInv, InCall, Informed, Drives, Handless,
     IInv, Control
<1>2. /\ completion' = IF completion = "none" THEN reg[p].phase ELSE completion
      /\ UNCHANGED <<policyVars, intent, observations, journal>>
      /\ Goto(p, AfterProcess(reg[p]), s)
  BY DEF RecordDeliveryCompletion
<1>3. completion # "none" => completion' # "none"
  BY <1>2
<1>4. JournalRows' /\ Latest' = Latest /\ journal' = journal
  BY <1>2, <1>3 DEF CallInv, JournalRows, OnRecord, Latest
<1>5. PolicyTables'
  BY <1>1, <1>2 DEF CallInv, PolicyTables, policyVars
<1>6. s.at = reg[p].at /\ s.cont = reg[p].cont /\ s.driving = reg[p].driving
  BY <1>1 DEF Registers
<1> HIDE DEF s
<1>7. pc'[p] = AfterProcess(reg[p]) /\ reg'[p] = s /\ Others(p)
  BY <1>2, Arrives DEF IInv
<1>8. pc'[p] \in {"driven", "reconciled"} /\ (pc'[p] = "driven" => reg[p].driving)
  BY <1>7 DEF AfterProcess
<1>9. Informed(p)' /\ InCall(p)'
  BY <1>1, <1>4, <1>6, <1>7, <1>8 DEF Informed, InCall, Drives, Handless
<1> QED
  BY <1>1, <1>4, <1>5, <1>7, <1>9, OneSteps

(* The transitions that end a delivery, or block it.                       *)
LEMMA DeliveryTransitionsKeepCalls ==
    ASSUME IInv, CallInv, NEW p \in Procs,
           BlockDelivery(p) \/ RecordDelivery(p) \/ FinishReconciliation(p)
    PROVE  CallInv'
<1>1. pc[p] \in {"block", "record", "reconciled"} /\ Alone(p) /\ UNCHANGED policyStore
      /\ reg[p] \in Registers /\ reg[p].at = Len(journal) /\ intent
      /\ (pc[p] = "block" => Latest.state = DELIVERING)
  BY AtWorkAlone, ReadsLeaveStore, Labelled
  DEF BlockDelivery, RecordDelivery, FinishReconciliation, CallInv, InCall, Drives, Handless,
      IInv, Control, WithIntent
<1>2. request
  BY <1>1 DEF CallInv, PolicyTables
<1>3. {DELIVERING, NEEDS_RECONCILIATION, DELIVERY_RECORDED} \subseteq WORKFLOW_STATES
      /\ {"delivery-reconciliation", "delivery-reconciled", "delivery-completion"} \subseteq Causes
      /\ RECONCILIATION_COMPLETE # RECONCILIATION_REQUIRED
  BY DEF WORKFLOW_STATES, Causes, RECONCILIATION_COMPLETE, RECONCILIATION_REQUIRED
<1>4. CASE BlockDelivery(p)
  <2>1. Transition(p, reg[p], RECONCILIATION_REQUIRED, NEEDS_RECONCILIATION, DELIVERING,
                   "delivery-reconciliation", Pending, Completed, "finish") /\ pc[p] = "block"
    BY <1>4 DEF BlockDelivery
  <2> QED
    BY <1>1, <1>2, <1>3, <2>1, LatestOnRecord, TransitionKeepsCalls DEF IInv
<1>5. CASE RecordDelivery(p)
  <2>1. Keep(p, reg[p], DELIVERY_COMPLETE, DELIVERY_RECORDED, "delivery-completion", "finish")
    BY <1>5 DEF RecordDelivery
  <2> QED
    BY <1>1, <1>2, <1>3, <2>1, KeepKeepsCalls
<1>6. CASE FinishReconciliation(p)
  <2>1. Transition(p, reg[p], RECONCILIATION_COMPLETE, DELIVERING, DELIVERING,
                   "delivery-reconciled", Pending, Completed, "deliver")
    BY <1>6 DEF FinishReconciliation
  <2> QED
    BY <1>1, <1>2, <1>3, <2>1, LatestOnRecord, TransitionKeepsCalls DEF IInv
<1> QED
  BY <1>4, <1>5, <1>6

-----------------------------------------------------------------------------
(* Decisions, the environment, and the invariant.                          *)

LEMMA SubmitApprovalDecisionKeepsCalls ==
    ASSUME Serialized, IInv, CallInv, NEW p \in Procs, SubmitApprovalDecision(p)
    PROVE  CallInv'
<1>1. Alone(p) /\ UNCHANGED policyStore /\ request
  BY DEF SubmitApprovalDecision, MayStart, Alone, policyStore
<1>2. PolicyTables' /\ JournalRows' /\ journal' = journal /\ request' = request
  BY <1>1, QuietTables DEF policyStore, policyVars
<1> DEFINE r == [NoRegisters EXCEPT !.at = Len(journal)]
<1>3. r.at = Len(journal) /\ r.cont = "idle"
  BY DEF NoRegisters
<1>4. \/ \E outcome : Stop(p, outcome)
      \/ Goto(p, "decided", r)
      \/ \E vote \in Votes : Goto(p, "vote", [r EXCEPT !.vote = vote])
  BY Zenon DEF SubmitApprovalDecision
<1>5. ASSUME NEW label \in {"decided", "vote"}, NEW s, s.at = Len(journal), s.cont = "idle",
             Goto(p, label, s)
      PROVE  CallInv'
  <2>1. pc'[p] = label /\ reg'[p] = s /\ Others(p)
    BY <1>5, Arrives DEF IInv
  <2>2. Informed(p)' /\ InCall(p)'
    BY <1>1, <1>2, <1>5, <2>1 DEF Informed, InCall, Drives, Handless
  <2> QED
    BY <1>1, <1>2, <2>1, <2>2, OneSteps
<1>6. ASSUME NEW vote \in Votes, Goto(p, "vote", [r EXCEPT !.vote = vote])
      PROVE  CallInv'
  <2> DEFINE s == [r EXCEPT !.vote = vote]
  <2>1. s.at = Len(journal) /\ s.cont = "idle"
    BY <1>3 DEF NoRegisters
  <2> HIDE DEF s
  <2>2. Goto(p, "vote", s)
    BY <1>6 DEF s
  <2> QED
    BY <1>5, <2>1, <2>2
<1>7. CASE Goto(p, "decided", r)
  <2> HIDE DEF r
  <2> QED
    BY <1>3, <1>5, <1>7
<1>8. ASSUME NEW outcome, Stop(p, outcome)
      PROVE  CallInv'
  BY <1>1, <1>2, <1>8, StopKeepsCalls DEF IInv
<1> HIDE DEF r
<1> QED
  BY <1>4, <1>6, <1>7, <1>8 DEF r

LEMMA CrashKeepsCalls ==
    ASSUME IInv, CallInv, NEW p \in Procs, Crash(p)
    PROVE  CallInv'
<1>1. Alone(p) /\ UNCHANGED policyStore /\ Stop(p, "interrupted")
  BY AtWorkAlone DEF Crash, policyStore
<1> QED
  BY <1>1, QuietTables, StopKeepsCalls DEF IInv

(* The clock is asked by the evaluation and by the checks, not by a row.   *)
LEMMA QuietKeepsCalls ==
    ASSUME CallInv, UNCHANGED <<policyStore, pc, reg>>
    PROVE  CallInv'
<1>1. PolicyTables' /\ JournalRows'
  BY QuietTables
<1>2. OneAtATime'
  BY DEF CallInv, OneAtATime
<1>3. ASSUME NEW p \in Procs PROVE Informed(p)' /\ InCall(p)'
  <2>1. /\ UNCHANGED <<optIn, grant, decisions, binding, request, observations, intent,
                       completion, journal, pc, reg>>
        /\ Latest' = Latest
    BY DEF policyStore, policyVars, deliveryVars, Latest
  <2>2. Informed(p) /\ InCall(p)
    BY DEF CallInv
  <2>3. Informed(p)'
    BY <2>1, <2>2 DEF Informed
  <2>4. InCall(p)'
    BY <2>1, <2>2 DEF InCall, Drives, OnRecord
  <2> QED
    BY <2>3, <2>4
<1> QED
  BY <1>1, <1>2, <1>3 DEF CallInv

LEMMA StepKeepsCalls ==
    ASSUME IInv, CallInv, NEW p \in Procs, Step(p)
    PROVE  CallInv'
<1>1. CASE JournalStep(p)
  BY <1>1, AppendCheckpointKeepsCalls, SyncCaseStateKeepsCalls,
     AppendWorkflowStateEventKeepsCalls DEF JournalStep
<1>2. CASE PolicyStep(p)
  BY <1>2, EnsuresKeepCalls, RecoverWorkflowKeepsCalls, DispatchKeepsCalls,
     EvaluateFixturePolicyKeepsCalls, EnsurePolicyDecisionKeepsCalls,
     EnterApprovalKeepsCalls, ReadDecisionKeepsCalls, PersistApprovalDecisionKeepsCalls,
     ApplyDecisionKeepsCalls DEF PolicyStep
<1>3. CASE DeliveryStep(p)
  BY <1>3, RecoverDeliveryKeepsCalls, EnsureDeliveryIntentKeepsCalls, MarksKeepCalls,
     ProcessDeliveryIntentKeepsCalls, RecordDeliveryObservationKeepsCalls,
     ExecuteDeliveryIntentKeepsCalls, RecordDeliveryCompletionKeepsCalls,
     DeliveryTransitionsKeepCalls DEF DeliveryStep
<1> QED
  BY <1>1, <1>2, <1>3 DEF Step

LEMMA NextKeepsCalls ==
    ASSUME Serialized, ~MayRevoke, IInv, CallInv, [Next]_vars
    PROVE  CallInv'
<1>1. CASE UNCHANGED vars \/ RevokeFixtureGrant \/ Expire
  <2>1. ~RevokeFixtureGrant
    BY DEF RevokeFixtureGrant
  <2>2. UNCHANGED <<policyStore, pc, reg>>
    BY <1>1, <2>1 DEF Expire, vars, policyStore
  <2> QED
    BY <2>2, QuietKeepsCalls
<1>2. ASSUME NEW p \in Procs,
             \/ ActivatePolicyApproval(p) \/ StartSweep(p)
             \/ SubmitApprovalDecision(p) \/ Step(p) \/ Crash(p)
      PROVE  CallInv'
  BY <1>2, StartsKeepCalls, SubmitApprovalDecisionKeepsCalls, StepKeepsCalls, CrashKeepsCalls
<1> QED
  BY <1>1, <1>2 DEF Next

LEMMA InitCallInv == Init => CallInv
<1> SUFFICES ASSUME Init PROVE CallInv
  OBVIOUS
<1> DEFINE c1 == Checkpoint(INVESTIGATING, "candidate", INVESTIGATION_STARTED)
           c2 == Checkpoint(RESPONSE_READY, "candidate", RESPONSE_CANDIDATE_VERIFIED)
<1>1. journal = <<c1, c2>>
  BY DEF Init
<1>2. /\ c1.state = INVESTIGATING /\ c1.pending = {} /\ c1.completed = {}
      /\ c2.state = RESPONSE_READY /\ c2.pending = {} /\ c2.completed = {}
      /\ c2.resume = RESPONSE_READY /\ c2.kind = RESPONSE_CANDIDATE_VERIFIED
  BY DEF Checkpoint
<1> HIDE DEF c1, c2
<1>3. PolicyTables
  <2>1. INVESTIGATING \notin GatedStates /\ RESPONSE_READY \notin GatedStates
    BY DEF GatedStates, INVESTIGATING, RESPONSE_READY, AWAITING_APPROVAL, DELIVERING,
           DELIVERY_RECORDED
  <2>2. \A i \in 1..Len(journal) : journal[i].state \notin GatedStates
    BY <1>1, <1>2, <2>1
  <2> QED
    BY <2>2 DEF Init, PolicyTables
<1>4. ValidSuccessor(c1, c2)
  <2>1. TransitionAllowed(INVESTIGATING, RESPONSE_CANDIDATE_VERIFIED, RESPONSE_READY,
                          RESPONSE_READY, FALSE)
    BY DEF TransitionAllowed, AllowedTargets, AllowedSources, TargetOf, WORKFLOW_STATES,
           POLICY_APPROVAL_ACTIVATED, APPROVAL_GRANTED, AUTHORIZATION_DENIED, DELIVERY_COMPLETE,
           RECONCILIATION_REQUIRED, RECONCILIATION_COMPLETE, TICKET_HANDOFF_COMPLETE,
           INVESTIGATION_STARTED, RESPONSE_CANDIDATE_VERIFIED, PAUSE, RESUME, CANCEL,
           SLA_EXPIRED, RESPONSE_READY, INVESTIGATING
  <2>2. RESPONSE_READY # INVESTIGATING /\ RESPONSE_CANDIDATE_VERIFIED # "none"
    BY DEF RESPONSE_READY, INVESTIGATING, RESPONSE_CANDIDATE_VERIFIED
  <2>3. (c1.pending # {}) = FALSE
    BY <1>2
  <2> QED
    BY <1>2, <2>1, <2>2, <2>3 DEF ValidSuccessor
<1>5. JournalRows
  <2>1. \A i \in 1..Len(journal) : OnRecord(journal[i])
    BY <1>1, <1>2 DEF OnRecord
  <2>2. \A i \in 2..Len(journal) : ValidSuccessor(journal[i-1], journal[i])
    BY <1>1, <1>4
  <2> QED
    BY <2>1, <2>2 DEF JournalRows
<1>6. OneAtATime
  BY DEF Init, OneAtATime
<1>7. ASSUME NEW p \in Procs PROVE Informed(p) /\ InCall(p)
  <2>1. pc[p] = "idle" /\ reg[p] = NoRegisters
    BY DEF Init
  <2> QED
    BY <2>1 DEF Informed, InCall, Drives, Handless, NoRegisters
<1> QED
  BY <1>3, <1>5, <1>6, <1>7 DEF CallInv

(* When calls follow one another and the grant is not revoked, the journal *)
(* always passes the validation that rebuild_workflow_projection runs      *)
(* before every recovery: no crash, expiry, lost answer or late decision   *)
(* leaves a row behind that blocks the next sweep.                         *)
THEOREM PolicyJournalIsValid ==
    ASSUME Serialized, ~MayRevoke
    PROVE  Spec => []PolicyJournalStaysValid
<1>1. IInv /\ CallInv => PolicyJournalStaysValid
  <2> SUFFICES ASSUME IInv, CallInv PROVE JournalValid
    BY DEF PolicyJournalStaysValid
  <2>1. /\ \A i \in 2..Len(journal) : ValidSuccessor(journal[i-1], journal[i])
        /\ \A i \in 1..Len(journal) : journal[i].pending \cap journal[i].completed = {}
    BY DEF CallInv, JournalRows, OnRecord
  <2>2. Latest.completed \subseteq Completed
    BY LatestOnRecord
  <2>3. Latest.pending \cup Latest.completed \subseteq Pending \cup Completed
    <3>1. Latest.pending \cup Latest.completed # {} => Pending \cup Completed = {DELIVERY}
      BY LatestOnRecord DEF OnRecord, Pending, Completed
    <3> QED
      BY <3>1, LatestOnRecord DEF Checkpoints
  <2>4. PolicyTables /\ (deliveries > 0 => intent)
    BY DEF CallInv, IInv, DeliveryOrder
  <2>5. DeliveryChainValid
    BY <2>4 DEF DeliveryChainValid, PolicyTables
  <2>6. StatesSeen \cap GatedStates # {} => request
    BY <2>4 DEF StatesSeen, PolicyTables
  <2>7. Len(decisions) <= 1
    <3>1. CASE decisions = <<>>
      BY <3>1
    <3>2. CASE decisions # <<>>
      <4>1. Len(decisions) = 1
        BY <2>4, <3>2 DEF PolicyTables
      <4> QED
        BY <4>1
    <3> QED
      BY <3>1, <3>2
  <2>8. PolicySourceValid
    BY <2>4, <2>6, <2>7 DEF PolicySourceValid, ApprovalRowsValid, FixtureDeliveryValid, PolicyTables
  <2> QED
    BY <2>1, <2>2, <2>3, <2>5, <2>8 DEF JournalValid
<1>2. IInv /\ CallInv /\ [Next]_vars => CallInv'
  BY NextKeepsCalls
<1> QED
  BY <1>1, <1>2, InitCallInv, ApprovedDeliveryInvariant, PTL DEF Spec
=============================================================================
