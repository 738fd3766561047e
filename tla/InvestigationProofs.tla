-------------------------- MODULE InvestigationProofs --------------------------
(***************************************************************************)
(* Theorems of Investigation, for every transcript, any number of agents   *)
(* and operators, and every bound.                                         *)
(*                                                                         *)
(* The argument has two layers.  Control says what the journal and the     *)
(* processes hold: where a process that is writing a checkpoint will go on *)
(* (Toward), and what it carries.  Over it lie the durable facts of the    *)
(* investigation (FactInv) and, where no sweep works on a stale            *)
(* checkpoint, the way of the journal to RESPONSE_READY (ReadyInv).        *)
(***************************************************************************)
EXTENDS Investigation, SequenceTheorems, FiniteSetTheorems, TLAPS

(* The rows of DurableWorkflow and those of the investigation.             *)
Causes == [by : {"none", "source", "intent", "completion", "handoff", "sla",
                 "reconciliation", "command", "investigation", "verifier"},
           op : DW!Operations \cup {"none"}, id : Nat]
Checkpoints == [state : DW!WORKFLOW_STATES, resume : DW!WORKFLOW_STATES,
                pending : SUBSET DW!Operations, completed : SUBSET DW!Operations,
                cause : Causes, kind : DW!Kinds]
Cmds == [id : Nat, type : CommandTypes \cup {PAUSE}, version : Nat]

Registers == [at : Nat, base : Nat, want : Checkpoints, ret : Labels, cont : Labels,
              op : DW!Operations, out : DW!Outcomes, phase : DW!Phases,
              from : WORKFLOW_STATES, cmd : Cmds, row : Nat, rows : Nat,
              driving : BOOLEAN]

(* Between the read and the end of a transition a process is bound for the *)
(* place it continues at.                                                  *)
Between == {"append", "sync", "event"}
Toward(p) == IF pc[p] \in Between THEN reg[p].cont ELSE pc[p]

AgentPlaces ==
    {"idle", "investigate", "begun", "act", "step", "read", "exchange", "candidate",
     "propose", "verify", "outcome", "advance", "finish"}
OperatorPlaces == {"idle", "persist", "apply", "applied"}
SweeperPlaces ==
    OperatorPlaces \cup {"rebuild", "pending", "commands", "dispatch", "recover",
                         "advance", "finish"}
Places(p) == IF p \in Agents THEN AgentPlaces
             ELSE IF p \in Sweepers THEN SweeperPlaces ELSE OperatorPlaces

StoreTypes ==
    /\ transcript \in Transcripts
    /\ journal \in Seq(Checkpoints) /\ journal # <<>>
    /\ commands \in Seq(Cmds)
    /\ activated = TRUE /\ DW!Unresolved = {}

(* The places a transition continues at.                                   *)
Returns == {"act", "finish", "recover", "pending", "applied"}

Held(p) ==
    /\ Toward(p) \in Places(p)
    /\ pc[p] \in Between => reg[p].cont \in Returns
    /\ pc[p] = "append" => reg[p].ret = "sync"
    /\ pc[p] = "dispatch" => reg[p].at \in 1..Len(journal)
    /\ pc[p] = "commands" => reg[p].row > 0
    /\ reg[p].rows <= Len(commands)

Control ==
    /\ StoreTypes
    /\ pc \in [DW!Procs -> Labels] /\ reg \in [DW!Procs -> Registers]
    /\ \A p \in DW!Procs : Held(p)

-----------------------------------------------------------------------------
(* What the operators of the journal do with one process.                  *)

(* The process is at a label and holds s.                                  *)
Moves(p, label, s) ==
    pc' = [pc EXCEPT ![p] = label] /\ reg' = [reg EXCEPT ![p] = s]

(* A transition towards the checkpoint want ends the call, finds want in   *)
(* the journal, or leaves to append it after the latest row.               *)
Departs(p, r, want, cont) ==
    \/ Moves(p, "idle", DW!NoRegisters)
    \/ \E s \in Registers :
          /\ s.cont = cont /\ s.rows = r.rows
          /\ \/ Moves(p, "sync", s)
             \/ /\ Moves(p, "append", s)
                /\ s.ret = "sync" /\ s.base = Len(journal) /\ s.want = want

LEMMA EmptyRegisters ==
    /\ DW!NoRegisters \in Registers
    /\ DW!NoRegisters.rows = 0
<1>1. DW!NoCheckpoint \in Checkpoints
    BY DEF DW!NoCheckpoint, DW!FirstCheckpoint, Checkpoints, Causes, DW!Cause,
           DW!Kinds, DW!WORKFLOW_STATES, DW!RECEIVED
<1>2. DW!NoCommand \in Cmds
    BY DEF DW!NoCommand, Cmds, DW!PAUSE, PAUSE
<1>3. DW!NoOutcome \in DW!Outcomes /\ DW!RECEIVED \in WORKFLOW_STATES
      /\ DW!FIND_OR_CREATE \in DW!Operations
    BY DEF DW!NoOutcome, DW!Outcomes, DW!Statuses, DW!RECEIVED, WORKFLOW_STATES, RECEIVED,
           DW!Operations
<1>4. "reconcile" \in DW!Phases /\ "idle" \in Labels
    BY DEF DW!Phases, Labels
<1> DEFINE C == Checkpoints  N == DW!NoCheckpoint
<1> HIDE DEF C, N
<1>5. N \in C
    BY <1>1 DEF C, N
<1> QED
    BY <1>2, <1>3, <1>4, <1>5 DEF DW!NoRegisters, Registers, C, N

LEMMA LatestCheckpoint ==
    ASSUME journal \in Seq(Checkpoints), journal # <<>>
    PROVE  /\ Len(journal) \in Nat \ {0}
           /\ Latest = journal[Len(journal)] /\ DW!Latest = Latest
           /\ Latest \in Checkpoints
           /\ \A i \in 1..Len(journal) : journal[i] \in Checkpoints
<1> DEFINE C == Checkpoints
<1> HIDE DEF C
<1>1. journal \in Seq(C)
    BY DEF C
<1>2. Len(journal) \in Nat \ {0} /\ \A i \in 1..Len(journal) : journal[i] \in C
    BY <1>1
<1> QED
    BY <1>2 DEF Latest, DW!Latest, C

(* A transition builds its row on the checkpoint it was given.             *)
LEMMA TransitionDeparts ==
    ASSUME NEW p \in DW!Procs, NEW r \in Registers, NEW kind, NEW next, NEW resume, NEW cause,
           NEW pending, NEW completed, NEW cont \in Labels,
           journal \in Seq(Checkpoints), journal # <<>>,
           resume \in DW!WORKFLOW_STATES, kind \in DW!Kinds, cause \in Causes,
           pending \subseteq DW!Operations, completed \subseteq DW!Operations,
           DW!Transition(p, r, kind, next, resume, cause, pending, completed, cont)
    PROVE  /\ Departs(p, r, [state |-> next, resume |-> resume, pending |-> pending,
                             completed |-> completed, cause |-> cause, kind |-> kind], cont)
           /\ \/ pc' = [pc EXCEPT ![p] = "idle"]
              \/ DW!TransitionAllowed(journal[r.at].state, kind, next, resume,
                                      journal[r.at].pending # {})
<1> DEFINE want == [state |-> next, resume |-> resume, pending |-> pending,
                    completed |-> completed, cause |-> cause, kind |-> kind]
           sync == [r EXCEPT !.at = Len(journal), !.cont = cont]
           append == [r EXCEPT !.base = Len(journal), !.want = want, !.ret = "sync", !.cont = cont]
<1>1. Len(journal) \in Nat \ {0}
    BY LatestCheckpoint
<1>2. CASE DW!TransitionAllowed(journal[r.at].state, kind, next, resume, journal[r.at].pending # {})
    <2>1. next \in DW!WORKFLOW_STATES
        BY <1>2 DEF DW!TransitionAllowed
    <2>2. want \in Checkpoints
        BY <2>1 DEF Checkpoints
    <2>3. /\ sync \in Registers /\ sync.cont = cont /\ sync.rows = r.rows
        BY <1>1 DEF Registers
    <2>4. /\ append \in Registers /\ append.cont = cont /\ append.rows = r.rows
          /\ append.ret = "sync" /\ append.base = Len(journal) /\ append.want = want
        <3> HIDE DEF want
        <3>1. "sync" \in Labels
            BY DEF Labels
        <3> QED
            BY <1>1, <2>2, <3>1 DEF Registers
    <2>5. DW!EnsureCheckpoint(p, r, want, "sync", cont)
        BY <1>2 DEF DW!Transition
    <2>6. \/ Moves(p, "idle", DW!NoRegisters) \/ Moves(p, "sync", sync) \/ Moves(p, "append", append)
        <3> HIDE DEF want
        <3> SUFFICES ASSUME TRUE PROVE \/ Moves(p, "idle", DW!NoRegisters)
                \/ Moves(p, "sync", [r EXCEPT !.at = Len(journal), !.cont = cont])
                \/ Moves(p, "append", [r EXCEPT !.base = Len(journal), !.want = want, !.ret = "sync", !.cont = cont])
            OBVIOUS
        <3> QED
            BY <1>1, <2>5 DEF DW!EnsureCheckpoint, DW!Stop, DW!Goto, Moves
    <2> HIDE DEF sync, append, want
    <2>7. Departs(p, r, want, cont)
        BY <2>3, <2>4, <2>6 DEF Departs
    <2> QED
        BY <1>2, <2>7 DEF want
<1>3. CASE ~DW!TransitionAllowed(journal[r.at].state, kind, next, resume, journal[r.at].pending # {})
    BY <1>3 DEF DW!Transition, DW!Stop, Departs, Moves
<1> QED
    BY <1>2, <1>3

(* The tables only grow.                                                   *)
Grows ==
    /\ Len(journal') >= Len(journal)
    /\ Len(commands') >= Len(commands)

(* Nobody but p moves.                                                     *)
OnlyMoves(p) ==
    \A q \in DW!Procs : q # p =>
        pc'[q] = pc[q] /\ reg'[q] = reg[q] /\ Toward(q)' = Toward(q)

LEMMA CountsAreNat ==
    /\ StoreTypes => Len(journal) \in Nat \ {0} /\ Len(commands) \in Nat
    /\ StoreTypes' => Len(journal') \in Nat \ {0} /\ Len(commands') \in Nat
<1> DEFINE C == Cmds  R == Checkpoints
<1> HIDE DEF C, R
<1>1. StoreTypes => journal \in Seq(R) /\ journal # <<>> /\ commands \in Seq(C)
    BY DEF StoreTypes, C, R
<1>2. StoreTypes' => journal' \in Seq(R) /\ journal' # <<>> /\ commands' \in Seq(C)
    BY DEF StoreTypes, C, R, Cmds, Checkpoints
<1> QED
    BY <1>1, <1>2

(* Control survives a move to a place of the process.                      *)
LEMMA MovesControl ==
    ASSUME Control, StoreTypes', Grows, NEW p \in DW!Procs, NEW label \in Labels,
           NEW s \in Registers, Moves(p, label, s),
           (IF label \in Between THEN s.cont ELSE label) \in Places(p),
           label \in Between => s.cont \in Returns,
           label = "append" => s.ret = "sync",
           label = "dispatch" => s.at \in 1..Len(journal'),
           label = "commands" => s.row > 0,
           s.rows <= Len(commands')
    PROVE  /\ Control' /\ OnlyMoves(p)
           /\ pc'[p] = label /\ reg'[p] = s
           /\ Toward(p)' = IF label \in Between THEN s.cont ELSE label
<1>1. pc' \in [DW!Procs -> Labels] /\ reg' \in [DW!Procs -> Registers]
      /\ pc'[p] = label /\ reg'[p] = s
      /\ \A q \in DW!Procs : q # p => pc'[q] = pc[q] /\ reg'[q] = reg[q]
    BY DEF Control, Moves
<1>2. OnlyMoves(p)
    BY <1>1 DEF OnlyMoves, Toward
<1>3. Toward(p)' = IF label \in Between THEN s.cont ELSE label
    BY <1>1 DEF Toward
<1>4. Held(p)'
    BY <1>1, <1>3 DEF Held, Places
<1>5. ASSUME NEW q \in DW!Procs, q # p PROVE Held(q)'
    <2>1. Held(q) /\ reg[q] \in Registers
        BY DEF Control
    <2>2. pc'[q] = pc[q] /\ reg'[q] = reg[q] /\ Toward(q)' = Toward(q)
        BY <1>2, <1>5 DEF OnlyMoves
    <2>3. Len(journal) \in Nat /\ Len(journal') \in Nat /\ Len(commands) \in Nat /\ Len(commands') \in Nat
        BY CountsAreNat DEF Control
    <2>4. reg[q].at \in Nat /\ reg[q].rows \in Nat
        BY <2>1 DEF Registers
    <2>5. Toward(q)' \in Places(q)'
        BY <2>1, <2>2 DEF Held, Places
    <2>6. reg'[q].rows <= Len(commands')
        BY <2>1, <2>2, <2>3, <2>4 DEF Held, Grows
    <2>7. pc'[q] = "dispatch" => reg'[q].at \in 1..Len(journal')
        BY <2>1, <2>2, <2>3, <2>4 DEF Held, Grows
    <2> QED
        BY <2>1, <2>2, <2>5, <2>6, <2>7 DEF Held
<1> QED
    BY <1>1, <1>2, <1>3, <1>4, <1>5 DEF Control

(* Going on with what the process holds.                                   *)
LEMMA GotoControl ==
    ASSUME Control, StoreTypes', Grows, NEW p \in DW!Procs, NEW label \in Labels \ Between,
           NEW s \in Registers, DW!Goto(p, label, s), label \in Places(p),
           label = "dispatch" => s.at \in 1..Len(journal'),
           label = "commands" => s.row > 0,
           s.rows <= Len(commands)
    PROVE  Control' /\ OnlyMoves(p) /\ pc'[p] = label /\ Toward(p)' = label
<1>1. Moves(p, label, s)
    BY DEF DW!Goto, Moves
<1>2. Len(commands) \in Nat /\ Len(commands') \in Nat /\ s.rows \in Nat
    BY CountsAreNat DEF Control, Registers
<1>3. s.rows <= Len(commands') /\ label # "append"
    BY <1>2 DEF Grows, Between
<1> QED
    BY <1>1, <1>3, MovesControl

(* Leaving the call.                                                       *)
LEMMA StopControl ==
    ASSUME Control, StoreTypes', Grows, NEW p \in DW!Procs, NEW outcome, DW!Stop(p, outcome)
    PROVE  Control' /\ OnlyMoves(p) /\ pc'[p] = "idle" /\ Toward(p)' = "idle"
<1>1. Moves(p, "idle", DW!NoRegisters)
    BY DEF DW!Stop, Moves
<1>2. "idle" \in Labels /\ "idle" \notin Between /\ "idle" \in Places(p)
    BY DEF Labels, Between, Places, AgentPlaces, SweeperPlaces, OperatorPlaces
<1>3. 0 <= Len(commands')
    BY CountsAreNat DEF Control
<1> QED
    BY <1>1, <1>2, <1>3, EmptyRegisters, MovesControl

(* Setting out on a transition.                                            *)
LEMMA DepartsControl ==
    ASSUME Control, StoreTypes', Grows, NEW p \in DW!Procs, NEW r \in Registers, NEW want,
           NEW cont \in Labels, Departs(p, r, want, cont), cont \in Places(p) \cap Returns,
           r.rows <= Len(commands)
    PROVE  /\ Control' /\ OnlyMoves(p)
           /\ pc'[p] \in {"idle", "append", "sync"}
           /\ Toward(p)' \in {"idle", cont}
           /\ pc'[p] = "append" => reg'[p].base = Len(journal) /\ reg'[p].want = want
<1>1. "idle" \in Labels /\ "sync" \in Labels /\ "append" \in Labels
      /\ "idle" \notin Between /\ "sync" \in Between /\ "append" \in Between
      /\ "idle" \in Places(p)
    BY DEF Labels, Between, Places, AgentPlaces, SweeperPlaces, OperatorPlaces
<1>2. Len(commands) \in Nat /\ Len(commands') \in Nat /\ r.rows \in Nat
    BY CountsAreNat DEF Control, Registers
<1>3. r.rows <= Len(commands') /\ 0 <= Len(commands')
    BY <1>2 DEF Grows
<1>4. CASE Moves(p, "idle", DW!NoRegisters)
    BY <1>1, <1>3, <1>4, EmptyRegisters, MovesControl
<1>5. ASSUME NEW s \in Registers, s.cont = cont, s.rows = r.rows,
             \/ Moves(p, "sync", s)
             \/ Moves(p, "append", s) /\ s.ret = "sync" /\ s.base = Len(journal) /\ s.want = want
      PROVE  /\ Control' /\ OnlyMoves(p)
             /\ pc'[p] \in {"idle", "append", "sync"}
             /\ Toward(p)' \in {"idle", cont}
             /\ pc'[p] = "append" => reg'[p].base = Len(journal) /\ reg'[p].want = want
    <2>1. CASE Moves(p, "sync", s)
        BY <1>1, <1>3, <1>5, <2>1, MovesControl
    <2>2. CASE Moves(p, "append", s) /\ s.ret = "sync" /\ s.base = Len(journal) /\ s.want = want
        BY <1>1, <1>3, <1>5, <2>2, MovesControl
    <2> QED
        BY <1>5, <2>1, <2>2
<1> QED
    BY <1>4, <1>5 DEF Departs

-----------------------------------------------------------------------------
(* The durable facts.                                                      *)

TheEnd == Len(transcript.actions)

(* Rows in the order of the transcript, and no more reads than allowed.    *)
Facts ==
    /\ steps \in Seq(Nat) /\ exchanges \in Seq(Nat)
    /\ FactsInOrder
    /\ Len(steps) <= TheEnd /\ Len(exchanges) < TheEnd
    /\ Len(exchanges) <= transcript.toolBudget

Judgement ==
    /\ candidates \subseteq {Evidence}
    /\ verdicts \subseteq [evidence : candidates, verdict : {"verified", "rejected"}]
    /\ VerdictAsDeserved

(* What an agent bound for a place relies on, whoever wrote the rows: the  *)
(* facts before its step are there, and everything is recorded when the    *)
(* candidate is proposed and judged.                                       *)
Claim(place, n, judged) ==
    /\ place \in {"investigate", "begun"} => n = 0
    /\ place = "act" => n <= Len(exchanges)
    /\ place = "step" => n \in 1..(Len(exchanges) + 1)
    /\ place \in {"read", "exchange"} =>
          n \in 1..Len(steps) /\ n <= Len(exchanges) + 1 /\ n < TheEnd
    /\ place = "exchange" => n <= transcript.toolBudget
    /\ place \in {"candidate", "propose", "verify", "outcome"} =>
          Len(steps) = TheEnd /\ Action(TheEnd) = "response_candidate"
    /\ place \in {"verify", "outcome"} => Evidence \in candidates
    /\ place = "outcome" =>
          judged # "none" /\ (judged = "verified" <=> Evidence = RequiredTools)

Progress ==
    /\ investigated \in BOOLEAN
    /\ turn \in [Agents -> 0..TheEnd]
    /\ verdict \in [Agents \cup Sweepers -> Verdicts]
    /\ \A a \in Agents : Claim(Toward(a), turn[a], verdict[a])

FactInv == Control /\ Facts /\ Judgement /\ Progress

(* What the loader has checked.                                            *)
LEMMA TranscriptFacts ==
    ASSUME transcript \in Transcripts
    PROVE  /\ TheEnd \in Nat \ {0} /\ TheEnd <= transcript.actionBudget
           /\ transcript.actionBudget \in Nat /\ transcript.toolBudget \in Nat
           /\ \A i \in 1..TheEnd : Action(i) \in Terminals <=> i = TheEnd
           /\ \A i \in 1..TheEnd : Action(i) \in Tools \cup Terminals
           /\ Evidence \in Seq(Tools) /\ Len(Evidence) = TheEnd - 1
           /\ \A i \in 1..(TheEnd - 1) : Evidence[i] = Action(i)
<1>1. /\ transcript.actions \in Seq(Tools \cup Terminals)
      /\ {transcript.actionBudget, transcript.toolBudget, transcript.noProgressLimit} \subseteq Nat
      /\ LoaderAccepts(transcript)
    BY TranscriptAssumption
<1> DEFINE A == Tools \cup Terminals
<1> HIDE DEF A
<1>2. TheEnd \in Nat /\ \A i \in 1..TheEnd : Action(i) \in A
    <2>1. transcript.actions \in Seq(A)
        BY <1>1 DEF A
    <2> QED
        BY <2>1 DEF TheEnd, Action
<1>3. /\ TheEnd \in Nat \ {0} /\ TheEnd <= transcript.actionBudget
      /\ \A i \in 1..TheEnd : Action(i) \in Terminals <=> i = TheEnd
    BY <1>1, <1>2 DEF LoaderAccepts, TheEnd, Action
<1>4. \A i \in 1..(TheEnd - 1) : Action(i) \in Tools
    BY <1>2, <1>3 DEF A
<1>5. /\ Evidence \in Seq(Tools) /\ Len(Evidence) = TheEnd - 1
      /\ \A i \in 1..(TheEnd - 1) : Evidence[i] = Action(i)
    <2> DEFINE acts == transcript.actions  T == Tools  n == TheEnd - 1
    <2>1. Evidence = SubSeq(acts, 1, n)
        BY DEF Evidence, Front, TheEnd
    <2>2. 1 \in Int /\ n \in Int /\ n \in Nat
        BY <1>3
    <2>3. \A i \in 1..n : acts[i] \in T
        BY <1>4 DEF Action
    <2> HIDE DEF acts, T, n
    <2>4. /\ SubSeq(acts, 1, n) \in Seq(T)
          /\ Len(SubSeq(acts, 1, n)) = IF 1 <= n THEN n - 1 + 1 ELSE 0
          /\ \A i \in 1..n - 1 + 1 : SubSeq(acts, 1, n)[i] = acts[1 + i - 1]
        BY <2>2, <2>3, SubSeqProperties
    <2>5. Len(Evidence) = n /\ \A i \in 1..n : Evidence[i] = acts[i]
        BY <2>1, <2>2, <2>4
    <2> QED
        BY <2>1, <2>4, <2>5 DEF acts, T, n, Action
<1> QED
    BY <1>1, <1>2, <1>3, <1>5 DEF A

LEMMA FactCounts ==
    ASSUME Facts, transcript \in Transcripts
    PROVE  /\ Len(steps) \in Nat /\ Len(exchanges) \in Nat
           /\ Len(exchanges) <= Len(steps) /\ Len(steps) <= Len(exchanges) + 1
           /\ \A n \in Nat : n \in Range(steps) <=> n \in 1..Len(steps)
           /\ \A n \in Nat : n \in Range(exchanges) <=> n \in 1..Len(exchanges)
           /\ (steps # <<>>) <=> Len(steps) > 0
<1>1. Len(steps) \in Nat /\ Len(exchanges) \in Nat
      /\ DOMAIN steps = 1..Len(steps) /\ DOMAIN exchanges = 1..Len(exchanges)
    BY DEF Facts
<1>2. \A i \in 1..Len(steps) : steps[i] = i
    BY DEF Facts, FactsInOrder
<1>3. \A i \in 1..Len(exchanges) : exchanges[i] = i
    BY DEF Facts, FactsInOrder
<1>4. \A n \in Nat : n \in Range(steps) <=> n \in 1..Len(steps)
    BY <1>1, <1>2 DEF Range
<1>5. \A n \in Nat : n \in Range(exchanges) <=> n \in 1..Len(exchanges)
    BY <1>1, <1>3 DEF Range
<1>6. (steps # <<>>) <=> Len(steps) > 0
    BY <1>1 DEF Facts
<1> QED
    BY <1>1, <1>4, <1>5, <1>6 DEF Facts, FactsInOrder

(* When every step is recorded, the verifier sees the whole transcript.    *)
LEMMA VerifierSeesAll ==
    ASSUME Facts, transcript \in Transcripts, Len(steps) = TheEnd,
           Action(TheEnd) = "response_candidate"
    PROVE  /\ DeterministicVerifierReason(Evidence) \in {"verified", "rejected"}
           /\ DeterministicVerifierReason(Evidence) = "verified" <=> Evidence = RequiredTools
<1>1. /\ Len(steps) \in Nat /\ Len(exchanges) \in Nat /\ TheEnd \in Nat \ {0}
      /\ Len(exchanges) = TheEnd - 1 /\ steps # <<>>
    BY FactCounts, TranscriptFacts DEF Facts
<1>2. Len(steps) <= transcript.actionBudget /\ Len(exchanges) <= transcript.toolBudget
    BY TranscriptFacts DEF Facts
<1>3. Action(steps[Len(steps)]) = "response_candidate"
    BY <1>1 DEF Facts, FactsInOrder
<1>4. ToolsRead = Evidence
    <2>1. \A i \in 1..(TheEnd - 1) : Action(exchanges[i]) = Evidence[i] /\ Action(i) \in Tools
        BY <1>1, TranscriptFacts DEF Facts, FactsInOrder
    <2>2. ToolsRead \in Seq(Tools) /\ Len(ToolsRead) = TheEnd - 1
          /\ \A i \in 1..(TheEnd - 1) : ToolsRead[i] = Evidence[i]
        <3>1. ToolsRead = [i \in 1..(TheEnd - 1) |-> Action(exchanges[i])]
            BY <1>1 DEF ToolsRead
        <3>2. \A i \in 1..(TheEnd - 1) : Action(exchanges[i]) \in Tools
            BY <1>1, <2>1 DEF Facts, FactsInOrder
        <3> DEFINE T == Tools  act(i) == Action(exchanges[i])  n == TheEnd - 1
        <3>3. n \in Nat /\ ToolsRead = [i \in 1..n |-> act(i)] /\ \A i \in 1..n : act(i) \in T
            BY <1>1, <3>1, <3>2
        <3> HIDE DEF T, act, n
        <3>4. ToolsRead \in Seq(T) /\ Len(ToolsRead) = n /\ \A i \in 1..n : ToolsRead[i] = act(i)
            BY <3>3
        <3> QED
            BY <3>4, <2>1 DEF T, act, n
    <2>3. Evidence \in Seq(Tools) /\ Len(Evidence) = TheEnd - 1
        BY TranscriptFacts
    <2> DEFINE T == Tools  E == Evidence  R == ToolsRead  n == TheEnd - 1
    <2>4. E \in Seq(T) /\ R \in Seq(T) /\ Len(E) = Len(R) /\ \A i \in 1..Len(R) : R[i] = E[i]
        BY <2>2, <2>3
    <2> HIDE DEF T, E, R
    <2>5. R = E
        BY <2>4, SeqEqual
    <2> QED
        BY <2>5 DEF R, E
<1> QED
    BY <1>1, <1>2, <1>3, <1>4 DEF DeterministicVerifierReason

-----------------------------------------------------------------------------
(* How an agent moves.                                                     *)

LEMMA PlacesAreLabels ==
    /\ AgentPlaces \subseteq Labels \ Between
    /\ OperatorPlaces \subseteq Labels \ Between /\ SweeperPlaces \subseteq Labels \ Between
    /\ \A p : Places(p) \subseteq Labels \ Between
    /\ \A p \in Agents : Places(p) = AgentPlaces
BY DEF Labels, Between, Places, AgentPlaces, OperatorPlaces, SweeperPlaces

(* Only agents are at the places of run_investigation_replay.              *)
LEMMA AtAgentPlace ==
    ASSUME Control, NEW p \in DW!Procs,
           pc[p] \in {"investigate", "begun", "act", "step", "read", "exchange", "candidate",
                      "propose", "verify", "outcome"}
    PROVE  p \in Agents /\ Toward(p) = pc[p]
<1>1. Toward(p) = pc[p]
    BY DEF Toward, Between
<1>2. Toward(p) \in Places(p)
    BY DEF Control, Held
<1> QED
    BY <1>1, <1>2 DEF Places, SweeperPlaces, OperatorPlaces

(* A step that leaves the journal and the commands alone.                  *)
LEMMA StoreStays ==
    ASSUME StoreTypes, transcript' = transcript, activated' = activated,
           UNCHANGED <<journal, commands, intents, completions>>
    PROVE  StoreTypes' /\ Grows
<1>1. StoreTypes'
    BY DEF StoreTypes, Cmds, Checkpoints, DW!Unresolved, DW!Completed
<1>2. Len(journal) \in Nat /\ Len(commands) \in Nat
    BY CountsAreNat
<1> QED
    BY <1>1, <1>2 DEF Grows

LEMMA ProcessGoes ==
    ASSUME Control, NEW p \in DW!Procs, NEW place \in Places(p) \ {"dispatch", "commands"},
           Goto(p, place), transcript' = transcript, StoreUnchanged
    PROVE  Control' /\ OnlyMoves(p) /\ Toward(p)' = place /\ pc'[p] = place
<1>1. StoreTypes' /\ Grows
    BY StoreStays DEF Control, StoreUnchanged, quietVars
<1>2. reg[p] \in Registers /\ reg[p].rows <= Len(commands)
    BY DEF Control, Held
<1>3. place \in Labels \ Between /\ place \in Places(p)
      /\ place # "dispatch" /\ place # "commands"
    BY PlacesAreLabels
<1>4. DW!Goto(p, place, reg[p])
    BY DEF Goto
<1> QED
    BY <1>1, <1>2, <1>3, <1>4, GotoControl

LEMMA AgentGoes ==
    ASSUME Control, NEW a \in Agents, NEW place \in AgentPlaces, Goto(a, place),
           transcript' = transcript, StoreUnchanged
    PROVE  Control' /\ OnlyMoves(a) /\ Toward(a)' = place /\ pc'[a] = place
<1>1. a \in DW!Procs /\ place \in Places(a) \ {"dispatch", "commands"}
    BY DEF DW!Procs, Places, AgentPlaces
<1> QED
    BY <1>1, ProcessGoes

LEMMA ProcessLeaves ==
    ASSUME Control, NEW p \in DW!Procs, NEW outcome, Leave(p, outcome),
           transcript' = transcript, StoreUnchanged
    PROVE  Control' /\ OnlyMoves(p) /\ Toward(p)' = "idle" /\ pc'[p] = "idle"
<1>1. StoreTypes' /\ Grows
    BY StoreStays DEF Control, StoreUnchanged, quietVars
<1>2. DW!Stop(p, outcome)
    BY DEF Leave
<1> QED
    BY <1>1, <1>2, StopControl

(* The checkpoint an agent sets out to write keeps the completed effects.  *)
Successor(kind, next, cause) ==
    [state |-> next, resume |-> next, pending |-> Latest.pending,
     completed |-> Latest.completed, cause |-> DW!Cause(cause), kind |-> kind]

LEMMA ProcessMovesTo ==
    ASSUME Control, NEW p \in DW!Procs, NEW kind \in DW!Kinds, NEW next \in DW!WORKFLOW_STATES,
           NEW cause \in {"investigation", "verifier"}, NEW cont \in Labels,
           cont \in Places(p) \cap Returns, DW!Cause(cause) \in Causes,
           MoveTo(p, kind, next, cause, cont), transcript' = transcript, StoreUnchanged
    PROVE  /\ Control' /\ OnlyMoves(p)
           /\ pc'[p] \in {"idle", "append", "sync"}
           /\ Toward(p)' \in {"idle", cont}
           /\ pc'[p] # "idle" =>
                 DW!TransitionAllowed(Latest.state, kind, next, next, Latest.pending # {})
           /\ pc'[p] = "append" =>
                 reg'[p].base = Len(journal) /\ reg'[p].want = Successor(kind, next, cause)
<1>1. StoreTypes' /\ Grows
    BY StoreStays DEF Control, StoreUnchanged, quietVars
<1> DEFINE r == [reg[p] EXCEPT !.at = Len(journal)]
<1>2. /\ reg[p] \in Registers /\ reg[p].rows <= Len(commands)
      /\ journal \in Seq(Checkpoints) /\ journal # <<>>
    BY DEF Control, Held, StoreTypes
<1>3. /\ Len(journal) \in Nat \ {0} /\ Latest = journal[Len(journal)] /\ DW!Latest = Latest
      /\ Latest \in Checkpoints
    BY <1>2, LatestCheckpoint
<1>4. r \in Registers /\ r.rows = reg[p].rows /\ r.at = Len(journal)
    BY <1>2, <1>3 DEF Registers
<1>5. Latest.pending \subseteq DW!Operations /\ Latest.completed \subseteq DW!Operations
    BY <1>3 DEF Checkpoints
<1>6. DW!Transition(p, r, kind, next, next, DW!Cause(cause), Latest.pending, Latest.completed, cont)
    BY DEF MoveTo
<1> HIDE DEF r
<1>7. /\ Departs(p, r, Successor(kind, next, cause), cont)
      /\ \/ pc' = [pc EXCEPT ![p] = "idle"]
         \/ DW!TransitionAllowed(journal[r.at].state, kind, next, next, journal[r.at].pending # {})
    BY <1>2, <1>4, <1>5, <1>6, TransitionDeparts DEF Successor
<1>8. pc'[p] # "idle" =>
         DW!TransitionAllowed(Latest.state, kind, next, next, Latest.pending # {})
    BY <1>3, <1>4, <1>7 DEF Control
<1> QED
    BY <1>1, <1>2, <1>4, <1>7, <1>8, DepartsControl

-----------------------------------------------------------------------------
(* The facts, step by step.                                                *)

(* Places at which an agent claims nothing.                                *)
Quiet == {"idle", "advance", "finish"}

(* Rows are added, never taken away.                                       *)
FactsGrow ==
    /\ Len(steps') >= Len(steps) /\ Len(exchanges') >= Len(exchanges)
    /\ candidates \subseteq candidates'

(* What an agent relies on stays while others add rows.                    *)
LEMMA ClaimStays ==
    ASSUME Facts, Facts', transcript \in Transcripts, transcript' = transcript, FactsGrow,
           NEW place, NEW n \in Nat, NEW judged, Claim(place, n, judged)
    PROVE  Claim(place, n, judged)'
<1>1. /\ Len(steps) \in Nat /\ Len(exchanges) \in Nat /\ TheEnd \in Nat
      /\ Len(steps') \in Nat /\ Len(exchanges') \in Nat
      /\ Len(steps') >= Len(steps) /\ Len(exchanges') >= Len(exchanges)
    BY TranscriptFacts DEF Facts, FactsGrow
<1>2. TheEnd' = TheEnd /\ Evidence' = Evidence /\ Action(TheEnd)' = Action(TheEnd)
    BY DEF TheEnd, Evidence, Action
<1>3. Len(steps') <= TheEnd
    BY <1>2 DEF Facts
<1>4. /\ (place \in {"investigate", "begun"} => n = 0)'
      /\ (place = "act" => n <= Len(exchanges))'
      /\ (place = "step" => n \in 1..(Len(exchanges) + 1))'
      /\ (place \in {"read", "exchange"} =>
             n \in 1..Len(steps) /\ n <= Len(exchanges) + 1 /\ n < TheEnd)'
    BY <1>1, <1>2 DEF Claim
<1>5. (place \in {"candidate", "propose", "verify", "outcome"} =>
          Len(steps) = TheEnd /\ Action(TheEnd) = "response_candidate")'
    BY <1>1, <1>2, <1>3 DEF Claim
<1>6. /\ (place = "exchange" => n <= transcript.toolBudget)'
      /\ (place \in {"verify", "outcome"} => Evidence \in candidates)'
      /\ (place = "outcome" =>
             judged # "none" /\ (judged = "verified" <=> Evidence = RequiredTools))'
    BY <1>2 DEF Claim, FactsGrow
<1> QED
    BY <1>4, <1>5, <1>6 DEF Claim

LEMMA QuietClaims == \A place \in Quiet : \A n, judged : Claim(place, n, judged)
BY DEF Quiet, Claim

LEMMA ClaimsAfter ==
    ASSUME FactInv, Facts', transcript' = transcript, FactsGrow,
           NEW p \in DW!Procs, OnlyMoves(p),
           \A a \in Agents : a # p => turn'[a] = turn[a] /\ verdict'[a] = verdict[a],
           p \in Agents => Claim(Toward(p), turn[p], verdict[p])'
    PROVE  \A a \in Agents : Claim(Toward(a), turn[a], verdict[a])'
<1>1. SUFFICES ASSUME NEW a \in Agents, a # p
               PROVE Claim(Toward(a), turn[a], verdict[a])'
    OBVIOUS
<1>2. /\ turn'[a] = turn[a] /\ verdict'[a] = verdict[a] /\ Toward(a)' = Toward(a)
      /\ turn[a] \in Nat /\ Claim(Toward(a), turn[a], verdict[a])
    <2>1. a \in DW!Procs /\ TheEnd \in Nat
        BY TranscriptFacts DEF DW!Procs, FactInv, Control, StoreTypes
    <2>2. turn[a] \in Nat
        BY <2>1 DEF FactInv, Progress
    <2> QED
        BY <1>1, <2>1, <2>2 DEF OnlyMoves, FactInv, Progress
<1> DEFINE place == Toward(a)  n == turn[a]  judged == verdict[a]
<1>3. transcript \in Transcripts
    BY DEF FactInv, Control, StoreTypes
<1>4. Facts /\ n \in Nat /\ Claim(place, n, judged)
    BY <1>2 DEF FactInv
<1> QED
    BY <1>2, <1>3, <1>4, ClaimStays DEF Claim, TheEnd, Action, Evidence

(* A step that adds no fact.                                               *)
LEMMA FactsKept ==
    ASSUME FactInv, Control', NEW p \in DW!Procs, OnlyMoves(p),
           UNCHANGED <<transcript, steps, exchanges, candidates, verdicts>>,
           investigated' \in BOOLEAN,
           turn' \in [Agents -> 0..TheEnd], verdict' \in [Agents \cup Sweepers -> Verdicts],
           \A a \in Agents : a # p => turn'[a] = turn[a] /\ verdict'[a] = verdict[a],
           p \in Agents => Claim(Toward(p)', turn'[p], verdict'[p])
    PROVE  FactInv'
<1>1. /\ transcript' = transcript /\ steps' = steps /\ exchanges' = exchanges
      /\ candidates' = candidates /\ verdicts' = verdicts
    OBVIOUS
<1>2. TheEnd' = TheEnd /\ Evidence' = Evidence
    BY <1>1 DEF TheEnd, Evidence
<1>3. Facts' /\ Judgement'
    BY <1>1, <1>2 DEF FactInv, Facts, FactsInOrder, Judgement, VerdictAsDeserved
<1>4. FactsGrow
    BY <1>1, FactCounts DEF FactInv, FactsGrow, Control, StoreTypes
<1>5. p \in Agents => Claim(Toward(p), turn[p], verdict[p])'
    BY <1>1, <1>2 DEF Claim, Action
<1>6. \A a \in Agents : Claim(Toward(a), turn[a], verdict[a])'
    BY <1>1, <1>3, <1>4, <1>5, ClaimsAfter
<1> QED
    BY <1>2, <1>3, <1>6 DEF FactInv, Progress

(* A step that touches neither facts nor turns, to a quiet place or on the *)
(* way it was on.                                                          *)
LEMMA QuietStep ==
    ASSUME FactInv, Control', NEW p \in DW!Procs, OnlyMoves(p),
           UNCHANGED <<transcript, factVars, turn, verdict>>,
           p \in Agents => Toward(p)' \in Quiet \cup {Toward(p)}
    PROVE  FactInv'
<1>1. turn' \in [Agents -> 0..TheEnd] /\ verdict' \in [Agents \cup Sweepers -> Verdicts]
    BY DEF FactInv, Progress
<1>2. p \in Agents => Claim(Toward(p)', turn'[p], verdict'[p])
    BY QuietClaims DEF FactInv, Progress
<1>3. investigated' \in BOOLEAN
    BY DEF FactInv, Progress, factVars
<1> QED
    BY <1>1, <1>2, <1>3, FactsKept DEF factVars

LEMMA ProgressTypes ==
    ASSUME FactInv
    PROVE  /\ TheEnd \in Nat \ {0} /\ transcript \in Transcripts /\ Control /\ Facts
           /\ turn \in [Agents -> 0..TheEnd] /\ verdict \in [Agents \cup Sweepers -> Verdicts]
           /\ investigated \in BOOLEAN
           /\ \A a \in Agents : a \in DW!Procs /\ turn[a] \in Nat
                                /\ Claim(Toward(a), turn[a], verdict[a])
<1>1. transcript \in Transcripts
    BY DEF FactInv, Control, StoreTypes
<1>2. TheEnd \in Nat \ {0}
    BY <1>1, TranscriptFacts
<1>3. \A a \in Agents : turn[a] \in 0..TheEnd
    BY DEF FactInv, Progress
<1> QED
    BY <1>1, <1>2, <1>3 DEF FactInv, Progress, DW!Procs

LEMMA InvestigationRow ==
    /\ INVESTIGATION_STARTED \in DW!Kinds /\ INVESTIGATING \in DW!WORKFLOW_STATES
    /\ RESPONSE_CANDIDATE_VERIFIED \in DW!Kinds /\ RESPONSE_READY \in DW!WORKFLOW_STATES
    /\ DW!Cause("investigation") \in Causes
    /\ DW!Cause("verifier") \in Causes
<1>1. INVESTIGATION_STARTED \in DW!Kinds /\ RESPONSE_CANDIDATE_VERIFIED \in DW!Kinds
    BY DEF INVESTIGATION_STARTED, RESPONSE_CANDIDATE_VERIFIED, DW!Kinds,
           DW!WORKFLOW_TRANSITION_KINDS, DW!INVESTIGATION_STARTED, DW!RESPONSE_CANDIDATE_VERIFIED
<1>2. INVESTIGATING \in DW!WORKFLOW_STATES /\ RESPONSE_READY \in DW!WORKFLOW_STATES
    BY DEF INVESTIGATING, RESPONSE_READY, DW!WORKFLOW_STATES, DW!INVESTIGATING, DW!RESPONSE_READY
<1>3. DW!Cause("investigation") \in Causes
    BY DEF DW!Cause, Causes
<1>4. DW!Cause("verifier") \in Causes
    BY DEF DW!Cause, Causes
<1> QED
    BY <1>1, <1>2, <1>3, <1>4

LEMMA StartRunPreserves ==
    ASSUME FactInv, NEW a, StartRun(a)
    PROVE  FactInv'
<1>1. /\ a \in Agents /\ a \in DW!Procs /\ Control
      /\ transcript' = transcript /\ UNCHANGED factVars /\ StoreUnchanged
      /\ turn' = [turn EXCEPT ![a] = 0] /\ verdict' = [verdict EXCEPT ![a] = "none"]
    BY ProgressTypes DEF StartRun
<1>2. Control' /\ OnlyMoves(a) /\ Toward(a)' \in {"idle", "begun", "investigate"}
    <2>1. {"begun", "investigate"} \subseteq AgentPlaces
        BY DEF AgentPlaces
    <2>2. \/ \E outcome : Leave(a, outcome)
          \/ \E place \in {"begun", "investigate"} : Goto(a, place)
        BY DEF StartRun
    <2>3. ASSUME NEW outcome, Leave(a, outcome) 
          PROVE  Control' /\ OnlyMoves(a) /\ Toward(a)' \in {"idle", "begun", "investigate"}
        BY <1>1, <2>1, <2>3, ProcessLeaves
    <2>4. ASSUME NEW place \in {"begun", "investigate"}, Goto(a, place)
          PROVE  Control' /\ OnlyMoves(a) /\ Toward(a)' \in {"idle", "begun", "investigate"}
        BY <1>1, <2>1, <2>4, AgentGoes
    <2> QED
        BY <2>2, <2>3, <2>4
<1>3. /\ turn' \in [Agents -> 0..TheEnd] /\ verdict' \in [Agents \cup Sweepers -> Verdicts]
      /\ \A b \in Agents : b # a => turn'[b] = turn[b] /\ verdict'[b] = verdict[b]
    BY <1>1, ProgressTypes DEF Verdicts
<1>4. Claim(Toward(a)', turn'[a], verdict'[a])
    <2>1. turn'[a] = 0
        BY <1>1, ProgressTypes
    <2> QED
        BY <1>2, <2>1 DEF Claim
<1>5. investigated' \in BOOLEAN /\ UNCHANGED <<transcript, steps, exchanges, candidates, verdicts>>
    BY <1>1, ProgressTypes DEF factVars
<1> QED
    BY <1>1, <1>2, <1>3, <1>4, <1>5, FactsKept

LEMMA BeginInvestigationPreserves ==
    ASSUME FactInv, NEW a \in DW!Procs, BeginInvestigation(a)
    PROVE  FactInv'
<1>1. a \in Agents /\ Control /\ transcript' = transcript /\ StoreUnchanged
      /\ Toward(a) = "investigate"
    BY ProgressTypes, AtAgentPlace DEF BeginInvestigation
<1>2. Control' /\ OnlyMoves(a) /\ Toward(a)' \in {"idle", "begun"}
    <2>1. "begun" \in AgentPlaces
        BY DEF AgentPlaces
    <2>2. Leave(a, "investigation_activation_failed") \/ Goto(a, "begun")
        BY DEF BeginInvestigation
    <2> QED
        BY <1>1, <2>1, <2>2, ProcessLeaves, AgentGoes
<1>3. /\ UNCHANGED <<transcript, steps, exchanges, candidates, verdicts, turn, verdict>>
      /\ investigated' \in BOOLEAN
    BY DEF BeginInvestigation
<1>4. Claim(Toward(a)', turn'[a], verdict'[a])
    <2>1. turn'[a] = 0
        BY <1>1, <1>3, ProgressTypes DEF Claim
    <2> QED
        BY <1>2, <2>1 DEF Claim
<1> QED
    BY <1>1, <1>2, <1>3, <1>4, FactsKept, ProgressTypes

LEMMA EnterInvestigationPreserves ==
    ASSUME FactInv, NEW a \in DW!Procs, EnterInvestigation(a)
    PROVE  FactInv'
<1>1. a \in Agents /\ Control /\ UNCHANGED agentVars /\ StoreUnchanged /\ transcript' = transcript
      /\ Toward(a) = "begun"
    BY ProgressTypes, AtAgentPlace DEF EnterInvestigation, agentVars
<1>2. UNCHANGED <<transcript, steps, exchanges, candidates, verdicts, turn, verdict>>
      /\ investigated' \in BOOLEAN
    BY <1>1, ProgressTypes DEF agentVars, factVars
<1>3. "act" \in AgentPlaces /\ "act" \in Labels /\ "act" \in Places(a) \cap Returns
    BY <1>1, PlacesAreLabels DEF AgentPlaces, Returns
<1>4. Control' /\ OnlyMoves(a) /\ Toward(a)' \in {"idle", "act"}
    <2>1. \/ \E outcome : Leave(a, outcome)
          \/ Goto(a, "act")
          \/ MoveTo(a, INVESTIGATION_STARTED, INVESTIGATING, "investigation", "act")
        BY DEF EnterInvestigation
    <2>2. ASSUME NEW outcome, Leave(a, outcome)
          PROVE  Control' /\ OnlyMoves(a) /\ Toward(a)' \in {"idle", "act"}
        BY <1>1, <2>2, ProcessLeaves
    <2>3. CASE Goto(a, "act")
        BY <1>1, <1>3, <2>3, AgentGoes
    <2>4. CASE MoveTo(a, INVESTIGATION_STARTED, INVESTIGATING, "investigation", "act")
        <3>1. /\ INVESTIGATION_STARTED \in DW!Kinds /\ INVESTIGATING \in DW!WORKFLOW_STATES
              /\ DW!Cause("investigation") \in Causes
            BY InvestigationRow
        <3> QED
            BY <1>1, <1>3, <2>4, <3>1, ProcessMovesTo, ProgressTypes
    <2> QED
        BY <2>1, <2>2, <2>3, <2>4
<1>5. Claim(Toward(a)', turn'[a], verdict'[a])
    <2>1. turn'[a] = 0 /\ Len(exchanges) \in Nat
        BY <1>1, <1>2, FactCounts, ProgressTypes DEF Claim
    <2> QED
        BY <1>4, <2>1 DEF Claim
<1> QED
    BY <1>1, <1>2, <1>4, <1>5, FactsKept, ProgressTypes

(* After a recorded step the agent reads its tool, or has come to the end  *)
(* of the transcript.                                                      *)
LEMMA AfterStepGoes ==
    ASSUME Control, NEW a \in Agents, NEW n, n \in 1..TheEnd, AfterStep(a, n),
           transcript' = transcript, StoreUnchanged
    PROVE  /\ Control' /\ OnlyMoves(a)
           /\ \/ Toward(a)' = "idle"
              \/ Toward(a)' = "candidate" /\ n = TheEnd /\ Action(TheEnd) = "response_candidate"
              \/ Toward(a)' = "read" /\ n < TheEnd
<1>1. /\ TheEnd \in Nat \ {0}
      /\ \A i \in 1..TheEnd : Action(i) \in Terminals <=> i = TheEnd
    BY TranscriptFacts DEF Control, StoreTypes
<1>2. "candidate" \in AgentPlaces /\ "read" \in AgentPlaces
    BY DEF AgentPlaces
<1>3. CASE Action(n) = "response_candidate" /\ Goto(a, "candidate")
    <2>1. n = TheEnd
        BY <1>1, <1>3 DEF Terminals
    <2> QED
        BY <1>2, <1>3, <2>1, AgentGoes
<1>4. CASE Leave(a, "needs_operator")
    BY <1>4, ProcessLeaves DEF DW!Procs
<1>5. CASE Action(n) \notin Terminals /\ Goto(a, "read")
    <2>1. n < TheEnd
        BY <1>1, <1>5
    <2> QED
        BY <1>2, <1>5, <2>1, AgentGoes
<1> QED
    BY <1>3, <1>4, <1>5 DEF AfterStep

LEMMA NextActionPreserves ==
    ASSUME FactInv, NEW a \in DW!Procs, NextAction(a)
    PROVE  FactInv'
<1>1. a \in Agents /\ Control /\ transcript' = transcript /\ StoreUnchanged
      /\ Toward(a) = "act"
    BY ProgressTypes, AtAgentPlace DEF NextAction
<1> DEFINE n == turn[a] + 1
<1>2. /\ TheEnd \in Nat \ {0} /\ Len(exchanges) \in Nat /\ Len(steps) \in Nat
      /\ Len(exchanges) < TheEnd /\ Len(exchanges) <= Len(steps) /\ Len(steps) <= TheEnd
      /\ turn[a] \in Nat
      /\ \A k \in Nat : k \in Range(steps) <=> k \in 1..Len(steps)
    BY <1>1, FactCounts, ProgressTypes DEF Facts
<1>3. turn[a] <= Len(exchanges)
    BY <1>1, ProgressTypes DEF Claim
<1>4. n \in Nat /\ n \in 1..(Len(exchanges) + 1) /\ n \in 1..TheEnd
    BY <1>2, <1>3
<1>5. /\ turn' = [turn EXCEPT ![a] = n]
      /\ UNCHANGED <<transcript, steps, exchanges, candidates, verdicts, verdict>>
      /\ investigated' \in BOOLEAN
    BY ProgressTypes DEF NextAction, factVars
<1>6. turn' \in [Agents -> 0..TheEnd] /\ turn'[a] = n
      /\ \A b \in Agents : b # a => turn'[b] = turn[b]
    BY <1>1, <1>4, <1>5, ProgressTypes
<1> HIDE DEF n
<1>7. Control' /\ OnlyMoves(a) /\ Claim(Toward(a)', n, verdict'[a])
    <2>1. \/ \E outcome : Leave(a, outcome)
          \/ n \in Range(steps) /\ AfterStep(a, n)
          \/ Goto(a, "step")
        BY DEF NextAction, n
    <2>2. ASSUME NEW outcome, Leave(a, outcome)
          PROVE  Control' /\ OnlyMoves(a) /\ Claim(Toward(a)', n, verdict'[a])
        BY <1>1, <2>2, ProcessLeaves, QuietClaims DEF Quiet
    <2>3. CASE n \in Range(steps) /\ AfterStep(a, n)
        <3>1. n \in 1..Len(steps)
            BY <1>2, <1>4, <2>3
        <3>2. /\ Control' /\ OnlyMoves(a)
              /\ \/ Toward(a)' = "idle"
                 \/ Toward(a)' = "candidate" /\ n = TheEnd /\ Action(TheEnd) = "response_candidate"
                 \/ Toward(a)' = "read" /\ n < TheEnd
            BY <1>1, <1>4, <2>3, AfterStepGoes
        <3>3. n = TheEnd => Len(steps) = TheEnd
            BY <1>2, <3>1
        <3>4. n <= Len(exchanges) + 1
            BY <1>2, <1>4
        <3> QED
            BY <3>1, <3>2, <3>3, <3>4 DEF Claim
    <2>4. CASE Goto(a, "step")
        <3>1. Control' /\ OnlyMoves(a) /\ Toward(a)' = "step"
            BY <1>1, <2>4, AgentGoes DEF AgentPlaces
        <3> QED
            BY <1>4, <3>1 DEF Claim
    <2> QED
        BY <2>1, <2>2, <2>3, <2>4
<1> QED
    BY <1>1, <1>5, <1>6, <1>7, FactsKept, ProgressTypes

(* Rows are appended in order.                                             *)
LEMMA AppendInOrder ==
    ASSUME NEW s \in Seq(Nat), \A i \in 1..Len(s) : s[i] = i,
           NEW n \in Nat, n = Len(s) + 1
    PROVE  /\ Append(s, n) \in Seq(Nat) /\ Len(Append(s, n)) = n
           /\ \A i \in 1..n : Append(s, n)[i] = i
<1>1. Len(Append(s, n)) = Len(s) + 1 /\ Append(s, n) \in Seq(Nat) /\ Len(s) \in Nat
    OBVIOUS
<1>2. ASSUME NEW i \in 1..n PROVE Append(s, n)[i] = i
    <2>1. CASE i \in 1..Len(s)
        BY <2>1
    <2>2. CASE i = Len(s) + 1
        BY <2>2
    <2> QED
        BY <1>1, <2>1, <2>2
<1> QED
    BY <1>1, <1>2

LEMMA RecordAgentActionPreserves ==
    ASSUME FactInv, NEW a \in DW!Procs, RecordAgentAction(a)
    PROVE  FactInv'
<1>1. a \in Agents /\ Control /\ transcript' = transcript /\ StoreUnchanged
      /\ Toward(a) = "step"
    BY ProgressTypes, AtAgentPlace DEF RecordAgentAction
<1>2. UNCHANGED <<transcript, investigated, exchanges, candidates, verdicts, turn, verdict>>
    BY DEF RecordAgentAction
<1> DEFINE n == turn[a]
<1>3. /\ TheEnd \in Nat \ {0} /\ Len(exchanges) \in Nat /\ Len(steps) \in Nat
      /\ Len(exchanges) < TheEnd /\ Len(exchanges) <= Len(steps)
      /\ Len(steps) <= Len(exchanges) + 1 /\ Len(steps) <= TheEnd
      /\ n \in Nat /\ n \in 1..(Len(exchanges) + 1)
      /\ \A k \in Nat : k \in Range(steps) <=> k \in 1..Len(steps)
    BY <1>1, FactCounts, ProgressTypes DEF Facts, Claim
<1>4. CASE n \in Range(steps)
    <2>1. Leave(a, "agent_step_persist_failed") /\ steps' = steps
        BY <1>4 DEF RecordAgentAction
    <2>2. Control' /\ OnlyMoves(a) /\ Toward(a)' \in Quiet
        BY <1>1, <2>1, ProcessLeaves DEF Quiet
    <2> QED
        BY <1>2, <2>1, <2>2, QuietStep DEF factVars
<1>5. CASE n \notin Range(steps)
    <2>1. AfterStep(a, n) /\ steps' = Append(steps, n)
        BY <1>5 DEF RecordAgentAction
    <2>2. n = Len(steps) + 1 /\ Len(steps) = Len(exchanges) /\ n \in 1..TheEnd
        BY <1>3, <1>5
    <2>3. /\ Control' /\ OnlyMoves(a)
          /\ \/ Toward(a)' = "idle"
             \/ Toward(a)' = "candidate" /\ n = TheEnd /\ Action(TheEnd) = "response_candidate"
             \/ Toward(a)' = "read" /\ n < TheEnd
        BY <1>1, <2>1, <2>2, AfterStepGoes
    <2> HIDE DEF n
    <2>4. steps' \in Seq(Nat) /\ Len(steps') = n /\ \A i \in 1..n : steps'[i] = i
        BY <1>3, <2>1, <2>2, AppendInOrder, ProgressTypes DEF Facts, FactsInOrder
    <2>5. TheEnd' = TheEnd /\ Evidence' = Evidence /\ Action(TheEnd)' = Action(TheEnd)
        BY <1>2 DEF TheEnd, Evidence, Action
    <2>6. candidates = {}
        <3>1. candidates # {} => Len(steps) = TheEnd
            BY ProgressTypes DEF Facts, FactsInOrder, TheEnd
        <3> QED
            BY <1>3, <2>2, <3>1
    <2>7. Facts'
        BY <1>2, <1>3, <2>2, <2>4, <2>5, <2>6, ProgressTypes DEF Facts, FactsInOrder, TheEnd
    <2>8. Judgement'
        BY <1>2, <2>5 DEF FactInv, Judgement, VerdictAsDeserved
    <2>9. FactsGrow
        BY <1>2, <1>3, <2>2, <2>4 DEF FactsGrow
    <2>10. Claim(Toward(a), turn[a], verdict[a])'
        <3>1. turn'[a] = n /\ n \in 1..Len(steps') /\ n <= Len(exchanges') + 1
            BY <1>2, <1>3, <2>2, <2>4 DEF n
        <3> QED
            BY <2>3, <2>4, <2>5, <3>1 DEF Claim
    <2>11. \A b \in Agents : Claim(Toward(b), turn[b], verdict[b])'
        BY <1>2, <2>3, <2>7, <2>9, <2>10, ClaimsAfter
    <2> QED
        BY <1>2, <2>3, <2>5, <2>7, <2>8, <2>11, ProgressTypes DEF FactInv, Progress
<1> QED
    BY <1>4, <1>5

LEMMA ReadToolPreserves ==
    ASSUME FactInv, NEW a \in DW!Procs, ReadTool(a)
    PROVE  FactInv'
<1>1. a \in Agents /\ Control /\ transcript' = transcript /\ StoreUnchanged
      /\ Toward(a) = "read"
    BY ProgressTypes, AtAgentPlace DEF ReadTool, agentVars
<1>2. UNCHANGED <<transcript, steps, exchanges, candidates, verdicts, turn, verdict>>
      /\ investigated' \in BOOLEAN
    BY ProgressTypes DEF ReadTool, agentVars, factVars
<1> DEFINE n == turn[a]
<1>3. /\ Len(exchanges) \in Nat /\ Len(steps) \in Nat /\ transcript.toolBudget \in Nat
      /\ n \in Nat /\ n \in 1..Len(steps) /\ n <= Len(exchanges) + 1 /\ n < TheEnd
      /\ \A k \in Nat : k \in Range(exchanges) <=> k \in 1..Len(exchanges)
    BY <1>1, FactCounts, ProgressTypes, TranscriptFacts DEF Claim
<1>4. Control' /\ OnlyMoves(a) /\ Claim(Toward(a)', n, verdict'[a])
    <2>1. \/ \E outcome : Leave(a, outcome)
          \/ n \in Range(exchanges) /\ Goto(a, "act")
          \/ n \notin Range(exchanges) /\ ~(Len(exchanges) >= transcript.toolBudget)
             /\ Goto(a, "exchange")
        BY DEF ReadTool
    <2>2. ASSUME NEW outcome, Leave(a, outcome)
          PROVE  Control' /\ OnlyMoves(a) /\ Claim(Toward(a)', n, verdict'[a])
        BY <1>1, <2>2, ProcessLeaves, QuietClaims DEF Quiet
    <2>3. CASE n \in Range(exchanges) /\ Goto(a, "act")
        <3>1. n <= Len(exchanges)
            BY <1>3, <2>3
        <3>2. Control' /\ OnlyMoves(a) /\ Toward(a)' = "act"
            BY <1>1, <2>3, AgentGoes DEF AgentPlaces
        <3> QED
            BY <3>1, <3>2 DEF Claim
    <2>4. CASE n \notin Range(exchanges) /\ ~(Len(exchanges) >= transcript.toolBudget)
               /\ Goto(a, "exchange")
        <3>1. n <= transcript.toolBudget
            BY <1>3, <2>4
        <3>2. Control' /\ OnlyMoves(a) /\ Toward(a)' = "exchange"
            BY <1>1, <2>4, AgentGoes DEF AgentPlaces
        <3> QED
            BY <1>3, <3>1, <3>2 DEF Claim
    <2> QED
        BY <2>1, <2>2, <2>3, <2>4
<1> QED
    BY <1>1, <1>2, <1>4, FactsKept, ProgressTypes

LEMMA RecordToolExchangePreserves ==
    ASSUME FactInv, NEW a \in DW!Procs, RecordToolExchange(a)
    PROVE  FactInv'
<1>1. a \in Agents /\ Control /\ transcript' = transcript /\ StoreUnchanged
      /\ Toward(a) = "exchange"
    BY ProgressTypes, AtAgentPlace DEF RecordToolExchange
<1>2. UNCHANGED <<transcript, investigated, steps, candidates, verdicts, turn, verdict>>
    BY DEF RecordToolExchange
<1> DEFINE n == turn[a]
<1>3. /\ TheEnd \in Nat \ {0} /\ Len(exchanges) \in Nat /\ Len(steps) \in Nat
      /\ Len(exchanges) <= Len(steps) /\ Len(steps) <= Len(exchanges) + 1
      /\ n \in Nat /\ n \in 1..Len(steps) /\ n <= Len(exchanges) + 1 /\ n < TheEnd
      /\ n <= transcript.toolBudget
      /\ \A k \in Nat : k \in Range(exchanges) <=> k \in 1..Len(exchanges)
    BY <1>1, FactCounts, ProgressTypes DEF Facts, Claim
<1>4. CASE n \in Range(exchanges)
    <2>1. Leave(a, "tool_result_persist_failed") /\ exchanges' = exchanges
        BY <1>4 DEF RecordToolExchange
    <2>2. Control' /\ OnlyMoves(a) /\ Toward(a)' \in Quiet
        BY <1>1, <2>1, ProcessLeaves DEF Quiet
    <2> QED
        BY <1>2, <2>1, <2>2, QuietStep DEF factVars
<1>5. CASE n \notin Range(exchanges)
    <2>1. Goto(a, "act") /\ exchanges' = Append(exchanges, n)
        BY <1>5 DEF RecordToolExchange
    <2>2. n = Len(exchanges) + 1 /\ n = Len(steps)
        BY <1>3, <1>5
    <2>3. Control' /\ OnlyMoves(a) /\ Toward(a)' = "act"
        BY <1>1, <2>1, AgentGoes DEF AgentPlaces
    <2> HIDE DEF n
    <2>4. exchanges' \in Seq(Nat) /\ Len(exchanges') = n /\ \A i \in 1..n : exchanges'[i] = i
        BY <1>3, <2>1, <2>2, AppendInOrder, ProgressTypes DEF Facts, FactsInOrder
    <2>5. TheEnd' = TheEnd /\ Evidence' = Evidence
        BY <1>2 DEF TheEnd, Evidence
    <2>6. Facts'
        BY <1>2, <1>3, <2>2, <2>4, <2>5, ProgressTypes DEF Facts, FactsInOrder
    <2>7. Judgement'
        BY <1>2, <2>5 DEF FactInv, Judgement, VerdictAsDeserved
    <2>8. FactsGrow
        BY <1>2, <1>3, <2>2, <2>4 DEF FactsGrow
    <2>9. Claim(Toward(a), turn[a], verdict[a])'
        <3>1. turn'[a] = n /\ n <= Len(exchanges')
            BY <1>2, <1>3, <2>4 DEF n
        <3> QED
            BY <2>3, <3>1 DEF Claim
    <2>10. \A b \in Agents : Claim(Toward(b), turn[b], verdict[b])'
        BY <1>2, <2>3, <2>6, <2>8, <2>9, ClaimsAfter
    <2> QED
        BY <1>2, <2>3, <2>5, <2>6, <2>7, <2>10, ProgressTypes DEF FactInv, Progress
<1> QED
    BY <1>4, <1>5

LEMMA ProposePreserves ==
    ASSUME FactInv, NEW a \in DW!Procs, Propose(a)
    PROVE  FactInv'
<1>1. a \in Agents /\ Control /\ transcript' = transcript /\ StoreUnchanged
      /\ Toward(a) = "candidate"
    BY ProgressTypes, AtAgentPlace DEF Propose, agentVars
<1>2. UNCHANGED <<transcript, steps, exchanges, candidates, verdicts, turn, verdict>>
      /\ investigated' \in BOOLEAN
    BY ProgressTypes DEF Propose, agentVars, factVars
<1>3. Len(steps) = TheEnd /\ Action(TheEnd) = "response_candidate"
    BY <1>1, ProgressTypes DEF Claim
<1>4. Control' /\ OnlyMoves(a) /\ Claim(Toward(a)', turn[a], verdict'[a])
    <2>1. \/ \E outcome : Leave(a, outcome)
          \/ Evidence \in candidates /\ Goto(a, "verify")
          \/ Goto(a, "propose")
        BY DEF Propose
    <2>2. ASSUME NEW outcome, Leave(a, outcome)
          PROVE  Control' /\ OnlyMoves(a) /\ Claim(Toward(a)', turn[a], verdict'[a])
        BY <1>1, <2>2, ProcessLeaves, QuietClaims DEF Quiet
    <2>3. CASE Evidence \in candidates /\ Goto(a, "verify")
        <3>1. Control' /\ OnlyMoves(a) /\ Toward(a)' = "verify"
            BY <1>1, <2>3, AgentGoes DEF AgentPlaces
        <3> QED
            BY <1>3, <2>3, <3>1 DEF Claim
    <2>4. CASE Goto(a, "propose")
        <3>1. Control' /\ OnlyMoves(a) /\ Toward(a)' = "propose"
            BY <1>1, <2>4, AgentGoes DEF AgentPlaces
        <3> QED
            BY <1>3, <3>1 DEF Claim
    <2> QED
        BY <2>1, <2>2, <2>3, <2>4
<1> QED
    BY <1>1, <1>2, <1>4, FactsKept, ProgressTypes

LEMMA RecordResponseCandidatePreserves ==
    ASSUME FactInv, NEW a \in DW!Procs, RecordResponseCandidate(a)
    PROVE  FactInv'
<1>1. a \in Agents /\ Control /\ transcript' = transcript /\ StoreUnchanged
      /\ Toward(a) = "propose"
    BY ProgressTypes, AtAgentPlace DEF RecordResponseCandidate
<1>2. /\ UNCHANGED <<transcript, investigated, steps, exchanges, verdicts, turn, verdict>>
      /\ candidates' = candidates \cup {Evidence}
    BY DEF RecordResponseCandidate
<1>3. TheEnd' = TheEnd /\ Evidence' = Evidence /\ Action(TheEnd)' = Action(TheEnd)
    BY <1>2 DEF TheEnd, Evidence, Action
<1>4. Len(steps) = TheEnd /\ Action(TheEnd) = "response_candidate"
    BY <1>1, ProgressTypes DEF Claim
<1>5. Control' /\ OnlyMoves(a) /\ Toward(a)' \in {"idle", "verify"}
    <2>1. (\E outcome : Leave(a, outcome)) \/ Goto(a, "verify")
        BY DEF RecordResponseCandidate
    <2> QED
        BY <1>1, <2>1, ProcessLeaves, AgentGoes DEF AgentPlaces
<1>6. Facts'
    BY <1>2, <1>3, <1>4, ProgressTypes DEF Facts, FactsInOrder, TheEnd
<1>7. Judgement'
    <2>1. candidates' \subseteq {Evidence} /\ candidates \subseteq candidates'
        BY <1>2 DEF FactInv, Judgement
    <2>2. verdicts' \subseteq [evidence : candidates', verdict : {"verified", "rejected"}]
        BY <1>2, <2>1 DEF FactInv, Judgement
    <2>3. VerdictAsDeserved'
        BY <1>2, <1>3 DEF FactInv, Judgement, VerdictAsDeserved
    <2> QED
        BY <1>3, <2>1, <2>2, <2>3 DEF Judgement
<1>8. FactsGrow
    BY <1>2, FactCounts, ProgressTypes DEF FactsGrow
<1>9. Claim(Toward(a), turn[a], verdict[a])'
    BY <1>2, <1>3, <1>4, <1>5 DEF Claim
<1>10. \A b \in Agents : Claim(Toward(b), turn[b], verdict[b])'
    BY <1>2, <1>5, <1>6, <1>8, <1>9, ClaimsAfter
<1> QED
    BY <1>2, <1>3, <1>5, <1>6, <1>7, <1>10, ProgressTypes DEF FactInv, Progress

(* The verdict an agent takes along is the one on record, or the one the   *)
(* rows deserve.                                                           *)
LEMMA VerifyPreserves ==
    ASSUME FactInv, NEW a \in DW!Procs, Verify(a)
    PROVE  FactInv'
<1>1. a \in Agents /\ Control /\ transcript' = transcript /\ StoreUnchanged
      /\ Toward(a) = "verify"
    BY ProgressTypes, AtAgentPlace DEF Verify
<1>2. UNCHANGED <<transcript, steps, exchanges, candidates, verdicts, turn>>
      /\ investigated' \in BOOLEAN
    BY ProgressTypes DEF Verify, factVars
<1>3. Len(steps) = TheEnd /\ Action(TheEnd) = "response_candidate" /\ Evidence \in candidates
    BY <1>1, ProgressTypes DEF Claim
<1>4. /\ DeterministicVerifierReason(Evidence) \in {"verified", "rejected"}
      /\ DeterministicVerifierReason(Evidence) = "verified" <=> Evidence = RequiredTools
    BY <1>3, VerifierSeesAll, ProgressTypes
<1>5. CASE Leave(a, "workflow_journal_invalid") /\ UNCHANGED verdict
    <2>1. Control' /\ OnlyMoves(a) /\ Claim(Toward(a)', turn[a], verdict'[a])
        BY <1>1, <1>5, ProcessLeaves, QuietClaims DEF Quiet
    <2> QED
        BY <1>1, <1>2, <1>5, <2>1, FactsKept, ProgressTypes
<1>6. ASSUME Goto(a, "advance"), NEW v \in Judged(Evidence),
             verdict' = [verdict EXCEPT ![a] = v.verdict]
      PROVE  FactInv'
    <2>1. v.verdict \in Verdicts
        BY <1>6 DEF Judged, FactInv, Judgement, Verdicts
    <2>2. Control' /\ OnlyMoves(a) /\ Claim(Toward(a)', turn[a], verdict'[a])
        BY <1>1, <1>6, AgentGoes, QuietClaims DEF AgentPlaces, Quiet
    <2>3. /\ verdict' \in [Agents \cup Sweepers -> Verdicts]
          /\ \A b \in Agents : b # a => verdict'[b] = verdict[b]
        BY <1>6, <2>1, ProgressTypes
    <2> QED
        BY <1>1, <1>2, <2>2, <2>3, FactsKept, ProgressTypes
<1>7. CASE /\ Goto(a, "outcome")
           /\ verdict' = [verdict EXCEPT ![a] = DeterministicVerifierReason(Evidence)]
    <2> DEFINE reason == DeterministicVerifierReason(Evidence)
    <2>1. reason \in Verdicts /\ reason # "none" /\ (reason = "verified" <=> Evidence = RequiredTools)
        BY <1>4 DEF Verdicts
    <2> HIDE DEF reason
    <2>2. verdict' = [verdict EXCEPT ![a] = reason]
        BY <1>7 DEF reason
    <2>3. /\ verdict' \in [Agents \cup Sweepers -> Verdicts] /\ verdict'[a] = reason
          /\ \A b \in Agents : b # a => verdict'[b] = verdict[b]
        BY <1>1, <2>1, <2>2, ProgressTypes
    <2>4. Control' /\ OnlyMoves(a) /\ Toward(a)' = "outcome"
        BY <1>1, <1>7, AgentGoes DEF AgentPlaces
    <2>5. Claim(Toward(a)', turn[a], verdict'[a])
        BY <1>3, <2>1, <2>3, <2>4 DEF Claim
    <2> QED
        BY <1>1, <1>2, <2>3, <2>4, <2>5, FactsKept, ProgressTypes
<1> QED
    BY <1>5, <1>6, <1>7 DEF Verify

LEMMA RecordVerifierOutcomePreserves ==
    ASSUME FactInv, NEW a \in DW!Procs, RecordVerifierOutcome(a)
    PROVE  FactInv'
<1>1. a \in Agents /\ Control /\ transcript' = transcript /\ StoreUnchanged
      /\ Toward(a) = "outcome"
    BY ProgressTypes, AtAgentPlace DEF RecordVerifierOutcome
<1>2. UNCHANGED <<transcript, investigated, steps, exchanges, candidates, turn, verdict>>
    BY DEF RecordVerifierOutcome
<1>3. /\ Evidence \in candidates /\ verdict[a] # "none"
      /\ verdict[a] = "verified" <=> Evidence = RequiredTools
    BY <1>1, ProgressTypes DEF Claim
<1>4. verdict[a] \in {"verified", "rejected"}
    BY <1>1, <1>3, ProgressTypes DEF Verdicts
<1>5. Control' /\ OnlyMoves(a) /\ Toward(a)' \in Quiet
    <2>1. (\E outcome : Leave(a, outcome)) \/ Goto(a, "advance")
        BY DEF RecordVerifierOutcome
    <2> QED
        BY <1>1, <2>1, ProcessLeaves, AgentGoes DEF AgentPlaces, Quiet
<1>6. TheEnd' = TheEnd /\ Evidence' = Evidence
    BY <1>2 DEF TheEnd, Evidence
<1>7. Facts'
    BY <1>2, <1>6, ProgressTypes DEF Facts, FactsInOrder
<1>8. Judgement'
    <2>1. verdicts' \subseteq verdicts \cup {[evidence |-> Evidence, verdict |-> verdict[a]]}
        BY DEF RecordVerifierOutcome
    <2>2. [evidence |-> Evidence, verdict |-> verdict[a]]
              \in [evidence : candidates, verdict : {"verified", "rejected"}]
        BY <1>3, <1>4
    <2>3. verdicts' \subseteq [evidence : candidates, verdict : {"verified", "rejected"}]
        BY <2>1, <2>2 DEF FactInv, Judgement
    <2>4. \A v \in verdicts' : v.verdict = "verified" <=> Evidence = RequiredTools
        BY <1>3, <2>1 DEF FactInv, Judgement, VerdictAsDeserved
    <2> QED
        BY <1>2, <1>6, <2>3, <2>4 DEF FactInv, Judgement, VerdictAsDeserved
<1>9. FactsGrow
    BY <1>2, FactCounts, ProgressTypes DEF FactsGrow
<1>10. Claim(Toward(a), turn[a], verdict[a])'
    BY <1>5 DEF Claim, Quiet
<1>11. \A b \in Agents : Claim(Toward(b), turn[b], verdict[b])'
    BY <1>2, <1>5, <1>7, <1>9, <1>10, ClaimsAfter
<1> QED
    BY <1>2, <1>5, <1>6, <1>7, <1>8, <1>11, ProgressTypes DEF FactInv, Progress

-----------------------------------------------------------------------------
(* What sweeps and operators do adds no fact.                              *)

LEMMA AdvancePreserves ==
    ASSUME FactInv, NEW p \in DW!Procs, AdvanceVerifiedCandidate(p)
    PROVE  FactInv'
<1>1. /\ Control /\ UNCHANGED agentVars /\ StoreUnchanged /\ transcript' = transcript
      /\ pc[p] = "advance"
    BY ProgressTypes DEF AdvanceVerifiedCandidate, agentVars
<1>2. "finish" \in Places(p) \ {"dispatch", "commands"} /\ "finish" \in Labels \cap Returns
    <2>1. Toward(p) = "advance" /\ Toward(p) \in Places(p)
        BY <1>1 DEF Control, Held, Toward, Between
    <2> QED
        BY <2>1 DEF Places, AgentPlaces, SweeperPlaces, OperatorPlaces, Labels, Returns
<1>3. Control' /\ OnlyMoves(p) /\ Toward(p)' \in {"idle", "finish"}
    <2>1. \/ \E outcome : Leave(p, outcome)
          \/ Goto(p, "finish")
          \/ MoveTo(p, RESPONSE_CANDIDATE_VERIFIED, RESPONSE_READY, "verifier", "finish")
        BY DEF AdvanceVerifiedCandidate
    <2>2. ASSUME NEW outcome, Leave(p, outcome)
          PROVE  Control' /\ OnlyMoves(p) /\ Toward(p)' \in {"idle", "finish"}
        BY <1>1, <2>2, ProcessLeaves
    <2>3. CASE Goto(p, "finish")
        BY <1>1, <1>2, <2>3, ProcessGoes
    <2>4. CASE MoveTo(p, RESPONSE_CANDIDATE_VERIFIED, RESPONSE_READY, "verifier", "finish")
        BY <1>1, <1>2, <2>4, InvestigationRow, ProcessMovesTo
    <2> QED
        BY <2>1, <2>2, <2>3, <2>4
<1> QED
    BY <1>1, <1>3, QuietStep DEF Quiet, agentVars

(* The transition a sweep makes on the checkpoint in hand.                 *)
LEMMA SweepMoves ==
    ASSUME Control, NEW p \in DW!Procs, pc[p] = "dispatch", StoreUnchanged, transcript' = transcript,
           DW!Transition(p, reg[p], INVESTIGATION_STARTED, INVESTIGATING, INVESTIGATING,
                         DW!Cause("investigation"), journal[reg[p].at].pending,
                         journal[reg[p].at].completed, "recover")
    PROVE  /\ Control' /\ OnlyMoves(p)
           /\ pc'[p] \in {"idle", "append", "sync"}
           /\ pc'[p] # "idle" =>
                 DW!TransitionAllowed(journal[reg[p].at].state, INVESTIGATION_STARTED,
                     INVESTIGATING, INVESTIGATING, journal[reg[p].at].pending # {})
           /\ pc'[p] = "append" =>
                 /\ reg'[p].base = Len(journal)
                 /\ reg'[p].want.state = INVESTIGATING /\ reg'[p].want.resume = INVESTIGATING
                 /\ reg'[p].want.kind = INVESTIGATION_STARTED
                 /\ reg'[p].want.pending = journal[reg[p].at].pending
                 /\ reg'[p].want.completed = journal[reg[p].at].completed
                 /\ reg'[p].want.cause = DW!Cause("investigation")
<1>1. StoreTypes' /\ Grows
    BY StoreStays DEF Control, StoreUnchanged, quietVars
<1>2. /\ reg[p] \in Registers /\ reg[p].rows <= Len(commands)
      /\ journal \in Seq(Checkpoints) /\ journal # <<>>
      /\ reg[p].at \in 1..Len(journal)
    BY DEF Control, Held, StoreTypes
<1> DEFINE c == journal[reg[p].at]
           want == [state |-> INVESTIGATING, resume |-> INVESTIGATING, pending |-> c.pending,
                    completed |-> c.completed, cause |-> DW!Cause("investigation"),
                    kind |-> INVESTIGATION_STARTED]
<1>3. c \in Checkpoints
    BY <1>2, LatestCheckpoint
<1>4. c.pending \subseteq DW!Operations /\ c.completed \subseteq DW!Operations
    BY <1>3 DEF Checkpoints
<1>5. "recover" \in Labels /\ "recover" \in Places(p) \cap Returns
    <2>1. Toward(p) = "dispatch" /\ Toward(p) \in Places(p)
        BY DEF Control, Held, Toward, Between
    <2> QED
        BY <2>1 DEF Places, AgentPlaces, SweeperPlaces, OperatorPlaces, Labels, Returns
<1>6. /\ want.state = INVESTIGATING /\ want.resume = INVESTIGATING
      /\ want.kind = INVESTIGATION_STARTED /\ want.pending = journal[reg[p].at].pending
      /\ want.completed = journal[reg[p].at].completed
      /\ want.cause = DW!Cause("investigation")
    OBVIOUS
<1>7. /\ Departs(p, reg[p], want, "recover")
      /\ \/ pc' = [pc EXCEPT ![p] = "idle"]
         \/ DW!TransitionAllowed(c.state, INVESTIGATION_STARTED, INVESTIGATING, INVESTIGATING,
                                 c.pending # {})
    BY <1>2, <1>4, <1>5, InvestigationRow, TransitionDeparts
<1> HIDE DEF c, want
<1>8. /\ Control' /\ OnlyMoves(p)
      /\ pc'[p] \in {"idle", "append", "sync"}
      /\ pc'[p] = "append" => reg'[p].base = Len(journal) /\ reg'[p].want = want
    BY <1>1, <1>2, <1>5, <1>7, DepartsControl
<1>9. pc'[p] # "idle" =>
         DW!TransitionAllowed(c.state, INVESTIGATION_STARTED, INVESTIGATING, INVESTIGATING,
                              c.pending # {})
    BY <1>7 DEF Control
<1> QED
    BY <1>6, <1>8, <1>9 DEF c

(* A step of a sweeper is none of an agent's.                              *)
LEMMA SweeperIsNoAgent ==
    ASSUME Control, NEW p \in DW!Procs, pc[p] \in SweeperPlaces \ AgentPlaces
    PROVE  p \notin Agents
<1>1. Toward(p) = pc[p] /\ Toward(p) \in Places(p)
    BY PlacesAreLabels DEF Control, Held, Toward
<1> QED
    BY <1>1 DEF Places

LEMMA RecoverPreserves ==
    ASSUME FactInv, NEW p \in DW!Procs, RecoverInvestigation(p) \/ RecoverVerified(p)
    PROVE  FactInv'
<1>1. /\ Control /\ StoreUnchanged /\ UNCHANGED <<transcript, factVars, turn>>
      /\ transcript' = transcript /\ pc[p] \in {"dispatch", "recover"}
    BY ProgressTypes DEF RecoverInvestigation, RecoverVerified
<1>2. /\ p \notin Agents /\ {"advance", "finish"} \subseteq Places(p) \ {"dispatch", "commands"}
    <2>1. p \notin Agents
        BY <1>1, SweeperIsNoAgent DEF SweeperPlaces, OperatorPlaces, AgentPlaces
    <2>2. Toward(p) = pc[p] /\ Toward(p) \in Places(p)
        BY <1>1 DEF Control, Held, Toward, Between
    <2> QED
        BY <1>1, <2>1, <2>2 DEF Places, SweeperPlaces, OperatorPlaces
<1>3. Control' /\ OnlyMoves(p)
    <2>1. \/ Goto(p, "advance") \/ Goto(p, "finish")
          \/ /\ pc[p] = "dispatch"
             /\ DW!Transition(p, reg[p], INVESTIGATION_STARTED, INVESTIGATING, INVESTIGATING,
                              DW!Cause("investigation"), journal[reg[p].at].pending,
                              journal[reg[p].at].completed, "recover")
        BY DEF RecoverInvestigation, RecoverVerified
    <2>2. CASE Goto(p, "advance") \/ Goto(p, "finish")
        BY <1>1, <1>2, <2>2, ProcessGoes
    <2> QED
        BY <1>1, <2>1, <2>2, SweepMoves
<1>4. \/ verdict' = verdict
      \/ verdict' = [verdict EXCEPT ![p] = "verified"]
    BY DEF RecoverInvestigation, RecoverVerified
<1>5. /\ verdict' \in [Agents \cup Sweepers -> Verdicts]
      /\ \A a \in Agents : a # p => verdict'[a] = verdict[a]
    BY <1>4, ProgressTypes DEF Verdicts
<1> QED
    BY <1>1, <1>2, <1>3, <1>5, FactsKept, ProgressTypes DEF factVars

(* Every allowed transition starts from a state.                           *)
LEMMA AllowedFromState ==
    ASSUME NEW from, NEW kind, NEW next, NEW resume, NEW unresolved,
           DW!TransitionAllowed(from, kind, next, resume, unresolved)
    PROVE  from \in WORKFLOW_STATES
<1>1. from \in DW!AllowedSources(kind, resume, unresolved)
    BY DEF DW!TransitionAllowed, DW!AllowedTargets
<1>2. from \in DW!WORKFLOW_STATES
    BY <1>1 DEF DW!AllowedSources, DW!WORKFLOW_STATES, DW!PAUSABLE_STATES
<1> QED
    BY <1>2 DEF WORKFLOW_STATES, DW!WORKFLOW_STATES,
       RECEIVED, TICKET_READY, INVESTIGATING, RESPONSE_READY, AWAITING_APPROVAL, DELIVERING,
       DELIVERY_RECORDED, PAUSED, WAITING_FOR_OPERATOR, NEEDS_RECONCILIATION, CANCELLED,
       DW!RECEIVED, DW!TICKET_READY, DW!INVESTIGATING, DW!RESPONSE_READY, DW!AWAITING_APPROVAL,
       DW!DELIVERING, DW!DELIVERY_RECORDED, DW!PAUSED, DW!WAITING_FOR_OPERATOR,
       DW!NEEDS_RECONCILIATION, DW!CANCELLED

(* Where a process between two transactions is bound for.                  *)
LEMMA BoundFor ==
    ASSUME Control, NEW p \in DW!Procs, pc[p] \in Between
    PROVE  /\ reg[p] \in Registers /\ reg[p].rows <= Len(commands)
           /\ reg[p].cont = Toward(p)
           /\ reg[p].cont \in (Labels \ Between) \cap Returns /\ reg[p].cont \in Places(p)
<1>1. Held(p) /\ reg[p] \in Registers
    BY DEF Control
<1> QED
    BY <1>1, PlacesAreLabels DEF Held, Toward

(* A process that continues after its transition.                          *)
LEMMA Continues ==
    ASSUME Control, StoreTypes', Grows, NEW p \in DW!Procs, pc[p] \in Between,
           NEW s \in Registers, s.rows = reg[p].rows, DW!Goto(p, reg[p].cont, s)
    PROVE  Control' /\ OnlyMoves(p) /\ pc'[p] = Toward(p) /\ Toward(p)' = Toward(p)
<1>1. /\ reg[p].cont \in Labels \ Between /\ reg[p].cont \in Places(p)
      /\ reg[p].cont = Toward(p) /\ s.rows <= Len(commands)
      /\ reg[p].cont # "dispatch" /\ reg[p].cont # "commands"
    BY BoundFor DEF Returns
<1> QED
    BY <1>1, GotoControl

LEMMA AppendCheckpointControl ==
    ASSUME Control, NEW p \in DW!Procs, DW!AppendCheckpoint(p), transcript' = transcript
    PROVE  /\ Control' /\ OnlyMoves(p) /\ pc[p] = "append" /\ pc'[p] = "sync"
           /\ Toward(p)' = Toward(p)
           /\ \/ Len(journal) > reg[p].base /\ journal' = journal
              \/ ~(Len(journal) > reg[p].base) /\ journal' = Append(journal, reg[p].want)
           /\ \A i \in 1..Len(journal) : journal'[i] = journal[i]
<1>1. /\ pc[p] = "append" /\ reg[p] \in Registers /\ reg[p].ret = "sync"
      /\ pc[p] \in Between /\ reg[p].cont \in Returns /\ reg[p].cont \in Places(p)
      /\ reg[p].rows <= Len(commands) /\ Toward(p) = reg[p].cont
    BY BoundFor DEF DW!AppendCheckpoint, DW!AppendRow, Control, Held, Between
<1>2. /\ UNCHANGED <<activated, commands, intents, completions>>
      /\ \/ Len(journal) > reg[p].base /\ journal' = journal
         \/ ~(Len(journal) > reg[p].base) /\ journal' = Append(journal, reg[p].want)
    BY DEF DW!AppendCheckpoint, DW!AppendRow, DW!effectVars
<1> DEFINE R == Checkpoints  row == reg[p].want
<1>3. journal \in Seq(R) /\ journal # <<>> /\ row \in R /\ Len(journal) \in Nat
    BY <1>1, CountsAreNat DEF Registers, Control, StoreTypes
<1> HIDE DEF R, row
<1>4. /\ journal' \in Seq(R) /\ journal' # <<>> /\ Len(journal') \in Nat \ {0}
      /\ Len(journal') >= Len(journal)
      /\ \A i \in 1..Len(journal) : journal'[i] = journal[i]
    <2>1. CASE journal' = journal
        BY <1>3, <2>1
    <2>2. CASE journal' = Append(journal, row)
        BY <1>3, <2>2
    <2> QED
        BY <1>2, <2>1, <2>2 DEF row
<1>5. StoreTypes' /\ Grows
    <2>1. journal' \in Seq(Checkpoints)
        BY <1>4 DEF R
    <2>2. StoreTypes'
        BY <1>2, <1>4, <2>1
        DEF Control, StoreTypes, DW!Unresolved, DW!Completed, Cmds, Checkpoints
    <2>3. Len(commands) \in Nat /\ commands' = commands
        BY <1>2, CountsAreNat DEF Control
    <2> QED
        BY <1>4, <2>2, <2>3 DEF Grows
<1> DEFINE s == [reg[p] EXCEPT !.at = Len(journal'), !.base = 0,
                               !.want = DW!NoRegisters.want, !.ret = "idle"]
<1>6. s \in Registers /\ s.rows = reg[p].rows /\ s.cont = reg[p].cont
    <2>1. DW!NoRegisters.want \in Checkpoints
        BY EmptyRegisters DEF Registers
    <2>2. "idle" \in Labels
        BY DEF Labels
    <2> DEFINE w == DW!NoRegisters.want  n == Len(journal')
    <2> HIDE DEF w, n
    <2>3. [reg[p] EXCEPT !.at = n, !.base = 0, !.want = w, !.ret = "idle"] \in Registers
        BY <1>1, <1>4, <2>1, <2>2 DEF Registers, w, n
    <2>4. [reg[p] EXCEPT !.at = n, !.base = 0, !.want = w, !.ret = "idle"].rows = reg[p].rows
          /\ [reg[p] EXCEPT !.at = n, !.base = 0, !.want = w, !.ret = "idle"].cont = reg[p].cont
        BY <1>1 DEF Registers
    <2> QED
        BY <2>3, <2>4 DEF w, n
<1>7. Moves(p, "sync", s)
    BY <1>1 DEF DW!AppendCheckpoint, DW!AppendRow, DW!Goto, Moves
<1> HIDE DEF s
<1>8. s.rows <= Len(commands')
    BY <1>1, <1>2, <1>6
<1>9. "sync" \in Labels /\ "sync" \in Between
    BY DEF Labels, Between
<1>10. Control' /\ OnlyMoves(p) /\ pc'[p] = "sync" /\ Toward(p)' = s.cont
    BY <1>1, <1>5, <1>6, <1>7, <1>8, <1>9, MovesControl
<1> QED
    BY <1>1, <1>2, <1>4, <1>6, <1>10

(* What keeps the store and the transcript.                                *)
StoreKept ==
    transcript' = transcript /\ UNCHANGED <<activated, journal, commands, intents, completions>>

LEMMA StoreKeeps ==
    ASSUME Control, StoreKept
    PROVE  StoreTypes' /\ Grows
BY StoreStays DEF Control, StoreKept

LEMMA SyncCaseStateControl ==
    ASSUME Control, NEW p \in DW!Procs, DW!SyncCaseState(p), transcript' = transcript
    PROVE  /\ Control' /\ OnlyMoves(p) /\ StoreKept
           /\ pc'[p] \in {Toward(p), "event", "idle"} /\ pc[p] \in Between
           /\ Toward(p)' \in {Toward(p), "idle"}
<1>1. pc[p] = "sync" /\ pc[p] \in Between /\ StoreKept
    BY DEF DW!SyncCaseState, DW!ReadCaseState, DW!storeVars, DW!effectVars, StoreKept, Between
<1>2. StoreTypes' /\ Grows
    BY <1>1, StoreKeeps
<1>3. /\ reg[p] \in Registers /\ reg[p].rows <= Len(commands) /\ reg[p].cont = Toward(p)
      /\ reg[p].cont \in Returns /\ reg[p].cont \in Places(p)
    BY <1>1, BoundFor
<1> DEFINE from == journal[Len(journal) - 1].state  c == journal[reg[p].at]
           s == [reg[p] EXCEPT !.cont = "idle"]  t == [reg[p] EXCEPT !.from = from]
<1>4. \/ DW!Goto(p, reg[p].cont, s)
      \/ DW!TransitionAllowed(from, c.kind, c.state, c.resume, FALSE) /\ DW!Goto(p, "event", t)
      \/ DW!Stop(p, "workflow_transition_not_allowed")
    BY DEF DW!SyncCaseState, DW!ReadCaseState
<1>5. CASE DW!Goto(p, reg[p].cont, s)
    <2>1. s \in Registers /\ s.rows = reg[p].rows
        <3>1. "idle" \in Labels
            BY DEF Labels
        <3> QED
            BY <1>3, <3>1 DEF Registers
    <2> QED
        BY <1>1, <1>2, <1>5, <2>1, Continues
<1>6. CASE DW!TransitionAllowed(from, c.kind, c.state, c.resume, FALSE) /\ DW!Goto(p, "event", t)
    <2>1. from \in WORKFLOW_STATES
        BY <1>6, AllowedFromState
    <2> HIDE DEF from
    <2>2. t \in Registers /\ t.rows = reg[p].rows /\ t.cont = reg[p].cont
        BY <1>3, <2>1 DEF Registers
    <2>3. Moves(p, "event", t)
        BY <1>6 DEF DW!Goto, Moves
    <2> HIDE DEF t
    <2>4. t.rows <= Len(commands') /\ "event" \in Labels /\ "event" \in Between
        BY <1>1, <1>3, <2>2 DEF StoreKept, Labels, Between
    <2>5. Control' /\ OnlyMoves(p) /\ pc'[p] = "event" /\ Toward(p)' = t.cont
        BY <1>2, <1>3, <2>2, <2>3, <2>4, MovesControl
    <2> QED
        BY <1>1, <1>3, <2>2, <2>5
<1>7. CASE DW!Stop(p, "workflow_transition_not_allowed")
    BY <1>1, <1>2, <1>7, StopControl
<1> QED
    BY <1>4, <1>5, <1>6, <1>7

LEMMA AppendStateEventControl ==
    ASSUME Control, NEW p \in DW!Procs, DW!AppendWorkflowStateEvent(p), transcript' = transcript
    PROVE  /\ Control' /\ OnlyMoves(p) /\ StoreKept
           /\ pc'[p] \in {Toward(p), "idle"} /\ pc[p] \in Between
           /\ Toward(p)' \in {Toward(p), "idle"}
<1>1. pc[p] \in Between /\ StoreKept
    BY DEF DW!AppendWorkflowStateEvent, DW!AppendStateEvent, DW!effectVars, StoreKept, Between
<1>2. StoreTypes' /\ Grows
    BY <1>1, StoreKeeps
<1>3. reg[p] \in Registers
    BY <1>1, BoundFor
<1> DEFINE s == [reg[p] EXCEPT !.cont = "idle", !.from = DW!RECEIVED]
<1>4. DW!Goto(p, reg[p].cont, s) \/ \E outcome : DW!Stop(p, outcome)
    BY DEF DW!AppendWorkflowStateEvent, DW!AppendStateEvent
<1>5. CASE DW!Goto(p, reg[p].cont, s)
    <2>1. s \in Registers /\ s.rows = reg[p].rows
        <3>1. "idle" \in Labels /\ DW!RECEIVED \in WORKFLOW_STATES
            BY DEF Labels, DW!RECEIVED, WORKFLOW_STATES, RECEIVED
        <3> QED
            BY <1>3, <3>1 DEF Registers
    <2> QED
        BY <1>1, <1>2, <1>5, <2>1, Continues
<1>6. ASSUME NEW outcome, DW!Stop(p, outcome)
      PROVE  /\ Control' /\ OnlyMoves(p) /\ StoreKept
             /\ pc'[p] \in {Toward(p), "idle"} /\ pc[p] \in Between
             /\ Toward(p)' \in {Toward(p), "idle"}
    BY <1>1, <1>2, <1>6, StopControl
<1> QED
    BY <1>4, <1>5, <1>6

(* The row of the operator command c on the latest checkpoint.             *)
CommandRow(want, c) ==
    /\ want.pending = Latest.pending /\ want.completed = Latest.completed
    /\ want.cause = DW!CommandCause(c.id) /\ Len(journal) = c.version + 1
    /\ DW!TransitionAllowed(Latest.state, want.kind, want.state, want.resume, Latest.pending # {})
    /\ \/ want.kind = DW!PAUSE /\ want.state = DW!PAUSED /\ want.resume = Latest.state
       \/ want.kind = DW!RESUME /\ want.state = Latest.resume /\ want.resume = Latest.resume
       \/ want.kind = DW!CANCEL /\ want.state = DW!CANCELLED

LEMMA ApplyPersistedCommandControl ==
    ASSUME Control, NEW p \in DW!Procs, NEW c \in Cmds, StoreKept, "applied" \in Places(p),
           DW!ApplyPersistedCommand(p, c)
    PROVE  /\ Control' /\ OnlyMoves(p)
           /\ pc'[p] \in {"idle", "append", "sync", "applied"}
           /\ pc'[p] = "append" => reg'[p].base = Len(journal) /\ CommandRow(reg'[p].want, c)
<1> DEFINE Goal ==
        /\ Control' /\ OnlyMoves(p)
        /\ pc'[p] \in {"idle", "append", "sync", "applied"}
        /\ pc'[p] = "append" => reg'[p].base = Len(journal) /\ CommandRow(reg'[p].want, c)
<1>1. StoreTypes' /\ Grows
    BY StoreKeeps
<1>2. /\ reg[p] \in Registers /\ reg[p].rows <= Len(commands) /\ DW!Unresolved = {}
      /\ journal \in Seq(Checkpoints) /\ journal # <<>>
    BY DEF Control, Held, StoreTypes
<1>3. /\ Len(journal) \in Nat \ {0} /\ Latest = journal[Len(journal)] /\ DW!Latest = Latest
      /\ Latest \in Checkpoints
    BY <1>2, LatestCheckpoint
<1>4. /\ Latest.state \in DW!WORKFLOW_STATES /\ Latest.resume \in DW!WORKFLOW_STATES
      /\ Latest.pending \subseteq DW!Operations /\ Latest.completed \subseteq DW!Operations
    BY <1>3 DEF Checkpoints
<1> DEFINE r == [reg[p] EXCEPT !.at = Len(journal)]
           apply(kind, next, resume) ==
               DW!Transition(p, r, kind, next, resume, DW!CommandCause(c.id),
                             Latest.pending, Latest.completed, "applied")
<1>5. r \in Registers /\ r.rows = reg[p].rows /\ r.at = Len(journal)
    BY <1>2, <1>3 DEF Registers
<1>6. "applied" \in Labels /\ "applied" \in Places(p) \cap Returns
    BY DEF Labels, Returns
<1>7. DW!CommandCause(c.id) \in Causes
    BY DEF DW!CommandCause, Causes, Cmds
<1>8. \/ DW!Stop(p, "workflow_command_recovery_conflict")
      \/ DW!Goto(p, "applied", r)
      \/ /\ Len(journal) = c.version + 1
         /\ \/ apply(DW!PAUSE, DW!PAUSED, Latest.state)
            \/ apply(DW!RESUME, Latest.resume, Latest.resume)
            \/ apply(DW!CANCEL, DW!CANCELLED, DW!CANCELLED)
    <2>1. c.type \in {DW!PAUSE, DW!RESUME, DW!CANCEL}
        BY RunAssumption DEF Cmds, PAUSE, RESUME, CANCEL, DW!PAUSE, DW!RESUME, DW!CANCEL
    <2>2. DW!PAUSE # DW!RESUME /\ DW!PAUSE # DW!CANCEL /\ DW!RESUME # DW!CANCEL
        BY DEF DW!PAUSE, DW!RESUME, DW!CANCEL
    <2>3. CASE Len(journal) - 1 # c.version
        BY <2>3 DEF DW!ApplyPersistedCommand
    <2>4. CASE Len(journal) - 1 = c.version /\ c.type = DW!PAUSE
        BY <1>3, <2>2, <2>4 DEF DW!ApplyPersistedCommand
    <2>5. CASE Len(journal) - 1 = c.version /\ c.type = DW!RESUME
        BY <1>3, <2>2, <2>5 DEF DW!ApplyPersistedCommand, DW!ResumeTarget
    <2>6. CASE Len(journal) - 1 = c.version /\ c.type = DW!CANCEL
        BY <1>2, <1>3, <2>2, <2>6 DEF DW!ApplyPersistedCommand
    <2>7. Len(journal) - 1 = c.version => Len(journal) = c.version + 1
        BY <1>3 DEF Cmds
    <2> QED
        BY <2>1, <2>3, <2>4, <2>5, <2>6, <2>7
<1> HIDE DEF r
<1>9. ASSUME NEW kind \in DW!Kinds, NEW next, NEW resume \in DW!WORKFLOW_STATES,
             apply(kind, next, resume), Len(journal) = c.version + 1,
             \/ kind = DW!PAUSE /\ next = DW!PAUSED /\ resume = Latest.state
             \/ kind = DW!RESUME /\ next = Latest.resume /\ resume = Latest.resume
             \/ kind = DW!CANCEL /\ next = DW!CANCELLED
      PROVE  Goal
    <2> DEFINE want == [state |-> next, resume |-> resume, pending |-> Latest.pending,
                        completed |-> Latest.completed, cause |-> DW!CommandCause(c.id),
                        kind |-> kind]
    <2>1. /\ want.state = next /\ want.resume = resume /\ want.kind = kind
          /\ want.pending = Latest.pending /\ want.completed = Latest.completed
          /\ want.cause = DW!CommandCause(c.id)
        OBVIOUS
    <2>2. /\ Departs(p, r, want, "applied")
          /\ \/ pc' = [pc EXCEPT ![p] = "idle"]
             \/ DW!TransitionAllowed(journal[r.at].state, kind, next, resume,
                                     journal[r.at].pending # {})
        BY <1>2, <1>4, <1>5, <1>6, <1>7, <1>9, TransitionDeparts
    <2> HIDE DEF want
    <2>3. /\ Control' /\ OnlyMoves(p) /\ pc'[p] \in {"idle", "append", "sync"}
          /\ pc'[p] = "append" => reg'[p].base = Len(journal) /\ reg'[p].want = want
        BY <1>1, <1>2, <1>5, <1>6, <2>2, DepartsControl
    <2>4. pc'[p] = "append" => CommandRow(want, c)
        <3>1. pc'[p] = "append" =>
                DW!TransitionAllowed(Latest.state, kind, next, resume, Latest.pending # {})
            BY <1>3, <1>5, <2>2 DEF Control
        <3> QED
            BY <1>9, <2>1, <3>1 DEF CommandRow
    <2> QED
        BY <2>3, <2>4
<1>10. DW!PAUSE \in DW!Kinds /\ DW!RESUME \in DW!Kinds /\ DW!CANCEL \in DW!Kinds
       /\ DW!CANCELLED \in DW!WORKFLOW_STATES
    BY DEF DW!Kinds, DW!WORKFLOW_TRANSITION_KINDS, DW!WORKFLOW_STATES
<1>11. CASE Len(journal) = c.version + 1 /\ apply(DW!PAUSE, DW!PAUSED, Latest.state)
    BY <1>4, <1>9, <1>10, <1>11
<1>12. CASE Len(journal) = c.version + 1 /\ apply(DW!RESUME, Latest.resume, Latest.resume)
    BY <1>4, <1>9, <1>10, <1>12
<1>13. CASE Len(journal) = c.version + 1 /\ apply(DW!CANCEL, DW!CANCELLED, DW!CANCELLED)
    BY <1>9, <1>10, <1>13
<1>14. CASE DW!Goto(p, "applied", r)
    <2>1. "applied" \in Labels \ Between /\ "applied" \in Places(p)
          /\ "applied" # "dispatch" /\ "applied" # "commands"
        BY PlacesAreLabels
    <2>2. Control' /\ OnlyMoves(p) /\ pc'[p] = "applied"
        BY <1>1, <1>2, <1>5, <1>14, <2>1, GotoControl
    <2> QED
        BY <2>2
<1>15. CASE DW!Stop(p, "workflow_command_recovery_conflict")
    BY <1>1, <1>15, StopControl
<1> QED
    BY <1>8, <1>11, <1>12, <1>13, <1>14, <1>15

LEMMA SubmitControl ==
    ASSUME Control, NEW p \in DW!Procs, StartSubmit(p)
    PROVE  /\ Control' /\ OnlyMoves(p) /\ pc'[p] = "persist" /\ p \in Operators /\ pc[p] = "idle"
           /\ StoreKept
           /\ \/ reg'[p].cmd.id = Len(commands) + 1
              \/ \E i \in 1..Len(commands) : reg'[p].cmd.id = commands[i].id
<1>1. /\ p \in Operators /\ pc[p] = "idle" /\ transcript' = transcript
      /\ UNCHANGED <<activated, journal, commands, intents, completions>>
    BY DEF StartSubmit, DW!StartSubmit, agentVars, DW!MayStart, DW!storeVars, DW!effectVars
<1>2. StoreTypes' /\ Grows /\ StoreKept
    BY <1>1, StoreKeeps DEF StoreKept
<1>3. /\ journal # <<>> /\ Len(journal) \in Nat \ {0} /\ Len(commands) \in Nat
      /\ commands \in Seq(Cmds)
    BY CountsAreNat DEF Control, StoreTypes
<1>4. PICK type \in CommandTypes :
         \E cmd \in {[id |-> Len(commands) + 1, type |-> type,
                      version |-> IF journal = <<>> THEN 0 ELSE Len(journal) - 1]}
                    \cup {[commands[i] EXCEPT !.type = type] : i \in 1..Len(commands)} :
            DW!Goto(p, "persist", [[DW!NoRegisters EXCEPT !.cmd = cmd] EXCEPT !.at = Len(journal)])
    BY <1>3 DEF StartSubmit, DW!StartSubmit
<1>5. PICK cmd \in {[id |-> Len(commands) + 1, type |-> type, version |-> Len(journal) - 1]}
                   \cup {[commands[i] EXCEPT !.type = type] : i \in 1..Len(commands)} :
            DW!Goto(p, "persist", [[DW!NoRegisters EXCEPT !.cmd = cmd] EXCEPT !.at = Len(journal)])
    BY <1>3, <1>4
<1>6. cmd \in Cmds
    <2>1. CASE cmd = [id |-> Len(commands) + 1, type |-> type, version |-> Len(journal) - 1]
        BY <1>3, <2>1 DEF Cmds
    <2>2. ASSUME NEW i \in 1..Len(commands), cmd = [commands[i] EXCEPT !.type = type]
          PROVE  cmd \in Cmds
        <3> DEFINE C == Cmds
        <3>1. commands[i] \in C
            <4> HIDE DEF C
            <4>1. commands \in Seq(C)
                BY <1>3 DEF C
            <4> QED
                BY <4>1
        <3> QED
            BY <2>2, <3>1 DEF Cmds
    <2> QED
        BY <1>5, <2>1, <2>2
<1> DEFINE N == DW!NoRegisters  s == [[N EXCEPT !.cmd = cmd] EXCEPT !.at = Len(journal)]
<1>7. N \in Registers /\ N.rows = 0
    BY EmptyRegisters
<1>8. DW!Goto(p, "persist", s)
    BY <1>5
<1> HIDE DEF N
<1>9. s \in Registers /\ s.rows = 0
    BY <1>3, <1>6, <1>7 DEF Registers
<1>11. \/ cmd.id = Len(commands) + 1
       \/ \E i \in 1..Len(commands) : cmd.id = commands[i].id
    <2>1. CASE cmd = [id |-> Len(commands) + 1, type |-> type, version |-> Len(journal) - 1]
        BY <2>1
    <2>2. ASSUME NEW i \in 1..Len(commands), cmd = [commands[i] EXCEPT !.type = type]
          PROVE  cmd.id = commands[i].id
        <3> DEFINE C == Cmds
        <3>1. commands[i] \in C
            <4> HIDE DEF C
            <4>1. commands \in Seq(C)
                BY <1>3 DEF C
            <4> QED
                BY <4>1
        <3> QED
            BY <2>2, <3>1 DEF Cmds
    <2> QED
        BY <1>5, <2>1, <2>2
<1>12. s.cmd = cmd
    BY <1>7 DEF Registers
<1> HIDE DEF s
<1>13. reg'[p] = s
    BY <1>8 DEF DW!Goto, Control
<1>10. "persist" \in Labels \ Between /\ "persist" \in Places(p)
       /\ "persist" # "dispatch" /\ "persist" # "commands"
    BY <1>1, RunAssumption, PlacesAreLabels DEF Places, SweeperPlaces, OperatorPlaces
<1> QED
    BY <1>1, <1>2, <1>3, <1>8, <1>9, <1>10, <1>11, <1>12, <1>13, GotoControl

(* What a step of a sweep or an operator does to the journal and to the    *)
(* process.                                                                *)
Ordered(p, c) ==
    \/ pc[p] = "apply" /\ c = reg[p].cmd
    \/ pc[p] = "commands" /\ reg[p].row \in 1..Len(commands) /\ c = commands[reg[p].row]

WorkflowMoves(p) ==
    /\ OnlyMoves(p) /\ pc[p] # "idle"
    /\ \/ commands' = commands /\ pc'[p] \notin {"persist", "apply"}
       \/ DW!PersistCommand(p)
    /\ p \in Agents => Toward(p)' \in {Toward(p), "idle"}
    /\ pc'[p] # "advance"
    /\ pc'[p] = "dispatch" => reg'[p].at = Len(journal) /\ journal' = journal
    /\ pc'[p] = "append" => /\ reg'[p].base = Len(journal)
                            /\ \E c \in Cmds : Ordered(p, c) /\ CommandRow(reg'[p].want, c)
    /\ \/ journal' = journal
       \/ /\ pc[p] = "append" /\ pc'[p] = "sync"
          /\ ~(Len(journal) > reg[p].base) /\ journal' = Append(journal, reg[p].want)

LEMMA WorkflowStops ==
    ASSUME Control, NEW p \in DW!Procs, pc[p] # "idle", NEW outcome, DW!Stop(p, outcome), StoreKept
    PROVE  Control' /\ WorkflowMoves(p)
<1>1. StoreTypes' /\ Grows
    BY StoreKeeps
<1>2. Control' /\ OnlyMoves(p) /\ pc'[p] = "idle" /\ Toward(p)' = "idle"
    BY <1>1, StopControl
<1> QED
    BY <1>2 DEF WorkflowMoves, StoreKept

LEMMA WorkflowGoes ==
    ASSUME Control, NEW p \in DW!Procs, p \notin Agents, pc[p] # "idle", StoreTypes', Grows,
           journal' = journal, NEW label \in Places(p) \ {"idle", "advance"},
           NEW s \in Registers, DW!Goto(p, label, s), s.rows <= Len(commands),
           label = "dispatch" => s.at = Len(journal),
           label = "commands" => s.row > 0,
           (commands' = commands /\ label \notin {"persist", "apply"}) \/ DW!PersistCommand(p)
    PROVE  Control' /\ WorkflowMoves(p)
<1>1. label \in Labels \ Between /\ label \in Places(p) /\ Len(journal) \in Nat \ {0}
    BY PlacesAreLabels, CountsAreNat DEF Control
<1>2. label = "dispatch" => s.at \in 1..Len(journal')
    BY <1>1
<1>3. Control' /\ OnlyMoves(p) /\ pc'[p] = label
    BY <1>1, <1>2, GotoControl
<1>4. label = "dispatch" => reg'[p] = s
    BY DEF DW!Goto, Control
<1> QED
    BY <1>1, <1>3, <1>4 DEF WorkflowMoves, Between

LEMMA JournalStepControl ==
    ASSUME Control, NEW p \in DW!Procs, transcript' = transcript,
           DW!AppendCheckpoint(p) \/ DW!SyncCaseState(p) \/ DW!AppendWorkflowStateEvent(p)
    PROVE  Control' /\ WorkflowMoves(p)
<1>1. CASE DW!AppendCheckpoint(p)
    <2>1. /\ Control' /\ OnlyMoves(p) /\ pc[p] = "append" /\ pc'[p] = "sync"
          /\ Toward(p)' = Toward(p)
          /\ \/ journal' = journal
             \/ ~(Len(journal) > reg[p].base) /\ journal' = Append(journal, reg[p].want)
        BY <1>1, AppendCheckpointControl
    <2>2. commands' = commands
        BY <1>1 DEF DW!AppendCheckpoint
    <2> QED
        BY <2>1, <2>2 DEF WorkflowMoves
<1>2. CASE DW!SyncCaseState(p) \/ DW!AppendWorkflowStateEvent(p)
    <2>1. /\ Control' /\ OnlyMoves(p) /\ StoreKept
          /\ pc'[p] \in {Toward(p), "event", "idle"} /\ pc[p] \in Between
          /\ Toward(p)' \in {Toward(p), "idle"}
        BY <1>2, SyncCaseStateControl, AppendStateEventControl
    <2>2. Toward(p) \in Returns
        BY <2>1, BoundFor
    <2> QED
        BY <2>1, <2>2 DEF WorkflowMoves, StoreKept, Returns, Between
<1> QED
    BY <1>1, <1>2

LEMMA AtSweeperPlace ==
    ASSUME Control, NEW p \in DW!Procs,
           pc[p] \in {"rebuild", "pending", "commands", "dispatch", "recover"}
    PROVE  p \notin Agents /\ Places(p) = SweeperPlaces
<1>1. Toward(p) = pc[p] /\ Toward(p) \in Places(p)
    BY DEF Control, Held, Toward, Between
<1> QED
    BY <1>1 DEF Places, AgentPlaces, OperatorPlaces

LEMMA AtOperatorPlace ==
    ASSUME Control, NEW p \in DW!Procs, pc[p] \in {"persist", "apply", "applied"}
    PROVE  p \notin Agents /\ {"persist", "apply", "applied"} \subseteq Places(p)
           /\ (p \notin Operators => Places(p) = SweeperPlaces)
<1>1. Toward(p) = pc[p] /\ Toward(p) \in Places(p)
    BY DEF Control, Held, Toward, Between
<1> QED
    BY <1>1 DEF Places, AgentPlaces, OperatorPlaces, SweeperPlaces, DW!Procs

LEMMA SweepStepControl ==
    ASSUME Control, NEW p \in DW!Procs, transcript' = transcript,
           DW!RecoverWorkflow(p) \/ DW!ReadPendingCommands(p) \/ DW!RecoverPendingCommand(p)
             \/ DW!FinishSweep(p)
    PROVE  Control' /\ WorkflowMoves(p)
<1>1. StoreKept /\ pc[p] # "idle"
    BY DEF DW!RecoverWorkflow, DW!ReadPendingCommands, DW!RecoverPendingCommand, DW!FinishSweep,
           DW!storeVars, DW!effectVars, StoreKept
<1>2. StoreTypes' /\ Grows /\ journal' = journal /\ commands' = commands
    BY <1>1, StoreKeeps DEF StoreKept
<1>3. /\ reg[p] \in Registers /\ reg[p].rows <= Len(commands) /\ journal # <<>>
      /\ Len(journal) \in Nat \ {0} /\ Len(commands) \in Nat /\ commands \in Seq(Cmds)
      /\ pc[p] = "commands" => reg[p].row > 0
    BY CountsAreNat DEF Control, Held, StoreTypes
<1>4. /\ DW!NoRegisters \in Registers /\ DW!NoRegisters.rows = 0
    BY EmptyRegisters
<1>5. CASE DW!RecoverWorkflow(p)
    <2> DEFINE s == [reg[p] EXCEPT !.at = Len(journal), !.cont = "pending"]
    <2>1. DW!Stop(p, "workflow_journal_invalid") \/ DW!Goto(p, "sync", s)
        BY <1>3, <1>5 DEF DW!RecoverWorkflow
    <2>2. CASE DW!Goto(p, "sync", s)
        <3>1. "pending" \in Labels /\ "sync" \in Labels /\ "sync" \in Between /\ "pending" \in Returns
            BY DEF Labels, Between, Returns
        <3>2. s \in Registers /\ s.rows = reg[p].rows /\ s.cont = "pending"
            BY <1>3, <3>1 DEF Registers
        <3>3. Moves(p, "sync", s)
            BY <2>2 DEF DW!Goto, Moves
        <3> HIDE DEF s
        <3>4. p \notin Agents /\ "pending" \in Places(p)
            BY <1>5, AtSweeperPlace DEF DW!RecoverWorkflow, SweeperPlaces
        <3>5. s.rows <= Len(commands')
            BY <1>2, <1>3, <3>2
        <3>6. Control' /\ OnlyMoves(p) /\ pc'[p] = "sync"
            BY <1>2, <3>1, <3>2, <3>3, <3>4, <3>5, MovesControl
        <3> QED
            BY <1>1, <1>2, <3>4, <3>6 DEF WorkflowMoves
    <2> QED
        BY <1>1, <2>1, <2>2, WorkflowStops
<1>6. CASE DW!ReadPendingCommands(p)
    <2> DEFINE s == [reg[p] EXCEPT !.row = 1, !.rows = Len(commands)]
    <2>1. DW!Stop(p, "workflow_journal_invalid") \/ DW!Goto(p, "commands", s)
        BY <1>6 DEF DW!ReadPendingCommands
    <2> DEFINE n == Len(commands)
    <2>a. n \in Nat /\ n <= n
        BY <1>3
    <2> HIDE DEF n
    <2>b. [reg[p] EXCEPT !.row = 1, !.rows = n] \in Registers
          /\ [reg[p] EXCEPT !.row = 1, !.rows = n].rows = n
          /\ [reg[p] EXCEPT !.row = 1, !.rows = n].row = 1
        BY <1>3, <2>a DEF Registers
    <2>2. s \in Registers /\ s.rows <= Len(commands) /\ s.row > 0
        BY <2>a, <2>b DEF n
    <2>3. p \notin Agents /\ "commands" \in Places(p) \ {"idle", "advance"}
        BY <1>6, AtSweeperPlace DEF DW!ReadPendingCommands, SweeperPlaces
    <2> HIDE DEF s
    <2> QED
        BY <1>1, <1>2, <2>1, <2>2, <2>3, WorkflowStops, WorkflowGoes
<1>7. CASE DW!RecoverPendingCommand(p)
    <2> DEFINE c == commands[reg[p].row]  N == DW!NoRegisters
               s == [N EXCEPT !.at = Len(journal)]
               t == [reg[p] EXCEPT !.row = reg[p].row + 1]
    <2>1. pc[p] = "commands" /\ p \notin Agents /\ Places(p) = SweeperPlaces
        BY <1>7, AtSweeperPlace DEF DW!RecoverPendingCommand
    <2>2. {"dispatch", "commands"} \subseteq Places(p) \ {"idle", "advance"} /\ "applied" \in Places(p)
        BY <2>1 DEF SweeperPlaces, OperatorPlaces
    <2>3. \/ DW!Goto(p, "dispatch", s)
          \/ DW!Goto(p, "commands", t)
          \/ ~(reg[p].row > reg[p].rows) /\ DW!ApplyPersistedCommand(p, c)
        BY <1>7 DEF DW!RecoverPendingCommand
    <2>4. CASE DW!Goto(p, "dispatch", s)
        <3> HIDE DEF N
        <3>1. N \in Registers /\ N.rows = 0
            BY <1>4 DEF N
        <3>2. s \in Registers /\ s.rows = 0 /\ s.at = Len(journal)
            BY <1>3, <3>1 DEF Registers
        <3>3. s.rows <= Len(commands)
            BY <1>3, <3>2
        <3> HIDE DEF s
        <3> QED
            BY <1>1, <1>2, <2>1, <2>2, <2>4, <3>2, <3>3, WorkflowGoes
    <2>5. CASE DW!Goto(p, "commands", t)
        <3>1. t \in Registers /\ t.rows = reg[p].rows /\ t.row > 0
            BY <1>3, <2>1 DEF Registers
        <3>2. t.rows <= Len(commands)
            BY <1>3, <3>1
        <3> HIDE DEF t
        <3> QED
            BY <1>1, <1>2, <2>1, <2>2, <2>5, <3>1, <3>2, WorkflowGoes
    <2>6. CASE ~(reg[p].row > reg[p].rows) /\ DW!ApplyPersistedCommand(p, c)
        <3>1. reg[p].row \in 1..Len(commands)
            BY <1>3, <2>1, <2>6 DEF Registers
        <3>2. c \in Cmds
            <4> DEFINE C == Cmds
            <4> HIDE DEF C
            <4>1. commands \in Seq(C)
                BY <1>3 DEF C
            <4>2. commands[reg[p].row] \in C
                BY <3>1, <4>1
            <4> QED
                BY <4>2 DEF C
        <3> HIDE DEF c
        <3>3. /\ Control' /\ OnlyMoves(p) /\ pc'[p] \in {"idle", "append", "sync", "applied"}
              /\ pc'[p] = "append" => reg'[p].base = Len(journal) /\ CommandRow(reg'[p].want, c)
            BY <1>1, <2>2, <2>6, <3>2, ApplyPersistedCommandControl
        <3>4. Ordered(p, c)
            BY <2>1, <3>1 DEF Ordered, c
        <3> QED
            BY <1>1, <1>2, <2>1, <3>2, <3>3, <3>4 DEF WorkflowMoves
    <2> QED
        BY <2>3, <2>4, <2>5, <2>6
<1>8. CASE DW!FinishSweep(p)
    BY <1>1, <1>8, WorkflowStops DEF DW!FinishSweep
<1> QED
    BY <1>5, <1>6, <1>7, <1>8

LEMMA CommandStepControl ==
    ASSUME Control, NEW p \in DW!Procs, transcript' = transcript,
           DW!CommandApplied(p) \/ DW!PersistCommand(p) \/ DW!ApplyCommand(p)
    PROVE  Control' /\ WorkflowMoves(p)
<1>1. /\ pc[p] \in {"applied", "persist", "apply"} /\ journal' = journal
      /\ UNCHANGED <<activated, intents, completions>>
      /\ DW!CommandApplied(p) \/ DW!ApplyCommand(p) => StoreKept
    BY DEF DW!CommandApplied, DW!PersistCommand, DW!ApplyCommand, DW!storeVars, DW!effectVars,
           StoreKept
<1>2. p \notin Agents /\ {"persist", "apply", "applied"} \subseteq Places(p)
      /\ (p \notin Operators => Places(p) = SweeperPlaces)
    BY <1>1, AtOperatorPlace
<1>3. /\ reg[p] \in Registers /\ reg[p].rows <= Len(commands) /\ reg[p].cmd \in Cmds
      /\ Len(journal) \in Nat \ {0} /\ Len(commands) \in Nat /\ commands \in Seq(Cmds)
    BY CountsAreNat DEF Control, Held, StoreTypes, Registers
<1>4. CASE DW!CommandApplied(p)
    <2> DEFINE t == [reg[p] EXCEPT !.row = reg[p].row + 1]
    <2>1. \/ \E outcome : DW!Stop(p, outcome)
          \/ p \notin Operators /\ DW!Goto(p, "commands", t)
        BY <1>4 DEF DW!CommandApplied
    <2>2. CASE p \notin Operators /\ DW!Goto(p, "commands", t)
        <3>1. t \in Registers /\ t.rows = reg[p].rows /\ t.row > 0
            BY <1>3 DEF Registers
        <3>2. t.rows <= Len(commands)
            BY <1>3, <3>1
        <3>3. "commands" \in Places(p) \ {"idle", "advance"} /\ pc[p] # "idle"
            BY <1>1, <1>2, <2>2 DEF SweeperPlaces
        <3>4. StoreTypes' /\ Grows
            BY <1>1, <1>4, StoreKeeps
        <3>5. commands' = commands
            BY <1>1, <1>4 DEF StoreKept
        <3> HIDE DEF t
        <3> QED
            BY <1>1, <1>2, <2>2, <3>1, <3>2, <3>3, <3>4, <3>5, WorkflowGoes
    <2> QED
        BY <1>1, <1>4, <2>1, <2>2, WorkflowStops
<1>5. CASE DW!PersistCommand(p)
    <2>1. \/ commands' = commands /\ \E outcome : DW!Stop(p, outcome)
          \/ commands' = commands /\ DW!Goto(p, "apply", reg[p])
          \/ commands' = Append(commands, reg[p].cmd) /\ DW!Goto(p, "apply", reg[p])
        BY <1>5 DEF DW!PersistCommand
    <2>2. CASE commands' = commands /\ \E outcome : DW!Stop(p, outcome)
        <3>1. StoreKept /\ pc[p] # "idle"
            BY <1>1, <2>2 DEF StoreKept
        <3> QED
            BY <2>2, <3>1, WorkflowStops
    <2>3. CASE \/ commands' = commands
               \/ commands' = Append(commands, reg[p].cmd)
        <3> DEFINE C == Cmds  cmd == reg[p].cmd
        <3>1. cmd \in C /\ commands \in Seq(C) /\ commands' \in {commands, Append(commands, cmd)}
            BY <1>3, <2>3
        <3> HIDE DEF C, cmd
        <3>2. commands' \in Seq(C) /\ Len(commands') \in Nat /\ Len(commands') >= Len(commands)
            BY <3>1
        <3>3. commands' \in Seq(Cmds)
            BY <3>2 DEF C
        <3>4. StoreTypes' /\ Grows
            BY <1>1, <1>3, <3>2, <3>3
            DEF Control, StoreTypes, Grows, Cmds, Checkpoints, DW!Unresolved, DW!Completed
        <3>5. "apply" \in Places(p) \ {"idle", "advance"} /\ pc[p] # "idle"
            BY <1>1, <1>2
        <3>6. CASE DW!Goto(p, "apply", reg[p])
            BY <1>1, <1>2, <1>3, <1>5, <3>4, <3>5, <3>6, WorkflowGoes
        <3> QED
            BY <2>1, <2>2, <3>6
    <2> QED
        BY <2>1, <2>3
<1>6. CASE DW!ApplyCommand(p)
    <2>1. DW!Goto(p, "applied", reg[p]) \/ DW!ApplyPersistedCommand(p, reg[p].cmd)
        BY <1>6 DEF DW!ApplyCommand
    <2>2. StoreKept /\ StoreTypes' /\ Grows /\ pc[p] # "idle"
        BY <1>1, <1>6, StoreKeeps
    <2>3. CASE DW!Goto(p, "applied", reg[p])
        <3>1. "applied" \in Places(p) \ {"idle", "advance"}
            BY <1>2
        <3>2. commands' = commands
            BY <1>1, <1>6 DEF StoreKept
        <3> QED
            BY <1>1, <1>2, <1>3, <2>2, <2>3, <3>1, <3>2, WorkflowGoes
    <2>4. CASE DW!ApplyPersistedCommand(p, reg[p].cmd)
        <3>1. /\ Control' /\ OnlyMoves(p) /\ pc'[p] \in {"idle", "append", "sync", "applied"}
              /\ pc'[p] = "append" =>
                    reg'[p].base = Len(journal) /\ CommandRow(reg'[p].want, reg[p].cmd)
            BY <1>2, <1>3, <2>2, <2>4, ApplyPersistedCommandControl
        <3>2. Ordered(p, reg[p].cmd) /\ commands' = commands
            BY <1>1, <1>6 DEF DW!ApplyCommand, Ordered, StoreKept
        <3> QED
            BY <1>1, <1>2, <1>3, <2>2, <3>1, <3>2 DEF WorkflowMoves
    <2> QED
        BY <2>1, <2>3, <2>4
<1> QED
    BY <1>4, <1>5, <1>6

LEMMA WorkflowStepControl ==
    ASSUME Control, NEW p \in DW!Procs, WorkflowStep(p)
    PROVE  Control' /\ WorkflowMoves(p)
BY JournalStepControl, SweepStepControl, CommandStepControl DEF WorkflowStep, agentVars

LEMMA StartSweepControl ==
    ASSUME Control, NEW p \in DW!Procs, StartSweep(p)
    PROVE  Control' /\ OnlyMoves(p) /\ StoreKept /\ pc'[p] = "rebuild" /\ pc[p] = "idle"
           /\ p \in Sweepers /\ p \notin Agents
<1>1. /\ p \in Sweepers /\ pc[p] = "idle" /\ StoreKept /\ reg' = reg /\ activated = TRUE
      /\ pc' = [pc EXCEPT ![p] = "rebuild"]
    BY DEF StartSweep, DW!StartSweep, DW!MayStart, StoreKept, DW!storeVars, DW!effectVars,
           agentVars, Control, StoreTypes
<1>2. StoreTypes' /\ Grows
    BY <1>1, StoreKeeps
<1>3. reg[p] \in Registers /\ reg[p].rows <= Len(commands) /\ commands' = commands
    BY <1>1 DEF Control, Held, StoreKept
<1>4. Moves(p, "rebuild", reg[p])
    BY <1>1 DEF Moves, Control
<1>5. p \notin Agents /\ "rebuild" \in Places(p) /\ "rebuild" \in Labels \ Between
    BY <1>1, RunAssumption DEF Places, SweeperPlaces, Labels, Between
<1> QED
    BY <1>1, <1>2, <1>3, <1>4, <1>5, MovesControl DEF Between

LEMMA CrashControl ==
    ASSUME Control, NEW p \in DW!Procs, Crash(p)
    PROVE  Control' /\ WorkflowMoves(p)
<1>1. pc[p] # "idle" /\ DW!Stop(p, "interrupted") /\ StoreKept
    BY DEF Crash, DW!Crash, DW!storeVars, DW!effectVars, agentVars, StoreKept
<1> QED
    BY <1>1, WorkflowStops

LEMMA WorkflowPreserves ==
    ASSUME FactInv, NEW p \in DW!Procs,
           WorkflowStep(p) \/ Crash(p) \/ StartSweep(p) \/ StartSubmit(p)
    PROVE  FactInv'
<1>1. Control /\ UNCHANGED <<transcript, factVars, turn, verdict>>
    BY ProgressTypes DEF WorkflowStep, Crash, StartSweep, StartSubmit, agentVars
<1>2. Control' /\ OnlyMoves(p) /\ (p \in Agents => Toward(p)' \in {Toward(p), "idle"})
    <2>1. CASE WorkflowStep(p) \/ Crash(p)
        BY <1>1, <2>1, WorkflowStepControl, CrashControl DEF WorkflowMoves
    <2>2. CASE StartSweep(p)
        BY <1>1, <2>2, StartSweepControl
    <2>3. CASE StartSubmit(p)
        BY <1>1, <2>3, SubmitControl, RunAssumption
    <2> QED
        BY <2>1, <2>2, <2>3
<1> QED
    BY <1>1, <1>2, QuietStep DEF Quiet

-----------------------------------------------------------------------------
(* The invariant.                                                          *)

LEMMA FirstJournal ==
    /\ TicketReadyJournal \in Seq(Checkpoints) /\ Len(TicketReadyJournal) = 6
    /\ TicketReadyJournal # <<>>
    /\ \A i \in 1..6 : TicketReadyJournal[i].state \in {DW!RECEIVED, TICKET_READY}
                       /\ TicketReadyJournal[i].kind # RESPONSE_CANDIDATE_VERIFIED
<1> DEFINE F == DW!FirstCheckpoint
           row(pending, completed, by, op) ==
               [F EXCEPT !.pending = pending, !.completed = completed,
                         !.cause = DW!EffectCause(by, op)]
           last == [state |-> TICKET_READY, resume |-> TICKET_READY, pending |-> {},
                    completed |-> {Find, Handoff}, cause |-> DW!Cause("handoff"),
                    kind |-> TICKET_HANDOFF_COMPLETE]
<1>1. Find \in DW!Operations /\ Handoff \in DW!Operations
    BY DEF Find, Handoff, DW!Operations
<1>2. F \in Checkpoints /\ F.state = DW!RECEIVED /\ F.kind = "none"
    <2>1. DW!Cause("source") \in Causes
        BY DEF DW!Cause, Causes
    <2>2. DW!RECEIVED \in DW!WORKFLOW_STATES /\ "none" \in DW!Kinds
        BY DEF DW!WORKFLOW_STATES, DW!Kinds
    <2> QED
        BY <2>1, <2>2 DEF DW!FirstCheckpoint, Checkpoints
<1>3. ASSUME NEW pending \in SUBSET DW!Operations, NEW completed \in SUBSET DW!Operations,
             NEW by \in {"intent", "completion"}, NEW op \in DW!Operations
      PROVE  /\ row(pending, completed, by, op) \in Checkpoints
             /\ row(pending, completed, by, op).state = DW!RECEIVED
             /\ row(pending, completed, by, op).kind = "none"
    <2>1. DW!EffectCause(by, op) \in Causes
        BY DEF DW!EffectCause, Causes
    <2> HIDE DEF F
    <2> QED
        BY <1>2, <2>1 DEF Checkpoints
<1>4. last \in Checkpoints /\ last.state = TICKET_READY /\ last.kind = TICKET_HANDOFF_COMPLETE
    <2>1. DW!Cause("handoff") \in Causes
        BY DEF DW!Cause, Causes
    <2>2. TICKET_READY \in DW!WORKFLOW_STATES /\ TICKET_HANDOFF_COMPLETE \in DW!Kinds
        BY DEF TICKET_READY, DW!TICKET_READY, DW!WORKFLOW_STATES, DW!Kinds,
               TICKET_HANDOFF_COMPLETE, DW!TICKET_HANDOFF_COMPLETE, DW!WORKFLOW_TRANSITION_KINDS
    <2> QED
        BY <1>1, <2>1, <2>2 DEF Checkpoints
<1>5. "none" # RESPONSE_CANDIDATE_VERIFIED
      /\ TICKET_HANDOFF_COMPLETE # RESPONSE_CANDIDATE_VERIFIED
    BY DEF RESPONSE_CANDIDATE_VERIFIED, TICKET_HANDOFF_COMPLETE
<1> DEFINE R == Checkpoints
           r2 == row({Find}, {}, "intent", Find)
           r3 == row({}, {Find}, "completion", Find)
           r4 == row({Handoff}, {Find}, "intent", Handoff)
           r5 == row({}, {Find, Handoff}, "completion", Handoff)
           Early(c) == c \in R /\ c.state = DW!RECEIVED /\ c.kind = "none"
<1>6. TicketReadyJournal = <<F, r2, r3, r4, r5, last>>
    BY DEF TicketReadyJournal
<1>7. Early(F) /\ Early(r2) /\ Early(r3) /\ Early(r4) /\ Early(r5)
    <2> HIDE DEF F, row, R
    <2>1. ASSUME NEW pending \in SUBSET DW!Operations, NEW completed \in SUBSET DW!Operations,
                 NEW by \in {"intent", "completion"}, NEW op \in DW!Operations
          PROVE  Early(row(pending, completed, by, op))
        BY <1>3 DEF R
    <2>2. Early(F)
        BY <1>2 DEF R
    <2> HIDE DEF Early
    <2> QED
        BY <1>1, <2>1, <2>2
<1>8. last \in R
    BY <1>4
<1> HIDE DEF F, row, last, R, r2, r3, r4, r5
<1>9. /\ <<F, r2, r3, r4, r5, last>> \in Seq(R) /\ Len(<<F, r2, r3, r4, r5, last>>) = 6
      /\ <<F, r2, r3, r4, r5, last>> # <<>>
    BY <1>7, <1>8
<1>10. ASSUME NEW i \in 1..6
       PROVE  /\ TicketReadyJournal[i].state \in {DW!RECEIVED, TICKET_READY}
              /\ TicketReadyJournal[i].kind # RESPONSE_CANDIDATE_VERIFIED
    <2>1. i = 1 \/ i = 2 \/ i = 3 \/ i = 4 \/ i = 5 \/ i = 6
        OBVIOUS
    <2>2. TicketReadyJournal[i] \in {F, r2, r3, r4, r5, last}
        BY <1>6, <2>1
    <2> QED
        BY <1>4, <1>5, <1>7, <2>2
<1> QED
    BY <1>6, <1>9, <1>10 DEF R

LEMMA FactInvHoldsInitially ==
    Init => FactInv
<1> SUFFICES ASSUME Init PROVE FactInv
    OBVIOUS
<1>1. StoreTypes
    <2>1. journal \in Seq(Checkpoints) /\ journal # <<>>
        <3>1. journal = TicketReadyJournal
            BY DEF Init, TicketDone
        <3> HIDE DEF Checkpoints
        <3> QED
            BY <3>1, FirstJournal
    <2>2. DW!Unresolved = {}
        <3>1. intents = {Find, Handoff}
              /\ completions = [op \in {Find, Handoff} |->
                                  [phase |-> "execute", version |-> operations[op]]]
            BY DEF Init, TicketDone
        <3>2. \A op \in {Find, Handoff} : completions[op].phase # "none"
            BY <3>1
        <3>3. {Find, Handoff} = DW!Operations
            BY DEF Find, Handoff, DW!Operations
        <3> QED
            BY <3>1, <3>2, <3>3 DEF DW!Unresolved, DW!Completed
    <2> QED
        BY <2>1, <2>2 DEF Init, TicketDone, StoreTypes
<1>2. "idle" \in Labels /\ "idle" \notin Between /\ \A p : "idle" \in Places(p)
    BY DEF Labels, Between, Places, AgentPlaces, SweeperPlaces, OperatorPlaces
<1>3. Control
    <2> DEFINE N == DW!NoRegisters
    <2>1. N \in Registers /\ N.rows = 0
        BY EmptyRegisters
    <2> HIDE DEF N
    <2>2. /\ pc = [p \in DW!Procs |-> "idle"] /\ reg = [p \in DW!Procs |-> N]
          /\ Len(commands) = 0
        BY DEF Init, N
    <2>3. \A p \in DW!Procs : Held(p)
        BY <1>2, <2>1, <2>2 DEF Held, Toward
    <2> QED
        BY <1>1, <1>2, <2>1, <2>2, <2>3 DEF Control
<1>4. TheEnd \in Nat \ {0} /\ transcript.toolBudget \in Nat
    BY <1>1, TranscriptFacts DEF StoreTypes
<1>5. Facts
    BY <1>4 DEF Init, Facts, FactsInOrder
<1>6. Judgement
    BY DEF Init, Judgement, VerdictAsDeserved
<1>7. Progress
    <2>1. \A a \in Agents : a \in DW!Procs /\ Toward(a) = "idle"
        BY <1>2 DEF Init, Toward, DW!Procs
    <2>2. turn \in [Agents -> 0..TheEnd] /\ verdict \in [Agents \cup Sweepers -> Verdicts]
        BY <1>4 DEF Init, Verdicts
    <2> QED
        BY <2>1, <2>2, QuietClaims DEF Init, Progress, Quiet
<1> QED
    BY <1>3, <1>5, <1>6, <1>7 DEF FactInv

LEMMA FactInvIsKept ==
    FactInv /\ [Next]_vars => FactInv'
<1> SUFFICES ASSUME FactInv, [Next]_vars PROVE FactInv'
    OBVIOUS
<1>1. CASE Next
    <2>1. PICK p \in DW!Procs :
             StartRun(p) \/ StartSweep(p) \/ StartSubmit(p) \/ Step(p) \/ Crash(p)
        BY <1>1 DEF Next
    <2>2. CASE StartRun(p)
        BY <2>2, StartRunPreserves
    <2>3. CASE StartSweep(p) \/ StartSubmit(p) \/ Crash(p) \/ WorkflowStep(p)
        BY <2>3, WorkflowPreserves
    <2>4. CASE AgentStep(p)
        BY <2>4, BeginInvestigationPreserves, EnterInvestigationPreserves, NextActionPreserves,
           RecordAgentActionPreserves, ReadToolPreserves, RecordToolExchangePreserves,
           ProposePreserves, RecordResponseCandidatePreserves, VerifyPreserves,
           RecordVerifierOutcomePreserves DEF AgentStep
    <2>5. CASE AdvanceVerifiedCandidate(p) \/ RecoverInvestigation(p) \/ RecoverVerified(p)
        BY <2>5, AdvancePreserves, RecoverPreserves
    <2> QED
        BY <2>1, <2>2, <2>3, <2>4, <2>5 DEF Step
<1>2. CASE UNCHANGED vars
    <2>1. /\ UNCHANGED <<transcript, investigated, steps, exchanges, candidates, verdicts, turn,
                        verdict, pc, reg, activated, journal, commands, intents, completions>>
        BY <1>2 DEF vars, agentVars, factVars, DW!vars, DW!storeVars, DW!effectVars
    <2>2. /\ TheEnd' = TheEnd /\ Evidence' = Evidence
          /\ \A p : Toward(p)' = Toward(p)
        BY <2>1 DEF TheEnd, Evidence, Toward
    <2>3. Control'
        BY <2>1, <2>2 DEF FactInv, Control, StoreTypes, Held, Places, DW!Unresolved, DW!Completed
    <2>4. Facts' /\ Judgement'
        BY <2>1, <2>2 DEF FactInv, Facts, FactsInOrder, Judgement, VerdictAsDeserved
    <2>5. Progress'
        BY <2>1, <2>2 DEF FactInv, Progress, Claim, Action
    <2> QED
        BY <2>3, <2>4, <2>5 DEF FactInv
<1> QED
    BY <1>1, <1>2

(* Every reachable state of an investigation satisfies the invariant.      *)
THEOREM InvestigationInvariant == Spec => []FactInv
BY FactInvHoldsInitially, FactInvIsKept, PTL DEF Spec

(* The rows that racing and crashing agents leave are those of one         *)
(* undisturbed run: steps and reads in the order of the transcript.        *)
THEOREM FactsStayInOrder == Spec => []FactsInOrder
<1>1. FactInv => FactsInOrder
    BY DEF FactInv, Facts
<1> QED
    BY <1>1, InvestigationInvariant, PTL

(* No race, crash or rerun makes _deterministic_verifier_reason judge      *)
(* other rows than the transcript's.                                       *)
THEOREM VerdictIsDeserved == Spec => []VerdictAsDeserved
<1>1. FactInv => VerdictAsDeserved
    BY DEF FactInv, Judgement
<1> QED
    BY <1>1, InvestigationInvariant, PTL

(* The store and the agents hold records of their kinds.                   *)
THEOREM InvestigationTypes == Spec => []TypeOK
<1>1. ASSUME FactInv PROVE TypeOK
    <2>1. /\ TheEnd \in Nat \ {0} /\ transcript \in Transcripts /\ Facts
          /\ turn \in [Agents -> 0..TheEnd] /\ verdict \in [Agents \cup Sweepers -> Verdicts]
          /\ investigated \in BOOLEAN
        BY <1>1, ProgressTypes
    <2>2. Evidence \in Seq(Tools)
        BY <2>1, TranscriptFacts
    <2>3. candidates \subseteq Seq(Tools)
          /\ verdicts \subseteq [evidence : candidates, verdict : Verdicts \ {"none"}]
        BY <1>1, <2>2 DEF FactInv, Judgement, Verdicts
    <2>4. ASSUME NEW s \in Seq(Nat), Len(s) <= TheEnd, \A i \in 1..Len(s) : s[i] = i
          PROVE  s \in Seq(1..TheEnd)
        <3> DEFINE E == 1..TheEnd
        <3>1. Len(s) \in Nat /\ DOMAIN s = 1..Len(s) /\ \A i \in 1..Len(s) : s[i] \in E
            BY <2>1, <2>4
        <3>2. s = [i \in 1..Len(s) |-> s[i]]
            BY <2>4
        <3> DEFINE n == Len(s)
        <3> HIDE DEF E, n
        <3>3. n \in Nat /\ s = [i \in 1..n |-> s[i]] /\ \A i \in 1..n : s[i] \in E
            BY <3>1, <3>2 DEF n
        <3>4. s \in Seq(E)
            BY <3>3
        <3> QED
            BY <3>4 DEF E
    <2>5. Len(exchanges) <= TheEnd
        BY <2>1, FactCounts DEF Facts
    <2>6. steps \in Seq(1..TheEnd) /\ exchanges \in Seq(1..TheEnd)
        BY <2>1, <2>4, <2>5 DEF Facts, FactsInOrder
    <2>7. pc \in [DW!Procs -> Labels]
        BY <1>1 DEF FactInv, Control
    <2> QED
        BY <2>1, <2>3, <2>6, <2>7 DEF TypeOK, TheEnd
<1> QED
    BY <1>1, InvestigationInvariant, PTL

-----------------------------------------------------------------------------
(* The way to RESPONSE_READY.  A sweep builds its row on the checkpoint it *)
(* has read at "dispatch"; where processes overlap another row may be      *)
(* there by now.  No step is built on a stale checkpoint when processes do *)
(* not overlap, or when no sweep takes part.                               *)

NoStaleSweep == Serialized \/ Sweepers = {}

(* What the workflow stays in once a verified candidate is on record.      *)
Settled(c) ==
    \/ c.state \in {RESPONSE_READY, CANCELLED}
    \/ c.state = PAUSED /\ c.resume = RESPONSE_READY

Follows(c, d) ==
    /\ Settled(c) => Settled(d) /\ d.kind # RESPONSE_CANDIDATE_VERIFIED
    /\ c.state = CANCELLED => d.state = CANCELLED

MadeReady(c) ==
    c.kind = RESPONSE_CANDIDATE_VERIFIED => c.state = RESPONSE_READY /\ Verified

(* What a process carries towards the journal.                             *)
Carries(p) ==
    /\ pc[p] = "append" =>
          /\ reg[p].base \in 1..Len(journal)
          /\ Follows(journal[reg[p].base], reg[p].want) /\ MadeReady(reg[p].want)
    /\ pc[p] = "advance" => (verdict[p] = "verified" => Verified)
    /\ pc[p] = "dispatch" => reg[p].at = Len(journal)

OneAtATime ==
    Serialized => \A p, q \in DW!Procs : pc[p] # "idle" /\ pc[q] # "idle" => p = q

ReadyInv ==
    /\ OneAtATime
    /\ \A i, j \in 1..Len(journal) : i < j => Follows(journal[i], journal[j])
    /\ \A i \in 1..Len(journal) : MadeReady(journal[i])
    /\ \A p \in DW!Procs : Carries(p)

(* The row a process sets out to write is an allowed step from the latest  *)
(* checkpoint, of the investigation or of a command.                       *)
Lawful(p, want) ==
    /\ want.pending = Latest.pending /\ want.completed = Latest.completed
    /\ DW!TransitionAllowed(Latest.state, want.kind, want.state, want.resume, Latest.pending # {})
    /\ \/ /\ want.kind \in {INVESTIGATION_STARTED, RESPONSE_CANDIDATE_VERIFIED}
          /\ want.cause.by # "command"
       \/ \E c \in Cmds : Ordered(p, c) /\ CommandRow(want, c)

(* One step, as far as the rows and verdicts go.                           *)
RowMoves(p) ==
    /\ OnlyMoves(p) /\ Carries(p)'
    /\ pc'[p] = "append" => reg'[p].base = Len(journal) /\ Lawful(p, reg'[p].want)
    /\ \/ journal' = journal
       \/ /\ pc[p] = "append" /\ ~(Len(journal) > reg[p].base)
          /\ journal' = Append(journal, reg[p].want)
    /\ verdicts \subseteq verdicts'
    /\ \A q \in Agents \cup Sweepers : q # p => verdict'[q] = verdict[q]
    /\ pc[p] = "idle" => DW!MayStart(p) \/ pc'[p] = "idle"

LEMMA OneAtATimeKept ==
    ASSUME OneAtATime, NEW p \in DW!Procs, RowMoves(p)
    PROVE  OneAtATime'
<1>1. SUFFICES ASSUME Serialized, NEW q \in DW!Procs, NEW r \in DW!Procs,
                      pc'[q] # "idle", pc'[r] # "idle"
               PROVE  q = r
    BY DEF OneAtATime
<1>2. \A s \in DW!Procs : s # p => pc'[s] = pc[s]
    BY DEF RowMoves, OnlyMoves
<1>3. CASE pc[p] # "idle"
    BY <1>1, <1>2, <1>3 DEF OneAtATime
<1>4. CASE pc[p] = "idle" /\ DW!MayStart(p)
    <2>1. \A s \in DW!Procs : pc[s] = "idle"
        BY <1>1, <1>4 DEF DW!MayStart
    <2> QED
        BY <1>1, <1>2, <2>1
<1>5. CASE pc[p] = "idle" /\ pc'[p] = "idle"
    BY <1>1, <1>2, <1>5 DEF OneAtATime
<1> QED
    BY <1>3, <1>4, <1>5 DEF RowMoves

(* A row lands right after the checkpoint it was built on, or not at all.  *)
LEMMA JournalGrows ==
    ASSUME FactInv, ReadyInv, NEW p \in DW!Procs, RowMoves(p)
    PROVE  /\ Len(journal') >= Len(journal) /\ \A i \in 1..Len(journal) : journal'[i] = journal[i]
           /\ \/ journal' = journal
              \/ /\ Len(journal') = Len(journal) + 1
                 /\ pc[p] = "append" /\ reg[p].base = Len(journal)
                 /\ journal'[Len(journal) + 1] = reg[p].want
<1> DEFINE R == Checkpoints  n == Len(journal)
<1>1. journal \in Seq(R) /\ reg[p].want \in R /\ n \in Nat \ {0}
    BY CountsAreNat DEF FactInv, Control, StoreTypes, Registers
<1> HIDE DEF R
<1>2. CASE journal' = journal
    BY <1>1, <1>2
<1>3. CASE /\ pc[p] = "append" /\ ~(Len(journal) > reg[p].base)
           /\ journal' = Append(journal, reg[p].want)
    <2>1. reg[p].base \in 1..n
        BY <1>3 DEF ReadyInv, Carries
    <2>2. reg[p].base = n
        BY <1>1, <1>3, <2>1
    <2> QED
        BY <1>1, <1>3, <2>2
<1> QED
    BY <1>2, <1>3 DEF RowMoves

LEMMA ReadyKept ==
    ASSUME NoStaleSweep, FactInv, ReadyInv, Control', NEW p \in DW!Procs, RowMoves(p)
    PROVE  ReadyInv'
<1>1. OneAtATime'
    BY OneAtATimeKept DEF ReadyInv
<1>2. Verified => Verified'
    BY DEF Verified, RowMoves
<1> DEFINE Made(c) == c.kind = RESPONSE_CANDIDATE_VERIFIED => c.state = RESPONSE_READY /\ Verified'
<1>3. \A c : MadeReady(c) => Made(c)
    BY <1>2 DEF MadeReady
<1>4. /\ Len(journal) \in Nat \ {0} /\ Len(journal') \in Nat \ {0} /\ Control
      /\ reg[p] \in Registers
    BY CountsAreNat DEF FactInv, Control
<1> DEFINE n == Len(journal)
<1>5. /\ Len(journal') >= n /\ \A i \in 1..n : journal'[i] = journal[i]
      /\ \/ journal' = journal
         \/ /\ Len(journal') = n + 1 /\ pc[p] = "append" /\ reg[p].base = n
            /\ journal'[n + 1] = reg[p].want
    BY JournalGrows
<1> HIDE DEF n, Made
<1>6. n = Len(journal) /\ n \in Nat \ {0}
    BY <1>4 DEF n
<1>7. CASE journal' = journal
    <2>1. /\ \A i, j \in 1..Len(journal') : i < j => Follows(journal'[i], journal'[j])
          /\ \A i \in 1..Len(journal') : Made(journal'[i])
        BY <1>3, <1>7 DEF ReadyInv
    <2>2. ASSUME NEW q \in DW!Procs PROVE Carries(q)'
        <3>1. CASE q = p
            BY <3>1 DEF RowMoves
        <3>2. CASE q # p
            <4>1. /\ pc'[q] = pc[q] /\ reg'[q] = reg[q] /\ Carries(q)
                BY <3>2 DEF RowMoves, OnlyMoves, ReadyInv
            <4>2. pc[q] = "advance" => verdict'[q] = verdict[q]
                <5>1. pc[q] = "advance" => q \in Agents \cup Sweepers
                    <6>1. Held(q)
                        BY DEF FactInv, Control
                    <6> QED
                        BY <6>1 DEF Held, Toward, Between, Places, OperatorPlaces
                <5> QED
                    BY <3>2, <5>1 DEF RowMoves
            <4> QED
                BY <1>2, <1>3, <1>7, <4>1, <4>2 DEF Carries, Follows, Settled, MadeReady, Made
        <3> QED
            BY <3>1, <3>2
    <2> QED
        BY <1>1, <2>1, <2>2 DEF ReadyInv, Follows, Settled, MadeReady, Made
<1>8. CASE /\ Len(journal') = n + 1 /\ pc[p] = "append" /\ reg[p].base = n
           /\ journal'[n + 1] = reg[p].want
    <2>1. Follows(journal[n], reg[p].want) /\ MadeReady(reg[p].want)
        BY <1>8 DEF ReadyInv, Carries
    <2>2. ASSUME NEW i \in 1..Len(journal'), NEW j \in 1..Len(journal'), i < j
          PROVE  Follows(journal'[i], journal'[j])
        <3>1. CASE j \in 1..n
            <4>1. i \in 1..n /\ j \in 1..n
                BY <1>6, <1>8, <2>2, <3>1
            <4> QED
                BY <1>5, <1>6, <2>2, <4>1 DEF ReadyInv
        <3>2. CASE j = n + 1
            <4>1. i \in 1..n /\ journal'[i] = journal[i] /\ journal'[j] = reg[p].want
                BY <1>5, <1>6, <1>8, <2>2, <3>2
            <4>2. i = n \/ Follows(journal[i], journal[n])
                BY <1>6, <4>1 DEF ReadyInv
            <4> QED
                BY <2>1, <4>1, <4>2 DEF Follows
        <3> QED
            BY <1>6, <1>8, <3>1, <3>2
    <2>3. ASSUME NEW i \in 1..Len(journal') PROVE Made(journal'[i])
        <3>1. CASE i \in 1..n
            BY <1>3, <1>5, <1>6, <3>1 DEF ReadyInv
        <3>2. CASE i = n + 1
            BY <1>3, <1>8, <2>1, <3>2
        <3> QED
            BY <1>6, <1>8, <3>1, <3>2
    <2>4. ASSUME NEW q \in DW!Procs PROVE Carries(q)'
        <3>1. CASE q = p
            BY <3>1 DEF RowMoves
        <3>2. CASE q # p
            <4>1. /\ pc'[q] = pc[q] /\ reg'[q] = reg[q] /\ Carries(q) /\ Held(q)
                BY <3>2 DEF RowMoves, OnlyMoves, ReadyInv, FactInv, Control
            <4>2. pc[q] = "advance" => verdict'[q] = verdict[q]
                <5>1. pc[q] = "advance" => q \in Agents \cup Sweepers
                    BY <4>1 DEF Held, Toward, Between, Places, OperatorPlaces
                <5> QED
                    BY <3>2, <5>1 DEF RowMoves
            <4>3. pc[q] # "dispatch"
                <5>1. CASE Serialized
                    BY <1>8, <3>2, <5>1 DEF ReadyInv, OneAtATime
                <5>2. CASE Sweepers = {}
                    BY <4>1, <5>2
                    DEF Held, Toward, Between, Places, OperatorPlaces, AgentPlaces
                <5> QED
                    BY <5>1, <5>2 DEF NoStaleSweep
            <4>4. pc[q] = "append" =>
                      /\ reg'[q].base \in 1..Len(journal')
                      /\ journal'[reg'[q].base] = journal[reg[q].base]
                BY <1>5, <1>6, <1>8, <4>1 DEF Carries
            <4> QED
                BY <1>2, <1>3, <4>1, <4>2, <4>3, <4>4 DEF Carries, Follows, Settled, MadeReady, Made
        <3> QED
            BY <3>1, <3>2
    <2> QED
        BY <1>1, <2>2, <2>3, <2>4 DEF ReadyInv, Follows, Settled, MadeReady, Made
<1> QED
    BY <1>5, <1>7, <1>8

(* What the table of workflow_state.py leaves for a row on a checkpoint.   *)
LEMMA CommandRowFollows ==
    ASSUME NEW want, NEW c, CommandRow(want, c)
    PROVE  /\ Follows(Latest, want) /\ want.kind # RESPONSE_CANDIDATE_VERIFIED
           /\ MadeReady(want)
<1> USE DEF DW!PAUSE, DW!RESUME, DW!CANCEL, DW!PAUSED, DW!CANCELLED, RESPONSE_READY, CANCELLED,
            PAUSED, RESPONSE_CANDIDATE_VERIFIED
<1>1. Latest.state \in DW!AllowedSources(want.kind, want.resume, Latest.pending # {})
    BY DEF CommandRow, DW!TransitionAllowed, DW!AllowedTargets
<1>2. want.kind # RESPONSE_CANDIDATE_VERIFIED
    BY DEF CommandRow
<1>3. CASE want.kind = DW!PAUSE /\ want.state = DW!PAUSED /\ want.resume = Latest.state
    <2>1. Latest.state \in DW!PAUSABLE_STATES
        BY <1>1, <1>3
        DEF DW!AllowedSources, DW!TICKET_HANDOFF_COMPLETE, DW!INVESTIGATION_STARTED,
            DW!RESPONSE_CANDIDATE_VERIFIED, DW!POLICY_APPROVAL_ACTIVATED, DW!APPROVAL_GRANTED,
            DW!AUTHORIZATION_DENIED, DW!DELIVERY_COMPLETE, DW!SLA_EXPIRED,
            DW!RECONCILIATION_REQUIRED, DW!RECONCILIATION_COMPLETE
    <2>2. Latest.state # CANCELLED /\ Latest.state # PAUSED
        BY <2>1
        DEF DW!PAUSABLE_STATES, DW!RECEIVED, DW!TICKET_READY, DW!INVESTIGATING,
            DW!RESPONSE_READY, DW!AWAITING_APPROVAL, DW!DELIVERING, DW!WAITING_FOR_OPERATOR
    <2> QED
        BY <1>2, <1>3, <2>2 DEF Follows, Settled, MadeReady
<1>4. CASE want.kind = DW!RESUME /\ want.state = Latest.resume /\ want.resume = Latest.resume
    <2>1. Latest.state \in {DW!PAUSED}
        BY <1>1, <1>4
        DEF DW!AllowedSources, DW!TICKET_HANDOFF_COMPLETE, DW!INVESTIGATION_STARTED,
            DW!RESPONSE_CANDIDATE_VERIFIED, DW!POLICY_APPROVAL_ACTIVATED, DW!APPROVAL_GRANTED,
            DW!AUTHORIZATION_DENIED, DW!DELIVERY_COMPLETE, DW!SLA_EXPIRED,
            DW!RECONCILIATION_REQUIRED, DW!RECONCILIATION_COMPLETE
    <2> QED
        BY <1>2, <1>4, <2>1 DEF Follows, Settled, MadeReady
<1>5. CASE want.kind = DW!CANCEL /\ want.state = DW!CANCELLED
    BY <1>2, <1>5 DEF Follows, Settled, MadeReady
<1> QED
    BY <1>2, <1>3, <1>4, <1>5 DEF CommandRow

(* Most places carry nothing towards the journal.                          *)
LEMMA QuietRows ==
    ASSUME NEW p \in DW!Procs, OnlyMoves(p), pc'[p] \notin {"append", "advance", "dispatch"},
           journal' = journal, verdicts \subseteq verdicts',
           \A q \in Agents \cup Sweepers : q # p => verdict'[q] = verdict[q],
           pc[p] = "idle" => DW!MayStart(p)
    PROVE  RowMoves(p)
BY DEF RowMoves, Carries

(* The steps in which an agent records what it does.                       *)
LEMMA RecordingRows ==
    ASSUME FactInv, NEW a \in DW!Procs,
           \/ BeginInvestigation(a) \/ NextAction(a) \/ RecordAgentAction(a) \/ ReadTool(a)
           \/ RecordToolExchange(a) \/ Propose(a) \/ RecordResponseCandidate(a)
    PROVE  RowMoves(a)
<1>1. /\ Control /\ a \in Agents /\ pc[a] # "idle"
    BY ProgressTypes, AtAgentPlace
    DEF BeginInvestigation, NextAction, RecordAgentAction, ReadTool, RecordToolExchange, Propose,
        RecordResponseCandidate
<1>2. /\ transcript' = transcript /\ StoreUnchanged /\ verdicts' = verdicts /\ verdict' = verdict
    BY DEF BeginInvestigation, NextAction, RecordAgentAction, ReadTool, RecordToolExchange,
           Propose, RecordResponseCandidate, agentVars, factVars
<1>3. \/ \E outcome : Leave(a, outcome)
      \/ \E place \in {"begun", "candidate", "read", "step", "act", "exchange", "verify",
                       "propose"} : Goto(a, place)
    BY DEF BeginInvestigation, NextAction, RecordAgentAction, ReadTool, RecordToolExchange,
           Propose, RecordResponseCandidate, AfterStep
<1>4. OnlyMoves(a) /\ pc'[a] \notin {"append", "advance", "dispatch"}
    <2>1. ASSUME NEW outcome, Leave(a, outcome)
          PROVE  OnlyMoves(a) /\ pc'[a] \notin {"append", "advance", "dispatch"}
        BY <1>1, <1>2, <2>1, ProcessLeaves
    <2>2. ASSUME NEW place \in {"begun", "candidate", "read", "step", "act", "exchange", "verify",
                                "propose"}, Goto(a, place)
          PROVE  OnlyMoves(a) /\ pc'[a] \notin {"append", "advance", "dispatch"}
        <3>1. place \in AgentPlaces
            BY DEF AgentPlaces
        <3> QED
            BY <1>1, <1>2, <2>2, <3>1, AgentGoes
    <2> QED
        BY <1>3, <2>1, <2>2
<1> QED
    BY <1>1, <1>2, <1>4, QuietRows DEF StoreUnchanged

(* A row on the latest checkpoint, which has not been settled.             *)
LEMMA RowAhead ==
    ASSUME StoreTypes, NEW p \in DW!Procs, OnlyMoves(p), pc[p] # "idle",
           pc'[p] \in {"idle", "append", "sync"}, journal' = journal, verdicts' = verdicts,
           verdict' = verdict,
           pc'[p] = "append" =>
               /\ reg'[p].base = Len(journal) /\ Follows(Latest, reg'[p].want)
               /\ MadeReady(reg'[p].want) /\ Lawful(p, reg'[p].want)
    PROVE  RowMoves(p)
<1>1. Len(journal) \in Nat \ {0} /\ Latest = journal[Len(journal)]
    BY LatestCheckpoint DEF StoreTypes
<1>2. Carries(p)'
    BY <1>1 DEF Carries, Follows, Settled, MadeReady, Verified
<1> QED
    BY <1>2 DEF RowMoves

LEMMA EnterInvestigationRows ==
    ASSUME FactInv, NEW a \in DW!Procs, EnterInvestigation(a)
    PROVE  RowMoves(a)
<1>1. /\ a \in Agents /\ Control /\ UNCHANGED agentVars /\ StoreUnchanged
      /\ transcript' = transcript /\ pc[a] = "begun" /\ StoreTypes
    BY ProgressTypes, AtAgentPlace DEF EnterInvestigation, agentVars, Control
<1>2. verdicts' = verdicts /\ verdict' = verdict /\ journal' = journal
    BY <1>1 DEF agentVars, factVars, StoreUnchanged
<1>3. "act" \in AgentPlaces /\ "act" \in Labels /\ "act" \in Places(a) \cap Returns
    BY <1>1, PlacesAreLabels DEF AgentPlaces, Returns
<1>4. \/ \E outcome : Leave(a, outcome)
      \/ Goto(a, "act")
      \/ /\ Latest.state = TICKET_READY
         /\ MoveTo(a, INVESTIGATION_STARTED, INVESTIGATING, "investigation", "act")
    BY DEF EnterInvestigation
<1>5. ASSUME NEW outcome, Leave(a, outcome) PROVE RowMoves(a)
    <2>1. OnlyMoves(a) /\ pc'[a] = "idle"
        BY <1>1, <1>5, ProcessLeaves
    <2> QED
        BY <1>1, <1>2, <2>1, QuietRows
<1>6. CASE Goto(a, "act")
    <2>1. OnlyMoves(a) /\ pc'[a] = "act"
        BY <1>1, <1>3, <1>6, AgentGoes
    <2> QED
        BY <1>1, <1>2, <2>1, QuietRows
<1>7. CASE /\ Latest.state = TICKET_READY
           /\ MoveTo(a, INVESTIGATION_STARTED, INVESTIGATING, "investigation", "act")
    <2>1. /\ INVESTIGATION_STARTED \in DW!Kinds /\ INVESTIGATING \in DW!WORKFLOW_STATES
          /\ DW!Cause("investigation") \in Causes
        BY InvestigationRow
    <2> DEFINE want == Successor(INVESTIGATION_STARTED, INVESTIGATING, "investigation")
    <2>2. /\ OnlyMoves(a) /\ pc'[a] \in {"idle", "append", "sync"}
          /\ pc'[a] = "append" => reg'[a].base = Len(journal) /\ reg'[a].want = want
          /\ pc'[a] = "append" =>
                DW!TransitionAllowed(Latest.state, INVESTIGATION_STARTED, INVESTIGATING,
                                     INVESTIGATING, Latest.pending # {})
        BY <1>1, <1>3, <1>7, <2>1, ProcessMovesTo
    <2>3. want.kind = INVESTIGATION_STARTED
        BY DEF Successor
    <2>5. pc'[a] = "append" => Lawful(a, want)
        BY <2>2 DEF Lawful, Successor, DW!Cause
    <2> HIDE DEF want
    <2>4. Follows(Latest, want) /\ MadeReady(want)
        BY <1>7, <2>3
        DEF Follows, Settled, MadeReady, INVESTIGATION_STARTED, RESPONSE_CANDIDATE_VERIFIED,
            TICKET_READY, RESPONSE_READY, CANCELLED, PAUSED
    <2> QED
        BY <1>1, <1>2, <2>2, <2>4, <2>5, RowAhead
<1> QED
    BY <1>4, <1>5, <1>6, <1>7

(* An agent comes to advance with the verdict on record.                   *)
LEMMA VerifyRows ==
    ASSUME FactInv, NEW a \in DW!Procs, Verify(a) \/ RecordVerifierOutcome(a)
    PROVE  RowMoves(a)
<1>1. /\ a \in Agents /\ Control /\ StoreUnchanged /\ transcript' = transcript /\ pc[a] # "idle"
    BY ProgressTypes, AtAgentPlace DEF Verify, RecordVerifierOutcome
<1>2. journal' = journal /\ verdicts \subseteq verdicts'
    BY <1>1 DEF Verify, RecordVerifierOutcome, factVars, StoreUnchanged
<1>3. \A q \in Agents \cup Sweepers : q # a => verdict'[q] = verdict[q]
    BY ProgressTypes DEF Verify, RecordVerifierOutcome
<1>4. \/ \E outcome : Leave(a, outcome)
      \/ Goto(a, "outcome")
      \/ Goto(a, "advance") /\ (verdict'[a] = "verified" => Verified')
    <2>1. CASE Verify(a)
        <3>1. \/ \E outcome : Leave(a, outcome)
              \/ Goto(a, "outcome")
              \/ /\ Goto(a, "advance")
                 /\ \E v \in Judged(Evidence) : verdict' = [verdict EXCEPT ![a] = v.verdict]
            BY <2>1 DEF Verify
        <3>2. ASSUME NEW v \in Judged(Evidence), verdict' = [verdict EXCEPT ![a] = v.verdict]
              PROVE  verdict'[a] = "verified" => Verified'
            BY <1>1, <1>2, <3>2, ProgressTypes DEF Judged, Verified
        <3> QED
            BY <3>1, <3>2
    <2>2. CASE RecordVerifierOutcome(a)
        <3>1. \/ \E outcome : Leave(a, outcome)
              \/ /\ Goto(a, "advance") /\ verdict' = verdict
                 /\ verdicts' = verdicts \cup {[evidence |-> Evidence, verdict |-> verdict[a]]}
            BY <2>2 DEF RecordVerifierOutcome
        <3>2. ASSUME verdict' = verdict,
                     verdicts' = verdicts \cup {[evidence |-> Evidence, verdict |-> verdict[a]]}
              PROVE  verdict'[a] = "verified" => Verified'
            <4> DEFINE v == [evidence |-> Evidence, verdict |-> verdict[a]]
            <4>1. v \in verdicts' /\ v.verdict = verdict[a]
                BY <3>2
            <4> QED
                BY <3>2, <4>1 DEF Verified
        <3> QED
            BY <3>1, <3>2
    <2> QED
        BY <2>1, <2>2
<1>5. ASSUME NEW outcome, Leave(a, outcome) PROVE RowMoves(a)
    <2>1. OnlyMoves(a) /\ pc'[a] = "idle"
        BY <1>1, <1>5, ProcessLeaves
    <2> QED
        BY <1>1, <1>2, <1>3, <2>1, QuietRows
<1>6. CASE Goto(a, "outcome")
    <2>1. OnlyMoves(a) /\ pc'[a] = "outcome"
        BY <1>1, <1>6, AgentGoes DEF AgentPlaces
    <2> QED
        BY <1>1, <1>2, <1>3, <2>1, QuietRows
<1>7. CASE Goto(a, "advance") /\ (verdict'[a] = "verified" => Verified')
    <2>1. OnlyMoves(a) /\ pc'[a] = "advance"
        BY <1>1, <1>7, AgentGoes DEF AgentPlaces
    <2>2. Carries(a)'
        BY <1>7, <2>1 DEF Carries
    <2> QED
        BY <1>1, <1>2, <1>3, <2>1, <2>2 DEF RowMoves
<1> QED
    BY <1>4, <1>5, <1>6, <1>7

LEMMA AdvanceRows ==
    ASSUME FactInv, NEW p \in DW!Procs, Carries(p), AdvanceVerifiedCandidate(p)
    PROVE  RowMoves(p)
<1>1. /\ Control /\ UNCHANGED agentVars /\ StoreUnchanged /\ transcript' = transcript
      /\ pc[p] = "advance" /\ StoreTypes
    BY ProgressTypes DEF AdvanceVerifiedCandidate, agentVars, Control
<1>2. verdicts' = verdicts /\ verdict' = verdict /\ journal' = journal
    BY <1>1 DEF agentVars, factVars, StoreUnchanged
<1>3. "finish" \in Places(p) \ {"dispatch", "commands"} /\ "finish" \in Labels \cap Returns
    <2>1. Toward(p) = "advance" /\ Toward(p) \in Places(p)
        BY <1>1 DEF Control, Held, Toward, Between
    <2> QED
        BY <2>1 DEF Places, AgentPlaces, SweeperPlaces, OperatorPlaces, Labels, Returns
<1>4. \/ \E outcome : Leave(p, outcome)
      \/ Goto(p, "finish")
      \/ /\ verdict[p] = "verified" /\ Latest.state = INVESTIGATING
         /\ MoveTo(p, RESPONSE_CANDIDATE_VERIFIED, RESPONSE_READY, "verifier", "finish")
    BY DEF AdvanceVerifiedCandidate
<1>5. ASSUME NEW outcome, Leave(p, outcome) PROVE RowMoves(p)
    <2>1. OnlyMoves(p) /\ pc'[p] = "idle"
        BY <1>1, <1>5, ProcessLeaves
    <2> QED
        BY <1>1, <1>2, <2>1, QuietRows
<1>6. CASE Goto(p, "finish")
    <2>1. OnlyMoves(p) /\ pc'[p] = "finish"
        BY <1>1, <1>3, <1>6, ProcessGoes
    <2> QED
        BY <1>1, <1>2, <2>1, QuietRows
<1>7. CASE /\ verdict[p] = "verified" /\ Latest.state = INVESTIGATING
           /\ MoveTo(p, RESPONSE_CANDIDATE_VERIFIED, RESPONSE_READY, "verifier", "finish")
    <2> DEFINE want == Successor(RESPONSE_CANDIDATE_VERIFIED, RESPONSE_READY, "verifier")
    <2>1. /\ OnlyMoves(p) /\ pc'[p] \in {"idle", "append", "sync"}
          /\ pc'[p] = "append" => reg'[p].base = Len(journal) /\ reg'[p].want = want
          /\ pc'[p] = "append" =>
                DW!TransitionAllowed(Latest.state, RESPONSE_CANDIDATE_VERIFIED, RESPONSE_READY,
                                     RESPONSE_READY, Latest.pending # {})
        BY <1>1, <1>3, <1>7, InvestigationRow, ProcessMovesTo
    <2>2. want.kind = RESPONSE_CANDIDATE_VERIFIED /\ want.state = RESPONSE_READY
        BY DEF Successor
    <2>3. Verified
        BY <1>1, <1>7 DEF Carries
    <2>5. pc'[p] = "append" => Lawful(p, want)
        BY <2>1 DEF Lawful, Successor, DW!Cause
    <2> HIDE DEF want
    <2>4. Follows(Latest, want) /\ MadeReady(want)
        BY <1>7, <2>2, <2>3
        DEF Follows, Settled, MadeReady, INVESTIGATING, RESPONSE_READY, CANCELLED, PAUSED
    <2> QED
        BY <1>1, <1>2, <2>1, <2>4, <2>5, RowAhead
<1> QED
    BY <1>4, <1>5, <1>6, <1>7

(* A sweep comes to advance for a recorded verdict; the row it builds on   *)
(* at "dispatch" is the latest.                                            *)
LEMMA RecoverRows ==
    ASSUME FactInv, NEW p \in DW!Procs, Carries(p),
           RecoverInvestigation(p) \/ RecoverVerified(p)
    PROVE  RowMoves(p)
<1>1. /\ Control /\ StoreUnchanged /\ StoreTypes
      /\ transcript' = transcript /\ pc[p] \in {"dispatch", "recover"}
    BY ProgressTypes DEF RecoverInvestigation, RecoverVerified, Control
<1>2. journal' = journal /\ verdicts' = verdicts
    BY <1>1 DEF RecoverInvestigation, RecoverVerified, factVars, StoreUnchanged
<1>3. \A q \in Agents \cup Sweepers : q # p => verdict'[q] = verdict[q]
    BY ProgressTypes DEF RecoverInvestigation, RecoverVerified
<1>4. {"advance", "finish"} \subseteq Places(p) \ {"dispatch", "commands"}
    <2>1. Toward(p) = pc[p] /\ Toward(p) \in Places(p)
        BY <1>1 DEF Control, Held, Toward, Between
    <2> QED
        BY <1>1, <2>1 DEF Places, AgentPlaces, SweeperPlaces, OperatorPlaces
<1>5. \/ Goto(p, "advance") /\ Verified
      \/ Goto(p, "finish")
      \/ /\ pc[p] = "dispatch" /\ journal[reg[p].at].state = TICKET_READY /\ verdict' = verdict
         /\ DW!Transition(p, reg[p], INVESTIGATION_STARTED, INVESTIGATING, INVESTIGATING,
                          DW!Cause("investigation"), journal[reg[p].at].pending,
                          journal[reg[p].at].completed, "recover")
    BY DEF RecoverInvestigation, RecoverVerified
<1>6. CASE Goto(p, "advance") /\ Verified
    <2>1. OnlyMoves(p) /\ pc'[p] = "advance"
        BY <1>1, <1>4, <1>6, ProcessGoes
    <2>2. Carries(p)'
        BY <1>2, <1>6, <2>1 DEF Carries, Verified
    <2> QED
        BY <1>1, <1>2, <1>3, <2>1, <2>2 DEF RowMoves
<1>7. CASE Goto(p, "finish")
    <2>1. OnlyMoves(p) /\ pc'[p] = "finish"
        BY <1>1, <1>4, <1>7, ProcessGoes
    <2> QED
        BY <1>1, <1>2, <1>3, <2>1, QuietRows
<1>8. CASE /\ pc[p] = "dispatch" /\ journal[reg[p].at].state = TICKET_READY /\ verdict' = verdict
           /\ DW!Transition(p, reg[p], INVESTIGATION_STARTED, INVESTIGATING, INVESTIGATING,
                            DW!Cause("investigation"), journal[reg[p].at].pending,
                            journal[reg[p].at].completed, "recover")
    <2>1. /\ OnlyMoves(p) /\ pc'[p] \in {"idle", "append", "sync"}
          /\ pc'[p] = "append" => /\ reg'[p].base = Len(journal)
                                  /\ reg'[p].want.state = INVESTIGATING
                                  /\ reg'[p].want.kind = INVESTIGATION_STARTED
        BY <1>1, <1>8, SweepMoves
    <2>2. Latest = journal[reg[p].at] /\ Latest.state = TICKET_READY
        BY <1>1, <1>8, LatestCheckpoint DEF Carries, StoreTypes
    <2>4. pc'[p] = "append" => Lawful(p, reg'[p].want)
        BY <1>1, <1>8, <2>2, SweepMoves DEF Lawful, DW!Cause
    <2>3. pc'[p] = "append" => Follows(Latest, reg'[p].want) /\ MadeReady(reg'[p].want)
        BY <2>1, <2>2
        DEF Follows, Settled, MadeReady, INVESTIGATION_STARTED, RESPONSE_CANDIDATE_VERIFIED,
            TICKET_READY, RESPONSE_READY, CANCELLED, PAUSED
    <2> QED
        BY <1>1, <1>2, <1>8, <2>1, <2>3, <2>4, RowAhead
<1> QED
    BY <1>5, <1>6, <1>7, <1>8

(* Sweeps and operators write rows of the command table.                   *)
LEMMA WorkflowRows ==
    ASSUME FactInv, NEW p \in DW!Procs, WorkflowStep(p) \/ Crash(p)
    PROVE  RowMoves(p)
<1>1. /\ Control /\ StoreTypes /\ WorkflowMoves(p) /\ verdicts' = verdicts /\ verdict' = verdict
    BY ProgressTypes, WorkflowStepControl, CrashControl
    DEF WorkflowStep, Crash, agentVars, factVars, Control
<1>2. Len(journal) \in Nat \ {0} /\ Latest = journal[Len(journal)]
    BY <1>1, LatestCheckpoint DEF StoreTypes
<1>3. Carries(p)'
    <2>1. CASE pc'[p] = "append"
        <3>1. /\ journal' = journal /\ reg'[p].base = Len(journal)
              /\ \E c \in Cmds : CommandRow(reg'[p].want, c)
            BY <1>1, <2>1 DEF WorkflowMoves
        <3>2. Follows(Latest, reg'[p].want) /\ MadeReady(reg'[p].want)
            BY <3>1, CommandRowFollows
        <3> QED
            BY <1>1, <1>2, <2>1, <3>1, <3>2 DEF Carries, Follows, Settled, MadeReady, Verified
    <2>2. CASE pc'[p] # "append"
        BY <1>1, <2>2 DEF Carries, WorkflowMoves
    <2> QED
        BY <2>1, <2>2
<1>4. pc'[p] = "append" => reg'[p].base = Len(journal) /\ Lawful(p, reg'[p].want)
    BY <1>1 DEF WorkflowMoves, Lawful, CommandRow
<1> QED
    BY <1>1, <1>3, <1>4 DEF RowMoves, WorkflowMoves

LEMMA StartRows ==
    ASSUME FactInv, NEW p \in DW!Procs, StartRun(p) \/ StartSweep(p) \/ StartSubmit(p)
    PROVE  RowMoves(p)
<1>1. /\ Control /\ DW!MayStart(p) /\ verdicts' = verdicts /\ journal' = journal
      /\ \A q \in Agents \cup Sweepers : q # p => verdict'[q] = verdict[q]
    <2>1. CASE StartRun(p)
        BY <2>1, ProgressTypes DEF StartRun, factVars, StoreUnchanged
    <2>2. CASE StartSweep(p)
        BY <2>2, ProgressTypes DEF StartSweep, agentVars, factVars, DW!StartSweep, DW!storeVars
    <2>3. CASE StartSubmit(p)
        <3>1. DW!MayStart(p) /\ UNCHANGED DW!storeVars /\ UNCHANGED agentVars
            BY <2>3, Zenon DEF StartSubmit, DW!StartSubmit
        <3> QED
            BY <3>1, ProgressTypes DEF agentVars, factVars, DW!storeVars
    <2> QED
        BY <2>1, <2>2, <2>3
<1>2. OnlyMoves(p) /\ pc'[p] \notin {"append", "advance", "dispatch"}
    <2>1. CASE StartSweep(p) \/ StartSubmit(p)
        BY <1>1, <2>1, StartSweepControl, SubmitControl
    <2>2. CASE StartRun(p)
        <3>1. /\ p \in Agents /\ transcript' = transcript /\ StoreUnchanged
              /\ \/ \E outcome : Leave(p, outcome)
                 \/ \E place \in {"begun", "investigate"} : Goto(p, place)
            BY <2>2 DEF StartRun
        <3>2. {"begun", "investigate"} \subseteq AgentPlaces
            BY DEF AgentPlaces
        <3>3. ASSUME NEW outcome, Leave(p, outcome)
              PROVE  OnlyMoves(p) /\ pc'[p] \notin {"append", "advance", "dispatch"}
            BY <1>1, <3>1, <3>3, ProcessLeaves
        <3>4. ASSUME NEW place \in {"begun", "investigate"}, Goto(p, place)
              PROVE  OnlyMoves(p) /\ pc'[p] \notin {"append", "advance", "dispatch"}
            BY <1>1, <3>1, <3>2, <3>4, AgentGoes
        <3> QED
            BY <3>1, <3>3, <3>4
    <2> QED
        BY <2>1, <2>2
<1> QED
    BY <1>1, <1>2, QuietRows

LEMMA StepRows ==
    ASSUME FactInv, NEW p \in DW!Procs, Carries(p),
           StartRun(p) \/ StartSweep(p) \/ StartSubmit(p) \/ Step(p) \/ Crash(p)
    PROVE  RowMoves(p)
<1>1. CASE StartRun(p) \/ StartSweep(p) \/ StartSubmit(p)
    BY <1>1, StartRows
<1>2. CASE AgentStep(p)
    BY <1>2, RecordingRows, EnterInvestigationRows, VerifyRows DEF AgentStep
<1>3. CASE AdvanceVerifiedCandidate(p)
    BY <1>3, AdvanceRows
<1>4. CASE RecoverInvestigation(p) \/ RecoverVerified(p)
    BY <1>4, RecoverRows
<1>5. CASE WorkflowStep(p) \/ Crash(p)
    BY <1>5, WorkflowRows
<1> QED
    BY <1>1, <1>2, <1>3, <1>4, <1>5 DEF Step

LEMMA ReadyHoldsInitially ==
    Init => ReadyInv
<1> SUFFICES ASSUME Init PROVE ReadyInv
    OBVIOUS
<1>1. journal = TicketReadyJournal /\ pc = [p \in DW!Procs |-> "idle"]
    BY DEF Init, TicketDone
<1> DEFINE T == TicketReadyJournal
<1> HIDE DEF T
<1>2. /\ journal = T /\ Len(T) = 6
      /\ \A i \in 1..6 : T[i].state \in {DW!RECEIVED, TICKET_READY}
                         /\ T[i].kind # RESPONSE_CANDIDATE_VERIFIED
    BY <1>1, FirstJournal DEF T
<1>3. \A i \in 1..6 : ~Settled(T[i]) /\ T[i].state # CANCELLED
    BY <1>2 DEF Settled, DW!RECEIVED, TICKET_READY, RESPONSE_READY, CANCELLED, PAUSED
<1>4. /\ \A i, j \in 1..Len(journal) : i < j => Follows(journal[i], journal[j])
      /\ \A i \in 1..Len(journal) : MadeReady(journal[i])
    BY <1>2, <1>3 DEF Follows, MadeReady
<1>5. OneAtATime /\ \A p \in DW!Procs : Carries(p)
    BY <1>1 DEF OneAtATime, Carries
<1> QED
    BY <1>4, <1>5 DEF ReadyInv

LEMMA ReadyInvIsKept ==
    ASSUME NoStaleSweep
    PROVE  FactInv /\ FactInv' /\ ReadyInv /\ [Next]_vars => ReadyInv'
<1> SUFFICES ASSUME FactInv, FactInv', ReadyInv, [Next]_vars PROVE ReadyInv'
    OBVIOUS
<1>1. CASE Next
    <2>1. PICK p \in DW!Procs :
             StartRun(p) \/ StartSweep(p) \/ StartSubmit(p) \/ Step(p) \/ Crash(p)
        BY <1>1 DEF Next
    <2>2. Carries(p)
        BY DEF ReadyInv
    <2>3. RowMoves(p)
        BY <2>1, <2>2, StepRows
    <2>4. Control'
        BY DEF FactInv
    <2> QED
        BY <2>3, <2>4, ReadyKept
<1>2. CASE UNCHANGED vars
    <2>1. UNCHANGED <<pc, reg, journal, verdict, verdicts>>
        BY <1>2 DEF vars, agentVars, factVars, DW!vars, DW!storeVars
    <2> QED
        BY <2>1 DEF ReadyInv, OneAtATime, Carries, Follows, Settled, MadeReady, Verified
<1> QED
    BY <1>1, <1>2

LEMMA ReadyInvariant ==
    ASSUME NoStaleSweep
    PROVE  Spec => []ReadyInv
<1>1. FactInv /\ FactInv' /\ ReadyInv /\ [Next]_vars => ReadyInv'
    BY ReadyInvIsKept
<1> QED
    BY <1>1, ReadyHoldsInitially, InvestigationInvariant, PTL DEF Spec

(* The workflow becomes RESPONSE_READY once, and for a verified candidate, *)
(* as long as no sweep appends a row built on a checkpoint that others     *)
(* have moved on from.                                                     *)
THEOREM ReadyIsVerified ==
    ASSUME NoStaleSweep
    PROVE  Spec => []ReadyOnlyVerified
<1>1. ASSUME FactInv, ReadyInv PROVE ReadyOnlyVerified
    <2> DEFINE ready == {i \in 1..Len(journal) : journal[i].kind = RESPONSE_CANDIDATE_VERIFIED}
    <2>1. Len(journal) \in Nat
        BY <1>1, CountsAreNat DEF FactInv, Control
    <2>2. \A i, j \in ready : i = j
        <3>1. ASSUME NEW i \in ready, NEW j \in ready, i < j PROVE FALSE
            <4>1. Follows(journal[i], journal[j]) /\ MadeReady(journal[i])
                BY <1>1, <3>1 DEF ReadyInv
            <4> QED
                BY <3>1, <4>1 DEF Follows, MadeReady, Settled
        <3> QED
            BY <2>1, <3>1
    <2>3. ready = {} \/ \E i \in ready : ready = {i}
        BY <2>2
    <2>4. Cardinality(ready) <= 1
        <3> HIDE DEF ready
        <3>1. CASE ready = {}
            <4>1. Cardinality(ready) = 0
                BY <3>1, FS_EmptySet
            <4> QED
                BY <4>1
        <3>2. ASSUME NEW i \in ready, ready = {i} PROVE Cardinality(ready) <= 1
            <4>1. Cardinality({i}) = 1
                BY FS_Singleton
            <4> QED
                BY <3>2, <4>1
        <3> QED
            BY <2>3, <3>1, <3>2
    <2>5. ready # {} => Verified
        BY <1>1 DEF ReadyInv, MadeReady
    <2> QED
        BY <2>4, <2>5 DEF ReadyOnlyVerified
<1> QED
    BY <1>1, InvestigationInvariant, ReadyInvariant, PTL

-----------------------------------------------------------------------------
(* A cancelled Case with no agent at work stays unjudged: an agent that    *)
(* starts leaves at EnterInvestigation.                                    *)
Closed ==
    /\ Latest.state = CANCELLED /\ verdicts = {}
    /\ \A a \in Agents : pc[a] \in {"idle", "investigate", "begun"}

LEMMA ClosedStays ==
    ASSUME NoStaleSweep
    PROVE  FactInv /\ FactInv' /\ ReadyInv /\ ReadyInv' /\ [Next]_vars /\ Closed => Closed'
<1> SUFFICES ASSUME FactInv, FactInv', ReadyInv, ReadyInv', [Next]_vars, Closed PROVE Closed'
    OBVIOUS
<1>1. CASE Next
    <2>1. PICK p \in DW!Procs :
             StartRun(p) \/ StartSweep(p) \/ StartSubmit(p) \/ Step(p) \/ Crash(p)
        BY <1>1 DEF Next
    <2>2. Carries(p) /\ RowMoves(p) /\ Control /\ Control' /\ StoreTypes /\ StoreTypes'
        BY <2>1, StepRows DEF ReadyInv, FactInv, Control
    <2>3. Latest'.state = CANCELLED
        <3>1. /\ Len(journal) \in Nat \ {0} /\ Latest = journal[Len(journal)]
              /\ Len(journal') \in Nat \ {0}
            BY <2>2, LatestCheckpoint, CountsAreNat DEF StoreTypes
        <3> DEFINE C == Checkpoints
        <3>2. journal \in Seq(C) /\ reg[p].want \in C
            BY <2>2 DEF StoreTypes, Control, Registers
        <3>3. CASE journal' = journal
            BY <3>1, <3>3 DEF Closed, Latest, DW!Latest
        <3>4. CASE journal' = Append(journal, reg[p].want)
            <4> HIDE DEF C
            <4>1. /\ Len(journal') = Len(journal) + 1
                  /\ journal'[Len(journal)] = journal[Len(journal)]
                BY <3>1, <3>2, <3>4
            <4>2. (\A i, j \in 1..Len(journal) : i < j => Follows(journal[i], journal[j]))'
                BY DEF ReadyInv
            <4>3. Follows(journal'[Len(journal)], journal'[Len(journal')])
                BY <3>1, <4>1, <4>2 DEF Follows, Settled
            <4>4. Latest' = journal'[Len(journal')]
                BY <3>1 DEF Latest, DW!Latest
            <4> QED
                BY <3>1, <4>1, <4>3, <4>4 DEF Closed, Follows
        <3> QED
            BY <2>2, <3>3, <3>4 DEF RowMoves
    <2>4. ASSUME NEW a \in Agents, a # p PROVE pc'[a] \in {"idle", "investigate", "begun"}
        BY <2>2, <2>4 DEF RowMoves, OnlyMoves, Closed, DW!Procs
    <2>5. CASE p \in Agents
        <3>1. pc[p] \in {"idle", "investigate", "begun"}
            BY <2>5 DEF Closed
        <3>2. CASE StartRun(p)
            <4>1. /\ p \in Agents /\ transcript' = transcript /\ StoreUnchanged
                  /\ verdicts' = verdicts
                  /\ \/ \E outcome : Leave(p, outcome)
                     \/ \E place \in {"begun", "investigate"} : Goto(p, place)
                BY <3>2 DEF StartRun, factVars
            <4>2. {"begun", "investigate"} \subseteq AgentPlaces
                BY DEF AgentPlaces
            <4>3. pc'[p] \in {"idle", "investigate", "begun"}
                BY <2>2, <4>1, <4>2, ProcessLeaves, AgentGoes
            <4> QED
                BY <2>3, <2>4, <4>1, <4>3 DEF Closed
        <3>3. CASE BeginInvestigation(p)
            <4>1. /\ transcript' = transcript /\ StoreUnchanged /\ verdicts' = verdicts
                  /\ (\E outcome : Leave(p, outcome)) \/ Goto(p, "begun")
                BY <3>3 DEF BeginInvestigation
            <4>2. pc'[p] \in {"idle", "begun"}
                BY <2>2, <2>5, <4>1, ProcessLeaves, AgentGoes DEF AgentPlaces
            <4> QED
                BY <2>3, <2>4, <4>1, <4>2 DEF Closed
        <3>4. CASE EnterInvestigation(p)
            <4>1. /\ transcript' = transcript /\ StoreUnchanged /\ verdicts' = verdicts
                  /\ \E outcome : Leave(p, outcome)
                BY <3>4
                DEF EnterInvestigation, agentVars, factVars, Closed, CANCELLED, TICKET_READY,
                    INVESTIGATING, RESPONSE_READY
            <4>2. pc'[p] = "idle"
                BY <2>2, <4>1, ProcessLeaves
            <4> QED
                BY <2>3, <2>4, <4>1, <4>2 DEF Closed
        <3>5. CASE StartSweep(p) \/ StartSubmit(p)
            BY <2>2, <2>5, <3>5, StartSweepControl, SubmitControl, RunAssumption
        <3>6. CASE WorkflowStep(p) \/ Crash(p)
            <4>1. /\ WorkflowMoves(p) /\ verdicts' = verdicts
                BY <2>2, <3>6, WorkflowStepControl, CrashControl
                DEF WorkflowStep, Crash, agentVars, factVars
            <4>2. pc'[p] \in {"idle", "investigate", "begun"}
                <5>1. Toward(p) = pc[p] /\ Toward(p)' \in {pc[p], "idle"}
                    BY <2>5, <3>1, <4>1 DEF WorkflowMoves, Toward, Between
                <5>2. pc'[p] \in Between => Toward(p)' \in Returns
                    BY <2>2 DEF Control, Held, Toward
                <5> QED
                    BY <3>1, <5>1, <5>2 DEF Toward, Returns
            <4> QED
                BY <2>3, <2>4, <4>1, <4>2 DEF Closed
        <3>7. CASE \/ NextAction(p) \/ RecordAgentAction(p) \/ ReadTool(p) \/ RecordToolExchange(p)
                   \/ Propose(p) \/ RecordResponseCandidate(p) \/ Verify(p)
                   \/ RecordVerifierOutcome(p) \/ AdvanceVerifiedCandidate(p)
                   \/ RecoverInvestigation(p) \/ RecoverVerified(p)
            BY <3>1, <3>7
            DEF NextAction, RecordAgentAction, ReadTool, RecordToolExchange, Propose,
                RecordResponseCandidate, Verify, RecordVerifierOutcome, AdvanceVerifiedCandidate,
                RecoverInvestigation, RecoverVerified
        <3> QED
            BY <2>1, <3>2, <3>3, <3>4, <3>5, <3>6, <3>7 DEF Step, AgentStep
    <2>6. CASE p \notin Agents
        <3>1. verdicts' = verdicts
            <4>1. ~AgentStep(p) /\ ~StartRun(p)
                BY <2>2, <2>6, AtAgentPlace
                DEF AgentStep, StartRun, BeginInvestigation, EnterInvestigation, NextAction,
                    RecordAgentAction, ReadTool, RecordToolExchange, Propose,
                    RecordResponseCandidate, Verify, RecordVerifierOutcome
            <4> QED
                BY <2>1, <4>1
                DEF Step, StartSweep, StartSubmit, Crash, WorkflowStep, AdvanceVerifiedCandidate,
                    RecoverInvestigation, RecoverVerified, agentVars, factVars
        <3> QED
            BY <2>3, <2>4, <2>6, <3>1 DEF Closed
    <2> QED
        BY <2>5, <2>6
<1>2. CASE UNCHANGED vars
    <2>1. UNCHANGED <<pc, journal, verdicts>>
        BY <1>2 DEF vars, agentVars, factVars, DW!vars, DW!storeVars
    <2> QED
        BY <2>1 DEF Closed, Latest, DW!Latest
<1> QED
    BY <1>1, <1>2

(* A Case cancelled before the verifier judged is never judged any more,   *)
(* however often run_investigation_replay is called again.                 *)
THEOREM CancelledStaysUnjudged ==
    ASSUME NoStaleSweep
    PROVE  Spec => CancelledIsNeverJudged
<1>1. Latest.state = CANCELLED /\ AgentsIdle /\ verdicts = {} => Closed
    BY DEF AgentsIdle, Closed
<1>2. Closed => verdicts = {}
    BY DEF Closed
<1>3. FactInv /\ FactInv' /\ ReadyInv /\ ReadyInv' /\ [Next]_vars /\ Closed => Closed'
    BY ClosedStays
<1> QED
    BY <1>1, <1>2, <1>3, InvestigationInvariant, ReadyInvariant, PTL
    DEF Spec, CancelledIsNeverJudged

-----------------------------------------------------------------------------
(* The journal.  The ticket effects are complete and stay so; every row    *)
(* after the first six keeps them and moves the workflow by a step of the  *)
(* table, and a command's row stands right after the checkpoint whose      *)
(* version the command names.                                              *)

Done(c) == c.pending = {} /\ c.completed = DW!Operations

Extends(c, d) ==
    /\ Done(d) /\ d.state # c.state /\ d.kind # "none"
    /\ DW!TransitionAllowed(c.state, d.kind, d.state, d.resume, FALSE)

RowsValid ==
    /\ Len(journal) >= 6
    /\ \A i \in 1..6 : journal[i] = TicketReadyJournal[i]
    /\ \A i \in 7..Len(journal) : Extends(journal[i-1], journal[i])

CommandAt(c, at) ==
    c.cause.by = "command" =>
        c.cause.id \in 1..Len(commands) /\ at = commands[c.cause.id].version + 2

CommandRows ==
    /\ \A i \in 1..Len(commands) : commands[i].id = i
    /\ \A i \in 1..Len(journal) : CommandAt(journal[i], i)

(* What a process brings to the journal or to the commands.                *)
Bears(p) ==
    /\ pc[p] = "append" =>
          /\ Extends(journal[reg[p].base], reg[p].want)
          /\ CommandAt(reg[p].want, reg[p].base + 1)
    /\ pc[p] = "persist" => reg[p].cmd.id \in 1..(Len(commands) + 1)
    /\ pc[p] = "apply" =>
          reg[p].cmd.id \in 1..Len(commands) /\ commands[reg[p].cmd.id] = reg[p].cmd

EffectsDone ==
    /\ intents = DW!Operations /\ DW!Completed = DW!Operations
    /\ DW!EffectChainValid /\ DW!TicketSourceValid

JournalInv ==
    RowsValid /\ CommandRows /\ (\A p \in DW!Procs : Bears(p)) /\ EffectsDone

(* The table of workflow_state.py never stays where it is.                 *)
LEMMA AllowedMoves ==
    ASSUME NEW c \in Checkpoints, NEW d,
           DW!TransitionAllowed(c.state, d.kind, d.state, d.resume, FALSE),
           d.kind \in {INVESTIGATION_STARTED, RESPONSE_CANDIDATE_VERIFIED,
                       DW!PAUSE, DW!RESUME, DW!CANCEL}
    PROVE  d.state # c.state /\ d.kind # "none"
<1>1. /\ c.state \in DW!AllowedSources(d.kind, d.resume, FALSE)
      /\ d.state = DW!TargetOf(d.kind, d.resume)
    BY DEF DW!TransitionAllowed, DW!AllowedTargets
<1> USE DEF DW!TICKET_HANDOFF_COMPLETE, DW!INVESTIGATION_STARTED,
        DW!RESPONSE_CANDIDATE_VERIFIED, DW!POLICY_APPROVAL_ACTIVATED, DW!APPROVAL_GRANTED,
        DW!AUTHORIZATION_DENIED, DW!DELIVERY_COMPLETE, DW!PAUSE, DW!RESUME, DW!CANCEL,
        DW!SLA_EXPIRED, DW!RECONCILIATION_REQUIRED, DW!RECONCILIATION_COMPLETE,
        INVESTIGATION_STARTED, RESPONSE_CANDIDATE_VERIFIED
<1>2. CASE d.kind = INVESTIGATION_STARTED
    BY <1>1, <1>2 DEF DW!AllowedSources, DW!TargetOf, DW!TICKET_READY, DW!INVESTIGATING
<1>3. CASE d.kind = RESPONSE_CANDIDATE_VERIFIED
    BY <1>1, <1>3 DEF DW!AllowedSources, DW!TargetOf, DW!RESPONSE_READY, DW!INVESTIGATING
<1>4. CASE d.kind = DW!PAUSE
    BY <1>1, <1>4
    DEF DW!AllowedSources, DW!TargetOf, DW!PAUSABLE_STATES, DW!PAUSED, DW!RECEIVED,
        DW!TICKET_READY, DW!INVESTIGATING, DW!RESPONSE_READY, DW!AWAITING_APPROVAL,
        DW!DELIVERING, DW!WAITING_FOR_OPERATOR
<1>5. CASE d.kind = DW!RESUME
    <2>1. c.state \in {DW!PAUSED} /\ d.resume # DW!PAUSED
        BY <1>1, <1>5 DEF DW!AllowedSources
    <2> QED
        BY <1>1, <1>5, <2>1 DEF DW!TargetOf
<1>6. CASE d.kind = DW!CANCEL
    <2>1. c.state # DW!CANCELLED
        BY <1>1, <1>6 DEF DW!AllowedSources
    <2> QED
        BY <1>1, <1>6, <2>1 DEF DW!TargetOf
<1> QED
    BY <1>2, <1>3, <1>4, <1>5, <1>6

(* The rows the undisturbed first sweep left.                              *)
LEMMA FirstRows ==
    /\ TicketReadyJournal[1] = DW!FirstCheckpoint
    /\ \A i \in 2..6 : DW!ValidSuccessor(TicketReadyJournal[i-1], TicketReadyJournal[i])
    /\ \A i \in 1..6 : /\ TicketReadyJournal[i].pending \cap TicketReadyJournal[i].completed = {}
                       /\ TicketReadyJournal[i].cause.by # "command"
    /\ Done(TicketReadyJournal[6]) /\ TicketReadyJournal[6].state = TICKET_READY
<1> DEFINE F == DW!FirstCheckpoint
           row(pending, completed, by, op) ==
               [F EXCEPT !.pending = pending, !.completed = completed,
                         !.cause = DW!EffectCause(by, op)]
           r2 == row({Find}, {}, "intent", Find)
           r3 == row({}, {Find}, "completion", Find)
           r4 == row({Handoff}, {Find}, "intent", Handoff)
           r5 == row({}, {Find, Handoff}, "completion", Handoff)
           last == [state |-> TICKET_READY, resume |-> TICKET_READY, pending |-> {},
                    completed |-> {Find, Handoff}, cause |-> DW!Cause("handoff"),
                    kind |-> TICKET_HANDOFF_COMPLETE]
           Shows(c, pending, completed) ==
               /\ c.state = DW!RECEIVED /\ c.resume = DW!RECEIVED /\ c.kind = "none"
               /\ c.pending = pending /\ c.completed = completed /\ c.cause.by # "command"
<1>1. TicketReadyJournal = <<F, r2, r3, r4, r5, last>>
    BY DEF TicketReadyJournal
<1>2. DW!Operations = {Find, Handoff} /\ Find # Handoff
    BY DEF Find, Handoff, DW!Operations, DW!FIND_OR_CREATE, DW!WORKFLOW_HANDOFF
<1>3. /\ Shows(F, {}, {}) /\ Shows(r2, {Find}, {}) /\ Shows(r3, {}, {Find})
      /\ Shows(r4, {Handoff}, {Find}) /\ Shows(r5, {}, {Find, Handoff})
    BY DEF DW!FirstCheckpoint, DW!Cause, DW!EffectCause
<1>4. /\ last.state = TICKET_READY /\ last.resume = TICKET_READY /\ last.pending = {}
      /\ last.completed = {Find, Handoff} /\ last.kind = TICKET_HANDOFF_COMPLETE
      /\ last.cause.by # "command"
    BY DEF DW!Cause
<1> HIDE DEF F, row, r2, r3, r4, r5, last
<1> DEFINE T == <<F, r2, r3, r4, r5, last>>
<1>5. T[1] = F /\ T[2] = r2 /\ T[3] = r3 /\ T[4] = r4 /\ T[5] = r5 /\ T[6] = last
    OBVIOUS
<1> HIDE DEF T
<1>6. /\ DW!ValidSuccessor(F, r2) /\ DW!ValidSuccessor(r2, r3) /\ DW!ValidSuccessor(r3, r4)
      /\ DW!ValidSuccessor(r4, r5)
    BY <1>2, <1>3 DEF DW!ValidSuccessor
<1>7. DW!ValidSuccessor(r5, last)
    <2>1. DW!TransitionAllowed(DW!RECEIVED, TICKET_HANDOFF_COMPLETE, TICKET_READY, TICKET_READY,
                               {} # {})
        <3> DEFINE kind == DW!TICKET_HANDOFF_COMPLETE  to == DW!TICKET_READY
        <3>1. TICKET_HANDOFF_COMPLETE = kind /\ TICKET_READY = to
            BY DEF TICKET_HANDOFF_COMPLETE, DW!TICKET_HANDOFF_COMPLETE, TICKET_READY,
                   DW!TICKET_READY
        <3> USE DEF DW!TICKET_HANDOFF_COMPLETE, DW!INVESTIGATION_STARTED,
                DW!RESPONSE_CANDIDATE_VERIFIED, DW!POLICY_APPROVAL_ACTIVATED,
                DW!APPROVAL_GRANTED, DW!AUTHORIZATION_DENIED, DW!DELIVERY_COMPLETE, DW!PAUSE,
                DW!RESUME, DW!CANCEL, DW!SLA_EXPIRED, DW!RECONCILIATION_REQUIRED,
                DW!RECONCILIATION_COMPLETE
        <3>2. DW!AllowedSources(kind, to, FALSE) = {DW!RECEIVED}
            BY DEF DW!AllowedSources
        <3>3. DW!TargetOf(kind, to) = to
            BY DEF DW!TargetOf
        <3>4. to \in DW!WORKFLOW_STATES
            BY DEF DW!WORKFLOW_STATES
        <3> HIDE DEF kind, to
        <3>5. DW!TransitionAllowed(DW!RECEIVED, kind, to, to, FALSE)
            BY <3>2, <3>3, <3>4 DEF DW!TransitionAllowed, DW!AllowedTargets
        <3>6. ({} # {}) = FALSE
            OBVIOUS
        <3> QED
            BY <3>1, <3>5, <3>6
    <2>2. TICKET_READY # DW!RECEIVED /\ TICKET_HANDOFF_COMPLETE # "none"
        BY DEF TICKET_READY, DW!RECEIVED, TICKET_HANDOFF_COMPLETE
    <2> QED
        BY <1>3, <1>4, <2>1, <2>2 DEF DW!ValidSuccessor
<1>8. ASSUME NEW i \in 2..6 PROVE DW!ValidSuccessor(T[i-1], T[i])
    <2>1. i = 2 \/ i = 3 \/ i = 4 \/ i = 5 \/ i = 6
        OBVIOUS
    <2>2. 2 - 1 = 1 /\ 3 - 1 = 2 /\ 4 - 1 = 3 /\ 5 - 1 = 4 /\ 6 - 1 = 5
        OBVIOUS
    <2> QED
        BY <1>5, <1>6, <1>7, <2>1, <2>2
<1>9. ASSUME NEW i \in 1..6
      PROVE  T[i].pending \cap T[i].completed = {} /\ T[i].cause.by # "command"
    <2>1. i = 1 \/ i = 2 \/ i = 3 \/ i = 4 \/ i = 5 \/ i = 6
        OBVIOUS
    <2>2. T[i] \in {F, r2, r3, r4, r5, last}
        BY <1>5, <2>1
    <2> QED
        BY <1>2, <1>3, <1>4, <2>2
<1>10. T[1] = DW!FirstCheckpoint /\ Done(T[6]) /\ T[6].state = TICKET_READY
    BY <1>2, <1>4, <1>5 DEF Done, F
<1> QED
    BY <1>1, <1>8, <1>9, <1>10 DEF T

(* Only operators write commands, and nobody touches the effects.          *)
CommandMoves(p) ==
    /\ UNCHANGED DW!effectVars
    /\ \/ commands' = commands /\ pc'[p] \notin {"persist", "apply"}
       \/ commands' = commands /\ StartSubmit(p)
       \/ DW!PersistCommand(p)

LEMMA StepCommands ==
    ASSUME FactInv, FactInv', NEW p \in DW!Procs,
           StartRun(p) \/ StartSweep(p) \/ StartSubmit(p) \/ Step(p) \/ Crash(p)
    PROVE  CommandMoves(p)
<1>1. Control /\ Control'
    BY DEF FactInv
<1>2. ASSUME p \in Agents PROVE pc'[p] \notin {"persist", "apply"}
    <2>1. Toward(p)' \in Places(p)
        BY <1>1 DEF Control, Held, Places
    <2> QED
        BY <1>2, <2>1 DEF Toward, Between, Places, AgentPlaces
<1>3. ASSUME StoreUnchanged PROVE UNCHANGED DW!effectVars /\ commands' = commands
    BY <1>3 DEF StoreUnchanged, quietVars, DW!effectVars
<1>4. CASE StartRun(p) \/ AgentStep(p)
    <2>1. p \in Agents /\ StoreUnchanged
        BY <1>1, <1>4, AtAgentPlace
        DEF StartRun, AgentStep, BeginInvestigation, EnterInvestigation, NextAction,
            RecordAgentAction, ReadTool, RecordToolExchange, Propose, RecordResponseCandidate,
            Verify, RecordVerifierOutcome
    <2> QED
        BY <1>2, <1>3, <2>1 DEF CommandMoves
<1>5. CASE StartSweep(p)
    <2>1. /\ UNCHANGED DW!effectVars /\ commands' = commands
          /\ pc' = [pc EXCEPT ![p] = "rebuild"]
        BY <1>1, <1>5 DEF StartSweep, DW!StartSweep, DW!storeVars, Control, StoreTypes
    <2> QED
        BY <1>1, <2>1 DEF CommandMoves, Control
<1>6. CASE StartSubmit(p)
    <2>1. UNCHANGED DW!effectVars /\ UNCHANGED DW!storeVars
        BY <1>6, Zenon DEF StartSubmit, DW!StartSubmit
    <2> QED
        BY <1>6, <2>1 DEF CommandMoves, DW!storeVars
<1>7. CASE Crash(p)
    <2>1. /\ UNCHANGED DW!effectVars /\ UNCHANGED DW!storeVars
          /\ pc' = [pc EXCEPT ![p] = "idle"]
        BY <1>7 DEF Crash, DW!Crash, DW!Stop
    <2> QED
        BY <1>1, <2>1 DEF CommandMoves, DW!storeVars, Control
<1>8. CASE WorkflowStep(p)
    <2>1. UNCHANGED DW!effectVars
        BY <1>8
        DEF WorkflowStep, DW!AppendCheckpoint, DW!SyncCaseState, DW!AppendWorkflowStateEvent,
            DW!RecoverWorkflow, DW!ReadPendingCommands, DW!RecoverPendingCommand,
            DW!CommandApplied, DW!PersistCommand, DW!ApplyCommand, DW!FinishSweep
    <2>2. WorkflowMoves(p)
        BY <1>1, <1>8, WorkflowStepControl
    <2> QED
        BY <2>1, <2>2 DEF CommandMoves, WorkflowMoves
<1>9. CASE AdvanceVerifiedCandidate(p) \/ RecoverInvestigation(p) \/ RecoverVerified(p)
    <2>1. StoreUnchanged
        BY <1>9 DEF AdvanceVerifiedCandidate, RecoverInvestigation, RecoverVerified
    <2>2. \A r, kind, next, resume, cause, pending, completed, cont :
              DW!Transition(p, r, kind, next, resume, cause, pending, completed, cont) =>
                  \E label \in {"idle", "sync", "append"} : pc' = [pc EXCEPT ![p] = label]
        <3>1. ASSUME NEW r, NEW want, NEW ret, NEW cont, DW!EnsureCheckpoint(p, r, want, ret, cont)
              PROVE  \E label \in {"idle", ret, "append"} : pc' = [pc EXCEPT ![p] = label]
            BY <3>1 DEF DW!EnsureCheckpoint, DW!Stop, DW!Goto
        <3> QED
            BY <3>1 DEF DW!Transition, DW!Stop
    <2>3. \E label \in {"idle", "sync", "append", "advance", "finish"} :
              pc' = [pc EXCEPT ![p] = label]
        <3>1. CASE AdvanceVerifiedCandidate(p)
            BY <2>2, <3>1
            DEF AdvanceVerifiedCandidate, MoveTo, Leave, Goto, DW!Goto, DW!Stop
        <3>2. CASE RecoverInvestigation(p)
            BY <2>2, <3>2 DEF RecoverInvestigation, Goto, DW!Goto
        <3>3. CASE RecoverVerified(p)
            BY <3>3 DEF RecoverVerified, Goto, DW!Goto
        <3> QED
            BY <1>9, <3>1, <3>2, <3>3
    <2> QED
        BY <1>1, <1>3, <2>1, <2>3 DEF CommandMoves, Control
<1> QED
    BY <1>4, <1>5, <1>6, <1>7, <1>8, <1>9 DEF Step

(* The commands in the order of their identities; the newest is p's.       *)
LEMMA CommandsGrow ==
    ASSUME Control, Control', CommandRows, NEW p \in DW!Procs, Bears(p), CommandMoves(p)
    PROVE  /\ Len(commands) \in Nat /\ Len(commands') \in Nat /\ Len(commands') >= Len(commands)
           /\ \A i \in 1..Len(commands) : commands'[i] = commands[i]
           /\ \A i \in 1..Len(commands') : commands'[i].id = i
           /\ \/ commands' = commands /\ pc'[p] \notin {"persist", "apply"}
              \/ commands' = commands /\ StartSubmit(p)
              \/ /\ pc'[p] \notin {"append", "persist"}
                 /\ pc'[p] = "apply" =>
                       /\ reg'[p] = reg[p] /\ reg[p].cmd.id \in 1..Len(commands')
                       /\ commands'[reg[p].cmd.id] = reg[p].cmd
<1> DEFINE m == Len(commands)  cmd == reg[p].cmd  C == Cmds
<1>1. commands \in Seq(C) /\ m \in Nat /\ reg[p] \in Registers /\ cmd \in C
    BY CountsAreNat DEF Control, StoreTypes, Registers
<1>2. CASE commands' = commands /\ (pc'[p] \notin {"persist", "apply"} \/ StartSubmit(p))
    BY <1>1, <1>2 DEF CommandRows
<1>3. CASE DW!PersistCommand(p)
    <2>1. pc[p] = "persist" /\ cmd.id \in 1..(m + 1)
        BY <1>3 DEF DW!PersistCommand, Bears
    <2>2. \/ commands' = commands /\ \E outcome : DW!Stop(p, outcome)
          \/ /\ commands' = commands /\ cmd.id <= m /\ commands[cmd.id] = cmd
             /\ DW!Goto(p, "apply", reg[p])
          \/ /\ commands' = Append(commands, cmd) /\ cmd.id > m
             /\ DW!Goto(p, "apply", reg[p])
        BY <1>3 DEF DW!PersistCommand
    <2>3. CASE commands' = commands /\ \E outcome : DW!Stop(p, outcome)
        <3>1. pc'[p] = "idle"
            BY <2>3 DEF DW!Stop, Control
        <3> QED
            BY <1>1, <2>3, <3>1 DEF CommandRows
    <2> HIDE DEF C, cmd
    <2>4. CASE /\ commands' = commands /\ cmd.id <= m /\ commands[cmd.id] = cmd
               /\ DW!Goto(p, "apply", reg[p])
        <3>1. pc'[p] = "apply" /\ reg'[p] = reg[p]
            BY <2>4 DEF DW!Goto, Control
        <3>2. cmd.id \in 1..m
            BY <1>1, <2>1, <2>4
        <3> QED
            BY <1>1, <2>4, <3>1, <3>2 DEF CommandRows, cmd
    <2>5. CASE /\ commands' = Append(commands, cmd) /\ cmd.id > m
               /\ DW!Goto(p, "apply", reg[p])
        <3>1. pc'[p] = "apply" /\ reg'[p] = reg[p]
            BY <2>5 DEF DW!Goto, Control
        <3>2. cmd.id = m + 1
            BY <1>1, <2>1, <2>5
        <3>3. /\ Len(commands') = m + 1 /\ commands'[m + 1] = cmd
              /\ \A i \in 1..m : commands'[i] = commands[i]
            BY <1>1, <2>5
        <3>4. \A i \in 1..m : commands[i].id = i
            BY DEF CommandRows
        <3> HIDE DEF m
        <3>5. \A i \in 1..(m + 1) : commands'[i].id = i
            <4>1. ASSUME NEW i \in 1..(m + 1) PROVE i \in 1..m \/ i = m + 1
                BY <1>1
            <4> QED
                BY <3>2, <3>3, <3>4, <4>1
        <3>6. m + 1 \in 1..(m + 1) /\ m + 1 \in Nat /\ m + 1 >= m /\ m = Len(commands)
            BY <1>1 DEF m
        <3> QED
            BY <1>1, <3>1, <3>2, <3>3, <3>5, <3>6 DEF cmd
    <2> QED
        BY <2>2, <2>3, <2>4, <2>5
<1> QED
    BY <1>2, <1>3 DEF CommandMoves

(* The latest checkpoint is one with every effect complete.                *)
LEMMA LatestDone ==
    ASSUME Control, RowsValid
    PROVE  Done(Latest)
<1>1. Len(journal) \in Nat \ {0} /\ Latest = journal[Len(journal)]
    BY LatestCheckpoint DEF Control, StoreTypes
<1>2. CASE Len(journal) = 6
    BY <1>1, <1>2, FirstRows DEF RowsValid
<1>3. CASE Len(journal) \in 7..Len(journal)
    BY <1>1, <1>3 DEF RowsValid, Extends
<1>4. Len(journal) \in Nat /\ Len(journal) >= 6
    BY <1>1 DEF RowsValid
<1>5. \A n \in Nat : n >= 6 => n = 6 \/ n \in 7..n
    OBVIOUS
<1> QED
    BY <1>2, <1>3, <1>4, <1>5

(* A row built on the latest checkpoint is valid after it.                 *)
LEMMA LawfulExtends ==
    ASSUME Control, RowsValid, CommandRows, NEW p \in DW!Procs, Bears(p), NEW want,
           Lawful(p, want)
    PROVE  Extends(Latest, want) /\ CommandAt(want, Len(journal) + 1)
<1>1. Done(Latest) /\ Latest \in Checkpoints /\ Len(journal) \in Nat
    BY LatestDone, LatestCheckpoint DEF Control, StoreTypes
<1>2. DW!TransitionAllowed(Latest.state, want.kind, want.state, want.resume, FALSE)
    <2>1. (Latest.pending # {}) = FALSE
        BY <1>1 DEF Done
    <2> QED
        BY <2>1 DEF Lawful
<1>3. want.kind \in {INVESTIGATION_STARTED, RESPONSE_CANDIDATE_VERIFIED,
                     DW!PAUSE, DW!RESUME, DW!CANCEL}
    BY DEF Lawful, CommandRow
<1>4. Extends(Latest, want)
    <2>1. want.state # Latest.state /\ want.kind # "none"
        BY <1>1, <1>2, <1>3, AllowedMoves
    <2>2. Done(want)
        BY <1>1 DEF Lawful, Done
    <2> QED
        BY <1>2, <2>1, <2>2 DEF Extends
<1>5. CommandAt(want, Len(journal) + 1)
    <2>1. SUFFICES ASSUME want.cause.by = "command"
                   PROVE  /\ want.cause.id \in 1..Len(commands)
                          /\ Len(journal) + 1 = commands[want.cause.id].version + 2
        BY DEF CommandAt
    <2>2. PICK c \in Cmds : Ordered(p, c) /\ CommandRow(want, c)
        BY <2>1 DEF Lawful
    <2>3. want.cause.id = c.id /\ Len(journal) = c.version + 1 /\ c.version \in Nat
        BY <2>2 DEF CommandRow, DW!CommandCause, Cmds
    <2>4. c.id \in 1..Len(commands) /\ commands[c.id] = c
        <3>1. CASE pc[p] = "apply" /\ c = reg[p].cmd
            BY <3>1 DEF Bears
        <3>2. CASE pc[p] = "commands" /\ reg[p].row \in 1..Len(commands) /\ c = commands[reg[p].row]
            BY <3>2 DEF CommandRows
        <3> QED
            BY <2>2, <3>1, <3>2 DEF Ordered
    <2>5. Len(journal) + 1 = c.version + 2
        BY <1>1, <2>3
    <2> QED
        BY <2>3, <2>4, <2>5
<1> QED
    BY <1>4, <1>5

(* One step keeps the journal valid.                                       *)
LEMMA JournalKept ==
    ASSUME FactInv, FactInv', ReadyInv, JournalInv, NEW p \in DW!Procs, RowMoves(p),
           CommandMoves(p)
    PROVE  JournalInv'
<1> DEFINE n == Len(journal)  m == Len(commands)
<1>1. /\ Control /\ Control' /\ RowsValid /\ CommandRows /\ Bears(p) /\ EffectsDone
      /\ \A q \in DW!Procs : Bears(q) /\ Carries(q)
    BY DEF FactInv, JournalInv, ReadyInv
<1>2. /\ n \in Nat \ {0} /\ Len(journal') \in Nat \ {0} /\ n >= 6 /\ reg[p] \in Registers
    BY <1>1, CountsAreNat DEF Control, RowsValid
<1>3. /\ Len(journal') >= n /\ \A i \in 1..n : journal'[i] = journal[i]
      /\ \/ journal' = journal
         \/ /\ Len(journal') = n + 1 /\ pc[p] = "append" /\ reg[p].base = n
            /\ journal'[n + 1] = reg[p].want
    BY JournalGrows
<1>4. /\ m \in Nat /\ Len(commands') \in Nat /\ Len(commands') >= m
      /\ \A i \in 1..m : commands'[i] = commands[i]
      /\ \A i \in 1..Len(commands') : commands'[i].id = i
      /\ \/ commands' = commands /\ pc'[p] \notin {"persist", "apply"}
         \/ commands' = commands /\ StartSubmit(p)
         \/ /\ pc'[p] \notin {"append", "persist"}
            /\ pc'[p] = "apply" =>
                  /\ reg'[p] = reg[p] /\ reg[p].cmd.id \in 1..Len(commands')
                  /\ commands'[reg[p].cmd.id] = reg[p].cmd
    BY <1>1, CommandsGrow
<1> DEFINE At(c, at) ==
        c.cause.by = "command" =>
            c.cause.id \in 1..Len(commands') /\ at = commands'[c.cause.id].version + 2
<1>5. \A c, at : CommandAt(c, at) => At(c, at)
    <2>1. \A i \in 1..m : i \in 1..Len(commands')
        BY <1>4
    <2> QED
        BY <1>4, <2>1 DEF CommandAt
<1> HIDE DEF n, m, At
<1>n. n = Len(journal) /\ m = Len(commands)
    BY DEF n, m
<1>6. RowsValid'
    <2>1. \A i \in 1..6 : i \in 1..n
        BY <1>2
    <2>2. Len(journal') >= 6 /\ \A i \in 1..6 : journal'[i] = TicketReadyJournal[i]
        BY <1>1, <1>2, <1>3, <2>1 DEF RowsValid
    <2>3. ASSUME NEW i \in 7..Len(journal') PROVE Extends(journal'[i-1], journal'[i])
        <3>1. CASE i \in 7..n
            <4>1. i \in 1..n /\ i - 1 \in 1..n
                BY <1>2, <3>1
            <4>2. journal'[i] = journal[i] /\ journal'[i-1] = journal[i-1]
                BY <1>3, <4>1
            <4> QED
                BY <1>1, <1>n, <3>1, <4>2 DEF RowsValid
        <3>2. CASE i \notin 7..n
            <4>1. /\ i = n + 1 /\ i - 1 = n /\ n \in 1..n /\ pc[p] = "append"
                  /\ reg[p].base = n /\ journal'[i] = reg[p].want
                BY <1>2, <1>3, <1>n, <3>2
            <4>2. journal'[i-1] = journal[n]
                BY <1>3, <4>1
            <4> QED
                BY <1>1, <4>1, <4>2 DEF Bears
        <3> QED
            BY <3>1, <3>2
    <2> QED
        BY <2>2, <2>3 DEF RowsValid, Extends, Done
<1>7. CommandRows'
    <2>1. ASSUME NEW i \in 1..Len(journal') PROVE At(journal'[i], i)
        <3>1. CASE i \in 1..n
            BY <1>1, <1>3, <1>5, <1>n, <3>1 DEF CommandRows
        <3>2. CASE i \notin 1..n
            <4>1. /\ i = n + 1 /\ pc[p] = "append" /\ reg[p].base = n
                  /\ journal'[i] = reg[p].want
                BY <1>2, <1>3, <1>n, <3>2
            <4> QED
                BY <1>1, <1>5, <4>1 DEF Bears
        <3> QED
            BY <3>1, <3>2
    <2> QED
        BY <1>4, <2>1 DEF CommandRows, CommandAt, At
<1>8. ASSUME NEW q \in DW!Procs PROVE Bears(q)'
    <2>1. CASE q = p
        <3>1. ASSUME pc'[p] = "append"
              PROVE  /\ Extends(journal'[reg'[p].base], reg'[p].want)
                     /\ At(reg'[p].want, reg'[p].base + 1)
            <4>1. reg'[p].base = n /\ Lawful(p, reg'[p].want)
                BY <1>n, <3>1 DEF RowMoves
            <4>2. Extends(Latest, reg'[p].want) /\ CommandAt(reg'[p].want, n + 1)
                BY <1>1, <1>n, <4>1, LawfulExtends
            <4>3. Latest = journal[n] /\ journal'[n] = journal[n]
                BY <1>1, <1>2, <1>3, <1>n, LatestCheckpoint DEF Control, StoreTypes
            <4> QED
                BY <1>5, <4>1, <4>2, <4>3
        <3>2. ASSUME pc'[p] = "persist" PROVE reg'[p].cmd.id \in 1..(Len(commands') + 1)
            <4>1. commands' = commands /\ StartSubmit(p)
                BY <1>4, <3>2
            <4>2. \/ reg'[p].cmd.id = m + 1
                  \/ \E i \in 1..m : reg'[p].cmd.id = commands[i].id
                BY <1>1, <1>n, <4>1, SubmitControl
            <4>3. \A i \in 1..m : commands[i].id = i
                BY <1>1, <1>n DEF CommandRows
            <4> QED
                BY <1>4, <1>n, <4>1, <4>2, <4>3
        <3>3. ASSUME pc'[p] = "apply"
              PROVE  /\ reg'[p].cmd.id \in 1..Len(commands')
                     /\ commands'[reg'[p].cmd.id] = reg'[p].cmd
            <4>1. CASE StartSubmit(p)
                BY <1>1, <3>3, <4>1, SubmitControl
            <4>2. CASE ~StartSubmit(p)
                BY <1>4, <3>3, <4>2
            <4> QED
                BY <4>1, <4>2
        <3> QED
            BY <2>1, <3>1, <3>2, <3>3 DEF Bears, Extends, Done, CommandAt, At
    <2>2. CASE q # p
        <3>1. pc'[q] = pc[q] /\ reg'[q] = reg[q] /\ Bears(q) /\ Carries(q)
            BY <1>1, <2>2 DEF RowMoves, OnlyMoves
        <3>2. ASSUME pc[q] = "append"
              PROVE  /\ Extends(journal'[reg[q].base], reg[q].want)
                     /\ At(reg[q].want, reg[q].base + 1)
            <4>1. reg[q].base \in 1..n
                BY <1>n, <3>1, <3>2 DEF Carries
            <4> QED
                BY <1>3, <1>5, <3>1, <3>2, <4>1 DEF Bears
        <3>3. ASSUME pc[q] = "persist" PROVE reg[q].cmd.id \in 1..(Len(commands') + 1)
            BY <1>4, <1>n, <3>1, <3>3 DEF Bears
        <3>4. ASSUME pc[q] = "apply"
              PROVE  /\ reg[q].cmd.id \in 1..Len(commands')
                     /\ commands'[reg[q].cmd.id] = reg[q].cmd
            <4>1. reg[q].cmd.id \in 1..m /\ commands[reg[q].cmd.id] = reg[q].cmd
                BY <1>n, <3>1, <3>4 DEF Bears
            <4> QED
                BY <1>4, <4>1
        <3> QED
            BY <3>1, <3>2, <3>3, <3>4 DEF Bears, Extends, Done, CommandAt, At
    <2> QED
        BY <2>1, <2>2
<1>9. EffectsDone'
    BY <1>1
    DEF CommandMoves, EffectsDone, DW!effectVars, DW!Completed, DW!EffectChainValid,
        DW!TicketSourceValid
<1> QED
    BY <1>6, <1>7, <1>8, <1>9 DEF JournalInv

LEMMA JournalHoldsInitially ==
    Init => JournalInv
<1> SUFFICES ASSUME Init PROVE JournalInv
    OBVIOUS
<1>1. journal = TicketReadyJournal /\ commands = <<>> /\ pc = [p \in DW!Procs |-> "idle"]
    BY DEF Init, TicketDone
<1>2. Len(journal) = 6 /\ Len(commands) = 0
    BY <1>1, FirstJournal
<1>3. RowsValid
    BY <1>1, <1>2 DEF RowsValid
<1>4. CommandRows
    BY <1>1, <1>2, FirstRows DEF CommandRows, CommandAt
<1>5. \A p \in DW!Procs : Bears(p)
    BY <1>1 DEF Bears
<1>6. EffectsDone
    <2>1. /\ DW!Operations = {Find, Handoff} /\ Find # Handoff
          /\ Find = DW!FIND_OR_CREATE /\ Handoff = DW!WORKFLOW_HANDOFF
        BY DEF Find, Handoff, DW!Operations, DW!FIND_OR_CREATE, DW!WORKFLOW_HANDOFF
    <2>2. /\ intents = {Find, Handoff} /\ ticket = <<Find, Handoff>>
          /\ operations = [op \in {Find, Handoff} |-> IF op = Find THEN 1 ELSE 2]
          /\ completions = [op \in {Find, Handoff} |->
                                [phase |-> "execute", version |-> operations[op]]]
        BY DEF Init, TicketDone
    <2>3. DW!Completed = DW!Operations
        BY <2>1, <2>2 DEF DW!Completed
    <2>4. operations[Find] = 1 /\ operations[Handoff] = 2
        BY <2>1, <2>2
    <2>5. DW!TicketSourceValid
        BY <2>1, <2>2, <2>4 DEF DW!TicketSourceValid
    <2>6. DW!EffectChainValid
        <3>1. \A op \in {Find, Handoff}, ph \in {"reconcile", "execute"} :
                 [op |-> op, phase |-> ph,
                  status |-> IF ph = "execute" THEN "present" ELSE "absent",
                  version |-> IF op = Find /\ ph = "reconcile" THEN 0
                              ELSE IF op = Handoff /\ ph = "execute" THEN 2 ELSE 1]
                     \in observations
            BY DEF Init, TicketDone
        <3>2. \A op \in {Find, Handoff} :
                 [op |-> op, phase |-> "execute", status |-> "present",
                  version |-> IF op = Handoff THEN 2 ELSE 1] \in observations
            BY <3>1
        <3>3. \A op \in {Find, Handoff} :
                 /\ completions[op].phase = "execute"
                 /\ completions[op].version = IF op = Handoff THEN 2 ELSE 1
            BY <2>1, <2>2, <2>4
        <3>4. ASSUME NEW op \in DW!Completed
              PROVE  \E o \in observations :
                        /\ o.op = op /\ o.status = "present"
                        /\ o.phase = completions[op].phase /\ o.version = completions[op].version
            <4> DEFINE o == [op |-> op, phase |-> "execute", status |-> "present",
                             version |-> IF op = Handoff THEN 2 ELSE 1]
            <4>1. op \in {Find, Handoff} /\ o \in observations
                BY <2>1, <2>3, <3>2, <3>4
            <4> QED
                BY <3>3, <4>1
        <3> QED
            BY <3>4 DEF DW!EffectChainValid
    <2> QED
        BY <2>1, <2>2, <2>3, <2>5, <2>6 DEF EffectsDone
<1> QED
    BY <1>3, <1>4, <1>5, <1>6 DEF JournalInv

LEMMA JournalInvIsKept ==
    ASSUME NoStaleSweep
    PROVE  FactInv /\ FactInv' /\ ReadyInv /\ JournalInv /\ [Next]_vars => JournalInv'
<1> SUFFICES ASSUME FactInv, FactInv', ReadyInv, JournalInv, [Next]_vars PROVE JournalInv'
    OBVIOUS
<1>1. CASE Next
    <2>1. PICK p \in DW!Procs :
             StartRun(p) \/ StartSweep(p) \/ StartSubmit(p) \/ Step(p) \/ Crash(p)
        BY <1>1 DEF Next
    <2>2. Carries(p)
        BY DEF ReadyInv
    <2>3. RowMoves(p) /\ CommandMoves(p)
        BY <2>1, <2>2, StepRows, StepCommands
    <2> QED
        BY <2>3, JournalKept
<1>2. CASE UNCHANGED vars
    <2>1. UNCHANGED <<pc, reg, journal, commands, intents, ticket, operations, observations,
                      completions>>
        BY <1>2 DEF vars, DW!vars, DW!storeVars, DW!effectVars
    <2>2. RowsValid' /\ CommandRows'
        BY <2>1 DEF JournalInv, RowsValid, CommandRows, CommandAt, Extends, Done
    <2>3. \A p \in DW!Procs : Bears(p)'
        BY <2>1 DEF JournalInv, Bears, CommandAt, Extends, Done
    <2>4. EffectsDone'
        BY <2>1 DEF JournalInv, EffectsDone, DW!Completed, DW!EffectChainValid,
                    DW!TicketSourceValid
    <2> QED
        BY <2>2, <2>3, <2>4 DEF JournalInv
<1> QED
    BY <1>1, <1>2

(* Agents, sweeps and operators together never leave a journal or rows     *)
(* that rebuild_workflow_projection rejects, as long as no sweep appends a *)
(* row built on a checkpoint that others have moved on from.               *)
THEOREM JournalIsValid ==
    ASSUME NoStaleSweep
    PROVE  Spec => []InvestigationJournalValid
<1>1. ASSUME FactInv, JournalInv PROVE InvestigationJournalValid
    <2>1. /\ Control /\ RowsValid /\ CommandRows /\ EffectsDone /\ Len(journal) \in Nat
          /\ Len(journal) >= 6
        BY <1>1, CountsAreNat DEF FactInv, JournalInv, Control, RowsValid
    <2>2. \A i \in 1..6 : journal[i] = TicketReadyJournal[i]
        BY <2>1 DEF RowsValid
    <2>3. ASSUME NEW i \in 6..Len(journal) PROVE Done(journal[i])
        <3>1. CASE i = 6
            BY <2>2, <3>1, FirstRows
        <3>2. CASE i \in 7..Len(journal)
            BY <2>1, <3>2 DEF RowsValid, Extends
        <3> QED
            BY <2>1, <3>1, <3>2
    <2>4. DW!CheckpointsValid
        <3>1. journal[1] = DW!FirstCheckpoint
            BY <2>2, FirstRows
        <3>2. ASSUME NEW i \in 2..Len(journal) PROVE DW!ValidSuccessor(journal[i-1], journal[i])
            <4>1. CASE i \in 2..6
                <5>1. i \in 1..6 /\ i - 1 \in 1..6
                    BY <4>1
                <5> QED
                    BY <2>2, <4>1, <5>1, FirstRows
            <4>2. CASE i \in 7..Len(journal)
                <5>1. i - 1 \in 6..Len(journal) /\ i \in 6..Len(journal)
                    BY <2>1, <4>2
                <5>2. Done(journal[i-1]) /\ Extends(journal[i-1], journal[i])
                    BY <2>1, <2>3, <4>2, <5>1 DEF RowsValid
                <5>3. (journal[i-1].pending # {}) = FALSE
                    BY <5>2 DEF Done
                <5> QED
                    BY <5>2, <5>3 DEF Extends, Done, DW!ValidSuccessor
            <4> QED
                BY <2>1, <4>1, <4>2
        <3>3. ASSUME NEW i \in 1..Len(journal) PROVE journal[i].pending \cap journal[i].completed = {}
            <4>1. CASE i \in 1..6
                BY <2>2, <4>1, FirstRows
            <4>2. CASE i \in 6..Len(journal)
                BY <2>3, <4>2 DEF Done
            <4> QED
                BY <2>1, <4>1, <4>2
        <3> QED
            BY <3>1, <3>2, <3>3 DEF DW!CheckpointsValid
    <2>5. DW!CommandsAppliedOnce
        <3>1. ASSUME NEW c \in 1..Len(commands), NEW i \in 1..Len(journal),
                     journal[i].cause = DW!CommandCause(c)
              PROVE  i = commands[c].version + 2
            <4>1. journal[i].cause.by = "command" /\ journal[i].cause.id = c
                BY <3>1 DEF DW!CommandCause
            <4> QED
                BY <2>1, <4>1 DEF CommandRows, CommandAt
        <3> QED
            BY <3>1 DEF DW!CommandsAppliedOnce
    <2>6. Done(Latest) /\ DW!Latest = Latest
        BY <2>1, LatestDone, LatestCheckpoint DEF Control, StoreTypes
    <2>7. DW!EffectsOnRecord
        BY <2>1, <2>6 DEF DW!EffectsOnRecord, EffectsDone, Done
    <2>8. DW!JournalValid
        BY <2>1, <2>4, <2>5, <2>7 DEF DW!JournalValid, EffectsDone
    <2>9. InvestigationSourceValid
        <3>1. journal[6].state = TICKET_READY /\ 6 \in 1..Len(journal)
            BY <2>1, <2>2, FirstRows
        <3>2. \A v \in verdicts : v.evidence \in candidates
            BY <1>1 DEF FactInv, Judgement
        <3> QED
            BY <3>1, <3>2 DEF InvestigationSourceValid
    <2> QED
        BY <2>8, <2>9 DEF InvestigationJournalValid
<1>2. FactInv /\ FactInv' /\ ReadyInv /\ JournalInv /\ [Next]_vars => JournalInv'
    BY JournalInvIsKept
<1> QED
    BY <1>1, <1>2, JournalHoldsInitially, InvestigationInvariant, ReadyInvariant, PTL DEF Spec
=============================================================================
