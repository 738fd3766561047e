------------------------------ MODULE QQPairing ------------------------------
(***************************************************************************)
(* The two pairing protocols of the QQ stages.  Stage 1                    *)
(* (weflow_control_kernel/qq_pairing.py, weflow_control_worker/            *)
(* qq_pairing_runner.py) binds the application to one group: a process     *)
(* shows a challenge and waits until it is posted in a group.  Stage 2     *)
(* (begin_handler_pairing to revoke_handler_binding in qq_handler.py,      *)
(* pair_live_handler in qq_handler_runner.py) binds a handler to the       *)
(* paired group: two challenges, one posted in the group and one in        *)
(* private, and a confirmation by the local operator.                      *)
(*                                                                         *)
(* Any number of processes run either command over the shared stores, and  *)
(* the operator revokes at any time.  A transaction is one action.  One    *)
(* application and one tenant are modelled.  A challenge is a number, and  *)
(* so is the pairing made from it (complete derives the pairing from the   *)
(* challenge and keeps one completion of each); a handler binding is       *)
(* named by its session in the same way.  Only the process that made a     *)
(* challenge knows its text.  Events that are refused without a change,    *)
(* for their shape, their text or their place in the gateway's sequence,   *)
(* are events that do not arrive here.                                     *)
(***************************************************************************)
EXTENDS Naturals, FiniteSets

CONSTANTS
    Processes,      \* executions of the two pairing commands
    Groups,
    MaxChallenges,  \* bound: stage 1 challenges
    MaxSessions,    \* bound: stage 2 sessions
    MaxLapses       \* bound: deadlines that pass

ASSUME PairingAssumption ==
    MaxChallenges \in Nat /\ MaxSessions \in Nat /\ MaxLapses \in Nat

VARIABLES
    (* stage 1 *)
    lifecycle,      \* qq_pairing_lifecycle: the latest status of a challenge
    completion,     \* qq_pairing_completions: the group each was completed in, as a set
    locator,        \* qq_pairing_locators: the status of its row
    revoking,       \* calls of revoke that have yet to write the lifecycle
    (* stage 2 *)
    session,        \* qq_handler_pairing_sessions: the pairing each is for, as a set
    observed,       \* qq_handler_pairing_observations: surfaces by session
    binding,        \* qq_handler_bindings and its HANDLER_BINDING_REVOKED event
    (* the rest *)
    lapsed,         \* the deadlines that have passed
    pc, reg         \* the processes

stage1  == <<lifecycle, completion, locator, revoking>>
stage2  == <<session, observed, binding>>
control == <<pc, reg>>
vars    == <<stage1, stage2, lapsed, control>>

Challenges == 1..MaxChallenges
Sessions   == 1..MaxSessions
Surfaces   == {"group", "c2c"}
Deadlines  == ({"challenge", "locator"} \X Challenges) \cup ({"session", "binding"} \X Sessions)

NoRegisters == [id |-> 0, rows |-> {}, command |-> "none"]

TypeOK ==
    /\ lifecycle \in [Challenges ->
           {"none", "PENDING", "CANCELLED", "EXPIRED", "COMPLETED", "CONFLICT", "REVOKED"}]
    /\ completion \in [Challenges -> SUBSET Groups]
    /\ locator \in [Challenges -> {"none", "COMPLETED", "EXPIRED", "REVOKED"}]
    /\ revoking \subseteq Challenges
    /\ session \in [Sessions -> SUBSET Challenges]
    /\ observed \in [Sessions -> SUBSET Surfaces]
    /\ binding \in [Sessions -> {"none", "ACTIVE", "REVOKED"}]
    /\ lapsed \subseteq Deadlines
    /\ pc \in [Processes -> {"idle", "purge", "create", "listen", "resolve", "begin", "observe",
                             "confirm"}]
    /\ reg \in [Processes -> [id : Challenges \cup Sessions \cup {0}, rows : SUBSET Challenges,
                              command : {"none", "pair_group", "pair_handler"}]]

Init ==
    /\ lifecycle = [c \in Challenges |-> "none"]
    /\ completion = [c \in Challenges |-> {}]
    /\ locator = [c \in Challenges |-> "none"]
    /\ revoking = {}
    /\ session = [s \in Sessions |-> {}]
    /\ observed = [s \in Sessions |-> {}]
    /\ binding = [s \in Sessions |-> "none"]
    /\ lapsed = {}
    /\ pc = [p \in Processes |-> "idle"]
    /\ reg = [p \in Processes |-> NoRegisters]

Goto(p, label, regs) ==
    /\ pc' = [pc EXCEPT ![p] = label]
    /\ reg' = [reg EXCEPT ![p] = regs]

Leave(p) == Goto(p, "idle", NoRegisters)

-----------------------------------------------------------------------------
(* Stage 1: the application and its group.                                 *)

(* The locators that complete and resolve take for current.                *)
Current == {c \in Challenges : locator[c] = "COMPLETED" /\ <<"locator", c>> \notin lapsed}

(* Both commands begin with purge_expired, the first in                    *)
(* build_real_qq_pairing_runner, the second in resolve: the expired rows   *)
(* are read, then updated one by one, whatever became of them since.       *)
Purged(command) == IF command = "pair_group" THEN "create" ELSE "resolve"

BeginPurge(p, command) ==
    LET rows == {c \in Challenges : locator[c] = "COMPLETED" /\ c \notin Current} IN
    /\ pc[p] = "idle"
    /\ Goto(p, IF rows = {} THEN Purged(command) ELSE "purge",
            [NoRegisters EXCEPT !.command = command, !.rows = rows])
    /\ UNCHANGED <<stage1, stage2, lapsed>>

PurgeRow(p) ==
    /\ pc[p] = "purge"
    /\ \E c \in reg[p].rows :
          /\ locator' = [locator EXCEPT ![c] = "EXPIRED"]
          /\ Goto(p, IF reg[p].rows = {c} THEN Purged(reg[p].command) ELSE "purge",
                  [reg[p] EXCEPT !.rows = @ \ {c}])
    /\ UNCHANGED <<lifecycle, completion, revoking, stage2, lapsed>>

(* create_pairing_challenge: one that nobody made before, in the order of  *)
(* making.                                                                 *)
Fresh(c) == lifecycle[c] = "none" /\ \A d \in 1..(c - 1) : lifecycle[d] # "none"

(* record_challenge: a challenge that is still pending is cancelled.  The  *)
(* process that waits for it is not told.                                  *)
RecordChallenge(p) ==
    /\ pc[p] = "create"
    /\ \E c \in Challenges :
          /\ Fresh(c)
          /\ lifecycle' = [d \in Challenges |-> CASE d = c -> "PENDING"
                                                  [] lifecycle[d] = "PENDING" -> "CANCELLED"
                                                  [] OTHER -> lifecycle[d]]
          /\ Goto(p, "listen", [NoRegisters EXCEPT !.id = c])
    /\ UNCHANGED <<completion, locator, revoking, stage2, lapsed>>

(* normalize_pairing_event: the process listens, and a message with its    *)
(* challenge is taken until the deadline of the challenge.                 *)
Heard(p) == pc[p] = "listen" /\ <<"challenge", reg[p].id>> \notin lapsed

(* A mutant of Accept: the pairing made last is taken for the current one. *)
AcceptReplacing(p, g) ==
    LET c == reg[p].id IN
    /\ Heard(p)
    /\ completion[c] = {}
    /\ IF \E d \in Current : d > c
       THEN /\ lifecycle' = [lifecycle EXCEPT ![c] = "CONFLICT"]
            /\ UNCHANGED <<completion, locator, control>>
       ELSE /\ lifecycle' = [lifecycle EXCEPT ![c] = "COMPLETED"]
            /\ completion' = [completion EXCEPT ![c] = {g}]
            /\ locator' = [locator EXCEPT ![c] = "COMPLETED"]
            /\ Leave(p)
    /\ UNCHANGED <<revoking, stage2, lapsed>>

(* accept and complete: the challenge is posted in group g before its      *)
(* deadline.  Another pairing that is current stays, and the process goes  *)
(* on listening.  Whether the challenge is pending is not asked.           *)
Accept(p, g) ==
    LET c == reg[p].id IN
    /\ Heard(p)
    /\ completion[c] = {}
    /\ IF Current # {}
       THEN /\ lifecycle' = [lifecycle EXCEPT ![c] = "CONFLICT"]
            /\ UNCHANGED <<completion, locator, control>>
       ELSE /\ lifecycle' = [lifecycle EXCEPT ![c] = "COMPLETED"]
            /\ completion' = [completion EXCEPT ![c] = {g}]
            /\ locator' = [locator EXCEPT ![c] = "COMPLETED"]
            /\ Leave(p)
    /\ UNCHANGED <<revoking, stage2, lapsed>>

(* _require_active_challenge with expire_challenge: past its deadline a    *)
(* pending challenge expires; any other status is an error.  The process   *)
(* ends either way.                                                        *)
ExpireChallenge(p) ==
    LET c == reg[p].id IN
    /\ pc[p] = "listen" /\ <<"challenge", c>> \in lapsed
    /\ lifecycle' = [lifecycle EXCEPT ![c] = IF @ = "PENDING" THEN "EXPIRED" ELSE @]
    /\ Leave(p)
    /\ UNCHANGED <<completion, locator, revoking, stage2, lapsed>>

(* command_qq_group_pairing_revoke and revoke, which commits each of its   *)
(* statements: expired or not, the row must be COMPLETED.                  *)
Revoke(c) ==
    /\ locator[c] = "COMPLETED"
    /\ locator' = [locator EXCEPT ![c] = "REVOKED"]
    /\ revoking' = revoking \cup {c}
    /\ UNCHANGED <<lifecycle, completion, stage2, lapsed, control>>

(* The lifecycle row that ends revoke, unless the command died before it.  *)
RecordRevocation(c) ==
    /\ c \in revoking
    /\ lifecycle' = [lifecycle EXCEPT ![c] = "REVOKED"]
    /\ revoking' = revoking \ {c}
    /\ UNCHANGED <<completion, locator, stage2, lapsed, control>>

-----------------------------------------------------------------------------
(* Stage 2: the group and its handler.                                     *)

GroupOf(s) == UNION {completion[c] : c \in session[s]}

(* active_binding *)
Active(s) == binding[s] = "ACTIVE" /\ <<"binding", s>> \notin lapsed

(* resolve, after its purge: the configuration of the command names this   *)
(* pairing from now on.                                                    *)
Resolve(p, c) ==
    /\ pc[p] = "resolve"
    /\ IF locator[c] = "COMPLETED" THEN Goto(p, "begin", [NoRegisters EXCEPT !.id = c]) ELSE Leave(p)
    /\ UNCHANGED <<stage1, stage2, lapsed>>

(* begin_handler_pairing: a session that nobody opened before.             *)
FreshSession(s) == session[s] = {} /\ \A t \in 1..(s - 1) : session[t] # {}

(* active_binding_for_config: a binding in force was made under this very  *)
(* pairing.                                                                *)
BoundBefore(p) == \E s \in Sessions : Active(s) /\ session[s] = {reg[p].id}

(* pair_live_handler up to the gateway: a binding made before is reported, *)
(* otherwise record_pairing_session opens a session.                       *)
BeginHandlerPairing(p) ==
    /\ pc[p] = "begin"
    /\ IF BoundBefore(p)
       THEN Leave(p) /\ UNCHANGED session
       ELSE \E s \in Sessions :
               /\ FreshSession(s)
               /\ session' = [session EXCEPT ![s] = {reg[p].id}]
               /\ Goto(p, "observe", [NoRegisters EXCEPT !.id = s])
    /\ UNCHANGED <<stage1, observed, binding, lapsed>>

(* normalize_handler_pairing_event: the process waits for the challenge of *)
(* this surface, which has not run out.                                    *)
Observable(p, surface) ==
    LET s == reg[p].id IN
    pc[p] = "observe" /\ surface \notin observed[s] /\ <<"session", s>> \notin lapsed

(* record_pairing_observation: the first message with the challenge of a   *)
(* surface counts.                                                         *)
RecordObservation(p, surface) ==
    LET s == reg[p].id IN
    /\ Observable(p, surface)
    /\ observed' = [observed EXCEPT ![s] = @ \cup {surface}]
    /\ Goto(p, IF observed'[s] = Surfaces THEN "confirm" ELSE "observe", reg[p])
    /\ UNCHANGED <<stage1, session, binding, lapsed>>

(* A mutant of Confirmable: only bindings made under the same pairing.     *)
ConfirmableByPairing(s) ==
    /\ binding[s] = "none"
    /\ observed[s] = Surfaces
    /\ <<"session", s>> \notin lapsed
    /\ ~ \E t \in Sessions : Active(t) /\ session[t] = session[s]

(* confirm_handler_binding                                                 *)
Confirmable(s) ==
    /\ binding[s] = "none"
    /\ observed[s] = Surfaces
    /\ <<"session", s>> \notin lapsed
    /\ ~ \E t \in Sessions : Active(t) /\ GroupOf(t) = GroupOf(s)

(* The operator confirms.  A session that has its binding keeps it; a      *)
(* refusal ends the command.                                               *)
ConfirmHandlerBinding(p) ==
    LET s == reg[p].id IN
    /\ pc[p] = "confirm"
    /\ binding' = [binding EXCEPT ![s] = IF Confirmable(s) THEN "ACTIVE" ELSE @]
    /\ Leave(p)
    /\ UNCHANGED <<stage1, session, observed, lapsed>>

(* revoke_handler_binding, under a configuration for the binding's group.  *)
RevokeHandlerBinding(s) ==
    /\ Active(s)
    /\ \E c \in Current : completion[c] = GroupOf(s)
    /\ binding' = [binding EXCEPT ![s] = "REVOKED"]
    /\ UNCHANGED <<stage1, session, observed, lapsed, control>>

-----------------------------------------------------------------------------
(* Time, failures and the whole.                                           *)

(* The deadline of something that exists passes.                           *)
Pass(d) ==
    /\ d \notin lapsed /\ Cardinality(lapsed) < MaxLapses
    /\ CASE d[1] = "challenge" -> lifecycle[d[2]] # "none" /\ completion[d[2]] = {}
         [] d[1] = "locator"   -> completion[d[2]] # {}
         [] d[1] = "session"   -> session[d[2]] # {} /\ binding[d[2]] = "none"
         [] d[1] = "binding"   -> binding[d[2]] # "none"
    /\ lapsed' = lapsed \cup {d}
    /\ UNCHANGED <<stage1, stage2, control>>

(* The process crashes, the operator declines, or its gateway is lost for  *)
(* good (three reconnects, or none in stage 2).  The texts of its          *)
(* challenges are lost with it.                                            *)
Stop(p) ==
    /\ pc[p] # "idle"
    /\ Leave(p)
    /\ UNCHANGED <<stage1, stage2, lapsed>>

Next ==
    \/ \E p \in Processes :
          \/ \E command \in {"pair_group", "pair_handler"} : BeginPurge(p, command)
          \/ PurgeRow(p) \/ RecordChallenge(p) \/ (\E g \in Groups : Accept(p, g)) \/ ExpireChallenge(p)
          \/ \E c \in Challenges : Resolve(p, c)
          \/ BeginHandlerPairing(p) \/ (\E surface \in Surfaces : RecordObservation(p, surface))
          \/ ConfirmHandlerBinding(p)
          \/ Stop(p)
    \/ \E c \in Challenges : Revoke(c) \/ RecordRevocation(c)
    \/ \E s \in Sessions : RevokeHandlerBinding(s)
    \/ \E d \in Deadlines : Pass(d)

Spec == Init /\ [][Next]_vars

-----------------------------------------------------------------------------
(* Properties.                                                             *)

EndedPairings == {c \in Challenges : completion[c] # {}} \ Current
EndedBindings == {s \in Sessions : binding[s] # "none" /\ ~Active(s)}
HandlersOf(g) == {s \in Sessions : Active(s) /\ GroupOf(s) = {g}}

(* Of all challenges that processes wait for at the same time, cancelled   *)
(* ones included, at most one pairing is current, and a pairing that was   *)
(* revoked or has expired never is again: complete, revoke and             *)
(* purge_expired against each other.                                       *)
PairedExclusively ==
    INSTANCE ExclusiveGrant WITH
        Scopes <- {"application"},
        Claims <- Challenges,
        held <- [a \in {"application"} |-> Current],
        ended <- EndedPairings

ImplementsGroupGrant == PairedExclusively!Spec

(* However sessions, revocations and new pairings of the same group        *)
(* interleave, a group has at most one handler, and a binding that was     *)
(* revoked or has expired never is in force again: what                    *)
(* active_binding_for_config relies on when it takes several bindings for  *)
(* an error.                                                               *)
BoundExclusively ==
    INSTANCE ExclusiveGrant WITH
        Scopes <- Groups,
        Claims <- Sessions,
        held <- [g \in Groups |-> HandlersOf(g)],
        ended <- EndedBindings

ImplementsHandlerGrant == BoundExclusively!Spec

(* What the specification of the pairing says of a restart: a challenge    *)
(* that record_challenge cancelled is never completed.                     *)
CancelledIsUnusable ==
    [][\A c \in Challenges : lifecycle[c] = "CANCELLED" => lifecycle'[c] # "COMPLETED"]_vars
=============================================================================
