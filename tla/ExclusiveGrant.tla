---------------------------- MODULE ExclusiveGrant ----------------------------
(***************************************************************************)
(* What the two pairing protocols promise of each scope: a scope has at    *)
(* most one holder, and a holder that was given up, by revocation or by    *)
(* the end of its lifetime, never holds again.                             *)
(***************************************************************************)
CONSTANTS
    Scopes,
    Claims      \* what may hold a scope: pairings, handler bindings

VARIABLES
    held,       \* the claim that holds each scope, as a set
    ended       \* the claims that held a scope once

grantVars == <<held, ended>>

Init ==
    /\ held = [s \in Scopes |-> {}]
    /\ ended = {}

Grant(s, c) ==
    /\ held[s] = {}
    /\ c \notin ended /\ \A t \in Scopes : c \notin held[t]
    /\ held' = [held EXCEPT ![s] = {c}]
    /\ UNCHANGED ended

Release(s, c) ==
    /\ c \in held[s]
    /\ held' = [held EXCEPT ![s] = {}]
    /\ ended' = ended \cup {c}

Next == \E s \in Scopes, c \in Claims : Grant(s, c) \/ Release(s, c)

Spec == Init /\ [][Next]_grantVars
=============================================================================
