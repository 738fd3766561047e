------------------------------ MODULE EffectOnce ------------------------------
(***************************************************************************)
(* What the control kernel promises about the side effects of one          *)
(* workflow (openspec/specs/idempotent-side-effect-recovery): an effect is *)
(* intended before it is executed, executed at most once, known complete   *)
(* only after it was executed, and not even intended before the effects it *)
(* builds on are known complete.  There are no processes, crashes or       *)
(* retries at this level: they must all disappear in the refinement.       *)
(***************************************************************************)
CONSTANTS Effects,       \* the effects of one workflow
          Requires(_)    \* the effects that come before a given one

VARIABLES intended, executed, completed

effects == <<intended, executed, completed>>

Init == intended = {} /\ executed = {} /\ completed = {}

Intend(e) ==
    /\ e \notin intended
    /\ Requires(e) \subseteq completed
    /\ intended' = intended \cup {e}
    /\ UNCHANGED <<executed, completed>>

Execute(e) ==
    /\ e \in intended /\ e \notin executed
    /\ executed' = executed \cup {e}
    /\ UNCHANGED <<intended, completed>>

Complete(e) ==
    /\ e \in executed /\ e \notin completed
    /\ completed' = completed \cup {e}
    /\ UNCHANGED <<intended, executed>>

Next == \E e \in Effects : Intend(e) \/ Execute(e) \/ Complete(e)

Spec == Init /\ [][Next]_effects
=============================================================================
