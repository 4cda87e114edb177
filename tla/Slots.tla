------------------------------- MODULE Slots -------------------------------
(***************************************************************************)
(* What a team promises about parallel work (internal/team/pool.go:7-9, "a *)
(* bound, not a suggestion"), with no pool, queue or goroutine in it: a    *)
(* session runs only under a grant, a card has one session at a time, its  *)
(* grant outlives the session, and grants stay within the bound in force   *)
(* when they are made.  Lowering the bound takes no grant back.  Nothing   *)
(* is promised once the team is deleted or the program is shutting down.   *)
(***************************************************************************)
EXTENDS Naturals, FiniteSets

CONSTANT Card

VARIABLES granted, live, limit, closed

vars == <<granted, live, limit, closed>>

Init ==
    /\ granted = {}
    /\ live = {}
    /\ closed = FALSE

(* Grants are made and given back, never from under a session.             *)
Regrant ==
    /\ live \subseteq granted'
    /\ granted' \subseteq granted \/ Cardinality(granted') <= limit'
    /\ UNCHANGED live

Begin(c) ==
    /\ c \in granted \ live
    /\ live' = live \cup {c}
    /\ UNCHANGED <<granted, limit>>

End(c) ==
    /\ live' = live \ {c}
    /\ UNCHANGED <<granted, limit>>

Next ==
    \/ closed'
    \/ UNCHANGED closed /\ (Regrant \/ \E c \in Card : Begin(c) \/ End(c))

Spec == Init /\ [][Next]_vars
=============================================================================
