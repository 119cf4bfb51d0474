----------------------------- MODULE TurnPromise -----------------------------
(***************************************************************************)
(* What a stable turn identity promises its owner, without leases, tokens, *)
(* stages or processes.  Of all the attempts made under one identity at    *)
(* most one touches memory or the mailbox; the turn ends at most once; the *)
(* answer it ends with is that attempt's own; and a turn whose effects     *)
(* are in doubt never opens again.                                         *)
(***************************************************************************)
EXTENDS Naturals

CONSTANT Attempts, None

VARIABLES
    outcome,    \* open, completed, uncertain or expired
    answer,     \* the attempt whose response is replayed
    actor       \* the attempt that had an effect

vars == <<outcome, answer, actor>>

Init == outcome = "open" /\ answer = None /\ actor = None

Act(a) ==
    /\ outcome \in {"open", "uncertain"}
    /\ actor = None
    /\ actor' = a
    /\ UNCHANGED <<outcome, answer>>

Complete(a) ==
    /\ outcome = "open"
    /\ actor \in {None, a}
    /\ outcome' = "completed"
    /\ answer' = a
    /\ UNCHANGED actor

Doubt ==
    /\ outcome = "open"
    /\ outcome' = "uncertain"
    /\ UNCHANGED <<answer, actor>>

Expire ==
    /\ outcome = "completed"
    /\ outcome' = "expired"
    /\ answer' = None
    /\ UNCHANGED actor

(* The owner deletes the conversation, and with it the turn's record.      *)
Forget == outcome' = "open" /\ answer' = None /\ actor' = None

Next ==
    \/ \E a \in Attempts : Act(a) \/ Complete(a)
    \/ Doubt \/ Expire \/ Forget

Spec == Init /\ [][Next]_vars
=============================================================================
