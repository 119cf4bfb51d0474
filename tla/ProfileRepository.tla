------------------------- MODULE ProfileRepository --------------------------
(* What the profile's repository promises (profile_state.Repository), and    *)
(* what the service makes of it for its tabs, without generations, retries   *)
(* or repeated reads: a save compares the current revision and replaces it   *)
(* at one moment, says "saved" only then, and "conflict" only when the       *)
(* revision is another. A save that is given up may still take place, under  *)
(* the same condition, and once.                                             *)
EXTENDS Naturals

CONSTANTS Callers, Revisions

VARIABLES
    object,     \* the revision and the photo
    saves,      \* the replacements that may still take place
    used,       \* revisions that have been drawn
    told,       \* per tab: the revision it was last told
    request     \* per tab: what it asks for, or was answered

vars == <<object, saves, used, told, request>>

ABSENT == 0
Nothing == [revision |-> ABSENT, photo |-> FALSE]

Init ==
    /\ object = Nothing /\ saves = {} /\ used = {}
    /\ told = [c \in Callers |-> ABSENT]
    /\ request = [c \in Callers |-> [phase |-> "idle"]]

Goto(c, next) == request' = [request EXCEPT ![c] = next]
Answered(result, revision) ==
    [phase |-> "answered", result |-> result, revision |-> revision]

Ask(c) ==
    /\ request[c].phase = "idle"
    /\ \E op \in {"metadata", "replace", "remove"} :
        Goto(c, [phase |-> "open", op |-> op, expected |-> told[c]])
    /\ UNCHANGED <<object, saves, used, told>>

(* An answer without a save: the revision is told, or is not the expected,   *)
(* or there is no photo to remove. An absence can be believed that is none.  *)
Tell(c, seen) ==
    LET r == request[c] IN
    /\ r.phase = "open" /\ seen \in {object, Nothing}
    /\ \/ r.op = "metadata" /\ Goto(c, Answered("current", seen.revision))
       \/ /\ r.op # "metadata" /\ seen.revision # r.expected
          /\ Goto(c, Answered("conflict", ABSENT))
       \/ /\ r.op = "remove" /\ seen.revision = r.expected /\ ~seen.photo
          /\ Goto(c, Answered("unchanged", seen.revision))
    /\ UNCHANGED <<object, saves, used, told>>

Save(c) ==
    LET r == request[c] IN
    /\ r.phase = "open" /\ r.op # "metadata"
    /\ \E revision \in Revisions \ used :
        /\ used' = used \cup {revision}
        /\ saves' = saves \cup {[revision |-> revision, photo |-> r.op = "replace",
                                 expected |-> r.expected]}
        /\ Goto(c, [phase |-> "waiting", revision |-> revision])
    /\ UNCHANGED <<object, told>>

(* Whoever waits for a save is answered as it is judged.                     *)
Judged(save, result) ==
    request' = [c \in Callers |->
        IF request[c].phase = "waiting" /\ request[c].revision = save.revision
        THEN Answered(result, save.revision) ELSE request[c]]

compare_and_swap(save) ==
    /\ saves' = saves \ {save}
    /\ \/ /\ save.expected = object.revision
          /\ object' = [revision |-> save.revision, photo |-> save.photo]
          /\ Judged(save, "saved")
       \/ /\ save.expected # object.revision
          /\ Judged(save, "conflict")
          /\ UNCHANGED object
    /\ UNCHANGED <<used, told>>

Lose(save) ==
    /\ saves' = saves \ {save}
    /\ UNCHANGED <<object, used, told, request>>

(* RepositoryError: a save that was under way may still take place.          *)
GiveUp(c) ==
    /\ request[c].phase \in {"open", "waiting", "answered"}
    /\ Goto(c, Answered("unavailable", ABSENT))
    /\ UNCHANGED <<object, saves, used, told>>

Told(c) ==
    /\ request[c].phase = "answered"
    /\ told' = IF request[c].result \in {"saved", "unchanged", "current"}
               THEN [told EXCEPT ![c] = request[c].revision] ELSE told
    /\ Goto(c, [phase |-> "idle"])
    /\ UNCHANGED <<object, saves, used>>

Next ==
    \/ \E c \in Callers :
        \/ Ask(c) \/ Tell(c, object) \/ Tell(c, Nothing) \/ Save(c) \/ GiveUp(c) \/ Told(c)
    \/ \E save \in saves : compare_and_swap(save) \/ Lose(save)

Spec == Init /\ [][Next]_vars
=============================================================================
