----------------------------- MODULE MCPrivacy ------------------------------
(* What the owner keeps private side by side for TLC, conversations and      *)
(* visits: `focus' is the component of a behaviour. The two share variables, *)
(* as each behaviour needs those of one component only.                      *)
EXTENDS Integers, TLC

CONSTANTS
    Specialists, Turns, Domains, WindowLimit, MaxOverlap,     \* Disclosure
    Calls, LastDay, Spans, Year, MaxEvents                    \* PlaceVisits

VARIABLES focus, v1, v2, v3, v4, v5, v6, v7, v8

D == INSTANCE Disclosure WITH
        Readers <- [d \in Domains |-> Specialists],
        rows <- v1, memory <- v2, proposed <- v3, turn <- v4, sent <- v5
V == INSTANCE PlaceVisits WITH
        visits <- v1, preference <- v2, choice <- v3, events <- v4,
        manual <- v5, call <- v6, today <- v7, disturbed <- v8

ASSUME Assumptions == D!DisclosureAssumption /\ V!DaysAssumption

unused == <<v6, v7, v8>>
vars == <<focus, v1, v2, v3, v4, v5, v6, v7, v8>>

Init ==
    \/ focus = "conversation" /\ D!Init /\ v6 = "none" /\ v7 = "none" /\ v8 = "none"
    \/ focus = "visits" /\ V!Init

Converse == focus = "conversation" /\ D!Next /\ UNCHANGED <<focus, unused>>
Visit == focus = "visits" /\ V!Next /\ UNCHANGED focus

Next == Converse \/ Visit

Spec == Init /\ [][Next]_vars

(* Requests are interchangeable.                                             *)
Symmetry == Permutations(Turns)

(* What keeps the table of visits and the reference apart is never undone,   *)
(* and the properties say nothing of the states that follow.                 *)
Undisturbed == focus = "visits" => V!Undisturbed

-----------------------------------------------------------------------------
(* Correctness: the components' properties, which their modules explain.     *)

(* The type invariants of both modules.                                      *)
TypeOK ==
    /\ focus = "conversation" => D!TypeOK
    /\ focus = "visits" => V!TypeOK

(* Private words stay with Li, through answers, fragments, memories and      *)
(* proposals (_response_disclosure, specialist_conversation_context).        *)
PrivateStaysWithLi == focus = "conversation" => D!PrivateStaysWithLi

(* Rows and files of the conversation go only to specialists that every      *)
(* message they draw on names (_response_disclosure, allowed_specialists).   *)
RecipientsAreKept == focus = "conversation" => D!RecipientsAreKept

(* Merged, replayed, given up half-way and grown old, the table of visits    *)
(* holds the trips that the reference finds in all that was recorded; and    *)
(* the country is shown when the reference promotes it, unless a removal     *)
(* came late and was overwritten (add_place_visit,                           *)
(* correct_mobile_location_visit, set_most_visited_preference).              *)
TripsAgree == focus = "visits" => V!TripsAgree /\ V!PromotionAgrees
=============================================================================
