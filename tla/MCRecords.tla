----------------------------- MODULE MCRecords ------------------------------
(* Memory and places side by side for TLC: `focus' is the component of a     *)
(* behaviour. The two share variables, as each behaviour needs those of one  *)
(* component only.                                                           *)
EXTENDS Integers, TLC

CONSTANTS
    Values, Spellings, Reviews, MaxRecords, MaxProposals, MaxCandidates,
    Installations, Updates, Calls, Day, Hour, RateLimit, MaxTime

VARIABLES focus, v1, v2, v3, v4, v5, v6, v7

S == INSTANCE MemoryStore WITH
        records <- v1, links <- v2, proposals <- v3, capture <- v4,
        review <- v5, refused <- v6
M == INSTANCE MobilePlace WITH
        now <- v1, installs <- v2, updates <- v3, accepted <- v4,
        place <- v5, call <- v6, lock <- v7

ASSUME Assumptions == S!BoundsAssumption /\ M!ClockAssumption /\ M!NamesAssumption

vars == <<focus, v1, v2, v3, v4, v5, v6, v7>>

Init ==
    \/ focus = "memory" /\ S!Init /\ v7 = "none"
    \/ focus = "place" /\ M!Init

Remember == focus = "memory" /\ S!Next /\ UNCHANGED <<focus, v7>>
Locate == focus = "place" /\ M!Next /\ UNCHANGED focus

(* The bounds stop the store; places are checked for deadlock.               *)
Rest == focus = "memory" /\ UNCHANGED vars

Next == Remember \/ Locate \/ Rest

Spec == Init /\ [][Next]_vars

(* Statements, spellings and reviews are interchangeable, and so are calls,  *)
(* which can be the same model values as reviews.                            *)
Symmetry == Permutations(Values) \cup Permutations(Spellings) \cup Permutations(Reviews)

-----------------------------------------------------------------------------
(* Correctness: the components' properties, which their modules explain.     *)

(* The type invariants of both modules.                                      *)
TypeOK ==
    /\ focus = "memory" => S!TypeOK
    /\ focus = "place" => M!TypeOK

(* A record drawn from a private source is private, through reuse,           *)
(* correction and proposals (apply_memory_capture, correct_explicit_memory). *)
PrivacyIsKept == focus = "memory" => S!PrivacyIsKept

(* What Theo left to the owner is remembered only once the owner confirmed   *)
(* it (review_memory_proposal, confirm_memory_proposal).                     *)
OwnerDecides == focus = "memory" => S!OwnerDecides

(* An inference in memory is the result of exactly one approved proposal,    *)
(* and the links of corrections lead to outdated, remembered records         *)
(* (review_memory_proposal, correct_explicit_memory).                        *)
PromotedOnce == focus = "memory" => S!PromotedOnce /\ S!HistoryIsTrue

(* An observation is accepted once, and each of a device after the one       *)
(* before (submit_mobile_location_update).                                   *)
ObservationsAdvance == [][focus = "place" => M!Advances]_vars

(* No hour holds more accepted observations of a device than the limit       *)
(* (submit_mobile_location_update).                                          *)
UpdatesAreBounded == focus = "place" => M!UpdatesAreBounded
=============================================================================
