---------------------------- MODULE MCRepetition ----------------------------
(* Five components in which requests are repeated, late or at cross          *)
(* purposes, side by side for TLC: `focus' is the component of a behaviour.  *)
(* They share variables, as each behaviour needs those of one component only. *)
EXTENDS Integers, TLC

CONSTANTS
    Callers, MaxWrites,                                             \* ProfileStore
    Sessions, Calls, MaxTokens, Windows, SessionLimit, OwnerLimit,  \* NativeSession
    Runs, Cases, Amounts, MaxCalls, MaxTurns, MaxMicroUsd,          \* ProviderTrial
    Writers, Contents,                                              \* ProviderActions
    Occurrences, Deliveries, MaxClaims                              \* RhythmRun

VARIABLES focus, v1, v2, v3, v4, v5, v6, v7, v8

P == INSTANCE ProfileStore WITH
        versions <- v1, pending <- v2, issued <- v3, reachable <- v4,
        view <- v5, call <- v6
N == INSTANCE NativeSession WITH
        sessions <- v1, parent <- v2, held <- v3, call <- v4, ownerLock <- v5,
        counts <- v6, minute <- v7, mishap <- v8
T == INSTANCE ProviderTrial WITH
        exists <- v1, journal <- v2, container <- v3, run <- v4, bill <- v5
A == INSTANCE ProviderActions WITH
        Calls <- Writers,
        call <- v1, flight <- v2, events <- v3, drafts <- v4, tasks <- v5
R == INSTANCE RhythmRun WITH
        rhythm <- v1, runs <- v2, briefs <- v3, claims <- v4,
        pc <- v5, key <- v6, token <- v7, result <- v8

(* The contract of the profile's repository, which the profile implements.   *)
InProfile == focus = "profile"
Contract == INSTANCE ProfileRepository WITH
        Revisions <- 1..MaxWrites,
        object <- P!Stored(P!Generation),
        saves <- {P!AsSave(w) : w \in v2},
        used <- 1..v3,
        told <- v5,
        request <- [c \in Callers |-> P!AsRequest(v6[c])]

ASSUME Assumptions ==
    /\ P!ProfileAssumption /\ N!LimitsAssumption /\ T!BudgetAssumption
    /\ R!ClaimsAssumption

last == <<v6, v7, v8>>
vars == <<focus, v1, v2, v3, v4, v5, last>>

Spare == v7 = "none" /\ v8 = "none"

Init ==
    \/ focus = "profile" /\ P!Init /\ Spare
    \/ focus = "session" /\ N!Init
    \/ focus = "trial" /\ T!Init /\ v6 = "none" /\ Spare
    \/ focus = "provider" /\ A!Init /\ v6 = "none" /\ Spare
    \/ focus = "rhythm" /\ R!Init

Profile == focus = "profile" /\ P!Next /\ UNCHANGED <<focus, v7, v8>>
Session == focus = "session" /\ N!Next /\ UNCHANGED focus
Trial == focus = "trial" /\ T!Next /\ UNCHANGED <<focus, last>>
Provider == focus = "provider" /\ A!Next /\ UNCHANGED <<focus, last>>
Rhythm == focus = "rhythm" /\ R!Next /\ UNCHANGED focus

(* The bounds stop all but the rhythm, which is checked for deadlock.        *)
Rest == focus # "rhythm" /\ UNCHANGED vars

Next == Profile \/ Session \/ Trial \/ Provider \/ Rhythm \/ Rest

Spec == Init /\ [][Next]_vars

(* Sessions and calls are interchangeable; tabs, runs, writers, contents and *)
(* occurrences are too, and the same model values.                           *)
Symmetry == Permutations(Sessions) \cup Permutations(Calls)

-----------------------------------------------------------------------------
(* Correctness: the components' properties, which their modules explain.     *)

(* The type invariants of the five modules.                                  *)
TypeOK ==
    /\ focus = "profile" => P!TypeOK
    /\ focus = "session" => N!TypeOK
    /\ focus = "trial" => T!TypeOK
    /\ focus = "provider" => A!TypeOK
    /\ focus = "rhythm" => R!TypeOK

(* No version of the profile is overwritten unseen, however late a write     *)
(* lands (ObjectProfileRepository.compare_and_swap).                         *)
NoLostUpdate == focus = "profile" => P!NoLostUpdate

(* What a tab was told of its write is so (ProfileApplication), and what an  *)
(* executor was told to be completed is so and stays so                      *)
(* (execute_calendar_action, execute_email_action, execute_task_action).     *)
AnswersAreTrue ==
    /\ focus = "profile" => P!AnswersAreTrue
    /\ focus = "provider" => A!CompletedIsTrue

(* The conditional object implements the contract that the service is        *)
(* written against: "atomically compare current revision and replace; False  *)
(* on mismatch" (Repository, ObjectRepository.compare_and_swap).             *)
ContractIsKept ==
    /\ InProfile => Contract!Init
    /\ [][InProfile => UNCHANGED Contract!vars \/ Contract!Next]_vars

(* A refresh token is never replaced twice (refresh_native_session).         *)
SingleUse == focus = "session" => N!SingleUse

(* No minute accepts more requests than the limits of session and owner      *)
(* (validate_native_session).                                                *)
RateIsBounded == focus = "session" => N!RateIsBounded

(* Whoever loses no reply and refreshes once at a time is never taken for a  *)
(* thief (refresh_native_session), and no tab is told that the profile       *)
(* changed while it did not (ObjectProfileRepository.compare_and_swap).      *)
Blame ==
    /\ focus = "session" => N!Accusation
    /\ focus = "profile" => P!Conflict

BlameHasCause == [][Blame]_vars

(* What is revoked stays so, and revoke-all leaves nothing usable            *)
(* (revoke_all_native_sessions).                                             *)
RevocationHolds == [][focus = "session" => N!Revocation]_vars

(* The trial's journal covers what the provider has charged, within the      *)
(* limit, and one process at most calls the provider (TrialBudget,           *)
(* trial_journal).                                                           *)
SpendingIsCovered == focus = "trial" => T!SpendingIsCovered /\ T!OneTrial

(* An event is in the calendar once, however often it is asked for           *)
(* (create_event).                                                           *)
OneEvent == focus = "provider" => A!OneEvent

(* The inbox holds the briefs of the runs recorded as generated, and what    *)
(* the scheduler was told is recorded (claim_rhythm_run,                     *)
(* complete_rhythm_run).                                                     *)
BriefMatchesRun == focus = "rhythm" => R!BriefMatchesRun /\ R!ToldIsStored
=============================================================================
