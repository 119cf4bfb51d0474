----------------------------- MODULE RhythmRun -----------------------------
(***************************************************************************)
(* The runs of one rhythm of Li: the scheduler's deliveries to             *)
(* POST /internal/rhythms/{key}/run, the rows of rhythm_runs that they     *)
(* claim under a lease and a token, and the briefs they deliver, while the *)
(* owner enables and disables the rhythm.                                  *)
(*                                                                         *)
(* An occurrence is one run key.  Quiet hours and stood_down_until have no *)
(* writer in the code, next_run is only displayed, and events are a log:   *)
(* all four are left out.                                                  *)
(***************************************************************************)
EXTENDS Naturals, FiniteSets

CONSTANTS
    Occurrences,    \* the run keys the scheduler derives
    Deliveries,     \* bound: the deliveries that are ever made
    MaxClaims       \* bound: how many claims ever succeed

ClaimsAssumption == MaxClaims \in Nat \ {0}

VARIABLES
    rhythm,     \* the rhythm_definitions row
    runs,       \* per occurrence: its rhythm_runs row
    briefs,     \* proactive_briefs: occurrence, and token of the run that wrote it
    claims,     \* the last claim token drawn
    pc,         \* per delivery: its next step
    key,        \* per delivery: the occurrence it is for
    token,      \* per delivery: its claim token
    result      \* per delivery: the state it computes, then the one it answers

vars == <<rhythm, runs, briefs, claims, pc, key, token, result>>
local == <<key, token, result>>

Tokens == 1..MaxClaims
NoToken == 0
None == "none"
Results == {"generated", "empty"}
NoRun == [status |-> "absent", token |-> NoToken, lease |-> FALSE]

Init ==
    /\ rhythm = [enabled |-> FALSE, last |-> None, result |-> None]
    /\ runs = [o \in Occurrences |-> NoRun]
    /\ briefs = {}
    /\ claims = 0
    /\ pc = [d \in Deliveries |-> "idle"]
    /\ key = [d \in Deliveries |-> None]
    /\ token = [d \in Deliveries |-> NoToken]
    /\ result = [d \in Deliveries |-> None]

Goto(d, step) == pc' = [pc EXCEPT ![d] = step]

(* The delivery ends and answers what it has.                              *)
Answer(d, state) == Goto(d, "done") /\ result' = [result EXCEPT ![d] = state]

-----------------------------------------------------------------------------
(* The scheduler calls, at its time, again after a lost answer, or late.   *)
Deliver(d, o) ==
    /\ pc[d] = "idle"
    /\ key' = [key EXCEPT ![d] = o]
    /\ Goto(d, "claim")
    /\ UNCHANGED <<rhythm, runs, briefs, claims, token, result>>

(* Faulty forms end in a suffix that names the fault; the mutation runs    *)
(* put each in the place of the definition that follows it.                *)
Claimable_AnyLapsed(run) == run.status \in {"absent", "failed"} \/ ~run.lease

Claimable(run) ==
    \/ run.status \in {"absent", "failed"}
    \/ run.status = "claimed" /\ ~run.lease

ClaimedRow(o) == [status |-> "claimed", lease |-> TRUE, token |-> claims + 1]

(* The rhythm's row is locked first, so that a claim is never granted on a *)
(* disabled rhythm.  The answer of a granted claim may be lost.            *)
claim_rhythm_run(d) ==
    LET o == key[d] IN
    /\ pc[d] = "claim"
    /\ \/ /\ rhythm.enabled
          /\ Claimable(runs[o])
          /\ claims < MaxClaims
          /\ claims' = claims + 1
          /\ runs' = [runs EXCEPT ![o] = ClaimedRow(o)]
          /\ \/ /\ token' = [token EXCEPT ![d] = runs'[o].token]
                /\ Goto(d, "build")
                /\ UNCHANGED result
             \/ Answer(d, "error") /\ UNCHANGED token
       \/ /\ \/ ~rhythm.enabled /\ Answer(d, "disabled")
             \/ /\ rhythm.enabled
                /\ ~Claimable(runs[o])
                /\ Answer(d, IF runs[o].status = "claimed" THEN "in_progress"
                             ELSE "duplicate")
             \/ Answer(d, "error")
          /\ UNCHANGED <<runs, claims, token>>
    /\ UNCHANGED <<rhythm, briefs, key>>

(* Calendar, mail and open loops are read; some of it may raise.           *)
BuildBrief(d) ==
    /\ pc[d] = "build"
    /\ \/ \E r \in Results : result' = [result EXCEPT ![d] = r] /\ Goto(d, "complete")
       \/ Goto(d, "fail") /\ UNCHANGED result
    /\ UNCHANGED <<rhythm, runs, briefs, claims, key, token>>

-----------------------------------------------------------------------------
(* The two ends of a run, both fenced by the claim token.                  *)

Holds_AnyToken(d) == runs[key[d]].status = "claimed"

Holds(d) == runs[key[d]].status = "claimed" /\ runs[key[d]].token = token[d]

Ended(o, status) ==
    /\ runs' = [runs EXCEPT ![o].status = status, ![o].lease = FALSE]
    /\ rhythm' = [rhythm EXCEPT !.last = o, !.result = status]

(* rhythm_run_id is UNIQUE in proactive_briefs.                            *)
Unbriefed(o) == \A b \in briefs : b.occurrence # o

Deliverable(d) == result[d] = "generated" => Unbriefed(key[d])

complete_rhythm_run(d) ==
    LET o == key[d] IN
    /\ pc[d] = "complete"
    /\ \/ /\ Holds(d)
          /\ Deliverable(d)
          /\ Ended(o, result[d])
          /\ briefs' = IF result[d] = "generated"
                       THEN briefs \cup {[occurrence |-> o, token |-> token[d]]}
                       ELSE briefs
          /\ \/ Answer(d, result[d])
             \/ Goto(d, "fail") /\ UNCHANGED result
       \/ /\ Goto(d, "fail")
          /\ UNCHANGED <<rhythm, runs, briefs, result>>
    /\ UNCHANGED <<claims, key, token>>

fail_rhythm_run_StoresError(d) ==
    /\ pc[d] = "fail"
    /\ \/ Holds(d) /\ Ended(key[d], "error")
       \/ UNCHANGED <<rhythm, runs>>
    /\ Answer(d, "error")
    /\ UNCHANGED <<briefs, claims, key, token>>

(* The answer is 503 whether the failure could be recorded or not.         *)
fail_rhythm_run(d) ==
    /\ pc[d] = "fail"
    /\ \/ Holds(d) /\ Ended(key[d], "failed")
       \/ UNCHANGED <<rhythm, runs>>
    /\ Answer(d, "error")
    /\ UNCHANGED <<briefs, claims, key, token>>

-----------------------------------------------------------------------------
(* The environment.                                                        *)

Crash(d) ==
    /\ pc[d] \notin {"idle", "done"}
    /\ Answer(d, "error")
    /\ UNCHANGED <<rhythm, runs, briefs, claims, key, token>>

(* Five minutes pass.                                                      *)
LeaseRunsOut(o) ==
    /\ runs[o].lease
    /\ runs' = [runs EXCEPT ![o].lease = FALSE]
    /\ UNCHANGED <<rhythm, briefs, claims, pc, local>>

configure_rhythm ==
    /\ rhythm' = [rhythm EXCEPT !.enabled = ~@]
    /\ UNCHANGED <<runs, briefs, claims, pc, local>>

Next ==
    \/ \E d \in Deliveries :
        \/ \E o \in Occurrences : Deliver(d, o)
        \/ claim_rhythm_run(d) \/ BuildBrief(d)
        \/ complete_rhythm_run(d) \/ fail_rhythm_run(d) \/ Crash(d)
    \/ \E o \in Occurrences : LeaseRunsOut(o)
    \/ configure_rhythm

Spec == Init /\ [][Next]_vars

-----------------------------------------------------------------------------
(* Correctness.                                                            *)

(* The values of the variables; the columns of 031 and the endpoint.       *)
TypeOK ==
    /\ rhythm \in [enabled : BOOLEAN, last : Occurrences \cup {None},
                   result : Results \cup {"failed", None}]
    /\ runs \in [Occurrences ->
            [status : Results \cup {"absent", "claimed", "failed"},
             token : Tokens \cup {NoToken}, lease : BOOLEAN]]
    /\ briefs \subseteq [occurrence : Occurrences, token : Tokens]
    /\ claims \in 0..MaxClaims
    /\ pc \in [Deliveries -> {"idle", "claim", "build", "complete", "fail", "done"}]
    /\ key \in [Deliveries -> Occurrences \cup {None}]
    /\ token \in [Deliveries -> Tokens \cup {NoToken}]
    /\ result \in [Deliveries -> Results \cup
            {"disabled", "in_progress", "duplicate", "error", None}]

(* "Retries and missed-delivery replays cannot create a second brief": the *)
(* inbox holds exactly the briefs of the runs that are recorded as         *)
(* generated, each written by the claim that the run ended with.           *)
BriefMatchesRun ==
    \A o \in Occurrences :
        {b.token : b \in {c \in briefs : c.occurrence = o}} =
            IF runs[o].status = "generated" THEN {runs[o].token} ELSE {}

(* What a delivery told the scheduler is still recorded, by its own claim. *)
ToldIsStored ==
    \A d \in Deliveries : pc[d] = "done" /\ result[d] \in Results =>
        runs[key[d]].status = result[d] /\ runs[key[d]].token = token[d]
=============================================================================
