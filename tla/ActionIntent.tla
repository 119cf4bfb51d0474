---------------------------- MODULE ActionIntent ----------------------------
(***************************************************************************)
(* One durable action intent of Li: a proposal stored by a chat turn, the  *)
(* owner's decisions about it (POST /li/action-intents/{id}/decision), the *)
(* request that claims and executes it, and the retention job that expires *)
(* it.                                                                     *)
(*                                                                         *)
(* create_action_intent, resolve_action_intent and expire_action_intents   *)
(* are transactions under the row's lock.  decide_intent is two of them    *)
(* with the provider's call in between, so the owner can press the button  *)
(* again, time can pass and the process can die at each of its steps.      *)
(***************************************************************************)
EXTENDS Naturals, Sequences

CONSTANTS
    Requests,   \* bound: the decision requests that are ever made
    Lifetime,   \* whether the 24 hours of expires_at may pass
    Deletes     \* whether the owner may delete the conversation meanwhile

SwitchAssumption == Lifetime \in BOOLEAN /\ Deletes \in BOOLEAN

VARIABLES
    row,        \* the action_intents row
    log,        \* its action_intent_events, as [actor, from, to]
    overdue,    \* expires_at <= NOW()
    linked,     \* its specialist interactions are stored and marked as used
    pc,         \* per request: its next step in decide_intent
    verdict,    \* per request: execution_status
    answer,     \* per request: what the provider did and said
    told        \* per request: approval_state of the returned intent

vars == <<row, log, overdue, linked, pc, verdict, answer, told>>

Terminal == {"succeeded", "failed", "uncertain", "denied", "expired"}
Pending == {"proposed", "owner_confirmation_required"}
IntentStates == {"absent", "executing"} \cup Pending \cup Terminal
Unset == "none"

Actors == {"li", "owner", "system", "provider"}
Event(actor, from, to) == [actor |-> actor, from |-> from, to |-> to]

NoIntent == [state |-> "absent", governed |-> FALSE, measured |-> FALSE]

Init ==
    /\ row = NoIntent
    /\ log = <<>>
    /\ overdue = FALSE
    /\ linked = FALSE
    /\ pc = [d \in Requests |-> "idle"]
    /\ verdict = [d \in Requests |-> Unset]
    /\ answer = [d \in Requests |-> Unset]
    /\ told = [d \in Requests |-> Unset]

-----------------------------------------------------------------------------
(* A chat turn stores the proposal; measured, when specialist              *)
(* contributions that the answer used are attributed to it.                *)
create_action_intent ==
    \E governed, measured \in BOOLEAN :
        LET first == IF governed THEN "owner_confirmation_required" ELSE "proposed" IN
        /\ row.state = "absent"
        /\ row' = [state |-> first, governed |-> governed, measured |-> measured]
        /\ log' = <<Event("li", "absent", first)>>
        /\ linked' = measured
        /\ UNCHANGED <<overdue, pc, verdict, answer, told>>

(* The row moves and the event that says so is written with it.            *)
Move(actor, to) ==
    /\ row' = [row EXCEPT !.state = to]
    /\ log' = Append(log, Event(actor, row.state, to))

Lapsed(state) == IF state = "executing" THEN "uncertain" ELSE "expired"

Expire == Move("system", Lapsed(row.state))

Keep == UNCHANGED <<row, log>>

-----------------------------------------------------------------------------
(* resolve_action_intent.  The request d carries on at step ok when the    *)
(* function answers, and is "rejected" when it raises; when its connection *)
(* fails it is "unreachable", and the transaction may have committed.      *)
Answered(d, step) ==
    \/ /\ pc' = [pc EXCEPT ![d] = step]
       /\ told' = [told EXCEPT ![d] = IF step = "check" THEN @ ELSE row'.state]
    \/ /\ pc' = [pc EXCEPT ![d] = "unreachable"]
       /\ UNCHANGED told

Rejected(d) ==
    /\ Keep
    /\ pc' = [pc EXCEPT ![d] = "rejected"]
    /\ UNCHANGED told

Unreachable(d) ==
    /\ Keep
    /\ pc' = [pc EXCEPT ![d] = "unreachable"]
    /\ UNCHANGED told

Decisions == {"approve", "confirm", "deny"}

(* Faulty forms end in a suffix that names the fault; the mutation runs    *)
(* put each in the place of the definition that follows it.                *)
Approve_Unclaimed(d) ==
    /\ row.state = "proposed"
    /\ Keep
    /\ Answered(d, "check")

Approve(d) ==
    /\ row.state = "proposed"
    /\ Move("owner", "executing")
    /\ Answered(d, "check")

ApproveGoverned_Executes(d, confirmed) ==
    /\ row.state = "owner_confirmation_required"
    /\ IF confirmed THEN Move("owner", "executing") ELSE Keep
    /\ Answered(d, IF confirmed THEN "check" ELSE "told")

(* A governed intent is never executed here: a confirmation leaves a trace *)
(* for the owner's own executor.                                           *)
ApproveGoverned(d, confirmed) ==
    /\ row.state = "owner_confirmation_required"
    /\ IF confirmed THEN Move("owner", row.state) ELSE Keep
    /\ Answered(d, "told")

Deny(d) ==
    /\ row.state \in Pending
    /\ Move("owner", "denied")
    /\ Answered(d, "told")

Decide(d, decision) ==
    /\ pc[d] = "idle"
    /\ row.state # "absent"
    /\ \/ row.state \in Terminal /\ Keep /\ Answered(d, "told")
       \/ row.state \notin Terminal /\ overdue /\ Expire /\ Answered(d, "told")
       \/ ~overdue /\ decision # "deny" /\ Approve(d)
       \/ ~overdue /\ decision # "deny" /\ ApproveGoverned(d, decision = "confirm")
       \/ ~overdue /\ decision = "deny" /\ Deny(d)
       \/ row.state = "executing" /\ ~overdue /\ Rejected(d)
       \/ Unreachable(d)
    /\ UNCHANGED <<overdue, linked, verdict, answer>>

-----------------------------------------------------------------------------
(* The request that was told to execute.                                   *)

(* Policy, payload hash and correlation are checked before the provider is *)
(* called; what fails here is reported as "failed".                        *)
CheckStored(d) ==
    /\ pc[d] = "check"
    /\ \/ pc' = [pc EXCEPT ![d] = "execute"] /\ UNCHANGED verdict
       \/ /\ pc' = [pc EXCEPT ![d] = "report"]
          /\ verdict' = [verdict EXCEPT ![d] = "failed"]
    /\ UNCHANGED <<row, log, overdue, linked, answer, told>>

(* The provider confirms its effect, fails with the effect done or not, or *)
(* is not available and says so.                                           *)
ProviderAnswers == {"confirmed", "done_unconfirmed", "not_done", "unavailable"}

VerdictOf_Raw(reply) == IF reply = "confirmed" THEN "succeeded" ELSE reply
VerdictOf_Optimistic(reply) == IF reply = "confirmed" THEN "succeeded" ELSE "failed"

VerdictOf(reply) == IF reply = "confirmed" THEN "succeeded" ELSE "uncertain"

CallProvider(d) ==
    \E reply \in ProviderAnswers :
        /\ pc[d] = "execute"
        /\ answer' = [answer EXCEPT ![d] = reply]
        /\ verdict' = [verdict EXCEPT ![d] = VerdictOf(reply)]
        /\ pc' = [pc EXCEPT ![d] = "report"]
        /\ UNCHANGED <<row, log, overdue, linked, told>>

(* record_specialist_action_attribution raises when an interaction is gone *)
(* or no longer marked as used, and takes the completion down with it.     *)
Attributable(status) == status = "uncertain" \/ ~row.measured \/ linked

Report_Unguarded(d) ==
    /\ pc[d] = "report"
    /\ \/ row.state # verdict[d] /\ Move("provider", verdict[d]) /\ Answered(d, "told")
       \/ row.state = verdict[d] /\ Keep /\ Answered(d, "told")
       \/ Unreachable(d)
    /\ UNCHANGED <<overdue, linked, verdict, answer>>

(* decision "complete".                                                    *)
Report(d) ==
    /\ pc[d] = "report"
    /\ \/ row.state \in Terminal /\ Keep /\ Answered(d, "told")
       \/ /\ row.state = "executing"
          /\ Attributable(verdict[d])
          /\ Move("provider", verdict[d])
          /\ Answered(d, "told")
       \/ row.state = "executing" /\ ~Attributable(verdict[d]) /\ Rejected(d)
       \/ Unreachable(d)
    /\ UNCHANGED <<overdue, linked, verdict, answer>>

Crash(d) ==
    /\ pc[d] \in {"check", "execute", "report"}
    /\ pc' = [pc EXCEPT ![d] = "dead"]
    /\ UNCHANGED <<row, log, overdue, linked, verdict, answer, told>>

-----------------------------------------------------------------------------
(* The environment.                                                        *)

expire_action_intents_PendingOnly ==
    /\ row.state \in Pending
    /\ overdue
    /\ Expire
    /\ UNCHANGED <<overdue, linked, pc, verdict, answer, told>>

(* The retention job.  Its transaction also deletes artifacts; when that   *)
(* fails nothing here changes.                                             *)
expire_action_intents ==
    /\ row.state \in Pending \cup {"executing"}
    /\ overdue
    /\ Expire
    /\ UNCHANGED <<overdue, linked, pc, verdict, answer, told>>

DayPasses ==
    /\ Lifetime
    /\ row.state # "absent"
    /\ ~overdue
    /\ overdue' = TRUE
    /\ UNCHANGED <<row, log, linked, pc, verdict, answer, told>>

(* Deleting the conversation deletes its specialist interactions; the      *)
(* intent loses its conversation and stays.                                *)
delete_private_conversation ==
    /\ Deletes
    /\ linked
    /\ linked' = FALSE
    /\ UNCHANGED <<row, log, overdue, pc, verdict, answer, told>>

Request(d) == CheckStored(d) \/ CallProvider(d) \/ Report(d)

Next ==
    \/ create_action_intent
    \/ \E d \in Requests, decision \in Decisions : Decide(d, decision)
    \/ \E d \in Requests : Request(d) \/ Crash(d)
    \/ expire_action_intents \/ DayPasses \/ delete_private_conversation

Spec == Init /\ [][Next]_vars

-----------------------------------------------------------------------------
(* Correctness.                                                            *)

(* The values of the variables; action_intents and decide_intent's locals. *)
TypeOK ==
    /\ row \in [state : IntentStates, governed : BOOLEAN, measured : BOOLEAN]
    /\ log \in Seq([actor : Actors, from : IntentStates, to : IntentStates])
    /\ overdue \in BOOLEAN
    /\ linked \in BOOLEAN
    /\ pc \in [Requests -> {"idle", "check", "execute", "report", "told",
                            "rejected", "unreachable", "dead"}]
    /\ verdict \in [Requests -> {"succeeded", "failed", "uncertain", Unset}]
    /\ answer \in [Requests -> ProviderAnswers \cup {Unset}]
    /\ told \in [Requests -> IntentStates \cup {Unset}]

Executors == {d \in Requests : pc[d] \in {"check", "execute"} \/ answer[d] # Unset}
Affected == \E d \in Requests : answer[d] \in {"confirmed", "done_unconfirmed"}

(* However often the owner approves, and whatever answers are lost, one    *)
(* request at most takes the intent to its provider.                       *)
SingleExecution == \A d, e \in Executors : d = e

(* What the row says happened is what happened: a success had its effect,  *)
(* and a failed, denied or expired intent had none and has no executor     *)
(* left that could still have one ("expired_without_attempt").             *)
OutcomeIsTrue ==
    /\ row.state = "succeeded" => Affected
    /\ row.state \in {"failed", "denied", "expired"} =>
           ~Affected /\ \A d \in Requests : pc[d] \notin {"check", "execute"}

(* A final state that the owner was shown is still the state of the intent *)
(* after any later decision, report or expiry.                             *)
ToldIsFinal ==
    \A d \in Requests : told[d] \in Terminal => row.state = told[d]

(* An intent executes, or is reported as done, failed or "may have been    *)
(* completed by the provider", only after the owner approved an ordinary   *)
(* proposal: governed intents, and proposals that nobody answered, never   *)
(* are.                                                                    *)
ApprovalComesFirst ==
    row.state \in {"executing", "succeeded", "failed", "uncertain"} =>
        /\ ~row.governed
        /\ \E i \in 1..Len(log) : log[i] = Event("owner", "proposed", "executing")

(* Liveness: time passes and the retention job keeps running.              *)
FairSpec == Spec /\ WF_vars(DayPasses) /\ WF_vars(expire_action_intents)

Proposed == row.state # "absent"
Resolved == row.state \in Terminal

(* "claimed intents must never remain stuck": neither an executor that     *)
(* died nor a completion that was refused leaves an intent open for ever.  *)
Settles == Proposed ~> Resolved
=============================================================================
