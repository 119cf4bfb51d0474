------------------------------ MODULE ChatTurn ------------------------------
(***************************************************************************)
(* One recoverable chat turn of Li: the row of li_runtime_data.chat_turns  *)
(* that carries a stable turn identity, the database functions that claim, *)
(* fence and finish it, and the requests of POST /li/chat that call them.  *)
(*                                                                         *)
(* Every database function is one transaction under the row's lock, so it  *)
(* is one atomic step.  A request is many such steps, and between any two  *)
(* the lease can run out, another request can claim the same turn, the     *)
(* owner can delete the conversation, or the process can die.  A call      *)
(* answers, is refused, or commits while its answer is lost: the caller    *)
(* cannot tell the last two apart.                                         *)
(*                                                                         *)
(* A request enters the model when its claim is accepted.  It is known by  *)
(* the attempt token the claim drew, a number that is never drawn twice.   *)
(***************************************************************************)
EXTENDS Integers, FiniteSets

CONSTANTS
    MaxClaims,      \* bound: how many claims are ever accepted
    AttemptLimit,   \* CHECK(attempt_count BETWEEN 1 AND 20); 20 in the code
    OwnerDeletes    \* whether the owner may delete conversations

ASSUME BoundsAssumption ==
    /\ MaxClaims \in Nat \ {0}
    /\ AttemptLimit \in Nat \ {0}
    /\ OwnerDeletes \in BOOLEAN

VARIABLES
    row,            \* the chat_turns row
    claims,         \* number of accepted claims: the last token drawn
    pc,             \* per attempt: the next call the request makes
    conv,           \* per attempt: conversation_id of the request
    resumed,        \* per attempt: the local resumed_stage
    possible,       \* per attempt: progress["external_effect_possible"]
    noCapture,      \* per attempt: capture_error is set, or no analysis
    unsaved,        \* per attempt: conversation_history_error is set
    convs,          \* conversations that exist
    ownerMsgs,      \* attempts whose owner message is stored
    liMsgs,         \* attempts whose Li message is stored
    effects,        \* attempts that changed memory or the mailbox
    seen,           \* attempts whose response a client got as "completed"
    email,          \* the request carries an approved email draft
    named           \* the request names its conversation

local == <<conv, resumed, possible, noCapture, unsaved>>
store == <<convs, ownerMsgs, liMsgs>>
payload == <<email, named>>
vars == <<row, claims, pc, local, store, effects, seen, payload>>

Attempts == 1..MaxClaims
None == 0                       \* no token, no response
Unbound == -1                   \* conversation_id IS NULL
Named == 0                      \* the conversation the request names
Conversations == 0..MaxClaims   \* Named, or the attempt that created it

TurnStates ==
    {"absent", "accepted", "completed", "replay_expired", "failed", "uncertain"}
EffectStates == {"none", "prepared", "dispatched", "completed", "no_effect"}

Rank == [accepted |-> 0, conversation_bound |-> 1, message_saved |-> 2,
         action_prepared |-> 3, provider_dispatched |-> 4,
         provider_completed |-> 5, provider_no_effect |-> 5,
         model_started |-> 6, response_ready |-> 7]
Stages == DOMAIN Rank

(* The stages after which a reclaimed turn resumes at message_saved.       *)
Rewound ==
    {"action_prepared", "provider_no_effect", "model_started", "response_ready"}

NoRow == [state |-> "absent", attempts |-> 0, token |-> None, lease |-> FALSE,
          response |-> None, fresh |-> FALSE, conv |-> Unbound,
          effect |-> "none", started |-> FALSE, stage |-> "accepted"]

NewRow(t) == [NoRow EXCEPT !.state = "accepted", !.attempts = 1, !.token = t,
                           !.lease = TRUE, !.fresh = TRUE]

(* Attempt a belongs to the row that is stored now, not to one that the    *)
(* deletion of its conversation removed.                                   *)
Current(a) == claims - row.attempts < a /\ a <= claims

-----------------------------------------------------------------------------
(* The request's calls.                                                    *)

Goto(a, step) == pc' = [pc EXCEPT ![a] = step]

Steps == {"idle", "create", "bind", "mark_bound", "read_history", "append_owner",
          "mark_saved", "prepare", "dispatch", "send", "mark_sent", "changes",
          "write_change", "start_model", "answer", "deferred", "write_deferred",
          "append_li", "finish", "abort", "done"}

Answers == {"acked", "lost", "refused"}

(* A call that may fail: "lost" is committed, but its caller sees the same *)
(* error as "refused".                                                     *)
Reply(a, answer, ok, error) == Goto(a, IF answer = "acked" THEN ok ELSE error)

(* The request ends.  Its local variables are gone, but for the warning    *)
(* that the response it completed with carries.                            *)
End(a, recorded) ==
    /\ Goto(a, "done")
    /\ resumed' = [resumed EXCEPT ![a] = "accepted"]
    /\ possible' = [possible EXCEPT ![a] = FALSE]
    /\ noCapture' = [noCapture EXCEPT ![a] = FALSE]
    /\ unsaved' = [unsaved EXCEPT ![a] = @ /\ recorded]

(* A call that changes the row to new when can holds.                      *)
RowCall(a, can, new, ok, error) ==
    \E answer \in Answers :
        /\ answer # "refused" => can
        /\ row' = IF answer = "refused" THEN row ELSE new
        /\ Reply(a, answer, ok, error)

Holds(a) == row.state = "accepted" /\ row.token = a

(* Faulty forms end in a suffix that names the fault; the mutation runs    *)
(* put each in the place of the definition that follows it.                *)
EffectAfter_StoresStage(stage) == stage

EffectAfter(stage) ==
    CASE stage = "action_prepared" -> "prepared"
      [] stage = "provider_dispatched" -> "dispatched"
      [] stage = "provider_completed" -> "completed"
      [] stage = "provider_no_effect" -> "no_effect"
      [] OTHER -> row.effect

Contradicts(stage) ==
    \/ row.effect = "completed" /\ stage = "provider_no_effect"
    \/ row.effect = "no_effect"
       /\ stage \in {"provider_dispatched", "provider_completed"}

mark_chat_turn_progress(a, stage, ok, error) ==
    RowCall(a,
        /\ Holds(a)
        /\ Rank[stage] >= Rank[row.stage]
        /\ ~Contradicts(stage),
        [row EXCEPT
            !.stage = stage,
            !.started = @ \/ stage \in {"provider_dispatched", "provider_completed"},
            !.effect = EffectAfter(stage),
            !.lease = TRUE],
        ok, error)

mark_chat_turn_effect_started(a, ok, error) ==
    RowCall(a,
        Holds(a) /\ row.lease,
        [row EXCEPT !.started = TRUE, !.effect = "dispatched", !.lease = TRUE],
        ok, error)

(* A finish is refused when the row has another final state; repeated with *)
(* the same state it answers and changes nothing.                          *)
Finished(a, final, response) ==
    IF row.state = "accepted"
    THEN [row EXCEPT !.state = final, !.response = response]
    ELSE row

CanFinish_Unfenced(a, final) ==
    /\ row.state \in {"accepted", final}
    /\ final = "completed" => row.conv # Unbound

CanFinish(a, final) ==
    /\ row.token = a
    /\ row.state \in {"accepted", final}
    /\ final = "completed" => row.conv # Unbound

-----------------------------------------------------------------------------
(* begin_chat_turn, one action per outcome that changes something.  The    *)
(* outcomes in_progress, conflict, uncertain and replay_expired answer an  *)
(* error to the client and leave every variable as it is.                  *)

AfterBinding(stage) ==
    IF Rank[stage] < Rank["conversation_bound"] THEN "bind" ELSE "read_history"

(* The claim's answer reaches the request, or is lost and no work starts.  *)
Claimed(new) ==
    LET a == claims + 1
        c == IF named THEN Named ELSE new.conv IN
    /\ claims < MaxClaims
    /\ claims' = a
    /\ row' = new
    /\ conv' = [conv EXCEPT ![a] = c]
    /\ \/ /\ resumed' = [resumed EXCEPT ![a] = new.stage]
          /\ Goto(a, IF c = Unbound THEN "create" ELSE AfterBinding(new.stage))
       \/ Goto(a, "done") /\ UNCHANGED resumed
    /\ UNCHANGED <<possible, noCapture, unsaved, store, effects, seen, payload>>

ClaimNew ==
    /\ row.state = "absent"
    /\ Claimed(NewRow(claims + 1))

SafeToRepeat_IgnoresEffect ==
    row.state = "failed" \/ (row.state = "accepted" /\ ~row.lease)

SafeToRepeat ==
    \/ row.state = "failed"
    \/ /\ row.state = "accepted"
       /\ ~row.lease
       /\ row.effect \in {"none", "prepared", "no_effect"}

ClaimAgain ==
    /\ SafeToRepeat
    /\ row.attempts < AttemptLimit
    /\ Claimed([row EXCEPT
            !.state = "accepted", !.lease = TRUE, !.attempts = @ + 1,
            !.token = claims + 1,
            !.stage = IF @ \in Rewound THEN "message_saved" ELSE @])

GiveUp_OnlyAfterProvider ==
    /\ row.state = "accepted"
    /\ ~row.lease
    /\ row.effect = "completed"
    /\ row' = [row EXCEPT !.state = "uncertain"]
    /\ UNCHANGED <<claims, pc, local, store, effects, seen, payload>>

(* The lease ran out after an effect may have started.                     *)
GiveUp ==
    /\ row.state = "accepted"
    /\ ~row.lease
    /\ ~SafeToRepeat
    /\ row' = [row EXCEPT !.state = "uncertain"]
    /\ UNCHANGED <<claims, pc, local, store, effects, seen, payload>>

Replay ==
    /\ row.state = "completed"
    /\ row.fresh
    /\ seen' = seen \cup {row.response}
    /\ UNCHANGED <<row, claims, pc, local, store, effects, payload>>

(* expire_chat_replay_responses does to an expired response what the next  *)
(* claim of the turn would do.                                             *)
ExpireReplay ==
    /\ row.state = "completed"
    /\ ~row.fresh
    /\ row' = [row EXCEPT !.state = "replay_expired", !.response = None]
    /\ UNCHANGED <<claims, pc, local, store, effects, seen, payload>>

-----------------------------------------------------------------------------
(* _execute_li_chat.                                                       *)

create_conversation(a) ==
    /\ pc[a] = "create"
    /\ \E answer \in Answers :
        /\ convs' = IF answer = "refused" THEN convs ELSE convs \cup {a}
        /\ conv' = [conv EXCEPT ![a] = IF answer = "acked" THEN a ELSE @]
        /\ Reply(a, answer, AfterBinding(resumed[a]), "abort")
    /\ UNCHANGED <<row, claims, resumed, possible, noCapture, unsaved,
                   ownerMsgs, liMsgs, effects, seen, payload>>

bind_chat_turn_conversation_Rebinds(a) ==
    /\ pc[a] = "bind"
    /\ RowCall(a,
            row.state = "accepted" /\ conv[a] \in convs,
            [row EXCEPT !.conv = conv[a]],
            "mark_bound", "abort")
    /\ UNCHANGED <<claims, local, store, effects, seen, payload>>

(* The binding checks the state of the turn, not the token of the attempt. *)
bind_chat_turn_conversation(a) ==
    /\ pc[a] = "bind"
    /\ RowCall(a,
            /\ row.state = "accepted"
            /\ conv[a] \in convs
            /\ row.conv \in {Unbound, conv[a]},
            [row EXCEPT !.conv = conv[a]],
            "mark_bound", "abort")
    /\ UNCHANGED <<claims, local, store, effects, seen, payload>>

MarkBound(a) ==
    /\ pc[a] = "mark_bound"
    /\ mark_chat_turn_progress(a, "conversation_bound", "read_history", "abort")
    /\ UNCHANGED <<claims, local, store, effects, seen, payload>>

AfterSaving == IF email THEN "prepare" ELSE "changes"

get_recent_conversation_messages(a) ==
    /\ pc[a] = "read_history"
    /\ \/ /\ conv[a] \in convs
          /\ Goto(a, IF Rank[resumed[a]] < Rank["message_saved"]
                     THEN "append_owner" ELSE AfterSaving)
       \/ Goto(a, "abort")
    /\ UNCHANGED <<row, claims, local, store, effects, seen, payload>>

(* A message that cannot be stored is noted in the response; the turn goes *)
(* on without the message_saved mark.                                      *)
AppendOwner(a) ==
    /\ pc[a] = "append_owner"
    /\ \E answer \in Answers :
        /\ answer # "refused" => conv[a] \in convs
        /\ ownerMsgs' = IF answer = "refused" THEN ownerMsgs ELSE ownerMsgs \cup {a}
        /\ unsaved' = [unsaved EXCEPT ![a] = answer # "acked"]
        /\ Reply(a, answer, "mark_saved", AfterSaving)
    /\ UNCHANGED <<row, claims, conv, resumed, possible, noCapture, convs,
                   liMsgs, effects, seen, payload>>

MarkSaved(a) ==
    /\ pc[a] = "mark_saved"
    /\ mark_chat_turn_progress(a, "message_saved", AfterSaving, "abort")
    /\ UNCHANGED <<claims, local, store, effects, seen, payload>>

(* external_effect_possible is set between the two marks.                  *)
PrepareEmail(a) ==
    /\ pc[a] = "prepare"
    /\ mark_chat_turn_progress(a, "action_prepared", "dispatch", "abort")
    /\ possible' = [possible EXCEPT ![a] = pc'[a] = "dispatch"]
    /\ UNCHANGED <<claims, conv, resumed, noCapture, unsaved, store,
                   effects, seen, payload>>

DispatchEmail(a) ==
    /\ pc[a] = "dispatch"
    /\ mark_chat_turn_progress(a, "provider_dispatched", "send", "abort")
    /\ UNCHANGED <<claims, local, store, effects, seen, payload>>

(* execute_email_action: the provider's draft, which reports completed or  *)
(* failed and never raises.                                                *)
SendEmail(a) ==
    /\ pc[a] = "send"
    /\ \E answer \in Answers :
        /\ effects' = IF answer = "refused" THEN effects ELSE effects \cup {a}
        /\ Reply(a, answer, "mark_sent", "changes")
    /\ UNCHANGED <<row, claims, local, store, seen, payload>>

MarkSent(a) ==
    /\ pc[a] = "mark_sent"
    /\ mark_chat_turn_progress(a, "provider_completed", "changes", "abort")
    /\ UNCHANGED <<claims, local, store, effects, seen, payload>>

(* The message is analysed, and apply_memory_capture runs twice:           *)
(* corrections and forgetting before the model, storing and proposing      *)
(* after it.  It fences each candidate, then writes it.  The first failure *)
(* ends the capture, and one before the model leaves no later capture.     *)
CapturePhase == [changes |-> "start_model", deferred |-> "append_li"]
WriteOf == [changes |-> "write_change", deferred |-> "write_deferred"]

FailCapture(a) == noCapture' = [noCapture EXCEPT ![a] = TRUE]

EndCapture(a) ==
    /\ \E phase \in DOMAIN CapturePhase :
        /\ pc[a] = phase
        /\ Goto(a, CapturePhase[phase])
        /\ \/ UNCHANGED noCapture
           \/ phase = "changes" /\ FailCapture(a)
    /\ UNCHANGED <<row, claims, conv, resumed, possible, unsaved, store, effects,
                   seen, payload>>

before_memory_write_Unmarked(a) ==
    /\ \E phase \in DOMAIN CapturePhase :
        /\ pc[a] = phase
        /\ mark_chat_turn_effect_started(a, WriteOf[phase], CapturePhase[phase])
        /\ IF pc'[a] = WriteOf[phase] THEN UNCHANGED noCapture ELSE FailCapture(a)
    /\ UNCHANGED <<claims, conv, resumed, possible, unsaved, store, effects, seen,
                   payload>>

before_memory_write(a) ==
    /\ \E phase \in DOMAIN CapturePhase :
        /\ pc[a] = phase
        /\ mark_chat_turn_effect_started(a, WriteOf[phase], CapturePhase[phase])
        /\ IF pc'[a] = WriteOf[phase]
           THEN possible' = [possible EXCEPT ![a] = TRUE] /\ UNCHANGED noCapture
           ELSE FailCapture(a) /\ UNCHANGED possible
    /\ UNCHANGED <<claims, conv, resumed, unsaved, store, effects, seen, payload>>

WriteMemory(a) ==
    /\ \E phase \in DOMAIN CapturePhase, answer \in Answers :
        /\ pc[a] = WriteOf[phase]
        /\ effects' = IF answer = "refused" THEN effects ELSE effects \cup {a}
        /\ Reply(a, answer, phase, CapturePhase[phase])
        /\ IF answer = "acked" THEN UNCHANGED noCapture ELSE FailCapture(a)
    /\ UNCHANGED <<row, claims, conv, resumed, possible, unsaved, store, seen,
                   payload>>

StartModel(a) ==
    /\ pc[a] = "start_model"
    /\ mark_chat_turn_progress(a, "model_started", "answer", "abort")
    /\ UNCHANGED <<claims, local, store, effects, seen, payload>>

(* The model answers and the answer is marked ready, or either fails.      *)
talk_to_li(a) ==
    /\ pc[a] = "answer"
    /\ mark_chat_turn_progress(a, "response_ready",
            IF noCapture[a] THEN "append_li" ELSE "deferred", "abort")
    /\ UNCHANGED <<claims, local, store, effects, seen, payload>>

(* From here on nothing of the request is fenced by its token.             *)
AppendLi(a) ==
    /\ pc[a] = "append_li"
    /\ \E answer \in Answers :
        /\ answer # "refused" => conv[a] \in convs
        /\ liMsgs' = IF answer = "refused" THEN liMsgs ELSE liMsgs \cup {a}
        /\ unsaved' = [unsaved EXCEPT ![a] = @ \/ answer # "acked"]
        /\ Goto(a, "finish")
    /\ UNCHANGED <<row, claims, conv, resumed, possible, noCapture, convs,
                   ownerMsgs, effects, seen, payload>>

-----------------------------------------------------------------------------
(* li_chat_endpoint after _execute_li_chat.                                *)

(* The client is told "completed", or "durability_unavailable".            *)
Complete(a) ==
    /\ pc[a] = "finish"
    /\ \E answer \in Answers :
        /\ answer # "refused" => CanFinish(a, "completed")
        /\ row' = IF answer = "refused" THEN row ELSE Finished(a, "completed", a)
        /\ seen' = IF answer = "acked" THEN seen \cup {a} ELSE seen
        /\ End(a, row'.response = a)
    /\ UNCHANGED <<claims, conv, store, effects, payload>>

(* An error of the finish is swallowed: the row stays as it is.            *)
Abort(a) ==
    LET final == IF possible[a] THEN "uncertain" ELSE "failed" IN
    /\ pc[a] = "abort"
    /\ \/ CanFinish(a, final) /\ row' = Finished(a, final, None)
       \/ UNCHANGED row
    /\ End(a, FALSE)
    /\ UNCHANGED <<claims, conv, store, effects, seen, payload>>

(* The process is lost between two calls.                                  *)
Crash(a) ==
    /\ pc[a] \notin {"idle", "done"}
    /\ End(a, FALSE)
    /\ UNCHANGED <<row, claims, conv, store, effects, seen, payload>>

-----------------------------------------------------------------------------
(* The clock and the owner.                                                *)

LeaseRunsOut ==
    /\ row.state = "accepted"
    /\ row.lease
    /\ row' = [row EXCEPT !.lease = FALSE]
    /\ UNCHANGED <<claims, pc, local, store, effects, seen, payload>>

(* response_expires_at is set when the row is inserted and never renewed:  *)
(* a response recorded later than that is old at once.                     *)
ResponseAges ==
    /\ row.state = "completed"
    /\ row.fresh
    /\ row' = [row EXCEPT !.fresh = FALSE]
    /\ UNCHANGED <<claims, pc, local, store, effects, seen, payload>>

(* The turn and the messages go with their conversation.                   *)
DeleteConversation(c) ==
    /\ OwnerDeletes
    /\ c \in convs
    /\ convs' = convs \ {c}
    /\ ownerMsgs' = {a \in ownerMsgs : conv[a] # c}
    /\ liMsgs' = {a \in liMsgs : conv[a] # c}
    /\ row' = IF row.conv = c THEN NoRow ELSE row
    /\ UNCHANGED <<claims, pc, local, effects, seen, payload>>

-----------------------------------------------------------------------------
Init ==
    /\ row = NoRow
    /\ claims = 0
    /\ pc = [a \in Attempts |-> "idle"]
    /\ conv = [a \in Attempts |-> Unbound]
    /\ resumed = [a \in Attempts |-> "accepted"]
    /\ possible = [a \in Attempts |-> FALSE]
    /\ noCapture = [a \in Attempts |-> FALSE]
    /\ unsaved = [a \in Attempts |-> FALSE]
    /\ convs = {Named}
    /\ ownerMsgs = {}
    /\ liMsgs = {}
    /\ effects = {}
    /\ seen = {}
    /\ email \in BOOLEAN
    /\ named \in BOOLEAN

begin_chat_turn == ClaimNew \/ ClaimAgain \/ GiveUp \/ Replay \/ ExpireReplay

Request(a) ==
    \/ create_conversation(a) \/ bind_chat_turn_conversation(a) \/ MarkBound(a)
    \/ get_recent_conversation_messages(a) \/ AppendOwner(a) \/ MarkSaved(a)
    \/ PrepareEmail(a) \/ DispatchEmail(a) \/ SendEmail(a) \/ MarkSent(a)
    \/ EndCapture(a) \/ before_memory_write(a) \/ WriteMemory(a)
    \/ StartModel(a) \/ talk_to_li(a)
    \/ AppendLi(a) \/ Complete(a) \/ Abort(a)

Next ==
    \/ begin_chat_turn
    \/ \E a \in Attempts : Request(a) \/ Crash(a)
    \/ LeaseRunsOut \/ ResponseAges
    \/ \E c \in Conversations : DeleteConversation(c)

Spec == Init /\ [][Next]_vars

-----------------------------------------------------------------------------
(* Correctness.                                                            *)

(* The values of the variables; main.py's progress, 039's columns.         *)
RowType ==
    [state : TurnStates, attempts : 0..AttemptLimit, token : Attempts \cup {None},
     lease : BOOLEAN, response : Attempts \cup {None}, fresh : BOOLEAN,
     conv : Conversations \cup {Unbound}, effect : EffectStates,
     started : BOOLEAN, stage : Stages]

TypeOK ==
    /\ row \in RowType
    /\ claims \in 0..MaxClaims
    /\ pc \in [Attempts -> Steps]
    /\ conv \in [Attempts -> Conversations \cup {Unbound}]
    /\ resumed \in [Attempts -> Stages]
    /\ possible \in [Attempts -> BOOLEAN]
    /\ noCapture \in [Attempts -> BOOLEAN]
    /\ unsaved \in [Attempts -> BOOLEAN]
    /\ convs \subseteq Conversations
    /\ ownerMsgs \subseteq Attempts
    /\ liMsgs \subseteq Attempts
    /\ effects \subseteq Attempts
    /\ seen \subseteq Attempts
    /\ email \in BOOLEAN
    /\ named \in BOOLEAN

(* The fence has let the attempt through, and nothing stops its write.     *)
Entitled(a) == pc[a] \in {"send", "write_change", "write_deferred"}

(* However requests of a turn overlap, expire and are retried, only one of *)
(* them ever writes memory or creates the draft: the fence of migration    *)
(* 041 and the provider_dispatched mark, with the claim rule of 039.       *)
OneEffectfulAttempt ==
    \A a, b \in effects : Current(a) /\ Current(b) => a = b

(* The claim never hands out a turn again once an earlier attempt has had  *)
(* an effect or is on its way to one ("cannot make the same turn safe to   *)
(* repeat on lease expiry").                                               *)
RepeatIsSafe ==
    SafeToRepeat => \A a \in Attempts : Current(a) => a \notin effects /\ ~Entitled(a)

(* The response a completed turn replays is that of the attempt that had   *)
(* the effects, so its memory and email outcomes report them.              *)
ReplayReportsEffects ==
    row.state = "completed" => \A a \in effects : Current(a) => a = row.response

(* Clients told "completed" were all given one response, the recorded one, *)
(* by the finishing request or by replay, although a stale request may     *)
(* still be writing its own.                                               *)
CompletionsAgree ==
    \A a \in seen : Current(a) =>
        /\ row.state \in {"completed", "replay_expired"}
        /\ row.state = "completed" => row.response = a
        /\ \A b \in seen : Current(b) => a = b

(* Every stored message of the turn is in the conversation the turn is     *)
(* bound to, although bindings are not fenced and racing requests each     *)
(* create a conversation.                                                  *)
OneConversation ==
    \A a \in ownerMsgs \cup liMsgs : Current(a) => conv[a] = row.conv

(* Only a write that was let through makes a turn uncertain: a request     *)
(* without an email draft is never in doubt before a memory write was      *)
(* fenced ("Read-only failure is not mislabelled as an external effect").  *)
DoubtHasCause ==
    row.state = "uncertain" => email \/ row.started

(* Uncertain turns and recorded responses are final, until retention drops *)
(* the response or the owner drops the conversation: no late or repeated   *)
(* call of any request changes them.                                       *)
FinalStatesStay ==
    [][/\ row.state = "uncertain" => row'.state \in {"uncertain", "absent"}
       /\ row.state = "replay_expired" =>
            row'.state \in {"replay_expired", "absent"}
       /\ row.state = "completed" =>
            \/ row'.state = "completed" /\ row'.response = row.response
            \/ row'.state \in {"replay_expired", "absent"}]_vars

(* The same promise as one abstract specification.                         *)
Outcome ==
    CASE row.state = "completed" -> "completed"
      [] row.state = "uncertain" -> "uncertain"
      [] row.state = "replay_expired" -> "expired"
      [] OTHER -> "open"

Actor ==
    IF \E a \in effects : Current(a) THEN CHOOSE a \in effects : Current(a) ELSE None

Promise == INSTANCE TurnPromise
    WITH outcome <- Outcome, answer <- row.response, actor <- Actor

KeepsPromise == Promise!Spec

-----------------------------------------------------------------------------
(* Liveness, when the owner keeps retrying.  The server runs a request to  *)
(* its end unless it crashes, time passes, and the client repeats the turn *)
(* while it is told that the turn is in progress or failed.                *)
Fairness ==
    /\ \A a \in Attempts : WF_vars(Request(a))
    /\ WF_vars(LeaseRunsOut)
    /\ WF_vars(ClaimAgain \/ GiveUp)

FairSpec == Spec /\ Fairness

(* A turn whose request died or lost its answers does not stay in progress *)
(* for ever, unless all its attempts are used up, those of the row or      *)
(* those of the model's bound.                                             *)
Unstuck ==
    row.state = "accepted" ~>
        row.state # "accepted" \/ row.attempts = AttemptLimit \/ claims = MaxClaims

-----------------------------------------------------------------------------
(* A statement of the interface that the code breaks.                      *)

(* "Reply received and saved": a response that completed without a history *)
(* warning has its owner message in the conversation.                      *)
SavedReplyIsSaved ==
    \A a \in seen : Current(a) /\ ~unsaved[a] => \E b \in ownerMsgs : Current(b)
=============================================================================
