--------------------------- MODULE ChatTurnProofs ---------------------------
(***************************************************************************)
(* Proofs about ChatTurn for every number of claims and every limit on     *)
(* attempts, with or without an owner who deletes conversations.           *)
(*                                                                         *)
(* The argument: effects, answers and doubts always belong to the attempt  *)
(* that made the last claim.  A write needs an accepted row and leaves the *)
(* mark "dispatched" or "completed" on it before it happens, and no claim  *)
(* is accepted on a row with such a mark, nor once the row is final; so no *)
(* later claim takes the turn away from an attempt that may have written.  *)
(***************************************************************************)
EXTENDS ChatTurn, TLAPS

-----------------------------------------------------------------------------
(* The inductive invariant, in named parts.                                *)

(* A stored row belongs to the last claim, and so nobody but the last      *)
(* claimant holds it.                                                      *)
RowIsLastClaim ==
    IF row.state = "absent"
    THEN row = NoRow
    ELSE row.token = claims /\ 1 <= row.attempts /\ row.attempts <= claims

(* Attempts that were not claimed have done nothing.                       *)
UnclaimedIsIdle ==
    \A a \in Attempts :
        /\ a <= claims => pc[a] # "idle"
        /\ a > claims => /\ pc[a] = "idle" /\ ~possible[a]
                         /\ a \notin effects /\ a \notin seen

MayHaveEffect == row.effect \in {"dispatched", "completed"}

(* An effect is the last claim's, and the row says that there may be one.  *)
EffectIsMarked ==
    \A a \in effects : Current(a) =>
        /\ a = claims
        /\ row.state # "failed"
        /\ row.state = "accepted" => MayHaveEffect

(* So it was before the write.                                             *)
WriteIsMarked ==
    \A a \in Attempts : Entitled(a) /\ Current(a) =>
        /\ a = claims
        /\ possible[a]
        /\ row.state \in {"accepted", "uncertain"}
        /\ row.state = "accepted" => MayHaveEffect

(* A request that had an effect and still runs will not report "failed".   *)
EffectIsPossible ==
    /\ \A a \in effects : Current(a) /\ pc[a] # "done" => possible[a]
    /\ \A a \in Attempts : pc[a] = "dispatch" => possible[a]

BeforeEffects ==
    {"create", "bind", "mark_bound", "read_history", "append_owner", "mark_saved",
     "prepare", "dispatch"}

NoEarlyEffect ==
    \A a \in Attempts : pc[a] \in BeforeEffects => a \notin effects

(* What makes a request fear an effect.                                    *)
FearHasCause ==
    /\ \A a \in Attempts : possible[a] /\ Current(a) => email \/ row.started
    /\ \A a \in Attempts :
        pc[a] \in {"prepare", "dispatch", "send", "mark_sent"} => email
    /\ MayHaveEffect => row.started

AnswerIsHolders ==
    row.response = IF row.state = "completed" THEN claims ELSE None

SeenIsFinal ==
    \A a \in seen : Current(a) =>
        a = claims /\ row.state \in {"completed", "replay_expired"}

IInv ==
    /\ TypeOK
    /\ RowIsLastClaim
    /\ UnclaimedIsIdle
    /\ EffectIsMarked
    /\ WriteIsMarked
    /\ EffectIsPossible
    /\ NoEarlyEffect
    /\ FearHasCause
    /\ AnswerIsHolders
    /\ SeenIsFinal
    /\ DoubtHasCause

-----------------------------------------------------------------------------
(* What the calls do to the row.                                           *)

LEMMA RowFields ==
    ASSUME TypeOK
    PROVE  /\ row.state \in TurnStates /\ row.attempts \in 0..AttemptLimit
           /\ row.token \in Attempts \cup {None} /\ row.response \in Attempts \cup {None}
           /\ row.effect \in EffectStates /\ row.stage \in Stages
           /\ row.conv \in Conversations \cup {Unbound} /\ row.started \in BOOLEAN
  BY DEF TypeOK, RowType

(* The row keeps its owner, and its place among the claims.                *)
SameTurn ==
    /\ row' \in RowType
    /\ row'.token = row.token
    /\ row'.attempts = row.attempts

(* A mark that was accepted.                                               *)
Marks(a, effect) ==
    /\ row.state = "accepted" /\ row.token = a
    /\ SameTurn
    /\ row'.state = "accepted"
    /\ row'.response = row.response
    /\ row.started => row'.started
    /\ row'.effect = effect

LEMMA MarkProgress ==
    ASSUME TypeOK, NEW a \in Attempts, NEW stage \in Stages, NEW ok, NEW error,
           mark_chat_turn_progress(a, stage, ok, error)
    PROVE  \/ row' = row /\ pc' = [pc EXCEPT ![a] = error]
           \/ /\ Marks(a, EffectAfter(stage))
              /\ stage \in {"provider_dispatched", "provider_completed"} => row'.started
              /\ pc' \in {[pc EXCEPT ![a] = ok], [pc EXCEPT ![a] = error]}
<1> DEFINE new == [row EXCEPT
            !.stage = stage,
            !.started = @ \/ stage \in {"provider_dispatched", "provider_completed"},
            !.effect = EffectAfter(stage),
            !.lease = TRUE]
<1>1. row \in RowType
  BY DEF TypeOK
<1>2. EffectAfter(stage) \in EffectStates
  BY <1>1 DEF EffectAfter, EffectStates, RowType
<1>3. /\ new \in RowType
      /\ new.state = row.state /\ new.token = row.token
      /\ new.attempts = row.attempts /\ new.response = row.response
      /\ new.started =
            (row.started \/ stage \in {"provider_dispatched", "provider_completed"})
      /\ new.effect = EffectAfter(stage)
  BY <1>1, <1>2 DEF RowType
<1> HIDE DEF new
<1>4. PICK answer \in Answers :
        /\ answer # "refused" => Holds(a)
        /\ row' = IF answer = "refused" THEN row ELSE new
        /\ Reply(a, answer, ok, error)
  BY DEF mark_chat_turn_progress, RowCall, new
<1> QED
  BY <1>3, <1>4 DEF Marks, SameTurn, Reply, Goto, Holds, Answers

LEMMA EffectStarted ==
    ASSUME TypeOK, NEW a \in Attempts, NEW ok, NEW error,
           mark_chat_turn_effect_started(a, ok, error)
    PROVE  \/ row' = row /\ pc' = [pc EXCEPT ![a] = error]
           \/ /\ Marks(a, "dispatched")
              /\ row'.started
              /\ pc' \in {[pc EXCEPT ![a] = ok], [pc EXCEPT ![a] = error]}
<1> DEFINE new ==
        [row EXCEPT !.started = TRUE, !.effect = "dispatched", !.lease = TRUE]
<1>1. /\ new \in RowType
      /\ new.state = row.state /\ new.token = row.token
      /\ new.attempts = row.attempts /\ new.response = row.response
      /\ new.started /\ new.effect = "dispatched"
  BY DEF TypeOK, RowType, EffectStates
<1> HIDE DEF new
<1>2. PICK answer \in Answers :
        /\ answer # "refused" => Holds(a) /\ row.lease
        /\ row' = IF answer = "refused" THEN row ELSE new
        /\ Reply(a, answer, ok, error)
  BY DEF mark_chat_turn_effect_started, RowCall, new
<1> QED
  BY <1>1, <1>2 DEF Marks, SameTurn, Reply, Goto, Holds, Answers

LEMMA Finish ==
    ASSUME TypeOK, NEW a \in Attempts, NEW final \in {"completed", "failed", "uncertain"},
           NEW response \in Attempts \cup {None},
           CanFinish(a, final), row' = Finished(a, final, response)
    PROVE  /\ row.token = a
           /\ SameTurn /\ row'.started = row.started /\ row'.effect = row.effect
           /\ \/ /\ row.state = "accepted"
                 /\ row'.state = final /\ row'.response = response
              \/ row.state = final /\ row' = row
<1> DEFINE new == [row EXCEPT !.state = final, !.response = response]
<1>1. row \in RowType
  BY DEF TypeOK
<1>2. /\ new \in RowType
      /\ new.state = final /\ new.token = row.token
      /\ new.attempts = row.attempts /\ new.response = response
      /\ new.started = row.started /\ new.effect = row.effect
  BY <1>1 DEF RowType, TurnStates
<1> HIDE DEF new
<1>3. row' = IF row.state = "accepted" THEN new ELSE row
  BY DEF Finished, new
<1> QED
  BY <1>1, <1>2, <1>3 DEF CanFinish, SameTurn

LEMMA FirstClaim ==
    ASSUME TypeOK, ClaimNew
    PROVE  /\ row' \in RowType
           /\ row'.state = "accepted" /\ row'.token = claims + 1
           /\ row'.attempts = 1 /\ row'.response = None
           /\ row'.effect = "none" /\ ~row'.started /\ row'.stage = "accepted"
           /\ row'.conv = Unbound
<1>1. row' = [state |-> "accepted", attempts |-> 1, token |-> claims + 1,
              lease |-> TRUE, response |-> None, fresh |-> TRUE, conv |-> Unbound,
              effect |-> "none", started |-> FALSE, stage |-> "accepted"]
  BY DEF ClaimNew, Claimed, NewRow, NoRow
<1>2. claims + 1 \in Attempts /\ 1 \in 0..AttemptLimit
  BY BoundsAssumption DEF ClaimNew, Claimed, TypeOK, Attempts
<1>3. "accepted" \in Stages /\ "accepted" \in TurnStates /\ "none" \in EffectStates
  BY DEF Stages, Rank, TurnStates, EffectStates
<1> QED
  BY <1>1, <1>2, <1>3 DEF RowType

LEMMA RepeatedClaim ==
    ASSUME TypeOK, ClaimAgain
    PROVE  /\ row' \in RowType
           /\ row'.state = "accepted" /\ row'.token = claims + 1
           /\ row'.attempts = row.attempts + 1 /\ row'.response = row.response
           /\ row'.effect = row.effect /\ row'.started = row.started
           /\ row'.conv = row.conv
<1> DEFINE stage == IF row.stage \in Rewound THEN "message_saved" ELSE row.stage
           new == [row EXCEPT !.state = "accepted", !.lease = TRUE,
                              !.attempts = @ + 1, !.token = claims + 1, !.stage = stage]
<1>1. row \in RowType
  BY DEF TypeOK
<1>2. stage \in Stages
  BY <1>1 DEF RowType, Stages, Rank
<1>3. claims + 1 \in Attempts /\ row.attempts + 1 \in 0..AttemptLimit
  BY <1>1, BoundsAssumption DEF ClaimAgain, Claimed, TypeOK, RowType, Attempts
<1> HIDE DEF stage
<1>4. /\ new \in RowType
      /\ new.state = "accepted" /\ new.token = claims + 1
      /\ new.attempts = row.attempts + 1 /\ new.response = row.response
      /\ new.effect = row.effect /\ new.started = row.started /\ new.conv = row.conv
  BY <1>1, <1>2, <1>3 DEF RowType, TurnStates
<1>5. row' = new
  BY DEF ClaimAgain, Claimed, stage
<1> QED
  BY <1>4, <1>5

-----------------------------------------------------------------------------
(* Types.                                                                  *)

LEMMA StageNames ==
    Stages = {"accepted", "conversation_bound", "message_saved", "action_prepared",
              "provider_dispatched", "provider_completed", "provider_no_effect",
              "model_started", "response_ready"}
  BY DEF Stages, Rank

LEMMA Phases ==
    /\ DOMAIN CapturePhase = {"changes", "deferred"}
    /\ CapturePhase["changes"] = "start_model" /\ CapturePhase["deferred"] = "append_li"
    /\ WriteOf["changes"] = "write_change" /\ WriteOf["deferred"] = "write_deferred"
  BY DEF CapturePhase, WriteOf

LEMMA MarkTypes ==
    ASSUME TypeOK, NEW a \in Attempts, NEW stage \in Stages, NEW ok \in Steps,
           NEW error \in Steps, mark_chat_turn_progress(a, stage, ok, error)
    PROVE  row' \in RowType /\ pc' \in [Attempts -> Steps]
<1>1. row \in RowType /\ pc \in [Attempts -> Steps]
  BY DEF TypeOK
<1> QED
  BY <1>1, MarkProgress DEF Marks, SameTurn

LEMMA ClaimTypes ==
    ASSUME TypeOK, NEW new \in RowType, Claimed(new)
    PROVE  TypeOK'
<1>1. claims' \in Attempts /\ claims + 1 = claims'
  BY BoundsAssumption DEF Claimed, TypeOK, Attempts
<1>2. new.conv \in Conversations \cup {Unbound} /\ new.stage \in Stages
  BY DEF RowType
<1>3. AfterBinding(new.stage) \in Steps
  BY DEF AfterBinding, Steps
<1>4. row' \in RowType
  BY DEF Claimed
<1>5. claims' \in 0..MaxClaims
  BY <1>1 DEF Attempts
<1>6. pc' \in [Attempts -> Steps]
  BY <1>1, <1>3 DEF Claimed, TypeOK, Goto, Steps
<1>7. conv' \in [Attempts -> Conversations \cup {Unbound}]
  BY <1>1, <1>2, BoundsAssumption DEF Claimed, TypeOK, Conversations, Named
<1>8. resumed' \in [Attempts -> Stages]
  BY <1>1, <1>2 DEF Claimed, TypeOK
<1> QED
  BY <1>4, <1>5, <1>6, <1>7, <1>8 DEF Claimed, TypeOK, store, payload

LEMMA TypeStep ==
    ASSUME TypeOK, RowIsLastClaim, AnswerIsHolders, [Next]_vars
    PROVE  TypeOK'
<1> USE DEF local, store, payload
<1>a. row \in RowType /\ pc \in [Attempts -> Steps]
  BY DEF TypeOK
<1>1. ASSUME ClaimNew PROVE TypeOK'
  BY <1>1, FirstClaim, ClaimTypes DEF ClaimNew, Claimed
<1>2. ASSUME ClaimAgain PROVE TypeOK'
  BY <1>2, RepeatedClaim, ClaimTypes DEF ClaimAgain, Claimed
<1>3. ASSUME GiveUp PROVE TypeOK'
  <2>1. row' \in RowType
    BY <1>3, <1>a DEF GiveUp, RowType, TurnStates
  <2> QED
    BY <1>3, <2>1 DEF TypeOK, GiveUp
<1>4. ASSUME Replay PROVE TypeOK'
  <2>1. row.response \in Attempts
    BY <1>4 DEF Replay, RowIsLastClaim, AnswerIsHolders, TypeOK, RowType, Attempts
  <2> QED
    BY <1>4, <2>1 DEF TypeOK, Replay
<1>5. ASSUME ExpireReplay PROVE TypeOK'
  <2>1. row' \in RowType
    BY <1>5, <1>a DEF ExpireReplay, RowType, TurnStates
  <2> QED
    BY <1>5, <2>1 DEF TypeOK, ExpireReplay
<1>6. ASSUME NEW a \in Attempts, create_conversation(a) PROVE TypeOK'
  BY <1>6 DEF TypeOK, create_conversation, AfterBinding, Reply, Goto, Steps, Conversations, Attempts
<1>7. ASSUME NEW a \in Attempts, bind_chat_turn_conversation(a) PROVE TypeOK'
  <2>1. conv[a] \in Conversations \cup {Unbound}
    BY DEF TypeOK
  <2>2. [row EXCEPT !.conv = conv[a]] \in RowType
    BY <1>a, <2>1 DEF RowType
  <2>3. row' \in RowType /\ pc' \in [Attempts -> Steps]
    BY <1>7, <1>a, <2>2 DEF bind_chat_turn_conversation, RowCall, Reply, Goto, Steps
  <2> QED
    BY <1>7, <2>3 DEF TypeOK, bind_chat_turn_conversation
<1>8. ASSUME NEW a \in Attempts, MarkBound(a) PROVE TypeOK'
  <2>1. row' \in RowType /\ pc' \in [Attempts -> Steps]
    BY <1>8, MarkTypes, StageNames DEF MarkBound, Steps
  <2> QED
    BY <1>8, <2>1 DEF TypeOK, MarkBound
<1>9. ASSUME NEW a \in Attempts, get_recent_conversation_messages(a) PROVE TypeOK'
  BY <1>9 DEF TypeOK, get_recent_conversation_messages, AfterSaving, Goto, Steps
<1>10. ASSUME NEW a \in Attempts, AppendOwner(a) PROVE TypeOK'
  BY <1>10 DEF TypeOK, AppendOwner, AfterSaving, Reply, Goto, Steps
<1>11. ASSUME NEW a \in Attempts, MarkSaved(a) PROVE TypeOK'
  <2>1. row' \in RowType /\ pc' \in [Attempts -> Steps]
    BY <1>11, MarkTypes, StageNames DEF MarkSaved, Steps, AfterSaving
  <2> QED
    BY <1>11, <2>1 DEF TypeOK, MarkSaved
<1>12. ASSUME NEW a \in Attempts, PrepareEmail(a) PROVE TypeOK'
  <2>1. row' \in RowType /\ pc' \in [Attempts -> Steps]
    BY <1>12, MarkTypes, StageNames DEF PrepareEmail, Steps
  <2> QED
    BY <1>12, <2>1 DEF TypeOK, PrepareEmail
<1>13. ASSUME NEW a \in Attempts, DispatchEmail(a) PROVE TypeOK'
  <2>1. row' \in RowType /\ pc' \in [Attempts -> Steps]
    BY <1>13, MarkTypes, StageNames DEF DispatchEmail, Steps
  <2> QED
    BY <1>13, <2>1 DEF TypeOK, DispatchEmail
<1>14. ASSUME NEW a \in Attempts, SendEmail(a) PROVE TypeOK'
  <2>1. pc' \in [Attempts -> Steps]
    BY <1>14, <1>a DEF SendEmail, Reply, Goto, Steps
  <2> QED
    BY <1>14, <2>1 DEF TypeOK, SendEmail
<1>15. ASSUME NEW a \in Attempts, MarkSent(a) PROVE TypeOK'
  <2>1. row' \in RowType /\ pc' \in [Attempts -> Steps]
    BY <1>15, MarkTypes, StageNames DEF MarkSent, Steps
  <2> QED
    BY <1>15, <2>1 DEF TypeOK, MarkSent
<1>16. ASSUME NEW a \in Attempts, EndCapture(a) PROVE TypeOK'
  <2>1. pc' \in [Attempts -> Steps]
    BY <1>16, <1>a, Phases DEF EndCapture, Goto, Steps
  <2> QED
    BY <1>16, <2>1 DEF TypeOK, EndCapture, FailCapture
<1>17. ASSUME NEW a \in Attempts, before_memory_write(a) PROVE TypeOK'
  <2>1. row' \in RowType /\ pc' \in [Attempts -> Steps]
    <3>1. PICK phase \in {"changes", "deferred"} :
            mark_chat_turn_effect_started(a, WriteOf[phase], CapturePhase[phase])
      BY <1>17, Phases DEF before_memory_write
    <3> QED
      BY <1>a, <3>1, EffectStarted, Phases DEF Marks, SameTurn, Steps
  <2>2. /\ noCapture' \in [Attempts -> BOOLEAN] /\ possible' \in [Attempts -> BOOLEAN]
    BY <1>17 DEF TypeOK, before_memory_write, FailCapture
  <2> QED
    BY <1>17, <2>1, <2>2 DEF TypeOK, before_memory_write
<1>18. ASSUME NEW a \in Attempts, WriteMemory(a) PROVE TypeOK'
  <2>1. pc' \in [Attempts -> Steps]
    BY <1>18, <1>a, Phases DEF WriteMemory, Reply, Goto, Steps
  <2> QED
    BY <1>18, <2>1 DEF TypeOK, WriteMemory, FailCapture
<1>19. ASSUME NEW a \in Attempts, StartModel(a) PROVE TypeOK'
  <2>1. row' \in RowType /\ pc' \in [Attempts -> Steps]
    BY <1>19, MarkTypes, StageNames DEF StartModel, Steps
  <2> QED
    BY <1>19, <2>1 DEF TypeOK, StartModel
<1>20. ASSUME NEW a \in Attempts, talk_to_li(a) PROVE TypeOK'
  <2>1. row' \in RowType /\ pc' \in [Attempts -> Steps]
    BY <1>20, MarkTypes, StageNames DEF talk_to_li, Steps
  <2> QED
    BY <1>20, <2>1 DEF TypeOK, talk_to_li
<1>21. ASSUME NEW a \in Attempts, AppendLi(a) PROVE TypeOK'
  BY <1>21 DEF TypeOK, AppendLi, Goto, Steps
<1>22. ASSUME NEW a \in Attempts, Complete(a) PROVE TypeOK'
  <2>1. row' \in RowType
    BY <1>22, <1>a, Finish DEF Complete, SameTurn, Answers
  <2> QED
    BY <1>22, <2>1, StageNames DEF TypeOK, Complete, End, Goto, Steps
<1>23. ASSUME NEW a \in Attempts, Abort(a) PROVE TypeOK'
  <2>1. row' \in RowType
    BY <1>23, <1>a, Finish DEF Abort, SameTurn, Answers
  <2> QED
    BY <1>23, <2>1, StageNames DEF TypeOK, Abort, End, Goto, Steps
<1>24. ASSUME NEW a \in Attempts, Crash(a) PROVE TypeOK'
  BY <1>24, StageNames DEF TypeOK, Crash, End, Goto, Steps
<1>25. ASSUME LeaseRunsOut PROVE TypeOK'
  <2>1. row' \in RowType
    BY <1>25, <1>a DEF LeaseRunsOut, RowType
  <2> QED
    BY <1>25, <2>1 DEF TypeOK, LeaseRunsOut
<1>26. ASSUME ResponseAges PROVE TypeOK'
  <2>1. row' \in RowType
    BY <1>26, <1>a DEF ResponseAges, RowType
  <2> QED
    BY <1>26, <2>1 DEF TypeOK, ResponseAges
<1>27. ASSUME NEW c \in Conversations, DeleteConversation(c) PROVE TypeOK'
  <2>1. NoRow \in RowType
    BY StageNames, BoundsAssumption
    DEF NoRow, RowType, TurnStates, EffectStates, None, Unbound
  <2> QED
    BY <1>27, <2>1 DEF TypeOK, DeleteConversation
<1>28. ASSUME UNCHANGED vars PROVE TypeOK'
  BY <1>28 DEF TypeOK, vars
<1> QED
  BY <1>1, <1>2, <1>3, <1>4, <1>5, <1>6, <1>7, <1>8, <1>9, <1>10, <1>11, <1>12, <1>13, <1>14, <1>15, <1>16, <1>17, <1>18, <1>19, <1>20, <1>21, <1>22, <1>23, <1>24, <1>25, <1>26, <1>27, <1>28 DEF Next, begin_chat_turn, Request

-----------------------------------------------------------------------------
(* Safety: what a step does to the rest of the invariant.                  *)

Safe ==
    /\ RowIsLastClaim
    /\ UnclaimedIsIdle
    /\ EffectIsMarked
    /\ WriteIsMarked
    /\ EffectIsPossible
    /\ NoEarlyEffect
    /\ FearHasCause
    /\ AnswerIsHolders
    /\ SeenIsFinal
    /\ DoubtHasCause

(* The row changes at most in what the invariant does not look at.         *)
RowIsAlike ==
    \/ row' = row
    \/ /\ row.state # "absent"
       /\ SameTurn
       /\ row'.state = row.state /\ row'.response = row.response
       /\ row'.effect = row.effect
       /\ row.started => row'.started

(* The request moves on, to a step that it may take whatever it has done.  *)
MovesOn(a, step) ==
    /\ pc[a] # "idle" /\ pc[a] # "done"
    /\ pc' = [pc EXCEPT ![a] = step]
    /\ step \notin {"idle", "dispatch", "send", "write_change", "write_deferred"}
    /\ step \in BeforeEffects => pc[a] \in BeforeEffects
    /\ step \in {"prepare", "mark_sent"} => email
    /\ \/ possible' = possible
       \/ step = "done" /\ possible' = [possible EXCEPT ![a] = FALSE]

Quiet ==
    /\ RowIsAlike
    /\ UNCHANGED <<claims, effects, seen, email>>
    /\ \/ UNCHANGED <<pc, possible>>
       \/ \E a \in Attempts, step \in Steps : MovesOn(a, step)

(* Seen from the invariant, attempt b did not get further.                 *)
MovesFrom(b) ==
    /\ possible'[b] => possible[b]
    /\ possible[b] => possible'[b] \/ pc'[b] = "done"
    /\ pc'[b] = "idle" <=> pc[b] = "idle"
    /\ pc[b] = "done" => pc'[b] = "done"
    /\ Entitled(b)' => Entitled(b)
    /\ pc'[b] = "dispatch" => pc[b] = "dispatch"
    /\ pc'[b] \in BeforeEffects => pc[b] \in BeforeEffects
    /\ pc'[b] \in {"prepare", "dispatch", "send", "mark_sent"} =>
          email \/ pc[b] \in {"prepare", "dispatch", "send", "mark_sent"}

LEMMA QuietStep ==
    ASSUME TypeOK, Safe, Quiet
    PROVE  Safe'
<1>1. /\ row'.state = row.state /\ row'.token = row.token
      /\ row'.attempts = row.attempts /\ row'.response = row.response
      /\ row'.effect = row.effect /\ (row.started => row'.started)
  BY DEF Quiet, RowIsAlike, SameTurn
<1>r. row.state = "absent" => row' = row
  BY DEF Quiet, RowIsAlike
<1>2. pc \in [Attempts -> Steps] /\ possible \in [Attempts -> BOOLEAN]
      /\ effects \subseteq Attempts /\ seen \subseteq Attempts
      /\ claims \in Nat /\ row.attempts \in Nat
  BY RowFields, BoundsAssumption DEF TypeOK
<1>u. claims' = claims /\ effects' = effects /\ seen' = seen /\ (email <=> email')
  BY DEF Quiet, TypeOK
<1>3. \A a \in Attempts : Current(a)' <=> Current(a)
  BY <1>1, <1>u DEF Current
<1>4. \A b \in Attempts : MovesFrom(b)
  <2>1. CASE UNCHANGED <<pc, possible>>
    BY <2>1 DEF MovesFrom, Entitled
  <2>2. ASSUME NEW a \in Attempts, NEW step \in Steps, MovesOn(a, step)
        PROVE  \A b \in Attempts : MovesFrom(b)
    BY <1>2, <2>2 DEF MovesOn, MovesFrom, Entitled
  <2> QED
    BY <2>1, <2>2 DEF Quiet
<1> USE <1>1, <1>2, <1>3, <1>4, <1>u DEF Safe, MovesFrom
<1>5. RowIsLastClaim'
  BY <1>r DEF RowIsLastClaim
<1>6. UnclaimedIsIdle'
  BY DEF UnclaimedIsIdle
<1>7. EffectIsMarked' /\ SeenIsFinal'
  BY DEF EffectIsMarked, SeenIsFinal, MayHaveEffect
<1>8. WriteIsMarked'
  BY DEF WriteIsMarked, MayHaveEffect, Entitled
<1>9. EffectIsPossible' /\ NoEarlyEffect'
  BY DEF EffectIsPossible, NoEarlyEffect
<1>10. FearHasCause'
  BY DEF FearHasCause, MayHaveEffect
<1>11. AnswerIsHolders' /\ DoubtHasCause'
  BY DEF AnswerIsHolders, DoubtHasCause
<1> QED
  BY <1>5, <1>6, <1>7, <1>8, <1>9, <1>10, <1>11

LEMMA MarkIsQuiet ==
    ASSUME TypeOK, NEW a \in Attempts, NEW stage \in Stages, NEW ok \in Steps,
           NEW error \in Steps, mark_chat_turn_progress(a, stage, ok, error),
           stage \in {"conversation_bound", "message_saved", "model_started",
                     "response_ready"}
    PROVE  /\ RowIsAlike
           /\ pc' = [pc EXCEPT ![a] = ok] \/ pc' = [pc EXCEPT ![a] = error]
<1>1. EffectAfter(stage) = row.effect
  BY DEF EffectAfter
<1> QED
  BY <1>1, MarkProgress DEF RowIsAlike, Marks

LEMMA QuietRequest ==
    ASSUME TypeOK, Safe, NEW a \in Attempts,
           \/ create_conversation(a) \/ bind_chat_turn_conversation(a) \/ MarkBound(a)
           \/ get_recent_conversation_messages(a) \/ AppendOwner(a) \/ MarkSaved(a)
           \/ EndCapture(a) \/ StartModel(a) \/ talk_to_li(a) \/ AppendLi(a)
           \/ Crash(a)
    PROVE  Safe'
<1> USE DEF local, store, payload, MovesOn, BeforeEffects, Steps
<1>1. CASE create_conversation(a)
  <2>1. \E step \in Steps : MovesOn(a, step)
    BY <1>1 DEF create_conversation, Reply, Goto, AfterBinding
  <2>2. RowIsAlike /\ UNCHANGED <<claims, effects, seen, email>>
    BY <1>1 DEF create_conversation, RowIsAlike
  <2> QED
    BY <2>1, <2>2, QuietStep DEF Quiet
<1>2. CASE bind_chat_turn_conversation(a)
  <2>1. \E step \in Steps : MovesOn(a, step)
    BY <1>2 DEF bind_chat_turn_conversation, RowCall, Reply, Goto
  <2>2. \/ row' = row
        \/ row.state = "accepted" /\ row' = [row EXCEPT !.conv = conv[a]]
    BY <1>2 DEF bind_chat_turn_conversation, RowCall
  <2>3. conv[a] \in Conversations \cup {Unbound} /\ row \in RowType
    BY DEF TypeOK
  <2>4. RowIsAlike
    BY <2>2, <2>3 DEF RowType, SameTurn, RowIsAlike
  <2>5. UNCHANGED <<claims, effects, seen, email>>
    BY <1>2 DEF bind_chat_turn_conversation
  <2> QED
    BY <2>1, <2>4, <2>5, QuietStep DEF Quiet
<1>3. CASE MarkBound(a)
  <2>1. RowIsAlike /\ \E step \in {"read_history", "abort"} : pc' = [pc EXCEPT ![a] = step]
    BY <1>3, MarkIsQuiet, StageNames DEF MarkBound
  <2>2. \E step \in Steps : MovesOn(a, step)
    BY <1>3, <2>1 DEF MarkBound
  <2>3. UNCHANGED <<claims, effects, seen, email>>
    BY <1>3 DEF MarkBound
  <2> QED
    BY <2>1, <2>2, <2>3, QuietStep DEF Quiet
<1>4. CASE get_recent_conversation_messages(a)
  <2>1. \E step \in Steps : MovesOn(a, step)
    BY <1>4 DEF get_recent_conversation_messages, Goto, AfterSaving
  <2>2. RowIsAlike /\ UNCHANGED <<claims, effects, seen, email>>
    BY <1>4 DEF get_recent_conversation_messages, RowIsAlike
  <2> QED
    BY <2>1, <2>2, QuietStep DEF Quiet
<1>5. CASE AppendOwner(a)
  <2>1. \E step \in Steps : MovesOn(a, step)
    BY <1>5 DEF AppendOwner, Reply, Goto, AfterSaving
  <2>2. RowIsAlike /\ UNCHANGED <<claims, effects, seen, email>>
    BY <1>5 DEF AppendOwner, RowIsAlike
  <2> QED
    BY <2>1, <2>2, QuietStep DEF Quiet
<1>6. CASE MarkSaved(a)
  <2>1. RowIsAlike /\ \E step \in {AfterSaving, "abort"} : pc' = [pc EXCEPT ![a] = step]
    BY <1>6, MarkIsQuiet, StageNames DEF MarkSaved, AfterSaving
  <2>2. \E step \in Steps : MovesOn(a, step)
    BY <1>6, <2>1 DEF MarkSaved, AfterSaving
  <2>3. UNCHANGED <<claims, effects, seen, email>>
    BY <1>6 DEF MarkSaved
  <2> QED
    BY <2>1, <2>2, <2>3, QuietStep DEF Quiet
<1>7. CASE EndCapture(a)
  <2>1. \E step \in Steps : MovesOn(a, step)
    BY <1>7, Phases DEF EndCapture, Goto
  <2>2. RowIsAlike /\ UNCHANGED <<claims, effects, seen, email>>
    BY <1>7, Phases DEF EndCapture, RowIsAlike
  <2> QED
    BY <2>1, <2>2, QuietStep DEF Quiet
<1>8. CASE StartModel(a)
  <2>1. RowIsAlike /\ \E step \in {"answer", "abort"} : pc' = [pc EXCEPT ![a] = step]
    BY <1>8, MarkIsQuiet, StageNames DEF StartModel
  <2>2. \E step \in Steps : MovesOn(a, step)
    BY <1>8, <2>1 DEF StartModel
  <2>3. UNCHANGED <<claims, effects, seen, email>>
    BY <1>8 DEF StartModel
  <2> QED
    BY <2>1, <2>2, <2>3, QuietStep DEF Quiet
<1>9. CASE talk_to_li(a)
  <2>1. RowIsAlike /\ \E step \in {"append_li", "deferred", "abort"} : pc' = [pc EXCEPT ![a] = step]
    BY <1>9, MarkIsQuiet, StageNames DEF talk_to_li
  <2>2. \E step \in Steps : MovesOn(a, step)
    BY <1>9, <2>1 DEF talk_to_li
  <2>3. UNCHANGED <<claims, effects, seen, email>>
    BY <1>9 DEF talk_to_li
  <2> QED
    BY <2>1, <2>2, <2>3, QuietStep DEF Quiet
<1>10. CASE AppendLi(a)
  <2>1. \E step \in Steps : MovesOn(a, step)
    BY <1>10 DEF AppendLi, Goto
  <2>2. RowIsAlike /\ UNCHANGED <<claims, effects, seen, email>>
    BY <1>10 DEF AppendLi, RowIsAlike
  <2> QED
    BY <2>1, <2>2, QuietStep DEF Quiet
<1>11. CASE Crash(a)
  <2>1. \E step \in Steps : MovesOn(a, step)
    BY <1>11 DEF Crash, End, Goto
  <2>2. RowIsAlike /\ UNCHANGED <<claims, effects, seen, email>>
    BY <1>11 DEF Crash, RowIsAlike
  <2> QED
    BY <2>1, <2>2, QuietStep DEF Quiet
<1> QED
  BY <1>1, <1>2, <1>3, <1>4, <1>5, <1>6, <1>7, <1>8, <1>9, <1>10, <1>11

LEMMA QuietClock ==
    ASSUME TypeOK, Safe, LeaseRunsOut \/ ResponseAges \/ UNCHANGED vars
    PROVE  Safe'
<1>1. RowIsAlike
  BY DEF TypeOK, RowType, RowIsAlike, SameTurn, LeaseRunsOut, ResponseAges, vars
<1>2. UNCHANGED <<claims, effects, seen, email, pc, possible>>
  BY DEF LeaseRunsOut, ResponseAges, vars, local, payload
<1> QED
  BY <1>1, <1>2, QuietStep DEF Quiet

-----------------------------------------------------------------------------
(* The email draft: prepared, dispatched, sent.                            *)

LEMMA SafePrepareEmail ==
    ASSUME TypeOK, Safe, NEW a \in Attempts, PrepareEmail(a)
    PROVE  Safe'
<1>t. /\ pc \in [Attempts -> Steps] /\ possible \in [Attempts -> BOOLEAN]
      /\ effects \subseteq Attempts /\ seen \subseteq Attempts
      /\ claims \in Nat /\ row.attempts \in Nat
  BY RowFields, BoundsAssumption DEF TypeOK
<1>1. /\ row'.state = row.state /\ row'.token = row.token
      /\ row'.attempts = row.attempts /\ row'.response = row.response
      /\ (row.started => row'.started)
      /\ (row' = row \/ (row.state = "accepted" /\ claims = a))
      /\ row' = row \/ row'.effect = "prepared"
      /\ pc' = [pc EXCEPT ![a] = "dispatch"] \/ pc' = [pc EXCEPT ![a] = "abort"]
  BY MarkProgress, StageNames DEF PrepareEmail, Marks, SameTurn, EffectAfter, Safe, RowIsLastClaim
<1>2. /\ pc[a] = "prepare" /\ effects' = effects
      /\ possible' = [possible EXCEPT ![a] = pc'[a] = "dispatch"]
  BY DEF PrepareEmail
<1>u. claims' = claims /\ seen' = seen /\ (email <=> email')
  BY DEF PrepareEmail, payload, TypeOK
<1>w. \A b \in Attempts : Current(b)' <=> Current(b)
  BY <1>1, <1>t, <1>u DEF Current
<1> USE <1>1, <1>2, <1>t, <1>u, <1>w DEF Safe
<1>c1. RowIsLastClaim'
  BY DEF RowIsLastClaim
<1>c2. UnclaimedIsIdle'
  BY DEF UnclaimedIsIdle
<1>c3. EffectIsMarked' /\ SeenIsFinal'
  BY DEF EffectIsMarked, SeenIsFinal, MayHaveEffect, NoEarlyEffect, BeforeEffects
<1>c4. WriteIsMarked'
  BY DEF WriteIsMarked, EffectIsPossible, MayHaveEffect, Entitled
<1>c5. EffectIsPossible' /\ NoEarlyEffect'
  BY DEF EffectIsPossible, NoEarlyEffect, BeforeEffects
<1>c6. FearHasCause'
  BY DEF FearHasCause, MayHaveEffect
<1>c7. AnswerIsHolders' /\ DoubtHasCause'
  BY DEF AnswerIsHolders, DoubtHasCause
<1> QED
  BY <1>c1, <1>c2, <1>c3, <1>c4, <1>c5, <1>c6, <1>c7

LEMMA SafeDispatchEmail ==
    ASSUME TypeOK, Safe, NEW a \in Attempts, DispatchEmail(a)
    PROVE  Safe'
<1>t. /\ pc \in [Attempts -> Steps] /\ possible \in [Attempts -> BOOLEAN]
      /\ effects \subseteq Attempts /\ seen \subseteq Attempts
      /\ claims \in Nat /\ row.attempts \in Nat
  BY RowFields, BoundsAssumption DEF TypeOK
<1>1. /\ row'.state = row.state /\ row'.token = row.token
      /\ row'.attempts = row.attempts /\ row'.response = row.response
      /\ (row.started => row'.started)
      /\ (row' = row \/ (row.state = "accepted" /\ claims = a))
      /\ \/ row'.effect = "dispatched" /\ row'.started
            /\ row.state = "accepted" /\ claims = a
         \/ row' = row /\ pc' = [pc EXCEPT ![a] = "abort"]
      /\ pc' = [pc EXCEPT ![a] = "send"] \/ pc' = [pc EXCEPT ![a] = "abort"]
  BY MarkProgress, StageNames
  DEF DispatchEmail, Marks, SameTurn, EffectAfter, Safe, RowIsLastClaim
<1>2. pc[a] = "dispatch" /\ effects' = effects /\ possible' = possible
  BY DEF DispatchEmail, local
<1>3. /\ \A b \in Attempts : b # a => (Entitled(b)' <=> Entitled(b))
      /\ possible[a]
      /\ Entitled(a)' => row'.effect = "dispatched" /\ row.state = "accepted" /\ claims = a
  BY <1>1, <1>2, <1>t DEF Entitled, Safe, EffectIsPossible
<1>u. claims' = claims /\ seen' = seen /\ (email <=> email')
  BY DEF DispatchEmail, payload, TypeOK
<1>w. \A b \in Attempts : Current(b)' <=> Current(b)
  BY <1>1, <1>t, <1>u DEF Current
<1> USE <1>3
<1> USE <1>1, <1>2, <1>t, <1>u, <1>w DEF Safe
<1>c1. RowIsLastClaim'
  BY DEF RowIsLastClaim
<1>c2. UnclaimedIsIdle'
  BY DEF UnclaimedIsIdle
<1>c3. EffectIsMarked' /\ SeenIsFinal'
  BY DEF EffectIsMarked, SeenIsFinal, MayHaveEffect, NoEarlyEffect, BeforeEffects
<1>c4. WriteIsMarked'
  BY DEF WriteIsMarked, EffectIsPossible, MayHaveEffect, Entitled
<1>c5. EffectIsPossible' /\ NoEarlyEffect'
  BY DEF EffectIsPossible, NoEarlyEffect, BeforeEffects
<1>c6. FearHasCause'
  BY DEF FearHasCause, MayHaveEffect
<1>c7. AnswerIsHolders' /\ DoubtHasCause'
  BY DEF AnswerIsHolders, DoubtHasCause
<1> QED
  BY <1>c1, <1>c2, <1>c3, <1>c4, <1>c5, <1>c6, <1>c7

LEMMA SafeMarkSent ==
    ASSUME TypeOK, Safe, NEW a \in Attempts, MarkSent(a)
    PROVE  Safe'
<1>t. /\ pc \in [Attempts -> Steps] /\ possible \in [Attempts -> BOOLEAN]
      /\ effects \subseteq Attempts /\ seen \subseteq Attempts
      /\ claims \in Nat /\ row.attempts \in Nat
  BY RowFields, BoundsAssumption DEF TypeOK
<1>1. /\ row'.state = row.state /\ row'.token = row.token
      /\ row'.attempts = row.attempts /\ row'.response = row.response
      /\ (row.started => row'.started)
      /\ (row' = row \/ (row.state = "accepted" /\ claims = a))
      /\ \/ row'.effect = "completed" /\ row'.started
            /\ row.state = "accepted" /\ claims = a
         \/ row' = row /\ pc' = [pc EXCEPT ![a] = "abort"]
      /\ pc' = [pc EXCEPT ![a] = "changes"] \/ pc' = [pc EXCEPT ![a] = "abort"]
  BY MarkProgress, StageNames
  DEF MarkSent, Marks, SameTurn, EffectAfter, Safe, RowIsLastClaim
<1>2. pc[a] = "mark_sent" /\ effects' = effects /\ possible' = possible
  BY DEF MarkSent, local
<1>3. /\ \A b \in Attempts : b # a => (Entitled(b)' <=> Entitled(b))
      /\ ~Entitled(a)'
  BY <1>1, <1>2, <1>t DEF Entitled, Safe, EffectIsPossible
<1>u. claims' = claims /\ seen' = seen /\ (email <=> email')
  BY DEF MarkSent, payload, TypeOK
<1>w. \A b \in Attempts : Current(b)' <=> Current(b)
  BY <1>1, <1>t, <1>u DEF Current
<1> USE <1>3
<1> USE <1>1, <1>2, <1>t, <1>u, <1>w DEF Safe
<1>c1. RowIsLastClaim'
  BY DEF RowIsLastClaim
<1>c2. UnclaimedIsIdle'
  BY DEF UnclaimedIsIdle
<1>c3. EffectIsMarked' /\ SeenIsFinal'
  BY DEF EffectIsMarked, SeenIsFinal, MayHaveEffect, NoEarlyEffect, BeforeEffects
<1>c4. WriteIsMarked'
  BY DEF WriteIsMarked, EffectIsPossible, MayHaveEffect, Entitled
<1>c5. EffectIsPossible' /\ NoEarlyEffect'
  BY DEF EffectIsPossible, NoEarlyEffect, BeforeEffects
<1>c6. FearHasCause'
  BY DEF FearHasCause, MayHaveEffect
<1>c7. AnswerIsHolders' /\ DoubtHasCause'
  BY DEF AnswerIsHolders, DoubtHasCause
<1> QED
  BY <1>c1, <1>c2, <1>c3, <1>c4, <1>c5, <1>c6, <1>c7

LEMMA SafeSendEmail ==
    ASSUME TypeOK, Safe, NEW a \in Attempts, SendEmail(a)
    PROVE  Safe'
<1>t. /\ pc \in [Attempts -> Steps] /\ possible \in [Attempts -> BOOLEAN]
      /\ effects \subseteq Attempts /\ seen \subseteq Attempts
      /\ claims \in Nat /\ row.attempts \in Nat
  BY RowFields, BoundsAssumption DEF TypeOK
<1>1. /\ pc[a] \in {"send"}
      /\ effects' = effects \/ effects' = effects \cup {a}
      /\ \E step \in {"mark_sent", "changes"} : pc' = [pc EXCEPT ![a] = step]
  BY DEF SendEmail, Reply, Goto
<1>2. row' = row /\ possible' = possible
  BY DEF SendEmail, local
<1>3. \A b \in Attempts :
        /\ pc'[b] \in BeforeEffects => pc'[b] = pc[b] /\ b # a
        /\ pc[b] = "idle" <=> pc'[b] = "idle"
        /\ pc[b] = "done" <=> pc'[b] = "done"
        /\ Entitled(b)' => Entitled(b)
        /\ pc'[b] = "dispatch" => pc[b] = "dispatch"
        /\ pc'[b] \in {"prepare", "dispatch", "send", "mark_sent"} => email
  BY <1>1, <1>t DEF BeforeEffects, Entitled, Safe, FearHasCause
<1>4. Entitled(a) /\ pc[a] # "idle"
  BY <1>1 DEF Entitled
<1>u. claims' = claims /\ seen' = seen /\ (email <=> email')
  BY DEF SendEmail, payload, TypeOK
<1>w. \A b \in Attempts : Current(b)' <=> Current(b)
  BY <1>2, <1>t, <1>u DEF Current
<1> USE <1>3, <1>4
<1> USE <1>1, <1>2, <1>t, <1>u, <1>w DEF Safe
<1>c1. RowIsLastClaim'
  BY DEF RowIsLastClaim
<1>c2. UnclaimedIsIdle'
  BY DEF UnclaimedIsIdle
<1>c3. EffectIsMarked' /\ SeenIsFinal'
  BY DEF EffectIsMarked, SeenIsFinal, MayHaveEffect, WriteIsMarked
<1>c4. WriteIsMarked'
  BY DEF WriteIsMarked, EffectIsPossible, MayHaveEffect, Entitled
<1>c5. EffectIsPossible' /\ NoEarlyEffect'
  BY DEF EffectIsPossible, NoEarlyEffect, BeforeEffects, WriteIsMarked
<1>c6. FearHasCause'
  BY DEF FearHasCause, MayHaveEffect
<1>c7. AnswerIsHolders' /\ DoubtHasCause'
  BY DEF AnswerIsHolders, DoubtHasCause
<1> QED
  BY <1>c1, <1>c2, <1>c3, <1>c4, <1>c5, <1>c6, <1>c7

-----------------------------------------------------------------------------
(* Memory writes: fenced, then done.                                       *)

LEMMA SafeMemoryFence ==
    ASSUME TypeOK, Safe, NEW a \in Attempts, before_memory_write(a)
    PROVE  Safe'
<1>t. /\ pc \in [Attempts -> Steps] /\ possible \in [Attempts -> BOOLEAN]
      /\ effects \subseteq Attempts /\ seen \subseteq Attempts
      /\ claims \in Nat /\ row.attempts \in Nat
  BY RowFields, BoundsAssumption DEF TypeOK
<1>0. PICK phase \in {"changes", "deferred"} :
        /\ pc[a] = phase
        /\ mark_chat_turn_effect_started(a, WriteOf[phase], CapturePhase[phase])
        /\ pc'[a] = WriteOf[phase] => possible' = [possible EXCEPT ![a] = TRUE]
        /\ pc'[a] # WriteOf[phase] => possible' = possible
  BY Phases DEF before_memory_write
<1>1. /\ row'.state = row.state /\ row'.token = row.token
      /\ row'.attempts = row.attempts /\ row'.response = row.response
      /\ (row.started => row'.started)
      /\ (row' = row \/ (row.state = "accepted" /\ claims = a))
      /\ \/ row'.effect = "dispatched" /\ row'.started
            /\ row.state = "accepted" /\ claims = a
         \/ row' = row /\ pc' = [pc EXCEPT ![a] = CapturePhase[phase]]
      /\ \/ pc' = [pc EXCEPT ![a] = WriteOf[phase]]
         \/ pc' = [pc EXCEPT ![a] = CapturePhase[phase]]
  BY <1>0, EffectStarted DEF Marks, SameTurn, Safe, RowIsLastClaim
<1>3. WriteOf[phase] # CapturePhase[phase]
  BY Phases
<1>4. /\ pc[a] \in {"changes", "deferred"} /\ effects' = effects
      /\ WriteOf[phase] \in {"write_change", "write_deferred"}
      /\ CapturePhase[phase] \in {"start_model", "append_li"}
  BY <1>0, Phases DEF before_memory_write
<1>2. \/ /\ pc' = [pc EXCEPT ![a] = WriteOf[phase]]
         /\ possible' = [possible EXCEPT ![a] = TRUE]
         /\ row.state = "accepted" /\ claims = a
         /\ row'.effect = "dispatched" /\ row'.started
      \/ /\ pc' = [pc EXCEPT ![a] = CapturePhase[phase]]
         /\ possible' = possible
  <2>1. CASE pc' = [pc EXCEPT ![a] = WriteOf[phase]]
    <3>1. pc'[a] = WriteOf[phase]
      BY <1>t, <2>1
    <3>2. pc' # [pc EXCEPT ![a] = CapturePhase[phase]]
      BY <1>3, <1>t, <3>1
    <3> QED
      BY <1>0, <1>1, <2>1, <3>1, <3>2
  <2>2. CASE pc' = [pc EXCEPT ![a] = CapturePhase[phase]]
    BY <1>0, <1>3, <1>t, <2>2
  <2> QED
    BY <1>1, <2>1, <2>2
<1>u. claims' = claims /\ seen' = seen /\ (email <=> email')
  BY DEF before_memory_write, payload, TypeOK
<1>w. \A b \in Attempts : Current(b)' <=> Current(b)
  BY <1>1, <1>t, <1>u DEF Current
<1> USE <1>4
<1> USE <1>1, <1>2, <1>t, <1>u, <1>w DEF Safe
<1>c1. RowIsLastClaim'
  BY DEF RowIsLastClaim
<1>c2. UnclaimedIsIdle'
  BY DEF UnclaimedIsIdle
<1>c3. EffectIsMarked' /\ SeenIsFinal'
  BY DEF EffectIsMarked, SeenIsFinal, MayHaveEffect
<1>c4. WriteIsMarked'
  BY DEF WriteIsMarked, EffectIsPossible, MayHaveEffect, Entitled
<1>c5. EffectIsPossible' /\ NoEarlyEffect'
  BY DEF EffectIsPossible, NoEarlyEffect, BeforeEffects
<1>c6. FearHasCause'
  BY DEF FearHasCause, MayHaveEffect
<1>c7. AnswerIsHolders' /\ DoubtHasCause'
  BY DEF AnswerIsHolders, DoubtHasCause
<1> QED
  BY <1>c1, <1>c2, <1>c3, <1>c4, <1>c5, <1>c6, <1>c7

LEMMA SafeWriteMemory ==
    ASSUME TypeOK, Safe, NEW a \in Attempts, WriteMemory(a)
    PROVE  Safe'
<1>t. /\ pc \in [Attempts -> Steps] /\ possible \in [Attempts -> BOOLEAN]
      /\ effects \subseteq Attempts /\ seen \subseteq Attempts
      /\ claims \in Nat /\ row.attempts \in Nat
  BY RowFields, BoundsAssumption DEF TypeOK
<1>1. /\ pc[a] \in {"write_change", "write_deferred"}
      /\ effects' = effects \/ effects' = effects \cup {a}
      /\ \E step \in {"changes", "deferred", "start_model", "append_li"} : pc' = [pc EXCEPT ![a] = step]
  BY Phases DEF WriteMemory, Reply, Goto
<1>2. row' = row /\ possible' = possible
  BY DEF WriteMemory, local
<1>3. \A b \in Attempts :
        /\ pc'[b] \in BeforeEffects => pc'[b] = pc[b] /\ b # a
        /\ pc[b] = "idle" <=> pc'[b] = "idle"
        /\ pc[b] = "done" <=> pc'[b] = "done"
        /\ Entitled(b)' => Entitled(b)
        /\ pc'[b] = "dispatch" => pc[b] = "dispatch"
        /\ pc'[b] \in {"prepare", "dispatch", "send", "mark_sent"} => email
  BY <1>1, <1>t DEF BeforeEffects, Entitled, Safe, FearHasCause
<1>4. Entitled(a) /\ pc[a] # "idle"
  BY <1>1 DEF Entitled
<1>u. claims' = claims /\ seen' = seen /\ (email <=> email')
  BY DEF WriteMemory, payload, TypeOK
<1>w. \A b \in Attempts : Current(b)' <=> Current(b)
  BY <1>2, <1>t, <1>u DEF Current
<1> USE <1>3, <1>4
<1> USE <1>1, <1>2, <1>t, <1>u, <1>w DEF Safe
<1>c1. RowIsLastClaim'
  BY DEF RowIsLastClaim
<1>c2. UnclaimedIsIdle'
  BY DEF UnclaimedIsIdle
<1>c3. EffectIsMarked' /\ SeenIsFinal'
  BY DEF EffectIsMarked, SeenIsFinal, MayHaveEffect, WriteIsMarked
<1>c4. WriteIsMarked'
  BY DEF WriteIsMarked, EffectIsPossible, MayHaveEffect, Entitled
<1>c5. EffectIsPossible' /\ NoEarlyEffect'
  BY DEF EffectIsPossible, NoEarlyEffect, BeforeEffects, WriteIsMarked
<1>c6. FearHasCause'
  BY DEF FearHasCause, MayHaveEffect
<1>c7. AnswerIsHolders' /\ DoubtHasCause'
  BY DEF AnswerIsHolders, DoubtHasCause
<1> QED
  BY <1>c1, <1>c2, <1>c3, <1>c4, <1>c5, <1>c6, <1>c7
-----------------------------------------------------------------------------
(* Claims, answers and ends.                                               *)

LEMMA SafeGiveUp ==
    ASSUME TypeOK, Safe, GiveUp
    PROVE  Safe'
<1>t. /\ pc \in [Attempts -> Steps] /\ possible \in [Attempts -> BOOLEAN]
      /\ effects \subseteq Attempts /\ seen \subseteq Attempts
      /\ claims \in Nat /\ row.attempts \in Nat
  BY RowFields, BoundsAssumption DEF TypeOK
<1>1. /\ row.state = "accepted" /\ row'.state = "uncertain" /\ row'.token = row.token
      /\ row'.attempts = row.attempts /\ row'.response = row.response
      /\ row'.effect = row.effect /\ (row'.started <=> row.started)
      /\ MayHaveEffect
  BY RowFields DEF GiveUp, TypeOK, RowType, SafeToRepeat, MayHaveEffect, EffectStates
<1>2. pc' = pc /\ possible' = possible /\ effects' = effects
  BY DEF GiveUp, local
<1>u. claims' = claims /\ seen' = seen /\ (email <=> email')
  BY DEF GiveUp, payload, TypeOK
<1>w. \A b \in Attempts : Current(b)' <=> Current(b)
  BY <1>1, <1>t, <1>u DEF Current
<1> USE <1>1, <1>2, <1>t, <1>u, <1>w DEF Safe
<1>c1. RowIsLastClaim'
  BY DEF RowIsLastClaim
<1>c2. UnclaimedIsIdle'
  BY DEF UnclaimedIsIdle
<1>c3. EffectIsMarked' /\ SeenIsFinal'
  BY DEF EffectIsMarked, SeenIsFinal, MayHaveEffect
<1>c4. WriteIsMarked'
  BY DEF WriteIsMarked, EffectIsPossible, MayHaveEffect, Entitled
<1>c5. EffectIsPossible' /\ NoEarlyEffect'
  BY DEF EffectIsPossible, NoEarlyEffect, BeforeEffects
<1>c6. FearHasCause'
  BY DEF FearHasCause, MayHaveEffect
<1>c7. AnswerIsHolders' /\ DoubtHasCause'
  BY DEF AnswerIsHolders, DoubtHasCause, FearHasCause, MayHaveEffect
<1> QED
  BY <1>c1, <1>c2, <1>c3, <1>c4, <1>c5, <1>c6, <1>c7

LEMMA SafeExpireReplay ==
    ASSUME TypeOK, Safe, ExpireReplay
    PROVE  Safe'
<1>t. /\ pc \in [Attempts -> Steps] /\ possible \in [Attempts -> BOOLEAN]
      /\ effects \subseteq Attempts /\ seen \subseteq Attempts
      /\ claims \in Nat /\ row.attempts \in Nat
  BY RowFields, BoundsAssumption DEF TypeOK
<1>1. /\ row.state = "completed" /\ row'.state = "replay_expired"
      /\ row'.token = row.token /\ row'.attempts = row.attempts /\ row'.response = None
      /\ row'.effect = row.effect /\ (row'.started <=> row.started)
  BY DEF ExpireReplay, TypeOK, RowType
<1>2. pc' = pc /\ possible' = possible /\ effects' = effects
  BY DEF ExpireReplay, local
<1>u. claims' = claims /\ seen' = seen /\ (email <=> email')
  BY DEF ExpireReplay, payload, TypeOK
<1>w. \A b \in Attempts : Current(b)' <=> Current(b)
  BY <1>1, <1>t, <1>u DEF Current
<1> USE <1>1, <1>2, <1>t, <1>u, <1>w DEF Safe
<1>c1. RowIsLastClaim'
  BY DEF RowIsLastClaim
<1>c2. UnclaimedIsIdle'
  BY DEF UnclaimedIsIdle
<1>c3. EffectIsMarked' /\ SeenIsFinal'
  BY DEF EffectIsMarked, SeenIsFinal, MayHaveEffect
<1>c4. WriteIsMarked'
  BY DEF WriteIsMarked, EffectIsPossible, MayHaveEffect, Entitled
<1>c5. EffectIsPossible' /\ NoEarlyEffect'
  BY DEF EffectIsPossible, NoEarlyEffect, BeforeEffects
<1>c6. FearHasCause'
  BY DEF FearHasCause, MayHaveEffect
<1>c7. AnswerIsHolders' /\ DoubtHasCause'
  BY DEF AnswerIsHolders, DoubtHasCause
<1> QED
  BY <1>c1, <1>c2, <1>c3, <1>c4, <1>c5, <1>c6, <1>c7

LEMMA SafeReplay ==
    ASSUME TypeOK, Safe, Replay
    PROVE  Safe'
<1>t. /\ pc \in [Attempts -> Steps] /\ possible \in [Attempts -> BOOLEAN]
      /\ effects \subseteq Attempts /\ seen \subseteq Attempts
      /\ claims \in Nat /\ row.attempts \in Nat
  BY RowFields, BoundsAssumption DEF TypeOK
<1>1. /\ row' = row /\ row.state = "completed" /\ row.response = claims
      /\ 1 <= claims /\ seen' = seen \cup {claims}
  BY <1>t DEF Replay, Safe, AnswerIsHolders, RowIsLastClaim
<1>2. pc' = pc /\ possible' = possible /\ effects' = effects
  BY DEF Replay, local
<1>u. claims' = claims /\ (email <=> email')
  BY DEF Replay, payload, TypeOK
<1>w. \A b \in Attempts : Current(b)' <=> Current(b)
  BY <1>1, <1>t, <1>u DEF Current
<1> USE <1>1, <1>2, <1>t, <1>u, <1>w DEF Safe
<1>c1. RowIsLastClaim'
  BY DEF RowIsLastClaim
<1>c2. UnclaimedIsIdle'
  BY DEF UnclaimedIsIdle
<1>c3. EffectIsMarked' /\ SeenIsFinal'
  BY DEF EffectIsMarked, SeenIsFinal, MayHaveEffect
<1>c4. WriteIsMarked'
  BY DEF WriteIsMarked, EffectIsPossible, MayHaveEffect, Entitled
<1>c5. EffectIsPossible' /\ NoEarlyEffect'
  BY DEF EffectIsPossible, NoEarlyEffect, BeforeEffects
<1>c6. FearHasCause'
  BY DEF FearHasCause, MayHaveEffect
<1>c7. AnswerIsHolders' /\ DoubtHasCause'
  BY DEF AnswerIsHolders, DoubtHasCause
<1> QED
  BY <1>c1, <1>c2, <1>c3, <1>c4, <1>c5, <1>c6, <1>c7

LEMMA SafeComplete ==
    ASSUME TypeOK, Safe, NEW a \in Attempts, Complete(a)
    PROVE  Safe'
<1>t. /\ pc \in [Attempts -> Steps] /\ possible \in [Attempts -> BOOLEAN]
      /\ effects \subseteq Attempts /\ seen \subseteq Attempts
      /\ claims \in Nat /\ row.attempts \in Nat
  BY RowFields, BoundsAssumption DEF TypeOK
<1>1. \/ row' = row /\ seen' = seen
      \/ /\ claims = a
         /\ row'.token = row.token /\ row'.attempts = row.attempts
         /\ row'.effect = row.effect /\ (row'.started <=> row.started)
         /\ row'.state = "completed" /\ row'.response = a
         /\ row.state \in {"accepted", "completed"}
         /\ seen' = seen \/ seen' = seen \cup {a}
  <2>1. PICK answer \in Answers :
          /\ answer # "refused" => CanFinish(a, "completed")
          /\ row' = IF answer = "refused" THEN row ELSE Finished(a, "completed", a)
          /\ seen' = IF answer = "acked" THEN seen \cup {a} ELSE seen
    BY DEF Complete
  <2>2. CASE answer = "refused"
    BY <2>1, <2>2
  <2>3. CASE answer # "refused"
    <3>1. /\ row.token = a
          /\ SameTurn /\ row'.started = row.started /\ row'.effect = row.effect
          /\ \/ /\ row.state = "accepted"
                /\ row'.state = "completed" /\ row'.response = a
             \/ row.state = "completed" /\ row' = row
      BY <2>1, <2>3, Finish
    <3> QED
      BY <2>1, <3>1 DEF SameTurn, Safe, RowIsLastClaim, AnswerIsHolders
  <2> QED
    BY <2>2, <2>3
<1>2. /\ pc[a] = "finish" /\ effects' = effects
      /\ pc' = [pc EXCEPT ![a] = "done"] /\ possible' = [possible EXCEPT ![a] = FALSE]
  BY DEF Complete, End, Goto
<1>3. \A b \in Attempts :
        /\ pc'[b] = "idle" <=> pc[b] = "idle"
        /\ pc'[b] # "done" => pc'[b] = pc[b] /\ (possible'[b] <=> possible[b])
        /\ possible'[b] => possible[b]
        /\ Entitled(b)' => Entitled(b) /\ b # a
  BY <1>2, <1>t DEF Entitled
<1>u. claims' = claims /\ (email <=> email')
  BY DEF Complete, payload, TypeOK
<1>w. \A b \in Attempts : Current(b)' <=> Current(b)
  BY <1>1, <1>t, <1>u DEF Current
<1> USE <1>3
<1> USE <1>1, <1>2, <1>t, <1>u, <1>w DEF Safe
<1>c1. RowIsLastClaim'
  BY DEF RowIsLastClaim
<1>c2. UnclaimedIsIdle'
  BY DEF UnclaimedIsIdle
<1>c3. EffectIsMarked' /\ SeenIsFinal'
  BY DEF EffectIsMarked, SeenIsFinal, MayHaveEffect, WriteIsMarked
<1>c4. WriteIsMarked'
  BY DEF WriteIsMarked, EffectIsPossible, MayHaveEffect, Entitled
<1>c5. EffectIsPossible' /\ NoEarlyEffect'
  BY DEF EffectIsPossible, NoEarlyEffect, BeforeEffects, WriteIsMarked
<1>c6. FearHasCause'
  BY DEF FearHasCause, MayHaveEffect
<1>c7. AnswerIsHolders' /\ DoubtHasCause'
  BY DEF AnswerIsHolders, DoubtHasCause
<1> QED
  BY <1>c1, <1>c2, <1>c3, <1>c4, <1>c5, <1>c6, <1>c7

LEMMA SafeAbort ==
    ASSUME TypeOK, Safe, NEW a \in Attempts, Abort(a)
    PROVE  Safe'
<1>t. /\ pc \in [Attempts -> Steps] /\ possible \in [Attempts -> BOOLEAN]
      /\ effects \subseteq Attempts /\ seen \subseteq Attempts
      /\ claims \in Nat /\ row.attempts \in Nat
  BY RowFields, BoundsAssumption DEF TypeOK
<1>1. \/ row' = row
      \/ /\ claims = a /\ row.state # "absent"
         /\ row'.token = row.token /\ row'.attempts = row.attempts
         /\ row'.effect = row.effect /\ (row'.started <=> row.started)
         /\ row'.state = IF possible[a] THEN "uncertain" ELSE "failed"
         /\ row'.response = None
         /\ row.state \in {"accepted", "failed", "uncertain"}
         /\ row.state # "accepted" => row' = row
  <2> DEFINE final == IF possible[a] THEN "uncertain" ELSE "failed"
  <2>1. \/ row' = row
        \/ CanFinish(a, final) /\ row' = Finished(a, final, None)
    BY DEF Abort
  <2>2. final \in {"completed", "failed", "uncertain"} /\ final # "completed"
    OBVIOUS
  <2>3. ASSUME CanFinish(a, final), row' = Finished(a, final, None)
        PROVE  /\ row.token = a
               /\ SameTurn /\ row'.started = row.started /\ row'.effect = row.effect
               /\ \/ /\ row.state = "accepted"
                     /\ row'.state = final /\ row'.response = None
                  \/ row.state = final /\ row' = row
    <3> HIDE DEF final
    <3> QED
      BY <2>2, <2>3, Finish
  <2> QED
    BY <2>1, <2>3 DEF SameTurn, Safe, RowIsLastClaim, AnswerIsHolders, None, NoRow, Attempts
<1>2. /\ pc[a] = "abort" /\ effects' = effects
      /\ pc' = [pc EXCEPT ![a] = "done"] /\ possible' = [possible EXCEPT ![a] = FALSE]
  BY DEF Abort, End, Goto
<1>3. \A b \in Attempts :
        /\ pc'[b] = "idle" <=> pc[b] = "idle"
        /\ pc'[b] # "done" => pc'[b] = pc[b] /\ (possible'[b] <=> possible[b])
        /\ possible'[b] => possible[b]
        /\ Entitled(b)' => Entitled(b) /\ b # a
  BY <1>2, <1>t DEF Entitled
<1>u. claims' = claims /\ seen' = seen /\ (email <=> email')
  BY DEF Abort, payload, TypeOK
<1>w. \A b \in Attempts : Current(b)' <=> Current(b)
  BY <1>1, <1>t, <1>u DEF Current
<1>4. 1 <= a /\ (claims = a /\ row.state # "absent" => Current(a))
  BY <1>t DEF Current, Safe, RowIsLastClaim, Attempts
<1> USE <1>3, <1>4
<1> USE <1>1, <1>2, <1>t, <1>u, <1>w DEF Safe
<1>c1. RowIsLastClaim'
  BY DEF RowIsLastClaim
<1>c2. UnclaimedIsIdle'
  BY DEF UnclaimedIsIdle
<1>c3. EffectIsMarked' /\ SeenIsFinal'
  BY DEF EffectIsMarked, SeenIsFinal, MayHaveEffect, EffectIsPossible
<1>c4. WriteIsMarked'
  BY DEF WriteIsMarked, EffectIsPossible, MayHaveEffect, Entitled
<1>c5. EffectIsPossible' /\ NoEarlyEffect'
  BY DEF EffectIsPossible, NoEarlyEffect, BeforeEffects, WriteIsMarked
<1>c6. FearHasCause'
  BY DEF FearHasCause, MayHaveEffect
<1>c7. AnswerIsHolders' /\ DoubtHasCause'
  BY DEF AnswerIsHolders, DoubtHasCause, FearHasCause
<1> QED
  BY <1>c1, <1>c2, <1>c3, <1>c4, <1>c5, <1>c6, <1>c7

LEMMA SafeClaimNew ==
    ASSUME TypeOK, Safe, ClaimNew
    PROVE  Safe'
<1>t. /\ pc \in [Attempts -> Steps] /\ possible \in [Attempts -> BOOLEAN]
      /\ effects \subseteq Attempts /\ seen \subseteq Attempts
      /\ claims \in Nat /\ row.attempts \in Nat
  BY RowFields, BoundsAssumption DEF TypeOK
<1>1. /\ row'.state = "accepted" /\ row'.token = claims + 1
      /\ row'.attempts = 1 /\ row'.response = None
      /\ row'.effect = "none" /\ ~row'.started
  BY FirstClaim
<1>2. /\ claims' = claims + 1 /\ claims' \in Attempts
      /\ effects' = effects /\ seen' = seen /\ (email <=> email')
      /\ possible' = possible
  BY BoundsAssumption DEF ClaimNew, Claimed, store, payload, TypeOK, Attempts
<1>3. /\ pc[claims'] = "idle" /\ ~possible[claims']
      /\ claims' \notin effects /\ claims' \notin seen
  BY <1>2, <1>t DEF Safe, UnclaimedIsIdle
<1>4. \E step \in {"create", "bind", "read_history", "done"} :
        pc' = [pc EXCEPT ![claims'] = step]
  BY <1>2 DEF ClaimNew, Claimed, AfterBinding, Goto
<1>5. \A b \in Attempts :
        /\ b # claims' => pc'[b] = pc[b]
        /\ pc'[claims'] \in {"create", "bind", "read_history", "done"}
        /\ Entitled(b)' => Entitled(b)
        /\ b > claims <=> b > claims' \/ b = claims'
  BY <1>2, <1>3, <1>4, <1>t DEF Entitled, Attempts
<1>w. \A b \in Attempts : Current(b)' <=> b = claims'
  BY <1>1, <1>2, <1>t DEF Current, Attempts
<1> USE <1>1, <1>2, <1>3, <1>5, <1>t, <1>w DEF Safe
<1>c1. RowIsLastClaim'
  BY DEF RowIsLastClaim
<1>c2. UnclaimedIsIdle'
  BY DEF UnclaimedIsIdle
<1>c3. EffectIsMarked' /\ SeenIsFinal'
  BY DEF EffectIsMarked, SeenIsFinal, MayHaveEffect, Attempts
<1>c4. WriteIsMarked'
  BY DEF WriteIsMarked, EffectIsPossible, MayHaveEffect, Entitled
<1>c5. EffectIsPossible' /\ NoEarlyEffect'
  BY DEF EffectIsPossible, NoEarlyEffect, BeforeEffects, Attempts
<1>c6. FearHasCause'
  BY DEF FearHasCause, MayHaveEffect
<1>c7. AnswerIsHolders' /\ DoubtHasCause'
  BY DEF AnswerIsHolders, DoubtHasCause
<1> QED
  BY <1>c1, <1>c2, <1>c3, <1>c4, <1>c5, <1>c6, <1>c7

LEMMA SafeClaimAgain ==
    ASSUME TypeOK, Safe, ClaimAgain
    PROVE  Safe'
<1>t. /\ pc \in [Attempts -> Steps] /\ possible \in [Attempts -> BOOLEAN]
      /\ effects \subseteq Attempts /\ seen \subseteq Attempts
      /\ claims \in Nat /\ row.attempts \in Nat
  BY RowFields, BoundsAssumption DEF TypeOK
<1>1. /\ row'.state = "accepted" /\ row'.token = claims + 1
      /\ row'.attempts = row.attempts + 1 /\ row'.response = row.response
      /\ row'.effect = row.effect /\ (row'.started <=> row.started)
  BY RepeatedClaim
<1>2. /\ claims' = claims + 1 /\ claims' \in Attempts
      /\ effects' = effects /\ seen' = seen /\ (email <=> email')
      /\ possible' = possible
  BY BoundsAssumption DEF ClaimAgain, Claimed, store, payload, TypeOK, Attempts
<1>3. /\ pc[claims'] = "idle" /\ ~possible[claims']
      /\ claims' \notin effects /\ claims' \notin seen
  BY <1>2, <1>t DEF Safe, UnclaimedIsIdle
<1>4. \E step \in {"create", "bind", "read_history", "done"} :
        pc' = [pc EXCEPT ![claims'] = step]
  BY <1>2 DEF ClaimAgain, Claimed, AfterBinding, Goto
<1>5. \A b \in Attempts :
        /\ b # claims' => pc'[b] = pc[b]
        /\ pc'[claims'] \in {"create", "bind", "read_history", "done"}
        /\ Entitled(b)' => Entitled(b)
        /\ b > claims <=> b > claims' \/ b = claims'
  BY <1>2, <1>3, <1>4, <1>t DEF Entitled, Attempts
<1>6. /\ row.state \in {"accepted", "failed"}
      /\ row.state = "accepted" => ~MayHaveEffect
  BY DEF ClaimAgain, SafeToRepeat, MayHaveEffect
<1>7. \A b \in Attempts : Current(b) => b \notin effects /\ ~Entitled(b) /\ b \notin seen
  BY <1>6, <1>t DEF Safe, EffectIsMarked, WriteIsMarked, SeenIsFinal
<1>8. UnclaimedIsIdle'
  BY <1>2, <1>3, <1>5, <1>t DEF UnclaimedIsIdle, Safe
<1>w. \A b \in Attempts : Current(b)' <=> Current(b) \/ b = claims'
  BY <1>1, <1>2, <1>6, <1>t DEF Current, Attempts, Safe, RowIsLastClaim
<1> USE <1>1, <1>2, <1>3, <1>5, <1>6, <1>7, <1>t, <1>w DEF Safe
<1>c1. RowIsLastClaim'
  BY DEF RowIsLastClaim
<1>c2. UnclaimedIsIdle'
  BY <1>8
<1>c3. EffectIsMarked' /\ SeenIsFinal'
  BY DEF EffectIsMarked, SeenIsFinal, MayHaveEffect, Attempts
<1>c4. WriteIsMarked'
  BY DEF WriteIsMarked, EffectIsPossible, MayHaveEffect, Entitled
<1>c5. EffectIsPossible' /\ NoEarlyEffect'
  BY DEF EffectIsPossible, NoEarlyEffect, BeforeEffects, Attempts
<1>c6. FearHasCause'
  BY DEF FearHasCause, MayHaveEffect
<1>c7. AnswerIsHolders' /\ DoubtHasCause'
  BY DEF AnswerIsHolders, DoubtHasCause
<1> QED
  BY <1>c1, <1>c2, <1>c3, <1>c4, <1>c5, <1>c6, <1>c7

-----------------------------------------------------------------------------
(* The owner deletes a conversation.                                       *)

LEMMA SafeDelete ==
    ASSUME TypeOK, Safe, NEW c \in Conversations, DeleteConversation(c)
    PROVE  Safe'
<1>1. CASE row' = row
  <2>1. RowIsAlike /\ UNCHANGED <<claims, effects, seen, email, pc, possible>>
    BY <1>1 DEF DeleteConversation, RowIsAlike, local, payload
  <2> QED
    BY <2>1, QuietStep DEF Quiet
<1>2. CASE row' = NoRow
  <2>1. \A b \in Attempts : ~Current(b)'
    BY <1>2 DEF Current, NoRow, DeleteConversation, TypeOK, Attempts
  <2>2. UNCHANGED <<claims, effects, seen, email, pc, possible>>
    BY DEF DeleteConversation, local, payload
  <2>3. /\ row'.state = "absent" /\ row'.response = None /\ row'.effect = "none"
    BY <1>2 DEF NoRow
  <2>4. effects \subseteq Attempts /\ seen \subseteq Attempts
    BY DEF TypeOK
  <2>5. RowIsLastClaim'
    BY <1>2, <2>3 DEF RowIsLastClaim, NoRow
  <2>6. UnclaimedIsIdle' /\ NoEarlyEffect' /\ AnswerIsHolders' /\ DoubtHasCause'
    BY <2>2, <2>3
    DEF Safe, UnclaimedIsIdle, NoEarlyEffect, AnswerIsHolders, DoubtHasCause, None
  <2>7. EffectIsMarked' /\ WriteIsMarked' /\ SeenIsFinal'
    BY <2>1, <2>2, <2>4 DEF EffectIsMarked, WriteIsMarked, SeenIsFinal
  <2>8. EffectIsPossible' /\ FearHasCause'
    BY <2>1, <2>2, <2>3, <2>4
    DEF Safe, EffectIsPossible, FearHasCause, MayHaveEffect
  <2> QED
    BY <2>5, <2>6, <2>7, <2>8 DEF Safe
<1> QED
  BY <1>1, <1>2 DEF DeleteConversation

-----------------------------------------------------------------------------
(* The theorems.                                                           *)

LEMMA SafeStep ==
    ASSUME TypeOK, Safe, [Next]_vars
    PROVE  Safe'
<1>1. CASE begin_chat_turn
  BY <1>1, SafeClaimNew, SafeClaimAgain, SafeGiveUp, SafeReplay, SafeExpireReplay
  DEF begin_chat_turn
<1>2. ASSUME NEW a \in Attempts, Request(a) \/ Crash(a)
      PROVE  Safe'
  BY <1>2, QuietRequest, SafePrepareEmail, SafeDispatchEmail, SafeMarkSent, SafeSendEmail,
     SafeMemoryFence, SafeWriteMemory, SafeComplete, SafeAbort
  DEF Request
<1>3. CASE LeaseRunsOut \/ ResponseAges \/ UNCHANGED vars
  BY <1>3, QuietClock
<1>4. ASSUME NEW c \in Conversations, DeleteConversation(c)
      PROVE  Safe'
  BY <1>4, SafeDelete
<1> QED
  BY <1>1, <1>2, <1>3, <1>4 DEF Next

LEMMA InitIInv == Init => IInv
<1> SUFFICES ASSUME Init PROVE IInv
  OBVIOUS
<1> USE DEF Init
<1>1. TypeOK
  <2>1. row \in RowType
    BY StageNames, BoundsAssumption
    DEF NoRow, RowType, TurnStates, EffectStates, None, Unbound
  <2> QED
    BY <2>1, StageNames, BoundsAssumption DEF TypeOK, Steps, Conversations, Unbound, Named
<1>2. /\ RowIsLastClaim /\ EffectIsMarked /\ SeenIsFinal /\ AnswerIsHolders
      /\ DoubtHasCause /\ EffectIsPossible /\ NoEarlyEffect /\ FearHasCause
  BY DEF RowIsLastClaim, EffectIsMarked, SeenIsFinal, AnswerIsHolders, DoubtHasCause,
         EffectIsPossible, NoEarlyEffect, FearHasCause, MayHaveEffect, NoRow, None
<1>3. UnclaimedIsIdle /\ WriteIsMarked
  BY DEF UnclaimedIsIdle, WriteIsMarked, Entitled, Attempts
<1> QED
  BY <1>1, <1>2, <1>3 DEF IInv

LEMMA StepIInv == IInv /\ [Next]_vars => IInv'
<1>1. IInv <=> TypeOK /\ Safe
  BY DEF IInv, Safe
<1>2. IInv' <=> TypeOK' /\ Safe'
  BY DEF IInv, Safe
<1>3. Safe => RowIsLastClaim /\ AnswerIsHolders
  BY DEF Safe
<1> QED
  BY <1>1, <1>2, <1>3, TypeStep, SafeStep

THEOREM Invariance == Spec => []IInv
  BY InitIInv, StepIInv, PTL DEF Spec

(* The variables keep their types, although a replay reads the response of *)
(* the row and tells it to a client.                                       *)
THEOREM TypeCorrect == Spec => []TypeOK
  BY Invariance, PTL DEF IInv

(* At most one attempt of a turn writes memory or creates the draft: an    *)
(* effect is always that of the last claim.                                *)
THEOREM EffectsAreExclusive == Spec => []OneEffectfulAttempt
<1>1. IInv => OneEffectfulAttempt
  BY DEF IInv, EffectIsMarked, OneEffectfulAttempt
<1> QED
  BY <1>1, Invariance, PTL

(* begin_chat_turn does not hand out a turn again that has had an effect,  *)
(* or whose write has passed the fence.                                    *)
THEOREM RepetitionIsSafe == Spec => []RepeatIsSafe
<1>1. IInv => RepeatIsSafe
  BY DEF IInv, EffectIsMarked, WriteIsMarked, RepeatIsSafe, SafeToRepeat, MayHaveEffect,
         TypeOK
<1> QED
  BY <1>1, Invariance, PTL

(* The response that is replayed comes from the attempt that had effects.  *)
THEOREM ReplayIsHonest == Spec => []ReplayReportsEffects
<1>1. IInv => ReplayReportsEffects
  BY DEF IInv, EffectIsMarked, AnswerIsHolders, ReplayReportsEffects
<1> QED
  BY <1>1, Invariance, PTL

(* All clients that were told "completed" were given one response.         *)
THEOREM CompletionIsUnique == Spec => []CompletionsAgree
<1>1. IInv => CompletionsAgree
  BY DEF IInv, SeenIsFinal, AnswerIsHolders, CompletionsAgree
<1> QED
  BY <1>1, Invariance, PTL

(* A turn does not become uncertain without a draft or a fenced write.     *)
THEOREM DoubtIsJustified == Spec => []DoubtHasCause
  BY Invariance, PTL DEF IInv

(* Final states are final, and a recorded response is not replaced.        *)
THEOREM FinalityHolds == Spec => FinalStatesStay
<1> DEFINE Stays ==
        /\ row.state = "uncertain" => row'.state \in {"uncertain", "absent"}
        /\ row.state = "replay_expired" => row'.state \in {"replay_expired", "absent"}
        /\ row.state = "completed" =>
            \/ row'.state = "completed" /\ row'.response = row.response
            \/ row'.state \in {"replay_expired", "absent"}
<1>1. ASSUME TypeOK, [Next]_vars PROVE Stays
  <2>1. ASSUME row' = row \/ row.state = "accepted" PROVE Stays
    BY <2>1
  <2>2. CASE begin_chat_turn
    <3>1. CASE ClaimNew \/ ClaimAgain \/ GiveUp \/ Replay
      BY <3>1, <2>1 DEF ClaimNew, ClaimAgain, SafeToRepeat, GiveUp, Replay
    <3>2. CASE ExpireReplay
      BY <3>2 DEF ExpireReplay, TypeOK, RowType
    <3> QED
      BY <2>2, <3>1, <3>2 DEF begin_chat_turn
  <2>3. ASSUME NEW a \in Attempts, Request(a) \/ Crash(a) PROVE Stays
    <3>1. CASE MarkBound(a) \/ MarkSaved(a) \/ PrepareEmail(a) \/ DispatchEmail(a)
               \/ MarkSent(a) \/ StartModel(a) \/ talk_to_li(a)
      BY <3>1, <2>1 DEF MarkBound, MarkSaved, PrepareEmail, DispatchEmail, MarkSent,
         StartModel, talk_to_li, mark_chat_turn_progress, RowCall, Holds
    <3>2. CASE before_memory_write(a) \/ bind_chat_turn_conversation(a)
      BY <3>2, <2>1 DEF before_memory_write, bind_chat_turn_conversation,
         mark_chat_turn_effect_started, RowCall, Holds
    <3>3. CASE create_conversation(a) \/ get_recent_conversation_messages(a)
               \/ AppendOwner(a) \/ SendEmail(a) \/ EndCapture(a) \/ WriteMemory(a)
               \/ AppendLi(a) \/ Crash(a)
      BY <3>3, <2>1 DEF create_conversation, get_recent_conversation_messages, AppendOwner,
         SendEmail, EndCapture, WriteMemory, AppendLi, Crash
    <3>4. CASE Complete(a) \/ Abort(a)
      BY <3>4, <2>1 DEF Complete, Abort, Finished
    <3> QED
      BY <2>3, <3>1, <3>2, <3>3, <3>4 DEF Request
  <2>4. CASE LeaseRunsOut \/ ResponseAges \/ UNCHANGED vars
    <3>1. ResponseAges => row.state = "completed" /\ row'.state = row.state
                          /\ row'.response = row.response
      BY DEF ResponseAges, TypeOK, RowType
    <3> QED
      BY <2>4, <2>1, <3>1 DEF LeaseRunsOut, vars
  <2>5. ASSUME NEW c \in Conversations, DeleteConversation(c) PROVE Stays
    BY <2>5, <2>1 DEF DeleteConversation, NoRow
  <2> HIDE DEF Stays
  <2> QED
    BY <1>1, <2>2, <2>3, <2>4, <2>5 DEF Next
<1>2. TypeOK /\ [Next]_vars => [Stays]_vars
  BY <1>1
<1> HIDE DEF Stays
<1>3. Spec => [][Stays]_vars
  BY <1>2, TypeCorrect, PTL DEF Spec
<1> QED
  BY <1>3 DEF Stays, FinalStatesStay
=============================================================================
