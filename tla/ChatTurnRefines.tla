-------------------------- MODULE ChatTurnRefines --------------------------
(***************************************************************************)
(* ChatTurn implements TurnPromise, for every number of claims: every step *)
(* of the protocol is a step of the promise, or leaves it as it is.        *)
(***************************************************************************)
EXTENDS ChatTurnProofs

(* The effect the promise sees is that of the last claim.                  *)
ActorIsLast ==
    Actor = IF row.state # "absent" /\ claims \in effects THEN claims ELSE None

LEMMA LastActor == IInv => ActorIsLast
<1> SUFFICES ASSUME IInv PROVE ActorIsLast
  OBVIOUS
<1>1. \A a \in effects : Current(a) => a = claims
  BY DEF IInv, EffectIsMarked
<1>2. row.state # "absent" => Current(claims)
  BY RowFields, BoundsAssumption DEF IInv, TypeOK, RowIsLastClaim, Current
<1>3. row.state = "absent" => \A a \in effects : ~Current(a)
  BY BoundsAssumption DEF IInv, TypeOK, RowIsLastClaim, Current, NoRow, Attempts
<1> QED
  BY <1>1, <1>2, <1>3 DEF Actor, ActorIsLast

LEMMA LastActorAfter == IInv' => ActorIsLast'
  BY LastActor, PTL

(* What the promise sees of a step that keeps the claims.                  *)
LEMMA Unseen ==
    ASSUME IInv, IInv', claims' = claims, effects' = effects,
           row'.response = row.response,
           row'.state = row.state \/ (row.state = "accepted" /\ row'.state = "failed")
    PROVE  UNCHANGED Promise!vars
<1>1. Outcome' = Outcome
  BY DEF Outcome
<1>2. Actor' = Actor
  BY LastActor, LastActorAfter DEF ActorIsLast
<1> QED
  BY <1>1, <1>2 DEF Promise!vars

LEMMA Doubts ==
    ASSUME IInv, IInv', claims' = claims, effects' = effects,
           row'.response = row.response,
           row.state = "accepted", row'.state = "uncertain"
    PROVE  Promise!Doubt
<1>1. Outcome = "open" /\ Outcome' = "uncertain"
  BY DEF Outcome
<1>2. Actor' = Actor
  BY LastActor, LastActorAfter DEF ActorIsLast
<1> QED
  BY <1>1, <1>2 DEF Promise!Doubt

(* A repeated claim is not seen, because no effect has happened.           *)
LEMMA ClaimsUnseen ==
    ASSUME IInv, IInv', ClaimNew \/ ClaimAgain
    PROVE  UNCHANGED Promise!vars
<1>1. claims' = claims + 1 /\ effects' = effects /\ claims \in Nat
  BY BoundsAssumption DEF ClaimNew, ClaimAgain, Claimed, store, IInv, TypeOK
<1>2. claims' \notin effects /\ row'.state = "accepted" /\ row'.response = row.response
  <2>1. \A a \in effects : ~(a > claims)
    BY DEF IInv, UnclaimedIsIdle, TypeOK
  <2>2. row.state = "absent" => row.response = None
    BY DEF IInv, RowIsLastClaim, NoRow
  <2> QED
    BY <1>1, <2>1, <2>2, FirstClaim, RepeatedClaim DEF IInv, ClaimNew
<1>3. row.state \in {"absent", "failed", "accepted"}
  BY DEF ClaimNew, ClaimAgain, SafeToRepeat
<1>4. row.state = "absent" \/ claims \notin effects
  <2>1. CASE ClaimNew
    BY <2>1 DEF ClaimNew
  <2>2. CASE ClaimAgain
    <3>1. RepeatIsSafe
      BY DEF IInv, EffectIsMarked, WriteIsMarked, RepeatIsSafe, SafeToRepeat,
             MayHaveEffect, TypeOK
    <3>2. row.state # "absent" => Current(claims)
      BY <1>1, RowFields DEF IInv, RowIsLastClaim, Current
    <3> QED
      BY <2>2, <3>1, <3>2 DEF ClaimAgain, RepeatIsSafe, IInv, TypeOK
  <2> QED
    BY <2>1, <2>2
<1>5. Actor = None /\ Actor' = None
  BY <1>1, <1>2, <1>4, LastActor, LastActorAfter DEF ActorIsLast
<1>6. Outcome = "open" /\ Outcome' = "open"
  BY <1>2, <1>3 DEF Outcome
<1> QED
  BY <1>2, <1>5, <1>6 DEF Promise!vars

(* A write by the last claimant acts; any other write is not seen.         *)
LEMMA WriteActs ==
    ASSUME IInv, IInv', NEW a \in Attempts, Entitled(a),
           effects' = effects \cup {a}, row' = row, claims' = claims
    PROVE  Promise!Act(a) \/ UNCHANGED Promise!vars
<1>1. Outcome' = Outcome
  BY DEF Outcome
<1>2. CASE a = claims /\ row.state # "absent" /\ claims \notin effects
  <2>1. Current(a)
    BY <1>2, RowFields, BoundsAssumption DEF IInv, TypeOK, RowIsLastClaim, Current
  <2>2. row.state \in {"accepted", "uncertain"}
    BY <2>1 DEF IInv, WriteIsMarked
  <2>3. Actor = None /\ Actor' = a
    BY <1>2, LastActor, LastActorAfter DEF ActorIsLast
  <2> QED
    BY <1>1, <2>2, <2>3 DEF Promise!Act, Outcome
<1>3. CASE ~(a = claims /\ row.state # "absent" /\ claims \notin effects)
  <2>1. Actor' = Actor
    BY <1>3, LastActor, LastActorAfter DEF ActorIsLast
  <2> QED
    BY <1>1, <2>1 DEF Promise!vars
<1> QED
  BY <1>2, <1>3

LEMMA RequestKeepsPromise ==
    ASSUME IInv, IInv', NEW a \in Attempts, Request(a) \/ Crash(a)
    PROVE  [Promise!Next]_(Promise!vars)
<1>t. TypeOK
  BY DEF IInv
<1> USE DEF local, store, payload
<1>1. CASE SendEmail(a) \/ WriteMemory(a)
  <2>1. Entitled(a) /\ row' = row /\ claims' = claims
    BY <1>1, Phases DEF SendEmail, WriteMemory, WriteOf, Entitled
  <2>2. effects' = effects \/ effects' = effects \cup {a}
    BY <1>1 DEF SendEmail, WriteMemory
  <2> QED
    BY <2>1, <2>2, WriteActs, Unseen DEF Promise!Next
<1>2. CASE Complete(a)
  <2>1. effects' = effects /\ claims' = claims
    BY <1>2 DEF Complete
  <2>2. CASE row' = row
    BY <2>1, <2>2, Unseen
  <2>3. CASE row' # row
    <3>1. CanFinish(a, "completed") /\ row' = Finished(a, "completed", a)
      BY <1>2, <2>3 DEF Complete, Answers
    <3>2. /\ row.token = a /\ row.state = "accepted"
          /\ row'.state = "completed" /\ row'.response = a
      BY <1>t, <2>3, <3>1, Finish
    <3>3. a = claims
      BY <3>2 DEF IInv, RowIsLastClaim
    <3>4. Outcome = "open" /\ Outcome' = "completed"
      BY <3>2 DEF Outcome
    <3>5. Actor' = Actor /\ Actor \in {None, a}
      BY <2>1, <3>2, <3>3, LastActor, LastActorAfter DEF ActorIsLast
    <3> QED
      BY <3>2, <3>4, <3>5 DEF Promise!Next, Promise!Complete
  <2> QED
    BY <2>2, <2>3
<1>3. CASE Abort(a)
  <2>1. effects' = effects /\ claims' = claims
    BY <1>3 DEF Abort
  <2>2. CASE row' = row
    BY <2>1, <2>2, Unseen
  <2>3. CASE row' # row
    <3> DEFINE final == IF possible[a] THEN "uncertain" ELSE "failed"
    <3>1. CanFinish(a, final) /\ row' = Finished(a, final, None)
      BY <1>3, <2>3 DEF Abort
    <3>2. final \in {"failed", "uncertain"}
      OBVIOUS
    <3> HIDE DEF final
    <3>3. row.state = "accepted" /\ row'.state = final /\ row'.response = None
      BY <1>t, <2>3, <3>1, <3>2, Finish DEF None
    <3>4. row.response = None
      BY <3>3 DEF IInv, AnswerIsHolders
    <3> QED
      BY <2>1, <3>2, <3>3, <3>4, Unseen, Doubts DEF Promise!Next
  <2> QED
    BY <2>2, <2>3
<1>4. CASE \/ create_conversation(a) \/ get_recent_conversation_messages(a)
           \/ AppendOwner(a) \/ EndCapture(a) \/ AppendLi(a) \/ Crash(a)
  <2>1. row' = row /\ effects' = effects /\ claims' = claims
    BY <1>4 DEF create_conversation, get_recent_conversation_messages, AppendOwner,
                EndCapture, AppendLi, Crash
  <2> QED
    BY <2>1, Unseen
<1>5. CASE bind_chat_turn_conversation(a)
  <2>1. effects' = effects /\ claims' = claims
    BY <1>5 DEF bind_chat_turn_conversation
  <2>2. row' = row \/ row' = [row EXCEPT !.conv = conv[a]]
    BY <1>5 DEF bind_chat_turn_conversation, RowCall
  <2>3. row'.state = row.state /\ row'.response = row.response
    BY <1>t, <2>2 DEF TypeOK, RowType
  <2> QED
    BY <2>1, <2>3, Unseen
<1>6. CASE before_memory_write(a)
  <2>1. effects' = effects /\ claims' = claims
    BY <1>6 DEF before_memory_write
  <2>2. \E ok, error \in Steps : mark_chat_turn_effect_started(a, ok, error)
    BY <1>6, Phases DEF before_memory_write, Steps
  <2>3. row'.state = row.state /\ row'.response = row.response
    BY <1>t, <2>2, EffectStarted DEF Marks
  <2> QED
    BY <2>1, <2>3, Unseen
<1>7. CASE \/ MarkBound(a) \/ MarkSaved(a) \/ PrepareEmail(a) \/ DispatchEmail(a)
           \/ MarkSent(a) \/ StartModel(a) \/ talk_to_li(a)
  <2>1. effects' = effects /\ claims' = claims
    BY <1>7 DEF MarkBound, MarkSaved, PrepareEmail, DispatchEmail, MarkSent, StartModel,
                talk_to_li
  <2>2. \E stage \in Stages, ok, error \in Steps :
            mark_chat_turn_progress(a, stage, ok, error)
    BY <1>7, StageNames DEF MarkBound, MarkSaved, PrepareEmail, DispatchEmail, MarkSent,
                            StartModel, talk_to_li, AfterSaving, Steps
  <2>3. row'.state = row.state /\ row'.response = row.response
    BY <1>t, <2>2, MarkProgress DEF Marks
  <2> QED
    BY <2>1, <2>3, Unseen
<1> QED
  BY <1>1, <1>2, <1>3, <1>4, <1>5, <1>6, <1>7 DEF Request

LEMMA StepKeepsPromise ==
    IInv /\ IInv' /\ [Next]_vars => [Promise!Next]_(Promise!vars)
<1> SUFFICES ASSUME IInv, IInv', [Next]_vars PROVE [Promise!Next]_(Promise!vars)
  OBVIOUS
<1> USE DEF local, store, payload
<1>1. CASE ClaimNew \/ ClaimAgain
  BY <1>1, ClaimsUnseen
<1>2. CASE GiveUp
  <2>1. row.state = "accepted" /\ row'.state = "uncertain" /\ row'.response = row.response
    BY <1>2 DEF GiveUp, IInv, TypeOK, RowType
  <2>2. effects' = effects /\ claims' = claims
    BY <1>2 DEF GiveUp
  <2> QED
    BY <2>1, <2>2, Doubts DEF Promise!Next
<1>3. CASE ExpireReplay
  <2>1. /\ row.state = "completed" /\ row'.state = "replay_expired"
        /\ row'.response = None /\ effects' = effects /\ claims' = claims
    BY <1>3 DEF ExpireReplay, IInv, TypeOK, RowType
  <2>2. Outcome = "completed" /\ Outcome' = "expired"
    BY <2>1 DEF Outcome
  <2>3. Actor' = Actor
    BY <2>1, LastActor, LastActorAfter DEF ActorIsLast
  <2> QED
    BY <2>1, <2>2, <2>3 DEF Promise!Next, Promise!Expire
<1>4. CASE Replay \/ LeaseRunsOut \/ ResponseAges \/ UNCHANGED vars
  <2>1. row'.state = row.state /\ row'.response = row.response
    BY <1>4 DEF Replay, LeaseRunsOut, ResponseAges, vars, IInv, TypeOK, RowType
  <2>2. effects' = effects /\ claims' = claims
    BY <1>4 DEF Replay, LeaseRunsOut, ResponseAges, vars
  <2> QED
    BY <2>1, <2>2, Unseen
<1>5. ASSUME NEW a \in Attempts, Request(a) \/ Crash(a)
      PROVE  [Promise!Next]_(Promise!vars)
  BY <1>5, RequestKeepsPromise
<1>6. ASSUME NEW c \in Conversations, DeleteConversation(c)
      PROVE  [Promise!Next]_(Promise!vars)
  <2>1. effects' = effects /\ claims' = claims
    BY <1>6 DEF DeleteConversation
  <2>2. CASE row' = row
    BY <2>1, <2>2, Unseen
  <2>3. CASE row' = NoRow
    <3>1. Outcome' = "open" /\ row'.response = None
      BY <2>3 DEF Outcome, NoRow
    <3>2. Actor' = None
      BY <2>3, LastActorAfter DEF ActorIsLast, NoRow
    <3> QED
      BY <3>1, <3>2 DEF Promise!Next, Promise!Forget
  <2> QED
    BY <1>6, <2>2, <2>3 DEF DeleteConversation
<1> QED
  BY <1>1, <1>2, <1>3, <1>4, <1>5, <1>6 DEF Next, begin_chat_turn

(* The whole protocol - leases, tokens, fences, lost answers, crashes and  *)
(* deletions - does no more than the promise allows.                       *)
THEOREM Implementation == Spec => KeepsPromise
<1>1. Init => Promise!Init
  BY DEF Init, Promise!Init, Outcome, Actor, NoRow
<1> QED
  BY <1>1, Invariance, StepKeepsPromise, PTL DEF Spec, KeepsPromise, Promise!Spec
=============================================================================
