------------------------ MODULE ChatTurnConversation ------------------------
(***************************************************************************)
(* That the messages of a turn are in one conversation, for any number of  *)
(* requests, although each may create a conversation and bind it without   *)
(* showing its token.                                                      *)
(*                                                                         *)
(* Once a conversation is bound it stays bound until the owner deletes it, *)
(* and the row with it.  A request of the row that got beyond its binding  *)
(* therefore carries the row's conversation, and so does a request that    *)
(* skips the binding, because the stage it resumes at says that an         *)
(* earlier one was bound.                                                  *)
(***************************************************************************)
EXTENDS ChatTurnProofs

(* The calls of a request that has its conversation.                       *)
BoundSteps == Steps \ {"idle", "create", "bind", "finish", "abort", "done"}

Messages == ownerMsgs \cup liMsgs

Placed ==
    \A a \in Attempts : Current(a) /\ (pc[a] \in BoundSteps \/ a \in Messages) =>
        conv[a] = row.conv /\ row.conv # Unbound

StageIsTrue == row.stage # "accepted" => row.conv # Unbound

StartIsTrue ==
    \A a \in Attempts :
        /\ pc[a] = "create" => resumed[a] = "accepted" /\ a \notin Messages
        /\ pc[a] = "bind" => conv[a] # Unbound

NameIsKept ==
    named =>
        /\ row.conv \in {Unbound, Named}
        /\ \A a \in Attempts : pc[a] # "create" /\ (a <= claims => conv[a] = Named)

UnclaimedIsSilent == \A a \in Attempts : a > claims => a \notin Messages

Binding == Placed /\ StageIsTrue /\ StartIsTrue /\ NameIsKept /\ UnclaimedIsSilent

-----------------------------------------------------------------------------
(* Only the first stage comes before the binding.                          *)
LEMMA FirstStage ==
    ASSUME NEW stage \in Stages
    PROVE  AfterBinding(stage) = IF stage = "accepted" THEN "bind" ELSE "read_history"
<1> USE DEF AfterBinding, Rank
<1>1. CASE stage \in {"accepted", "conversation_bound", "message_saved", "action_prepared"}
  BY <1>1
<1>2. CASE stage \in {"provider_dispatched", "provider_completed", "provider_no_effect",
                      "model_started", "response_ready"}
  BY <1>2
<1> QED
  BY <1>1, <1>2, StageNames

(* A request that goes on, or ends, from a step beyond its binding, or     *)
(* ends from one before it.                                                *)
GoesOn(a) ==
    \/ pc'[a] = pc[a] /\ resumed'[a] = resumed[a]
    \/ pc[a] # "idle" /\ pc'[a] \in {"finish", "abort", "done"}
    \/ pc[a] \in BoundSteps /\ pc'[a] \in BoundSteps

(* The row keeps its conversation, its place and, unless it is bound, its  *)
(* stage; messages are stored by requests beyond their binding.            *)
Carries ==
    /\ row'.conv = row.conv /\ row'.attempts = row.attempts
    /\ row'.stage = row.stage \/ row.conv # Unbound
    /\ UNCHANGED <<claims, conv, named>>
    /\ \A a \in Attempts : GoesOn(a)
    /\ \A a \in Messages' : a \in Messages \/ pc[a] \in BoundSteps

LEMMA CarriesKeeps == ASSUME IInv, Binding, Carries PROVE Binding'
<1>1. \A a : Current(a)' <=> Current(a)
  BY DEF Carries, Current
<1>2. \A a \in Attempts : pc'[a] \in BoundSteps => pc[a] \in BoundSteps
  BY DEF Carries, GoesOn, BoundSteps
<1>3. \A a \in Attempts : pc'[a] \in {"create", "bind"} =>
            pc'[a] = pc[a] /\ resumed'[a] = resumed[a]
  BY DEF Carries, GoesOn, BoundSteps
<1>4. Placed'
  BY <1>1, <1>2 DEF Binding, Placed, Carries
<1>5. StageIsTrue'
  BY DEF Binding, StageIsTrue, Carries
<1>6. StartIsTrue'
  BY <1>3 DEF Binding, StartIsTrue, Carries, BoundSteps
<1>7. NameIsKept'
  BY <1>3 DEF Binding, NameIsKept, Carries
<1>8. UnclaimedIsSilent'
  BY DEF Binding, UnclaimedIsSilent, Carries, IInv, UnclaimedIsIdle, BoundSteps
<1> QED
  BY <1>4, <1>5, <1>6, <1>7, <1>8 DEF Binding

-----------------------------------------------------------------------------
(* The steps.                                                              *)

(* A mark that was accepted belongs to the row's own request.              *)
LEMMA MarkOfHolder ==
    ASSUME IInv, Binding, NEW a \in Attempts, NEW stage \in Stages, NEW ok, NEW error,
           pc[a] \in BoundSteps,
           \/ mark_chat_turn_progress(a, stage, ok, error)
           \/ mark_chat_turn_effect_started(a, ok, error)
    PROVE  /\ row'.conv = row.conv /\ row'.attempts = row.attempts
           /\ row'.stage = row.stage \/ row.conv # Unbound
           /\ pc' = [pc EXCEPT ![a] = ok] \/ pc' = [pc EXCEPT ![a] = error]
<1>1. row \in RowType
  BY DEF IInv, TypeOK
<1>2. Holds(a) => row.conv # Unbound
  <2> SUFFICES ASSUME Holds(a) PROVE row.conv # Unbound
    OBVIOUS
  <2>1. Current(a)
    BY BoundsAssumption, <1>1 DEF IInv, TypeOK, RowIsLastClaim, Holds, Current, NoRow, RowType, Attempts
  <2> QED
    BY <2>1 DEF Binding, Placed
<1>3. CASE mark_chat_turn_progress(a, stage, ok, error)
  <2> DEFINE new == [row EXCEPT
            !.stage = stage,
            !.started = @ \/ stage \in {"provider_dispatched", "provider_completed"},
            !.effect = EffectAfter(stage),
            !.lease = TRUE]
  <2>1. new.conv = row.conv /\ new.attempts = row.attempts
    BY <1>1 DEF RowType
  <2> HIDE DEF new
  <2>2. PICK answer \in Answers :
            /\ answer # "refused" => Holds(a)
            /\ row' = IF answer = "refused" THEN row ELSE new
            /\ Reply(a, answer, ok, error)
    BY <1>3 DEF mark_chat_turn_progress, RowCall, new
  <2> QED
    BY <1>2, <2>1, <2>2 DEF Reply, Goto
<1>4. CASE mark_chat_turn_effect_started(a, ok, error)
  <2> DEFINE new == [row EXCEPT !.started = TRUE, !.effect = "dispatched", !.lease = TRUE]
  <2>1. new.conv = row.conv /\ new.attempts = row.attempts /\ new.stage = row.stage
    BY <1>1 DEF RowType
  <2> HIDE DEF new
  <2>2. PICK answer \in Answers :
            /\ row' = IF answer = "refused" THEN row ELSE new
            /\ Reply(a, answer, ok, error)
    BY <1>4 DEF mark_chat_turn_effect_started, RowCall, new
  <2> QED
    BY <2>1, <2>2 DEF Reply, Goto
<1> QED
  BY <1>3, <1>4

(* A request beyond its binding stores its messages where it is bound.     *)
LEMMA BoundRequestCarries ==
    ASSUME IInv, Binding, NEW a \in Attempts,
           \/ MarkBound(a) \/ get_recent_conversation_messages(a) \/ AppendOwner(a)
           \/ MarkSaved(a) \/ PrepareEmail(a) \/ DispatchEmail(a) \/ SendEmail(a)
           \/ MarkSent(a) \/ EndCapture(a) \/ before_memory_write(a) \/ WriteMemory(a)
           \/ StartModel(a) \/ talk_to_li(a) \/ AppendLi(a)
    PROVE  Binding'
<1> USE DEF local, store, payload
<1>p. pc \in [Attempts -> Steps]
  BY DEF IInv, TypeOK
<1>1. ASSUME pc[a] \in BoundSteps, NEW step \in BoundSteps \cup {"finish", "abort"},
             pc' = [pc EXCEPT ![a] = step], UNCHANGED <<claims, conv, resumed, named>>,
             row'.conv = row.conv, row'.attempts = row.attempts,
             row'.stage = row.stage \/ row.conv # Unbound,
             \A b \in Messages' : b \in Messages \/ b = a
      PROVE  Binding'
  <2>1. \A b \in Attempts : GoesOn(b)
    BY <1>1, <1>p DEF GoesOn, BoundSteps
  <2> QED
    BY <1>1, <2>1, CarriesKeeps DEF Carries
<1>2. ASSUME NEW stage \in Stages, NEW ok \in BoundSteps,
             NEW error \in BoundSteps \cup {"abort"}, pc[a] \in BoundSteps,
             \/ mark_chat_turn_progress(a, stage, ok, error)
             \/ mark_chat_turn_effect_started(a, ok, error),
             UNCHANGED <<claims, conv, resumed, named, store>>
      PROVE  Binding'
  BY <1>1, <1>2, MarkOfHolder DEF Messages
<1> USE DEF BoundSteps, Steps
<1>3. CASE MarkBound(a)
  BY <1>2, <1>3, StageNames DEF MarkBound
<1>4. CASE MarkSaved(a)
  BY <1>2, <1>4, StageNames DEF MarkSaved, AfterSaving
<1>5. CASE PrepareEmail(a)
  BY <1>2, <1>5, StageNames DEF PrepareEmail
<1>6. CASE DispatchEmail(a)
  BY <1>2, <1>6, StageNames DEF DispatchEmail
<1>7. CASE MarkSent(a)
  BY <1>2, <1>7, StageNames DEF MarkSent
<1>8. CASE StartModel(a)
  BY <1>2, <1>8, StageNames DEF StartModel
<1>9. CASE talk_to_li(a)
  <2>1. (IF noCapture[a] THEN "append_li" ELSE "deferred") \in BoundSteps
    OBVIOUS
  <2> QED
    BY <1>2, <1>9, <2>1, StageNames DEF talk_to_li
<1>10. CASE before_memory_write(a)
  BY <1>2, <1>10, StageNames, Phases DEF before_memory_write
<1>11. CASE get_recent_conversation_messages(a)
  BY <1>1, <1>11 DEF get_recent_conversation_messages, Goto, AfterSaving, Messages
<1>12. CASE AppendOwner(a)
  BY <1>1, <1>12 DEF AppendOwner, Reply, Goto, AfterSaving, Messages
<1>13. CASE SendEmail(a)
  BY <1>1, <1>13 DEF SendEmail, Reply, Goto, Messages
<1>14. CASE EndCapture(a)
  BY <1>1, <1>14, Phases DEF EndCapture, Goto, Messages
<1>15. CASE WriteMemory(a)
  BY <1>1, <1>15, Phases DEF WriteMemory, Reply, Goto, Messages
<1>16. CASE AppendLi(a)
  BY <1>1, <1>16 DEF AppendLi, Goto, Messages
<1> QED
  BY <1>3, <1>4, <1>5, <1>6, <1>7, <1>8, <1>9, <1>10, <1>11, <1>12, <1>13, <1>14,
     <1>15, <1>16

(* A request ends, and the clock goes on, without touching the binding.    *)
LEMMA EndCarries ==
    ASSUME IInv, Binding,
           \/ \E a \in Attempts : Complete(a) \/ Abort(a) \/ Crash(a)
           \/ GiveUp \/ Replay \/ ExpireReplay \/ LeaseRunsOut \/ ResponseAges
           \/ UNCHANGED vars
    PROVE  Binding'
<1> USE DEF local, store, payload
<1>t. row \in RowType /\ pc \in [Attempts -> Steps] /\ resumed \in [Attempts -> Stages]
  BY DEF IInv, TypeOK
<1> DEFINE Kept == /\ row'.conv = row.conv /\ row'.attempts = row.attempts
                   /\ row'.stage = row.stage
                   /\ UNCHANGED <<claims, conv, named, ownerMsgs, liMsgs>>
           Ends(a) == /\ pc[a] # "idle" /\ pc' = [pc EXCEPT ![a] = "done"]
                      /\ resumed' = [resumed EXCEPT ![a] = "accepted"]
<1>1. Kept /\ (UNCHANGED <<pc, resumed>> \/ \E a \in Attempts : Ends(a))
  <2>1. ASSUME NEW a \in Attempts, Complete(a) PROVE Kept /\ Ends(a)
    BY <1>t, <2>1 DEF Complete, End, Goto, Finished, RowType
  <2>2. ASSUME NEW a \in Attempts, Abort(a) PROVE Kept /\ Ends(a)
    BY <1>t, <2>2 DEF Abort, End, Goto, Finished, RowType
  <2>3. ASSUME NEW a \in Attempts, Crash(a) PROVE Kept /\ Ends(a)
    BY <1>t, <2>3 DEF Crash, End, Goto
  <2>4. CASE GiveUp \/ Replay \/ ExpireReplay
    BY <1>t, <2>4 DEF GiveUp, Replay, ExpireReplay, RowType
  <2>5. CASE LeaseRunsOut \/ ResponseAges \/ UNCHANGED vars
    BY <1>t, <2>5 DEF LeaseRunsOut, ResponseAges, vars, RowType
  <2> QED
    BY <2>1, <2>2, <2>3, <2>4, <2>5
<1>2. \A a \in Attempts : GoesOn(a)
  BY <1>t, <1>1 DEF GoesOn
<1> QED
  BY <1>1, <1>2, CarriesKeeps DEF Carries, Messages

(* A claim takes over what the row is bound to.                            *)
LEMMA ClaimBinds ==
    ASSUME IInv, Binding, ClaimNew \/ ClaimAgain
    PROVE  Binding'
<1> USE DEF store, payload
<1> DEFINE t == claims + 1
<1>1. /\ t \in Attempts /\ claims' = t /\ claims \in Nat
      /\ UNCHANGED <<named, ownerMsgs, liMsgs>>
  BY BoundsAssumption DEF ClaimNew, ClaimAgain, Claimed, IInv, TypeOK, Attempts
<1>2. /\ row.conv = row'.conv \/ row.state = "absent"
      /\ row'.conv \in Conversations \cup {Unbound}
      /\ row'.stage \in Stages /\ row'.attempts \in Nat
      /\ row'.stage # "accepted" => row'.conv # Unbound
      /\ named => row'.conv \in {Unbound, Named}
      /\ row.state = "absent" => row'.attempts = 1
      /\ row.state # "absent" => row'.attempts = row.attempts + 1
  <2>1. CASE ClaimNew
    BY <2>1, FirstClaim DEF IInv, RowType, ClaimNew
  <2>2. CASE ClaimAgain
    <3>1. row'.stage = "accepted" <=> row.stage = "accepted"
      <4>1. row \in RowType
        BY DEF IInv, TypeOK
      <4>2. row'.stage = IF row.stage \in Rewound THEN "message_saved" ELSE row.stage
        BY <2>2, <4>1 DEF ClaimAgain, Claimed, RowType
      <4> QED
        BY <4>2 DEF Rewound
    <3>2. row.state # "absent"
      BY <2>2 DEF ClaimAgain, SafeToRepeat
    <3> QED
      BY <2>2, <3>1, <3>2, RepeatedClaim DEF IInv, RowType, Binding, StageIsTrue, NameIsKept
  <2> QED
    BY <2>1, <2>2
<1>3. \A a \in Attempts : Current(a)' => a = t \/ Current(a)
  <2>1. row.state = "absent" => \A a \in Attempts : Current(a)' => a = t
    BY <1>1, <1>2 DEF Current, Attempts
  <2>2. row.state # "absent" => \A a \in Attempts : Current(a)' => a = t \/ Current(a)
    <3>1. row.attempts \in Nat
      BY DEF IInv, TypeOK, RowType
    <3> QED
      BY <1>1, <1>2, <3>1 DEF Current, Attempts
  <2> QED
    BY <2>1, <2>2
<1>4. /\ conv' = [conv EXCEPT ![t] = IF named THEN Named ELSE row'.conv]
      /\ pc'[t] \in {"create", "bind", "read_history", "done"}
      /\ pc'[t] = "create" => conv'[t] = Unbound
      /\ pc'[t] \in {"create", "bind", "read_history"} => resumed'[t] = row'.stage
      /\ pc'[t] = "bind" => conv'[t] # Unbound /\ row'.stage = "accepted"
      /\ pc'[t] = "read_history" => conv'[t] # Unbound /\ row'.stage # "accepted"
      /\ \A a \in Attempts : a # t => pc'[a] = pc[a] /\ resumed'[a] = resumed[a]
  <2> DEFINE c == IF named THEN Named ELSE row'.conv
  <2>1. /\ conv' = [conv EXCEPT ![t] = c]
        /\ \/ /\ resumed' = [resumed EXCEPT ![t] = row'.stage]
              /\ Goto(t, IF c = Unbound THEN "create" ELSE AfterBinding(row'.stage))
           \/ Goto(t, "done") /\ UNCHANGED resumed
    BY DEF ClaimNew, ClaimAgain, Claimed
  <2>2. pc \in [Attempts -> Steps] /\ resumed \in [Attempts -> Stages]
        /\ DOMAIN conv = Attempts
    BY DEF IInv, TypeOK
  <2>3. AfterBinding(row'.stage) = IF row'.stage = "accepted" THEN "bind" ELSE "read_history"
    BY <1>2, FirstStage
  <2> HIDE DEF c
  <2>4. conv'[t] = c
    BY <1>1, <2>1, <2>2
  <2>5. CASE Goto(t, "done") /\ UNCHANGED resumed
    BY <1>1, <2>1, <2>2, <2>5 DEF Goto, c
  <2>6. CASE /\ resumed' = [resumed EXCEPT ![t] = row'.stage]
             /\ Goto(t, IF c = Unbound THEN "create" ELSE AfterBinding(row'.stage))
    <3>1. conv' = [conv EXCEPT ![t] = IF named THEN Named ELSE row'.conv]
      BY <2>1 DEF c
    <3>2. resumed'[t] = row'.stage /\ \A a \in Attempts : a # t => resumed'[a] = resumed[a]
      BY <1>1, <2>2, <2>6
    <3>3. /\ pc'[t] = IF c = Unbound THEN "create"
                      ELSE IF row'.stage = "accepted" THEN "bind" ELSE "read_history"
          /\ \A a \in Attempts : a # t => pc'[a] = pc[a]
      BY <1>1, <2>2, <2>3, <2>6 DEF Goto
    <3> QED
      BY <2>4, <3>1, <3>2, <3>3
  <2> QED
    BY <2>1, <2>5, <2>6
<1>5. DOMAIN conv = Attempts /\ Named # Unbound
  BY DEF IInv, TypeOK, Named, Unbound
<1>6. conv'[t] = (IF named THEN Named ELSE row'.conv)
      /\ \A a \in Attempts : a # t => conv'[a] = conv[a]
  BY <1>1, <1>4, <1>5
<1>7. t \notin Messages
  BY <1>1 DEF Binding, UnclaimedIsSilent
<1> HIDE DEF t
<1>8. Placed'
  <2> SUFFICES ASSUME NEW a \in Attempts, Current(a)', pc'[a] \in BoundSteps \/ a \in Messages'
               PROVE  conv'[a] = row'.conv /\ row'.conv # Unbound
    BY DEF Placed
  <2>1. CASE a = t
    <3>1. pc'[t] = "read_history"
      BY <1>1, <1>4, <1>7, <2>1 DEF BoundSteps, Messages
    <3> QED
      BY <1>2, <1>4, <1>6, <2>1, <3>1
  <2>2. CASE a # t
    <3>1. Current(a) /\ row.state # "absent"
      <4>1. Current(a)
        BY <1>3, <2>2
      <4>2. row.state = "absent" => ~Current(a)
        BY DEF Current, IInv, RowIsLastClaim, NoRow, TypeOK, Attempts
      <4> QED
        BY <4>1, <4>2
    <3> QED
      BY <1>1, <1>2, <1>4, <1>6, <2>2, <3>1 DEF Binding, Placed, Messages
  <2> QED
    BY <2>1, <2>2
<1>9. StageIsTrue'
  BY <1>2 DEF StageIsTrue
<1>10. StartIsTrue'
  <2> SUFFICES ASSUME NEW a \in Attempts
               PROVE  /\ pc'[a] = "create" => resumed'[a] = "accepted" /\ a \notin Messages'
                      /\ pc'[a] = "bind" => conv'[a] # Unbound
    BY DEF StartIsTrue
  <2>1. CASE a = t
    <3>1. pc'[t] = "create" => row'.conv = Unbound
      BY <1>4, <1>5, <1>6
    <3> QED
      BY <1>1, <1>2, <1>4, <1>7, <2>1, <3>1 DEF Messages
  <2>2. CASE a # t
    BY <1>1, <1>4, <1>6, <2>2 DEF Binding, StartIsTrue, Messages
  <2> QED
    BY <2>1, <2>2
<1>11. NameIsKept'
  <2> SUFFICES ASSUME named
               PROVE  \A a \in Attempts : pc'[a] # "create" /\ (a <= claims' => conv'[a] = Named)
    BY <1>1, <1>2 DEF NameIsKept
  <2>1. \A a \in Attempts : a # t /\ a <= claims' => a <= claims
    BY <1>1 DEF t, Attempts
  <2> QED
    BY <1>4, <1>5, <1>6, <2>1 DEF Binding, NameIsKept
<1>12. UnclaimedIsSilent'
  <2>1. \A a \in Attempts : a > claims' => a > claims
    BY <1>1 DEF t, Attempts
  <2> QED
    BY <1>1, <2>1 DEF Binding, UnclaimedIsSilent, Messages
<1> QED
  BY <1>8, <1>9, <1>10, <1>11, <1>12 DEF Binding

(* A request that creates its conversation has none, and binds it next.    *)
LEMMA CreateBinds ==
    ASSUME IInv, Binding, NEW a \in Attempts, create_conversation(a)
    PROVE  Binding'
<1>1. /\ pc[a] = "create" /\ resumed[a] = "accepted" /\ a \notin Messages /\ ~named
      /\ UNCHANGED <<row, claims, resumed, named, ownerMsgs, liMsgs>>
  BY DEF create_conversation, Binding, StartIsTrue, NameIsKept, payload
<1>2. AfterBinding("accepted") = "bind"
  BY FirstStage, StageNames
<1>3. pc \in [Attempts -> Steps] /\ DOMAIN conv = Attempts /\ a # Unbound
  BY DEF IInv, TypeOK, Attempts, Unbound
<1>4. /\ pc'[a] = "abort" \/ (pc'[a] = "bind" /\ conv'[a] = a)
      /\ \A b \in Attempts : b # a => pc'[b] = pc[b] /\ conv'[b] = conv[b]
  BY <1>1, <1>2, <1>3 DEF create_conversation, Reply, Goto
<1>5. \A b : Current(b)' <=> Current(b)
  BY <1>1 DEF Current
<1>6. Placed'
  BY <1>1, <1>4, <1>5 DEF Binding, Placed, BoundSteps, Messages
<1>7. StageIsTrue' /\ NameIsKept' /\ UnclaimedIsSilent'
  BY <1>1 DEF Binding, StageIsTrue, NameIsKept, UnclaimedIsSilent, Messages
<1>8. StartIsTrue'
  BY <1>1, <1>3, <1>4 DEF Binding, StartIsTrue, Messages
<1> QED
  BY <1>6, <1>7, <1>8 DEF Binding

(* A binding is not replaced by another one, whoever binds.                *)
LEMMA BindKeeps ==
    ASSUME IInv, Binding, NEW a \in Attempts, bind_chat_turn_conversation(a)
    PROVE  Binding'
<1>1. /\ pc[a] = "bind" /\ conv[a] # Unbound
      /\ UNCHANGED <<claims, conv, resumed, named, ownerMsgs, liMsgs>>
  BY DEF bind_chat_turn_conversation, Binding, StartIsTrue, local, store, payload
<1>2. row \in RowType /\ pc \in [Attempts -> Steps] /\ conv[a] \in Conversations \cup {Unbound}
  BY DEF IInv, TypeOK
<1> DEFINE new == [row EXCEPT !.conv = conv[a]]
<1>3. new.conv = conv[a] /\ new.attempts = row.attempts /\ new.stage = row.stage
  BY <1>2 DEF RowType
<1> HIDE DEF new
<1>4. /\ \/ row' = row /\ pc'[a] = "abort"
         \/ row' = new /\ row.conv \in {Unbound, conv[a]} /\ pc'[a] \in {"mark_bound", "abort"}
      /\ \A b \in Attempts : b # a => pc'[b] = pc[b]
  BY <1>2 DEF bind_chat_turn_conversation, RowCall, Reply, Goto, new
<1>5. \A b : Current(b)' <=> Current(b)
  BY <1>1, <1>3, <1>4 DEF Current
<1>6. row.conv # Unbound => row'.conv = row.conv
  BY <1>3, <1>4
<1>7. Placed'
  <2> SUFFICES ASSUME NEW b \in Attempts, Current(b), pc'[b] \in BoundSteps \/ b \in Messages
               PROVE  conv[b] = row'.conv /\ row'.conv # Unbound
    BY <1>1, <1>5 DEF Placed, Messages
  <2>1. CASE pc[b] \in BoundSteps \/ b \in Messages
    BY <1>6, <2>1 DEF Binding, Placed
  <2>2. CASE b = a /\ pc'[a] = "mark_bound"
    BY <1>1, <1>3, <1>4, <2>2
  <2> QED
    BY <1>4, <2>1, <2>2 DEF BoundSteps
<1>8. StageIsTrue'
  BY <1>1, <1>3, <1>4 DEF Binding, StageIsTrue
<1>9. StartIsTrue'
  BY <1>1, <1>4 DEF Binding, StartIsTrue, Messages
<1>10. NameIsKept'
  <2>1. a <= claims
    BY <1>1 DEF IInv, UnclaimedIsIdle, TypeOK, Attempts
  <2> QED
    BY <1>1, <1>3, <1>4, <2>1 DEF Binding, NameIsKept
<1>11. UnclaimedIsSilent'
  BY <1>1 DEF Binding, UnclaimedIsSilent, Messages
<1> QED
  BY <1>7, <1>8, <1>9, <1>10, <1>11 DEF Binding

(* With its conversation the row goes, and its requests own no row then.   *)
LEMMA DeleteForgets ==
    ASSUME IInv, Binding, NEW c \in Conversations, DeleteConversation(c)
    PROVE  Binding'
<1>1. /\ UNCHANGED <<claims, pc, conv, resumed, named>>
      /\ Messages' \subseteq Messages
      /\ row' = IF row.conv = c THEN NoRow ELSE row
  BY DEF DeleteConversation, local, payload, Messages
<1>2. CASE row' = row
  <2>1. \A a : Current(a)' <=> Current(a)
    BY <1>1, <1>2 DEF Current
  <2> QED
    BY <1>1, <1>2, <2>1
    DEF Binding, Placed, StageIsTrue, StartIsTrue, NameIsKept, UnclaimedIsSilent
<1>3. CASE row' = NoRow
  <2>1. \A a \in Attempts : ~Current(a)'
    BY <1>1, <1>3 DEF Current, NoRow, IInv, TypeOK, Attempts
  <2>2. row'.conv = Unbound /\ row'.stage = "accepted"
    BY <1>3 DEF NoRow
  <2> QED
    BY <1>1, <2>1, <2>2
    DEF Binding, Placed, StageIsTrue, StartIsTrue, NameIsKept, UnclaimedIsSilent
<1> QED
  BY <1>1, <1>2, <1>3

-----------------------------------------------------------------------------
(* The theorem.                                                            *)

LEMMA BindingStep == IInv /\ Binding /\ [Next]_vars => Binding'
<1> SUFFICES ASSUME IInv, Binding, [Next]_vars PROVE Binding'
  OBVIOUS
<1>1. CASE begin_chat_turn
  BY <1>1, ClaimBinds, EndCarries DEF begin_chat_turn
<1>2. ASSUME NEW a \in Attempts, Request(a) \/ Crash(a) PROVE Binding'
  <2>1. CASE create_conversation(a)
    BY <2>1, CreateBinds
  <2>2. CASE bind_chat_turn_conversation(a)
    BY <2>2, BindKeeps
  <2>3. CASE Complete(a) \/ Abort(a) \/ Crash(a)
    BY <2>3, EndCarries
  <2> QED
    BY <1>2, <2>1, <2>2, <2>3, BoundRequestCarries DEF Request
<1>3. CASE LeaseRunsOut \/ ResponseAges \/ UNCHANGED vars
  BY <1>3, EndCarries
<1>4. ASSUME NEW c \in Conversations, DeleteConversation(c) PROVE Binding'
  BY <1>4, DeleteForgets
<1> QED
  BY <1>1, <1>2, <1>3, <1>4 DEF Next

(* Every stored message of a turn is in the conversation that its row is   *)
(* bound to, whatever requests created, bound, lost or deleted             *)
(* (bind_chat_turn_conversation).                                          *)
THEOREM MessagesShareConversation == Spec => []OneConversation
<1>1. Init => Binding
  BY DEF Init, Binding, Placed, StageIsTrue, StartIsTrue, NameIsKept, UnclaimedIsSilent,
     Messages, NoRow, Current, Attempts, BoundSteps
<1>2. IInv /\ Binding => OneConversation
  <2> SUFFICES ASSUME IInv, Binding, NEW a \in ownerMsgs \cup liMsgs, Current(a)
               PROVE  conv[a] = row.conv
    BY DEF OneConversation
  <2>1. a \in Attempts
    BY DEF IInv, TypeOK
  <2> QED
    BY <2>1 DEF Binding, Placed, Messages
<1> QED
  BY <1>1, <1>2, BindingStep, Invariance, PTL DEF Spec
=============================================================================
