-------------------------- MODULE DisclosureProofs --------------------------
(* Proofs about Disclosure, as MCPrivacy instantiates it: for any number of  *)
(* turns that overlap, specialists, domains and rows, private words and      *)
(* restricted messages stay with those that they are meant for.              *)
EXTENDS MCPrivacy, Sequences, TLAPS

-----------------------------------------------------------------------------
(* The invariant: labels are sound wherever a text is kept. A message is     *)
(* private if its text is, and lists only those the text may go to; what is  *)
(* remembered is private if its text is; what is proposed is not private.    *)

Handlers == [pc : {"idle", "asked", "answered", "done"}, current : D!Messages,
             workspace : SUBSET Specialists, seen : SUBSET D!Messages,
             history : SUBSET D!Texts, capturing : BOOLEAN, answer : D!Messages]

Typed ==
    /\ v1 \in Seq(D!Messages) /\ v2 \in [Domains -> SUBSET D!Memories]
    /\ v3 \subseteq D!Proposals /\ v4 \in [Turns -> Handlers]

WellLabelled(m) == (m.text.private => m.private_to_li) /\ m.allowed \subseteq m.text.may

Private(m) == (m.text.private => m.private_to_li) /\ m.text.may = Specialists

Open(text) == ~text.private /\ text.may = Specialists

Sound ==
    /\ \A i \in DOMAIN v1 : WellLabelled(v1[i])
    /\ \A d \in Domains : \A m \in v2[d] : Private(m)
    /\ \A p \in v3 : Open(p.text)
    /\ \A t \in Turns :
        /\ WellLabelled(v4[t].current) /\ WellLabelled(v4[t].answer)
        /\ \A m \in v4[t].seen : WellLabelled(m)

Kept == \A k \in Specialists : \A x \in v5[k] : ~x.private /\ k \in x.may

Invariant == Typed /\ Sound /\ Kept

-----------------------------------------------------------------------------
(* What the operators return.                                                *)

(* A message is labelled by its flag and its recipients.                     *)
LEMMA MessageIsLabelled ==
    ASSUME NEW flag, NEW disclosed \in SUBSET Specialists, NEW workspace \in SUBSET Specialists
    PROVE  /\ D!Labelled(flag, disclosed, workspace) \in D!Messages
           /\ WellLabelled(D!Labelled(flag, disclosed, workspace))
BY DEF D!Labelled, WellLabelled, D!Messages, D!Texts

(* What is drawn from texts is a text.                                       *)
LEMMA DrawnIsText == ASSUME NEW texts PROVE D!Drawn(texts) \in D!Texts
BY DEF D!Drawn, D!Texts

(* What a turn draws on is private only if the capture is.                   *)
LEMMA CaptureKnows ==
    ASSUME Typed, Sound, NEW t \in Turns, D!Captured(t).private
    PROVE  D!CapturePrivate(t)
<1>1. PICK x \in {m.text : m \in D!Sources(t)} \cup v4[t].history : x.private
  BY DEF D!Captured, D!Drawn
<1>2. CASE x \in v4[t].history
  BY <1>2 DEF D!CapturePrivate
<1>3. CASE x \in {m.text : m \in D!Sources(t)}
  <2>1. PICK m \in D!Sources(t) : x = m.text
    BY <1>3
  <2>2. WellLabelled(m)
    BY DEF Sound, D!Sources
  <2> QED
    BY <1>1, <2>1, <2>2 DEF WellLabelled, D!CapturePrivate
<1> QED
  BY <1>1, <1>2, <1>3

(* A remembered text is one that may go to everybody.                        *)
LEMMA RememberedIsOpen ==
    ASSUME NEW t \in Turns
    PROVE  /\ D!Remembered(t, D!Captured(t)) \in D!Texts
           /\ D!Remembered(t, D!Captured(t)).private = D!Captured(t).private
           /\ D!Remembered(t, D!Captured(t)).may = Specialists
<1> D!Captured(t) \in D!Texts
  BY DrawnIsText DEF D!Captured
<1> QED
  BY DEF D!Remembered, D!Texts

(* The answer keeps what its sources say.                                    *)
LEMMA AnswerIsLabelled ==
    ASSUME Typed, Sound, NEW t \in Turns, NEW used \in SUBSET Specialists,
           NEW read, \A m \in read : Private(m)
    PROVE  /\ D!_response_disclosure(t, read, used) \in D!Messages
           /\ WellLabelled(D!_response_disclosure(t, read, used))
<1> DEFINE texts == {m.text : m \in D!Sources(t) \cup read} \cup v4[t].history
           answer == D!_response_disclosure(t, read, used)
<1>1. D!Drawn(texts) \in D!Texts /\ D!ResponsePrivate(t, read) \in BOOLEAN
  BY DrawnIsText DEF D!ResponsePrivate, D!CapturePrivate, Typed, Handlers, D!Messages, D!Memories
<1>2. answer = [text |-> D!Drawn(texts), private_to_li |-> D!ResponsePrivate(t, read),
                allowed |-> IF D!ResponsePrivate(t, read) THEN {} ELSE D!ResponseAllowed(t, used)]
  BY DEF D!_response_disclosure
<1>3. answer \in D!Messages
  BY <1>1, <1>2 DEF D!Messages, D!ResponseAllowed
<1>4. \A m \in D!Sources(t) : WellLabelled(m)
  BY DEF Sound, D!Sources
<1>5. D!Drawn(texts).private => D!ResponsePrivate(t, read)
  <2> SUFFICES ASSUME NEW x \in texts, x.private PROVE D!ResponsePrivate(t, read)
    BY DEF D!Drawn
  <2>1. CASE x \in v4[t].history
    BY <2>1 DEF D!ResponsePrivate, D!CapturePrivate
  <2>2. CASE \E m \in D!Sources(t) : x = m.text
    BY <2>2, <1>4 DEF WellLabelled, D!ResponsePrivate, D!CapturePrivate
  <2>3. CASE \E m \in read : x = m.text
    BY <2>3 DEF Private, D!ResponsePrivate
  <2> QED
    BY <2>1, <2>2, <2>3
<1>6. ASSUME ~D!ResponsePrivate(t, read), NEW k \in D!ResponseAllowed(t, used)
      PROVE  k \in D!Drawn(texts).may
  <2>1. v4[t].history = {}
    BY <1>6 DEF D!ResponsePrivate, D!CapturePrivate
  <2>2. k \in Specialists /\ \A m \in D!Sources(t) : k \in m.text.may
    BY <1>6, <1>4 DEF D!ResponseAllowed, WellLabelled
  <2>3. \A m \in read : k \in m.text.may
    BY <2>2 DEF Private
  <2> QED
    BY <2>1, <2>2, <2>3 DEF D!Drawn
<1> QED
  BY <1>2, <1>3, <1>5, <1>6 DEF WellLabelled

(* Correcting and storing keep the labels of a memory.                       *)
LEMMA MemoryIsPrivate ==
    ASSUME Typed, Sound, NEW d \in Domains, NEW private \in BOOLEAN,
           NEW text \in D!Texts, text.may = Specialists, text.private => private
    PROVE  /\ \A m \in D!correct_explicit_memory(d, text, private) :
                m \in D!Memories /\ Private(m)
           /\ \A m \in D!store_explicit_memory(d, text, private) :
                m \in D!Memories /\ Private(m)
<1>1. \A m \in v2[d] : m \in D!Memories /\ Private(m)
  BY DEF Typed, Sound
<1>2. ASSUME NEW m \in v2[d]
      PROVE  LET new == [text |-> [text EXCEPT !.private = text.private \/ m.text.private],
                         private_to_li |-> private \/ m.private_to_li] IN
             new \in D!Memories /\ Private(new)
  BY <1>1, <1>2 DEF D!Memories, D!Texts, Private
<1>3. ASSUME NEW m \in v2[d]
      PROVE  LET new == [text |-> D!Drawn({text, m.text}),
                         private_to_li |-> private \/ m.private_to_li] IN
             new \in D!Memories /\ Private(new)
  <2>1. D!Drawn({text, m.text}) \in D!Texts
    BY DrawnIsText
  <2>2. D!Drawn({text, m.text}).private => text.private \/ m.text.private
    BY DEF D!Drawn
  <2>3. D!Drawn({text, m.text}).may = Specialists
    BY <1>1, <1>3 DEF D!Drawn, Private
  <2> QED
    BY <1>1, <1>3, <2>1, <2>2, <2>3 DEF D!Memories, Private
<1>4. [text |-> text, private_to_li |-> private] \in D!Memories
      /\ Private([text |-> text, private_to_li |-> private])
  BY DEF D!Memories, Private
<1> QED
  BY <1>2, <1>3, <1>4 DEF D!correct_explicit_memory, D!store_explicit_memory

(* Whether a capture is private is known.                                    *)
LEMMA CaptureIsDecided ==
    ASSUME Typed, NEW t \in Turns PROVE D!CapturePrivate(t) \in BOOLEAN
BY DEF D!CapturePrivate

(* The changes before the answer keep the memory sound.                      *)
LEMMA ChangesAreSound ==
    ASSUME Typed, Sound, NEW t \in Turns, NEW now \in D!Changes(t) \cup {v2}
    PROVE  now \in [Domains -> SUBSET D!Memories] /\ \A d \in Domains : \A m \in now[d] : Private(m)
<1> DEFINE text == D!Remembered(t, D!Captured(t))
<1>1. CASE now = v2
  BY <1>1 DEF Typed, Sound
<1>2. ASSUME NEW d \in Domains, now = [v2 EXCEPT ![d] = {}]
      PROVE  now \in [Domains -> SUBSET D!Memories] /\ \A e \in Domains : \A m \in now[e] : Private(m)
  BY <1>2 DEF Typed, Sound
<1>3. ASSUME NEW d \in Domains,
             now = [v2 EXCEPT ![d] = D!correct_explicit_memory(d, text, D!CapturePrivate(t))]
      PROVE  now \in [Domains -> SUBSET D!Memories] /\ \A e \in Domains : \A m \in now[e] : Private(m)
  <2>1. text \in D!Texts /\ text.may = Specialists /\ (text.private => D!CapturePrivate(t))
    BY RememberedIsOpen, CaptureKnows
  <2>2. \A m \in D!correct_explicit_memory(d, text, D!CapturePrivate(t)) :
            m \in D!Memories /\ Private(m)
    <3> HIDE DEF text
    <3> QED BY <2>1, MemoryIsPrivate, CaptureIsDecided
  <2> HIDE DEF text
  <2> QED
    BY <1>3, <2>2 DEF Typed, Sound
<1> QED
  BY <1>1, <1>2, <1>3 DEF D!Changes

(* What a turn sends to a specialist may go to it.                           *)
LEMMA PacketsAreKept ==
    ASSUME Typed, Sound, NEW t \in Turns, NEW routed \in D!Routes(t), NEW recalled,
           NEW now, \A d \in Domains : \A m \in now[d] : Private(m),
           recalled \subseteq Domains,
           NEW k \in Specialists, NEW x \in D!Packets(t, routed, now, recalled)[k]
    PROVE  ~x.private /\ k \in x.may
<1>1. /\ k \in routed
      /\ \/ x \in D!specialist_conversation_context(t, k)
         \/ x \in D!memory_allowed_for_specialist(now, recalled, k)
         \/ k \in v4[t].current.allowed /\ x = v4[t].current.text
  BY DEF D!Packets
<1>2. CASE x \in D!specialist_conversation_context(t, k)
  <2>1. PICK m \in v4[t].seen : ~m.private_to_li /\ k \in m.allowed /\ x = m.text
    BY <1>2 DEF D!specialist_conversation_context
  <2> QED
    BY <2>1 DEF Sound, WellLabelled
<1>3. CASE x \in D!memory_allowed_for_specialist(now, recalled, k)
  <2>1. PICK m \in UNION {{n \in now[d] : ~n.private_to_li} : d \in {e \in recalled : k \in Specialists}} :
            x = m.text
    BY <1>3 DEF D!memory_allowed_for_specialist
  <2>2. Private(m) /\ ~m.private_to_li
    BY <2>1
  <2> QED
    BY <2>1, <2>2 DEF Private
<1>4. CASE k \in v4[t].current.allowed /\ x = v4[t].current.text
  <2>1. ~v4[t].current.private_to_li
    BY <1>1 DEF D!Routes
  <2> QED
    BY <1>4, <2>1 DEF Sound, WellLabelled
<1> QED
  BY <1>1, <1>2, <1>3, <1>4

-----------------------------------------------------------------------------
(* The steps.                                                                *)

(* A turn that is over, with no message of its own.                          *)
Done == [D!NoTurn EXCEPT !.pc = "done"]

(* A turn without messages is labelled.                                      *)
LEMMA NothingIsLabelled ==
    /\ D!NoMessage \in D!Messages /\ WellLabelled(D!NoMessage)
    /\ D!NoTurn \in Handlers /\ Done \in Handlers
    /\ \A h \in {D!NoTurn, Done} :
        h.seen = {} /\ h.current = D!NoMessage /\ h.answer = D!NoMessage
<1>1. D!NoMessage \in D!Messages /\ WellLabelled(D!NoMessage)
  BY DEF D!NoMessage, D!Messages, D!Texts, WellLabelled
<1>2. D!NoTurn \in Handlers /\ D!NoTurn.seen = {}
      /\ D!NoTurn.current = D!NoMessage /\ D!NoTurn.answer = D!NoMessage
  BY <1>1 DEF D!NoTurn, Handlers
<1>3. Done \in Handlers /\ Done.seen = {}
      /\ Done.current = D!NoMessage /\ Done.answer = D!NoMessage
  BY <1>2 DEF Done, Handlers
<1> QED
  BY <1>1, <1>2, <1>3

(* At first nothing is kept but a row that cannot be read.                  *)
LEMMA InitIsSound == ASSUME D!Init PROVE Invariant
<1>1. D!NoMessage \in D!Messages /\ WellLabelled(D!NoMessage)
  BY NothingIsLabelled
<1>2. D!NoTurn \in Handlers /\ D!NoTurn.seen = {}
      /\ D!NoTurn.current = D!NoMessage /\ D!NoTurn.answer = D!NoMessage
  BY NothingIsLabelled
<1>3. LET m == D!conversation_context_message(D!Unreadable) IN
      m \in D!Messages /\ WellLabelled(m)
  BY DEF D!conversation_context_message, D!Unreadable, D!Messages, D!Texts, WellLabelled
<1> DEFINE unreadable == D!conversation_context_message(D!Unreadable)
<1>7. v1 = <<>> \/ v1 = <<unreadable>>
  BY DEF D!Init
<1> HIDE DEF unreadable
<1>8. unreadable \in D!Messages
  BY <1>3 DEF unreadable
<1>9. v1 \in Seq(D!Messages)
  <2>1. CASE v1 = <<>>
    BY <2>1
  <2>2. CASE v1 = <<unreadable>>
    BY <1>8, <2>2
  <2> QED
    BY <1>7, <2>1, <2>2
<1>4. Typed
  BY <1>2, <1>9 DEF D!Init, Typed
<1>5. Sound
  BY <1>1, <1>2, <1>3 DEF D!Init, Sound
<1>6. Kept
  BY DEF D!Init, Kept
<1> QED
  BY <1>4, <1>5, <1>6 DEF Invariant

(* A message that arrives, and what its turn reads, are labelled.            *)
LEMMA AskIsSound == ASSUME Invariant, NEW t \in Turns, D!Ask(t) PROVE Invariant'
<1>1. PICK flag \in {"shared", "private", "malformed"}, disclosed \in SUBSET Specialists,
           workspace \in {{}} \cup {{k} : k \in Specialists},
           snippets \in D!search_conversation_history, saved \in BOOLEAN :
        LET message == D!Labelled(flag, disclosed, workspace) IN
        /\ v4' = [v4 EXCEPT ![t] =
                    [D!NoTurn EXCEPT !.pc = "asked", !.current = message,
                                     !.workspace = workspace \cap message.allowed,
                                     !.seen = D!get_recent_conversation_messages,
                                     !.history = snippets]]
        /\ v1' = IF saved THEN Append(v1, message) ELSE v1
  BY DEF D!Ask
<1> DEFINE message == D!Labelled(flag, disclosed, workspace)
<1>2. message \in D!Messages /\ WellLabelled(message)
  BY MessageIsLabelled
<1>3. /\ D!get_recent_conversation_messages \subseteq D!Messages
      /\ \A m \in D!get_recent_conversation_messages : WellLabelled(m)
  BY DEF D!get_recent_conversation_messages, Invariant, Typed, Sound
<1>4. snippets \in SUBSET D!Texts
  <2>1. \A i \in DOMAIN v1 : v1[i].text \in D!Texts
    <3>1. \A i \in DOMAIN v1 : v1[i] \in D!Messages
      BY DEF Invariant, Typed
    <3> QED
      BY <3>1 DEF D!Messages
  <2>2. snippets = {} \/ \E i \in DOMAIN v1 : snippets = {v1[i].text}
    BY DEF D!search_conversation_history
  <2> QED
    BY <2>1, <2>2
<1>5. UNCHANGED <<v2, v3>> /\ v5' = [k \in Specialists |-> {}]
  BY DEF D!Ask, D!Quiet
<1>6. D!NoMessage \in D!Messages /\ WellLabelled(D!NoMessage)
  BY NothingIsLabelled
<1> DEFINE new == [D!NoTurn EXCEPT !.pc = "asked", !.current = message,
                                    !.workspace = workspace \cap message.allowed,
                                    !.seen = D!get_recent_conversation_messages,
                                    !.history = snippets]
<1>7. v4' = [v4 EXCEPT ![t] = new]
  BY <1>1
<1>8. /\ new \in Handlers /\ new.current = message /\ new.answer = D!NoMessage
      /\ new.seen = D!get_recent_conversation_messages
  <2>1. workspace \cap message.allowed \in SUBSET Specialists
    BY <1>2 DEF D!Messages
  <2> HIDE DEF message
  <2> QED
    BY <1>2, <1>3, <1>4, <2>1, NothingIsLabelled DEF Handlers
<1>9. v1' = v1 \/ v1' = Append(v1, message)
  BY <1>1
<1> HIDE DEF message, new
<1>10. Typed'
  BY <1>2, <1>5, <1>7, <1>8, <1>9 DEF Invariant, Typed
<1>11. \A i \in DOMAIN v1' : WellLabelled(v1'[i])
  BY <1>2, <1>9 DEF Invariant, Typed, Sound
<1>12. Sound'
  <2>1. \A u \in Turns : v4'[u] = IF u = t THEN new ELSE v4[u]
    BY <1>7 DEF Invariant, Typed
  <2>2. /\ WellLabelled(new.current) /\ WellLabelled(new.answer)
        /\ \A m \in new.seen : WellLabelled(m)
    BY <1>2, <1>3, <1>6, <1>8
  <2> QED
    BY <1>5, <1>11, <2>1, <2>2 DEF Invariant, Sound
<1> QED
  BY <1>5, <1>10, <1>12 DEF Invariant, Kept

(* The packets are kept, and the answer is labelled.                         *)
LEMMA TalkIsSound == ASSUME Invariant, NEW t \in Turns, D!Talk(t) PROVE Invariant'
<1>1. PICK capturing \in BOOLEAN, now \in D!Changes(t) \cup {v2} :
      \E routed \in D!Routes(t), recalled \in SUBSET {d \in Domains : now[d] # {}} :
        /\ v2' = now
        /\ v5' = D!Packets(t, routed, now, recalled)
        /\ \/ v4' = [v4 EXCEPT ![t] = [D!NoTurn EXCEPT !.pc = "done"]]
           \/ \E used \in SUBSET routed :
                v4' = [v4 EXCEPT ![t] =
                    [@ EXCEPT !.pc = "answered", !.capturing = capturing,
                              !.answer = D!_response_disclosure(t, UNION {now[d] : d \in recalled}, used)]]
  <2>1. PICK capturing \in BOOLEAN :
         \E now \in IF capturing THEN D!Changes(t) ELSE {v2} :
         \E routed \in D!Routes(t), recalled \in SUBSET {d \in Domains : now[d] # {}} :
            /\ v2' = now
            /\ v5' = D!Packets(t, routed, now, recalled)
            /\ \/ v4' = [v4 EXCEPT ![t] = [D!NoTurn EXCEPT !.pc = "done"]]
               \/ \E used \in SUBSET routed :
                    v4' = [v4 EXCEPT ![t] =
                        [@ EXCEPT !.pc = "answered", !.capturing = capturing,
                                  !.answer = D!_response_disclosure(t, UNION {now[d] : d \in recalled}, used)]]
    BY DEF D!Talk
  <2>2. PICK now \in IF capturing THEN D!Changes(t) ELSE {v2} :
         \E routed \in D!Routes(t), recalled \in SUBSET {d \in Domains : now[d] # {}} :
            /\ v2' = now
            /\ v5' = D!Packets(t, routed, now, recalled)
            /\ \/ v4' = [v4 EXCEPT ![t] = [D!NoTurn EXCEPT !.pc = "done"]]
               \/ \E used \in SUBSET routed :
                    v4' = [v4 EXCEPT ![t] =
                        [@ EXCEPT !.pc = "answered", !.capturing = capturing,
                                  !.answer = D!_response_disclosure(t, UNION {now[d] : d \in recalled}, used)]]
    BY <2>1
  <2>3. now \in D!Changes(t) \cup {v2}
    OBVIOUS
  <2> QED
    BY <2>2, <2>3
<1>2. PICK routed \in D!Routes(t), recalled \in SUBSET Domains :
        /\ v2' = now
        /\ v5' = D!Packets(t, routed, now, recalled)
        /\ \/ v4' = [v4 EXCEPT ![t] = [D!NoTurn EXCEPT !.pc = "done"]]
           \/ \E used \in SUBSET routed :
                v4' = [v4 EXCEPT ![t] =
                    [@ EXCEPT !.pc = "answered", !.capturing = capturing,
                              !.answer = D!_response_disclosure(t, UNION {now[d] : d \in recalled}, used)]]
  BY <1>1
<1>3. UNCHANGED <<v1, v3>>
  BY DEF D!Talk
<1>5. /\ now \in [Domains -> SUBSET D!Memories]
      /\ \A d \in Domains : \A m \in now[d] : Private(m)
  BY ChangesAreSound DEF Invariant
<1>6. Kept'
  <2> SUFFICES ASSUME NEW k \in Specialists, NEW x \in v5'[k] PROVE ~x.private /\ k \in x.may
    BY DEF Kept
  <2> QED
    BY <1>2, <1>5, PacketsAreKept DEF Invariant
<1>8. PICK new \in Handlers :
        /\ v4' = [v4 EXCEPT ![t] = new]
        /\ WellLabelled(new.current) /\ WellLabelled(new.answer)
        /\ \A m \in new.seen : WellLabelled(m)
  <2>1. CASE v4' = [v4 EXCEPT ![t] = [D!NoTurn EXCEPT !.pc = "done"]]
    <3>1. v4' = [v4 EXCEPT ![t] = Done]
      BY <2>1 DEF Done
    <3> QED
      BY <3>1, NothingIsLabelled
  <2>2. ASSUME NEW used \in SUBSET routed,
               v4' = [v4 EXCEPT ![t] =
                    [@ EXCEPT !.pc = "answered", !.capturing = capturing,
                              !.answer = D!_response_disclosure(t, UNION {now[d] : d \in recalled}, used)]]
        PROVE  \E new \in Handlers :
                /\ v4' = [v4 EXCEPT ![t] = new]
                /\ WellLabelled(new.current) /\ WellLabelled(new.answer)
                /\ \A m \in new.seen : WellLabelled(m)
    <3> DEFINE answer == D!_response_disclosure(t, UNION {now[d] : d \in recalled}, used)
               new == [v4[t] EXCEPT !.pc = "answered", !.capturing = capturing, !.answer = answer]
    <3>1. routed \subseteq Specialists
      BY DEF D!Routes, Invariant, Typed, Handlers, D!Messages
    <3>2. \A m \in UNION {now[d] : d \in recalled} : Private(m)
      BY <1>5
    <3>3. answer \in D!Messages /\ WellLabelled(answer)
      BY <3>1, <3>2, AnswerIsLabelled DEF Invariant
    <3>4. v4[t] \in Handlers
      BY DEF Invariant, Typed
    <3>5. v4' = [v4 EXCEPT ![t] = new]
      BY <2>2
    <3> HIDE DEF answer
    <3>6. new \in Handlers /\ new.current = v4[t].current /\ new.seen = v4[t].seen
          /\ new.answer = answer
      BY <3>3, <3>4 DEF Handlers
    <3>7. WellLabelled(new.current) /\ WellLabelled(new.answer)
          /\ \A m \in new.seen : WellLabelled(m)
      BY <3>3, <3>6 DEF Invariant, Sound
    <3> HIDE DEF new
    <3> QED
      BY <3>5, <3>6, <3>7
  <2> QED
    BY <1>2, <2>1, <2>2
<1>9. Typed'
  BY <1>2, <1>3, <1>5, <1>8 DEF Invariant, Typed
<1>10. \A u \in Turns : v4'[u] = IF u = t THEN new ELSE v4[u]
  BY <1>8 DEF Invariant, Typed
<1>11. Sound'
  BY <1>2, <1>3, <1>5, <1>8, <1>10 DEF Invariant, Sound
<1> QED
  BY <1>6, <1>9, <1>11 DEF Invariant

(* What is remembered of a turn after its answer is private if the turn is,  *)
(* and what is proposed comes of turns that are not.                         *)
LEMMA FinishIsSound == ASSUME Invariant, NEW t \in Turns, D!Finish(t) PROVE Invariant'
<1> DEFINE text == D!Remembered(t, D!Captured(t))
           private == D!CapturePrivate(t)
<1>1. /\ text \in D!Texts /\ text.may = Specialists /\ (text.private => private)
      /\ private \in BOOLEAN
  BY RememberedIsOpen, CaptureKnows, CaptureIsDecided DEF Invariant
<1>2. /\ \/ UNCHANGED <<v2, v3>>
         \/ /\ \E d \in Domains : v2' = [v2 EXCEPT ![d] = D!store_explicit_memory(d, text, private)]
            /\ UNCHANGED v3
         \/ /\ \E p \in D!propose_memory(t) : v3' = v3 \cup {p}
            /\ UNCHANGED v2
      /\ v1' = v1 \/ v1' = Append(v1, v4[t].answer)
      /\ v4' = [v4 EXCEPT ![t] = [D!NoTurn EXCEPT !.pc = "done"]]
      /\ v5' = [k \in Specialists |-> {}]
  BY DEF D!Finish, D!Quiet
<1>3. \A p \in D!propose_memory(t) : p \in D!Proposals /\ Open(p.text)
  BY <1>1 DEF D!propose_memory, D!Proposals, Open
<1> HIDE DEF text, private
<1>4. /\ v2' \in [Domains -> SUBSET D!Memories]
      /\ \A d \in Domains : \A m \in v2'[d] : Private(m)
  <2>1. CASE v2' = v2
    BY <2>1 DEF Invariant, Typed, Sound
  <2>2. ASSUME NEW d \in Domains, v2' = [v2 EXCEPT ![d] = D!store_explicit_memory(d, text, private)]
        PROVE  /\ v2' \in [Domains -> SUBSET D!Memories]
               /\ \A e \in Domains : \A m \in v2'[e] : Private(m)
    <3>1. \A m \in D!store_explicit_memory(d, text, private) : m \in D!Memories /\ Private(m)
      BY <1>1, MemoryIsPrivate DEF Invariant
    <3> QED
      BY <2>2, <3>1 DEF Invariant, Typed, Sound
  <2> QED
    BY <1>2, <2>1, <2>2
<1>5. v3' \subseteq D!Proposals /\ \A p \in v3' : Open(p.text)
  BY <1>2, <1>3 DEF Invariant, Typed, Sound
<1>6. WellLabelled(D!NoMessage)
  BY NothingIsLabelled
<1>7. /\ Done \in Handlers /\ Done.seen = {}
      /\ Done.current = D!NoMessage /\ Done.answer = D!NoMessage
  BY NothingIsLabelled
<1>8. v4[t].answer \in D!Messages /\ WellLabelled(v4[t].answer)
  BY DEF Invariant, Typed, Sound, Handlers
<1>9. v1' \in Seq(D!Messages) /\ \A i \in DOMAIN v1' : WellLabelled(v1'[i])
  <2> DEFINE answer == v4[t].answer
  <2>1. v1 \in Seq(D!Messages) /\ \A i \in DOMAIN v1 : WellLabelled(v1[i])
    BY DEF Invariant, Typed, Sound
  <2>2. v1' = v1 \/ v1' = Append(v1, answer)
    BY <1>2
  <2>3. answer \in D!Messages /\ WellLabelled(answer)
    BY <1>8
  <2> HIDE DEF answer
  <2> QED
    BY <2>1, <2>2, <2>3
<1>10. v4' = [v4 EXCEPT ![t] = Done]
  BY <1>2 DEF Done
<1>11. v4' \in [Turns -> Handlers] /\ \A u \in Turns : v4'[u] = IF u = t THEN Done ELSE v4[u]
  BY <1>7, <1>10 DEF Invariant, Typed
<1>12. Sound'
  BY <1>4, <1>5, <1>6, <1>7, <1>9, <1>11 DEF Invariant, Sound
<1> QED
  BY <1>2, <1>4, <1>5, <1>9, <1>11, <1>12 DEF Invariant, Typed, Kept

(* A record without a privacy flag is made of an open proposal only.         *)
LEMMA ReviewIsSound == ASSUME Invariant, NEW p \in v3, D!Review(p) PROVE Invariant'
<1>1. /\ v3' = v3 \ {p} /\ UNCHANGED <<v1, v4>>
      /\ v5' = [k \in Specialists |-> {}]
  BY DEF D!Review, D!Quiet
<1>2. p \in D!Proposals /\ Open(p.text)
  BY DEF Invariant, Typed, Sound
<1>3. LET m == [text |-> p.text, private_to_li |-> FALSE] IN m \in D!Memories /\ Private(m)
  BY <1>2 DEF D!Memories, D!Proposals, Open, Private
<1>4. \/ v2' = v2
      \/ v2' = [v2 EXCEPT ![p.domain] =
                  IF @ = {} THEN {[text |-> p.text, private_to_li |-> FALSE]} ELSE @]
  BY DEF D!Review
<1>5. /\ v2' \in [Domains -> SUBSET D!Memories]
      /\ \A d \in Domains : \A m \in v2'[d] : Private(m)
  <2> DEFINE new == [text |-> p.text, private_to_li |-> FALSE]
  <2>1. new \in D!Memories /\ Private(new)
    BY <1>3
  <2>2. v2' = v2 \/ v2' = [v2 EXCEPT ![p.domain] = {new}]
    BY <1>4 DEF Invariant, Typed
  <2>3. v2 \in [Domains -> SUBSET D!Memories] /\ \A d \in Domains : \A m \in v2[d] : Private(m)
    BY DEF Invariant, Typed, Sound
  <2> HIDE DEF new
  <2> QED
    BY <2>1, <2>2, <2>3
<1> QED
  BY <1>1, <1>5 DEF Invariant, Typed, Sound, Kept

-----------------------------------------------------------------------------
(* What the labels do not say: a domain has one memory at most, the          *)
(* workspace's specialist is a recipient, and packets hold texts.            *)

Settled ==
    /\ \A d \in Domains : \A m, n \in v2[d] : m = n
    /\ \A t \in Turns : v4[t].workspace \subseteq v4[t].current.allowed
    /\ v5 \in [Specialists -> SUBSET D!Texts]

(* The packets of a turn hold texts.                                         *)
LEMMA PacketsAreTexts ==
    ASSUME Typed, NEW t \in Turns, NEW now \in [Domains -> SUBSET D!Memories],
           NEW routed, NEW recalled \in SUBSET Domains
    PROVE  D!Packets(t, routed, now, recalled) \in [Specialists -> SUBSET D!Texts]
<1>1. ASSUME NEW k \in Specialists
      PROVE  /\ D!specialist_conversation_context(t, k) \subseteq D!Texts
             /\ D!memory_allowed_for_specialist(now, recalled, k) \subseteq D!Texts
             /\ v4[t].current.text \in D!Texts
  <2>1. v4[t] \in Handlers
    BY DEF Typed
  <2>2. \A m \in v4[t].seen \cup {v4[t].current} : m.text \in D!Texts
    BY <2>1 DEF Handlers, D!Messages
  <2>3. \A d \in Domains : \A m \in now[d] : m.text \in D!Texts
    BY DEF D!Memories
  <2>4. D!memory_allowed_for_specialist(now, recalled, k) \subseteq D!Texts
    BY <2>3 DEF D!memory_allowed_for_specialist
  <2> QED
    BY <2>2, <2>4 DEF D!specialist_conversation_context
<1> QED
  BY <1>1 DEF D!Packets

(* The initial state.                                                        *)
LEMMA SettledBegins == ASSUME D!Init PROVE Settled
BY DEF D!Init, D!NoTurn, Settled

(* Every step keeps it.                                                      *)
LEMMA SettledKeeps == ASSUME Invariant, Settled, D!Next PROVE Settled'
<1>0. v4 \in [Turns -> Handlers] /\ v2 \in [Domains -> SUBSET D!Memories]
  BY DEF Invariant, Typed
<1>1. D!NoTurn.workspace = {} /\ Done.workspace = {}
  BY DEF D!NoTurn, Done
<1>2. CASE \E t \in Turns : D!Ask(t)
  <2>1. PICK t \in Turns : D!Ask(t)
    BY <1>2
  <2>2. PICK flag \in {"shared", "private", "malformed"}, disclosed \in SUBSET Specialists,
             workspace \in {{}} \cup {{k} : k \in Specialists},
             snippets \in D!search_conversation_history, saved \in BOOLEAN :
          LET message == D!Labelled(flag, disclosed, workspace) IN
          /\ v4' = [v4 EXCEPT ![t] =
                    [D!NoTurn EXCEPT !.pc = "asked", !.current = message,
                                     !.workspace = workspace \cap message.allowed,
                                     !.seen = D!get_recent_conversation_messages,
                                     !.history = snippets]]
          /\ v1' = IF saved THEN Append(v1, message) ELSE v1
    BY <2>1 DEF D!Ask
  <2> PICK message : message = D!Labelled(flag, disclosed, workspace)
    OBVIOUS
  <2> PICK new : new = [D!NoTurn EXCEPT !.pc = "asked", !.current = message,
                                     !.workspace = workspace \cap message.allowed,
                                     !.seen = D!get_recent_conversation_messages,
                                     !.history = snippets]
    OBVIOUS
  <2>3. v4' = [v4 EXCEPT ![t] = new] /\ new.workspace \subseteq new.current.allowed
    BY <2>2 DEF D!NoTurn
  <2>4. UNCHANGED v2 /\ v5' = [k \in Specialists |-> {}]
    BY <2>1 DEF D!Ask, D!Quiet
  <2> QED
    BY <1>0, <2>3, <2>4 DEF Settled
<1>3. CASE \E t \in Turns : D!Talk(t)
  <2>1. PICK t \in Turns : D!Talk(t)
    BY <1>3
  <2>2. PICK capturing \in BOOLEAN :
         \E now \in IF capturing THEN D!Changes(t) ELSE {v2} :
         \E routed \in D!Routes(t), recalled \in SUBSET {d \in Domains : now[d] # {}} :
            /\ v2' = now
            /\ v5' = D!Packets(t, routed, now, recalled)
            /\ \/ v4' = [v4 EXCEPT ![t] = [D!NoTurn EXCEPT !.pc = "done"]]
               \/ \E used \in SUBSET routed :
                    v4' = [v4 EXCEPT ![t] =
                        [@ EXCEPT !.pc = "answered", !.capturing = capturing,
                                  !.answer = D!_response_disclosure(t, UNION {now[d] : d \in recalled}, used)]]
    BY <2>1 DEF D!Talk
  <2>3. PICK now \in IF capturing THEN D!Changes(t) ELSE {v2} :
         \E routed \in D!Routes(t), recalled \in SUBSET {d \in Domains : now[d] # {}} :
            /\ v2' = now
            /\ v5' = D!Packets(t, routed, now, recalled)
            /\ \/ v4' = [v4 EXCEPT ![t] = [D!NoTurn EXCEPT !.pc = "done"]]
               \/ \E used \in SUBSET routed :
                    v4' = [v4 EXCEPT ![t] =
                        [@ EXCEPT !.pc = "answered", !.capturing = capturing,
                                  !.answer = D!_response_disclosure(t, UNION {now[d] : d \in recalled}, used)]]
    BY <2>2
  <2>4. PICK routed \in D!Routes(t), recalled \in SUBSET Domains :
            /\ v2' = now
            /\ v5' = D!Packets(t, routed, now, recalled)
            /\ \/ v4' = [v4 EXCEPT ![t] = [D!NoTurn EXCEPT !.pc = "done"]]
               \/ \E used \in SUBSET routed :
                    v4' = [v4 EXCEPT ![t] =
                        [@ EXCEPT !.pc = "answered", !.capturing = capturing,
                                  !.answer = D!_response_disclosure(t, UNION {now[d] : d \in recalled}, used)]]
    BY <2>3
  <2>5. now \in D!Changes(t) \cup {v2}
    OBVIOUS
  <2>6. now \in [Domains -> SUBSET D!Memories]
    BY <2>5, ChangesAreSound DEF Invariant
  <2>7. v5' \in [Specialists -> SUBSET D!Texts]
    BY <2>4, <2>6, PacketsAreTexts DEF Invariant
  <2>8. \A d \in Domains : \A m, n \in now[d] : m = n
    BY <1>0, <2>5 DEF D!Changes, D!correct_explicit_memory, Settled
  <2>9. PICK new : v4' = [v4 EXCEPT ![t] = new] /\ new.workspace \subseteq new.current.allowed
    <3>1. CASE v4' = [v4 EXCEPT ![t] = Done]
      BY <1>1, <3>1
    <3>2. ASSUME NEW used \in SUBSET routed,
                 v4' = [v4 EXCEPT ![t] =
                        [@ EXCEPT !.pc = "answered", !.capturing = capturing,
                                  !.answer = D!_response_disclosure(t, UNION {now[d] : d \in recalled}, used)]]
          PROVE  \E new : v4' = [v4 EXCEPT ![t] = new] /\ new.workspace \subseteq new.current.allowed
      <4> PICK answer : answer = D!_response_disclosure(t, UNION {now[d] : d \in recalled}, used)
        OBVIOUS
      <4> PICK new : new = [v4[t] EXCEPT !.pc = "answered", !.capturing = capturing,
                                         !.answer = answer]
        OBVIOUS
      <4>1. v4' = [v4 EXCEPT ![t] = new]
        BY <3>2
      <4>2. new.workspace = v4[t].workspace /\ new.current = v4[t].current
        BY <1>0 DEF Handlers
      <4> QED
        BY <4>1, <4>2 DEF Settled
    <3> QED
      BY <2>4, <3>1, <3>2 DEF Done
  <2> QED
    BY <1>0, <2>4, <2>7, <2>8, <2>9 DEF Settled
<1>4. CASE \E t \in Turns : D!Finish(t)
  <2>1. PICK t \in Turns : D!Finish(t)
    BY <1>4
  <2>2. v4' = [v4 EXCEPT ![t] = Done] /\ v5' = [k \in Specialists |-> {}]
    BY <2>1 DEF D!Finish, D!Quiet, Done
  <2>3. \A d \in Domains : \A m, n \in v2'[d] : m = n
    <3>1. CASE v2' = v2
      BY <3>1 DEF Settled
    <3>2. ASSUME NEW d \in Domains, NEW text, NEW private,
                 v2' = [v2 EXCEPT ![d] = D!store_explicit_memory(d, text, private)]
          PROVE  \A e \in Domains : \A m, n \in v2'[e] : m = n
      <4> PICK stored : stored = D!store_explicit_memory(d, text, private)
        OBVIOUS
      <4>1. \A m, n \in stored : m = n
        <5>1. \A m, n \in v2[d] : m = n
          BY DEF Settled
        <5>2. stored = (IF v2[d] = {} THEN {[text |-> text, private_to_li |-> private]}
                        ELSE {[text |-> D!Drawn({text, m.text}),
                               private_to_li |-> private \/ m.private_to_li] : m \in v2[d]})
          BY DEF D!store_explicit_memory
        <5>3. CASE v2[d] = {}
          BY <5>2, <5>3
        <5>4. CASE v2[d] # {}
          <6>1. PICK m \in v2[d] : v2[d] = {m}
            BY <5>1, <5>4
          <6>2. stored = {[text |-> D!Drawn({text, m.text}),
                           private_to_li |-> private \/ m.private_to_li]}
            BY <5>2, <5>4, <6>1
          <6> QED
            BY <6>2
        <5> QED
          BY <5>3, <5>4
      <4> QED
        BY <1>0, <3>2, <4>1 DEF Settled
    <3> QED
      BY <2>1, <3>1, <3>2 DEF D!Finish
  <2> QED
    BY <1>0, <1>1, <2>2, <2>3 DEF Settled
<1>5. CASE \E p \in v3 : D!Review(p)
  <2>1. PICK p \in v3 : D!Review(p)
    BY <1>5
  <2> PICK record : record = [text |-> p.text, private_to_li |-> FALSE]
    OBVIOUS
  <2> PICK d : d = p.domain
    OBVIOUS
  <2>2. v2' = v2 \/ v2' = [v2 EXCEPT ![d] = IF @ = {} THEN {record} ELSE @]
    BY <2>1 DEF D!Review
  <2>3. \A e \in Domains : v2'[e] = v2[e] \/ v2'[e] = {record}
    BY <1>0, <2>2
  <2>4. \A e \in Domains : \A m, n \in v2'[e] : m = n
    BY <2>3 DEF Settled
  <2>5. UNCHANGED v4 /\ v5' = [k \in Specialists |-> {}]
    BY <2>1 DEF D!Review, D!Quiet
  <2> QED
    BY <2>4, <2>5 DEF Settled
<1> QED
  BY <1>2, <1>3, <1>4, <1>5 DEF D!Next

(* What the two invariants say of the types.                                 *)
LEMMA TypesFollow == ASSUME Invariant, Settled PROVE D!TypeOK
<1>1. \A i \in DOMAIN v1 : v1[i] \in D!Messages
  BY DEF Invariant, Typed
<1>2. ASSUME NEW t \in Turns
      PROVE  /\ v4[t].pc \in {"idle", "asked", "answered", "done"}
             /\ v4[t].current \in D!Messages /\ v4[t].answer \in D!Messages
             /\ v4[t].seen \subseteq D!Messages /\ v4[t].history \subseteq D!Texts
             /\ v4[t].capturing \in BOOLEAN
  <2>1. v4[t] \in Handlers
    BY DEF Invariant, Typed
  <2> QED
    BY <2>1 DEF Handlers
<1> QED
  BY <1>1, <1>2 DEF D!TypeOK, Settled, Invariant, Typed

-----------------------------------------------------------------------------
(* The theorems.                                                             *)

Inv == focus = "conversation" => Invariant /\ Settled

(* The labels are sound in every state of a conversation.                    *)
LEMMA LabelsAreSound == Spec => []Inv
<1>1. Init => Inv
  BY InitIsSound, SettledBegins DEF Init, Inv, V!Init
<1>2. Inv /\ [Next]_vars => Inv'
  <2> SUFFICES ASSUME Inv, [Next]_vars PROVE Inv'
    OBVIOUS
  <2>1. CASE Converse
    <3> SUFFICES ASSUME focus' = "conversation" PROVE Invariant' /\ Settled'
      BY DEF Inv
    <3>1. Invariant /\ Settled /\ D!Next
      BY <2>1 DEF Converse, Inv
    <3> QED
      BY <3>1, AskIsSound, TalkIsSound, FinishIsSound, ReviewIsSound, SettledKeeps
         DEF D!Next
  <2>2. CASE Visit
    BY <2>2 DEF Visit, Inv
  <2>3. CASE UNCHANGED vars
    BY <2>3 DEF vars, Inv, Invariant, Typed, Sound, Kept, Settled
  <2> QED
    BY <2>1, <2>2, <2>3 DEF Next
<1> QED
  BY <1>1, <1>2, PTL DEF Spec

(* In a conversation every label, memory, proposal and packet has a value    *)
(* that the code can give it: a memory for each domain at most, and a        *)
(* workspace's specialist that is a recipient (_response_disclosure,         *)
(* store_explicit_memory, specialist_conversation_context).                  *)
THEOREM ConversationIsTyped == Spec => [](focus = "conversation" => D!TypeOK)
<1>1. Inv => (focus = "conversation" => D!TypeOK)
  BY TypesFollow DEF Inv
<1> QED
  BY <1>1, LabelsAreSound, PTL

(* Private words stay with Li, however many turns overlap and through        *)
(* however many answers, memories and proposals they come.                   *)
THEOREM PrivateStays == Spec => []PrivateStaysWithLi
<1>1. Inv => PrivateStaysWithLi
  BY DEF Inv, Invariant, Kept, PrivateStaysWithLi, D!PrivateStaysWithLi
<1> QED
  BY <1>1, LabelsAreSound, PTL

(* What a specialist is sent names it, in every message it draws on.         *)
THEOREM RecipientsKept == Spec => []RecipientsAreKept
<1>1. Inv => RecipientsAreKept
  BY DEF Inv, Invariant, Kept, RecipientsAreKept, D!RecipientsAreKept
<1> QED
  BY <1>1, LabelsAreSound, PTL
=============================================================================
