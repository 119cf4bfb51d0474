-------------------------- MODULE RepetitionProofs ---------------------------
(* Proofs about the components of MCRepetition: that their properties hold   *)
(* for any tabs, sessions, calls, contents, occurrences and deliveries, and  *)
(* any limits. Each component has its section: what its invariant adds to    *)
(* the properties, how it begins and that every step keeps it. The theorems  *)
(* of the specification are in the last one.                                 *)
EXTENDS MCRepetition, Sequences, FiniteSets, FiniteSetTheorems, TLAPS

-----------------------------------------------------------------------------
(* ProfileStore. Its versions, pending writes, issued revisions, views and   *)
(* calls are v1, v2, v3, v5 and v6. NoLostUpdate speaks of what the object   *)
(* has held; what makes it inductive is that every request about to be sent, *)
(* and every write on its way, names a generation together with the revision *)
(* that the object had at that generation. Generations only grow, so what    *)
(* was so when the pair was read stays so.                                   *)

Version == [revision : Nat, photo : BOOLEAN, expected : Nat]

(* A generation, and the revision that the object had at it.                 *)
Founded(x) ==
    /\ x.generation \in 0..P!Generation
    /\ x.expected = P!Stored(x.generation).revision

WritesAreFounded == \A w \in v2 : Founded(w) /\ w \in [revision : Nat, photo : BOOLEAN,
                                                            expected : Nat, generation : Nat]
SendsAreFounded == \A c \in Callers : v6[c].phase = "send" => Founded(v6[c])

FoundedInv ==
    /\ v1 \in Seq(Version)
    /\ v3 \in Nat
    /\ DOMAIN v6 = Callers
    /\ WritesAreFounded
    /\ SendsAreFounded
    /\ P!NoLostUpdate

(* Nothing is founded on what has yet to be written, so a longer history     *)
(* leaves every pair as it was.                                              *)
LEMMA AppendKeepsFounded ==
    ASSUME v1 \in Seq(Version), NEW v \in Version, v1' = Append(v1, v),
           NEW x, Founded(x)
    PROVE  P!Generation' = P!Generation + 1 /\ P!Stored(x.generation)' = P!Stored(x.generation)
           /\ x.generation \in 0..(P!Generation + 1)
BY DEF Founded, P!Stored, P!Generation, P!Nothing, P!ABSENT

(* A revision that the object has had is a number.                           *)
LEMMA StoredIsTyped ==
    ASSUME v1 \in Seq(Version), NEW g \in 0..P!Generation
    PROVE  P!Stored(g).revision \in Nat
<1>1. CASE g = 0
  BY <1>1 DEF P!Stored, P!Nothing, P!ABSENT
<1>2. CASE g # 0
  <2>1. v1[g] \in Version
    BY <1>2 DEF P!Generation
  <2> QED
    BY <1>2, <2>1 DEF P!Stored, Version
<1> QED
  BY <1>1, <1>2

(* The initial state.                                                        *)
LEMMA FoundedBegins == P!Init => FoundedInv
<1> SUFFICES ASSUME P!Init PROVE FoundedInv
  OBVIOUS
<1>1. v1 \in Seq(Version) /\ P!Generation = 0
  BY DEF P!Init, P!Generation
<1>2. v3 \in Nat /\ DOMAIN v6 = Callers /\ WritesAreFounded
  BY DEF P!Init, WritesAreFounded
<1>3. SendsAreFounded
  BY DEF P!Init, SendsAreFounded, P!Idle
<1>4. P!NoLostUpdate
  BY <1>1 DEF P!NoLostUpdate
<1> QED
  BY <1>1, <1>2, <1>3, <1>4 DEF FoundedInv

(* A request that is compared and found current carries the revision of      *)
(* the generation it was compared with.                                      *)
LEMMA ContinueFounds ==
    ASSUME FoundedInv, NEW c \in Callers, NEW g \in 0..P!Generation, P!Continue(c, g),
           UNCHANGED v1
    PROVE  DOMAIN v6' = Callers /\ SendsAreFounded'
<1> DEFINE step == v6'[c]
<1>1. v6' = [v6 EXCEPT ![c] = step] /\ (step.phase = "send" => Founded(step))
  <2>1. CASE \E result, revision : P!Answer(c, result, revision)
    BY <2>1 DEF P!Answer, P!Goto, FoundedInv
  <2>2. CASE \E phase : P!Resume(c, phase, g) /\ P!Matches(c, P!Stored(g))
    BY <2>2 DEF P!Resume, P!Goto, P!Matches, Founded, FoundedInv
  <2> QED
    BY <2>1, <2>2 DEF P!Continue
<1>2. \A x : Founded(x) <=> Founded(x)'
  BY DEF Founded, P!Stored, P!Generation
<1> QED
  BY <1>1, <1>2 DEF SendsAreFounded, FoundedInv

(* Every step of a tab or of the store keeps the invariant.                  *)
LEMMA FoundedKeeps == FoundedInv /\ [P!Next]_(P!vars) => FoundedInv'
<1> SUFFICES ASSUME FoundedInv, [P!Next]_(P!vars) PROVE FoundedInv'
  OBVIOUS
<1> USE DEF FoundedInv
<1>0. ASSUME UNCHANGED <<v1, v2, v3>>, DOMAIN v6' = Callers, SendsAreFounded'
      PROVE  FoundedInv'
  BY <1>0 DEF WritesAreFounded, P!NoLostUpdate, Founded, P!Stored, P!Generation
<1>1. ASSUME NEW c \in Callers, UNCHANGED <<v1, v2, v3>>,
             v6' = [v6 EXCEPT ![c] = v6'[c]], v6'[c].phase # "send"
      PROVE  FoundedInv'
  <2>1. DOMAIN v6' = Callers /\ SendsAreFounded'
    BY <1>1 DEF SendsAreFounded, Founded, P!Stored, P!Generation
  <2> QED
    BY <1>0, <1>1, <2>1
<1>2. CASE P!Outage \/ UNCHANGED P!vars
  <2>1. UNCHANGED <<v1, v2, v3, v6>>
    BY <1>2 DEF P!Outage, P!vars
  <2>2. DOMAIN v6' = Callers /\ SendsAreFounded'
    BY <2>1 DEF SendsAreFounded, Founded, P!Stored, P!Generation
  <2> QED
    BY <1>0, <2>1, <2>2
<1>3. ASSUME NEW c \in Callers, NEW op \in {"metadata", "replace", "remove"}, P!Ask(c, op)
      PROVE  FoundedInv'
  BY <1>1, <1>3 DEF P!Ask, P!Goto
<1>4. ASSUME NEW c \in Callers, P!Read(c) \/ P!Verify(c)
      PROVE  FoundedInv'
  <2>1. CASE \E result, revision : P!Answer(c, result, revision)
    <3>1. v6' = [v6 EXCEPT ![c] = v6'[c]] /\ v6'[c].phase = "answered"
      BY <2>1 DEF P!Answer, P!Goto
    <3>2. UNCHANGED <<v1, v2, v3>>
      BY <1>4 DEF P!Read, P!Verify
    <3> QED
      BY <1>1, <3>1, <3>2
  <2>2. CASE \E g \in 0..P!Generation : P!Continue(c, g)
    <3>1. DOMAIN v6' = Callers /\ SendsAreFounded'
      BY <1>4, <2>2, ContinueFounds DEF P!Read, P!Verify
    <3> QED
      BY <1>0, <1>4, <3>1 DEF P!Read, P!Verify
  <2>3. P!Generation \in 0..P!Generation /\ 0 \in 0..P!Generation
    BY DEF P!Generation
  <2> QED
    BY <1>4, <2>1, <2>2, <2>3 DEF P!Read, P!Verify
<1>5. ASSUME NEW c \in Callers, P!NotFound(c) \/ P!Fail(c) \/ P!Doubt(c) \/ P!Told(c)
      PROVE  FoundedInv'
  <2>1. UNCHANGED <<v1, v2, v3>>
    BY <1>5 DEF P!NotFound, P!Fail, P!Doubt, P!Told
  <2>2. CASE P!NotFound(c)
    <3>1. v6' = [v6 EXCEPT ![c] = [v6[c] EXCEPT !.missing = TRUE]]
          /\ v6[c].phase # "send"
      BY <2>2 DEF P!NotFound, P!Reading, P!Goto
    <3>2. [v6[c] EXCEPT !.missing = TRUE].phase = v6[c].phase
      OBVIOUS
    <3> QED
      BY <1>1, <2>1, <3>1, <3>2
  <2>3. CASE P!Fail(c) \/ P!Doubt(c) \/ P!Told(c)
    <3>1. v6' = [v6 EXCEPT ![c] = v6'[c]] /\ v6'[c].phase # "send"
      BY <2>3 DEF P!Fail, P!Doubt, P!Told, P!Answer, P!Goto, P!Idle
    <3> QED
      BY <1>1, <2>1, <3>1
  <2> QED
    BY <1>5, <2>2, <2>3
<1>6. ASSUME NEW c \in Callers, P!Send(c)
      PROVE  FoundedInv'
  <2> DEFINE w == [revision |-> v3 + 1, photo |-> v6[c].op = "replace",
                   expected |-> v6[c].expected, generation |-> v6[c].generation]
  <2>1. v2' = v2 \cup {w} /\ v3' = v3 + 1 /\ UNCHANGED v1
    BY <1>6 DEF P!Send, P!NewRevision
  <2>2. Founded(w)
    BY <1>6 DEF P!Send, SendsAreFounded, Founded
  <2>3. w.expected \in Nat /\ w.generation \in Nat /\ w.photo \in BOOLEAN
    <3>1. w.generation \in 0..P!Generation /\ w.expected = P!Stored(w.generation).revision
      BY <2>2 DEF Founded
    <3>2. w.expected \in Nat
      BY ONLY <3>1, StoredIsTyped, FoundedInv DEF FoundedInv
    <3>3. (v6[c].op = "replace") \in BOOLEAN
      OBVIOUS
    <3> QED
      BY <3>1, <3>2, <3>3 DEF P!Generation
  <2>4. WritesAreFounded'
    <3> DEFINE Write == [revision : Nat, photo : BOOLEAN, expected : Nat, generation : Nat]
    <3>1. w \in Write
      <4>1. v3 + 1 \in Nat
        OBVIOUS
      <4> QED
        BY <2>3, <4>1
    <3>2. \A x : Founded(x) => Founded(x)'
      BY <2>1 DEF Founded, P!Stored, P!Generation
    <3> HIDE DEF w
    <3> QED
      BY <2>1, <2>2, <3>1, <3>2 DEF WritesAreFounded
  <2>5. DOMAIN v6' = Callers /\ SendsAreFounded'
    BY <1>6
       DEF P!Send, P!Goto, SendsAreFounded, Founded, P!Stored, P!Generation
  <2>6. P!NoLostUpdate'
    BY <2>1 DEF P!NoLostUpdate, P!Stored, P!Generation
  <2> QED
    BY <2>1, <2>4, <2>5, <2>6
<1>7. ASSUME NEW w \in v2, P!Vanish(w)
      PROVE  FoundedInv'
  BY <1>7
     DEF P!Vanish, WritesAreFounded, SendsAreFounded, P!NoLostUpdate, Founded,
     P!Stored, P!Generation
<1>8. ASSUME NEW w \in v2, P!Arrive(w)
      PROVE  FoundedInv'
  <2>1. v2' = v2 \ {w} /\ UNCHANGED v3
    BY <1>8 DEF P!Arrive
  <2>2. ASSUME NEW landed, P!Notify(w, landed)
        PROVE  DOMAIN v6' = Callers
               /\ \A c \in Callers : v6'[c].phase = "send" => v6'[c] = v6[c]
    BY <2>2 DEF P!Notify
  <2>3. DOMAIN v6' = Callers /\ \A c \in Callers : v6'[c].phase = "send" => v6'[c] = v6[c]
    BY <1>8, <2>2 DEF P!Arrive
  <2>4. CASE UNCHANGED v1
    BY <2>1, <2>3, <2>4
       DEF WritesAreFounded, SendsAreFounded, P!NoLostUpdate, Founded, P!Stored, P!Generation
  <2>5. CASE P!Holds(w) /\ v1' = Append(v1,
                [revision |-> w.revision, photo |-> w.photo, expected |-> w.expected])
    <3> DEFINE v == [revision |-> w.revision, photo |-> w.photo, expected |-> w.expected]
    <3>1. v \in Version /\ v1' = Append(v1, v)
      BY <2>5 DEF WritesAreFounded, Version
    <3>2. v1' \in Seq(Version) /\ P!Generation' = P!Generation + 1
      BY <3>1 DEF P!Generation
    <3>3. \A x : Founded(x) => Founded(x)'
      BY <3>1, AppendKeepsFounded DEF Founded
    <3>4. WritesAreFounded' /\ SendsAreFounded'
      BY <2>1, <2>3, <3>3 DEF WritesAreFounded, SendsAreFounded
    <3>5. w.expected = P!Stored(P!Generation).revision
      BY <2>5 DEF P!Holds, WritesAreFounded, Founded
    <3>6. \A g \in 0..P!Generation : P!Stored(g)' = P!Stored(g)
      BY <3>1 DEF P!Stored, P!Generation, P!Nothing, P!ABSENT
    <3>7. \A g \in 1..P!Generation' : v1'[g].expected = P!Stored(g - 1)'.revision
      <4> SUFFICES ASSUME NEW g \in 1..P!Generation'
                   PROVE  v1'[g].expected = P!Stored(g - 1)'.revision
        OBVIOUS
      <4>1. P!Generation \in Nat /\ g - 1 \in 0..P!Generation
        BY <3>2 DEF P!Generation
      <4>2. CASE g = P!Generation + 1
        BY <3>1, <3>5, <3>6, <4>1, <4>2 DEF P!Generation
      <4>3. CASE g \in 1..P!Generation
        BY <3>1, <3>6, <4>1, <4>3 DEF P!Generation, P!NoLostUpdate
      <4> QED
        BY <3>2, <4>1, <4>2, <4>3
    <3> QED
      BY <2>1, <2>3, <3>2, <3>4, <3>7 DEF P!NoLostUpdate
  <2> QED
    BY <1>8, <2>4, <2>5 DEF P!Arrive
<1> QED
  BY <1>2, <1>3, <1>4, <1>5, <1>6, <1>7, <1>8 DEF P!Next


-----------------------------------------------------------------------------
(* A generation that a caller compared is not older than its request, unless *)
(* the request expected another revision than the object had then.           *)
Late(step, g) == step.since <= g \/ P!Stored(step.since).revision # step.expected

(* What a call knows: its answer is so; while it is under way it began at a  *)
(* generation that has been, and the write it makes is conditional on one    *)
(* that is Late.                                                             *)
Truthful(step) ==
    /\ step.phase = "answered" /\ step.result = "conflict" =>
        /\ step.revision \in 0..v3
        /\ \A g \in 1..P!Generation : v1[g].revision # step.revision
        /\ \A w \in v2 : w.revision # step.revision
    /\ step.phase = "answered" /\ step.result = "saved" =>
        \E g \in 1..P!Generation : v1[g].revision = step.revision
    /\ step.phase \in {"preflight", "check", "swap", "send", "waiting"} =>
        step.since \in 0..P!Generation
    /\ step.phase = "send" => Late(step, step.generation)
    /\ step.phase = "waiting" =>
        /\ step.revision \in 1..v3
        /\ \A w \in v2 : w.revision = step.revision => Late(step, w.generation)

(* A revision is drawn for one write, which is on its way or has landed.     *)
RevisionsAreFresh ==
    /\ \A w \in v2 : w.revision \in 1..v3
    /\ \A w, x \in v2 : w.revision = x.revision => w = x
    /\ \A g \in 1..P!Generation :
        v1[g].revision \in 1..v3 /\ \A w \in v2 : v1[g].revision # w.revision

TruthInv == RevisionsAreFresh /\ \A c \in Callers : Truthful(v6[c])

(* The initial state.                                                        *)
LEMMA TruthBegins == P!Init => TruthInv
BY DEF P!Init, TruthInv, RevisionsAreFresh, Truthful, P!Idle, P!Generation

(* One call takes a step that changes neither object nor writes.             *)
LEMMA CallSpeaks ==
    ASSUME FoundedInv, TruthInv, UNCHANGED <<v1, v2, v3>>, NEW c \in Callers,
           NEW step, v6' = [v6 EXCEPT ![c] = step], Truthful(step)
    PROVE  TruthInv'
<1>1. \A x : Truthful(x) => Truthful(x)'
  BY DEF Truthful, Late, P!Stored, P!Generation
<1>2. RevisionsAreFresh'
  BY DEF TruthInv, RevisionsAreFresh, P!Generation
<1>3. \A d \in Callers : v6'[d] = IF d = c THEN step ELSE v6[d]
  BY DEF FoundedInv
<1>4. \A d \in Callers : Truthful(v6'[d])
  BY <1>3 DEF TruthInv
<1>5. \A d \in Callers : Truthful(v6[d])'
  BY <1>4 DEF Truthful, Late, P!Stored, P!Generation
<1> QED
  BY <1>2, <1>5 DEF TruthInv

(* A read: the call is answered or goes on with the generation it saw.       *)
LEMMA ContinueSpeaks ==
    ASSUME FoundedInv, TruthInv, UNCHANGED <<v1, v2, v3>>, NEW c \in Callers,
           NEW g \in {0, P!Generation}, P!Reading(c), P!Continue(c, g),
           v6[c].missing = FALSE => g = P!Generation
    PROVE  /\ TruthInv'
           /\ ~v6[c].missing /\ v6'[c].phase = "answered" /\ v6'[c].result = "conflict" =>
                P!Stored(v6[c].since).revision # v6[c].expected \/ P!Generation > v6[c].since
<1>1. v6[c].since \in 0..P!Generation /\ P!Generation \in Nat
  BY DEF P!Reading, TruthInv, Truthful, P!Generation, FoundedInv
<1>2. g <= P!Generation /\ P!Stored(v6[c].since).revision \in Nat
  BY <1>1, StoredIsTyped DEF FoundedInv
<1>3. CASE \E revision : \E result \in {"current", "unchanged"} : P!Answer(c, result, revision)
  <2> PICK revision : \E result \in {"current", "unchanged"} : P!Answer(c, result, revision)
    BY <1>3
  <2> PICK result \in {"current", "unchanged"} : P!Answer(c, result, revision)
    OBVIOUS
  <2> PICK step : step = [phase |-> "answered", result |-> result,
             revision |-> revision]
    OBVIOUS
  <2>1. v6' = [v6 EXCEPT ![c] = step] /\ v6'[c] = step
    BY DEF P!Answer, P!Goto, FoundedInv
  <2>2. Truthful(step)
    BY DEF Truthful
  <2>3. v6'[c].result # "conflict"
    BY <2>1
  <2> QED
    BY <2>1, <2>2, <2>3, CallSpeaks
<1>4. CASE ~P!Matches(c, P!Stored(g)) /\ P!Answer(c, "conflict", P!ABSENT)
  <2> PICK step : step = [phase |-> "answered", result |-> "conflict",
             revision |-> 0]
    OBVIOUS
  <2>1. v6' = [v6 EXCEPT ![c] = step] /\ v6'[c] = step
    BY <1>4 DEF P!Answer, P!Goto, FoundedInv, P!ABSENT
  <2>2. Truthful(step)
    BY DEF Truthful, TruthInv, RevisionsAreFresh, FoundedInv
  <2>3. ~v6[c].missing => P!Stored(v6[c].since).revision # v6[c].expected \/ P!Generation > v6[c].since
    <3>1. P!Stored(g).revision # v6[c].expected
      BY <1>4 DEF P!Matches
    <3> QED
      BY <1>1, <1>2, <3>1
  <2> QED
    BY <2>1, <2>2, <2>3, CallSpeaks
<1>5. CASE P!Matches(c, P!Stored(g)) /\ \E phase \in {"check", "swap", "send"} : P!Resume(c, phase, g)
  <2> PICK phase \in {"check", "swap", "send"} : P!Resume(c, phase, g)
    BY <1>5
  <2> PICK step : step = [phase |-> phase, op |-> v6[c].op, expected |-> v6[c].expected,
             since |-> v6[c].since, missing |-> FALSE, generation |-> g]
    OBVIOUS
  <2>1. v6' = [v6 EXCEPT ![c] = step] /\ v6'[c] = step
    BY DEF P!Resume, P!Goto, FoundedInv
  <2>2. Late(step, g)
    <3>1. CASE g = P!Generation
      BY <1>1, <3>1 DEF Late
    <3>2. CASE g = 0 /\ v6[c].since # 0
      <4>1. v6[c].expected = 0
        BY <1>5, <3>2 DEF P!Matches, P!Stored, P!Nothing, P!ABSENT
      <4>2. P!Stored(v6[c].since).revision = v1[v6[c].since].revision
        BY <3>2 DEF P!Stored
      <4>3. v1[v6[c].since].revision \in 1..v3
        BY <1>1, <3>2 DEF TruthInv, RevisionsAreFresh
      <4> QED
        BY <4>1, <4>2, <4>3 DEF Late
    <3>3. CASE g = 0 /\ v6[c].since = 0
      BY <3>3 DEF Late
    <3> QED
      BY <3>1, <3>2, <3>3
  <2>3. Truthful(step)
    BY <1>1, <2>2 DEF Truthful
  <2>4. v6'[c].phase # "answered"
    BY <2>1
  <2>5. TruthInv'
    BY <2>1, <2>3, CallSpeaks
  <2> QED
    BY <2>4, <2>5
<1> QED
  BY <1>3, <1>4, <1>5 DEF P!Continue

(* A write is sent under a revision that nobody has.                         *)
LEMMA SendSpeaks ==
    ASSUME FoundedInv, TruthInv, NEW c \in Callers, P!Send(c)
    PROVE  TruthInv'
<1> PICK w : w = [revision |-> v3 + 1, photo |-> v6[c].op = "replace",
              expected |-> v6[c].expected, generation |-> v6[c].generation]
  OBVIOUS
<1> PICK step : step = [phase |-> "waiting", revision |-> v3 + 1,
                 expected |-> v6[c].expected, since |-> v6[c].since]
  OBVIOUS
<1>1. /\ v6[c].phase = "send" /\ v2' = v2 \cup {w} /\ v3' = v3 + 1 /\ UNCHANGED v1
      /\ v6' = [v6 EXCEPT ![c] = step]
  BY DEF P!Send, P!Goto, P!NewRevision
<1>2. v3 \in Nat /\ w.revision = v3 + 1 /\ w.generation = v6[c].generation
  BY DEF FoundedInv
<1>3. RevisionsAreFresh'
  BY <1>1, <1>2 DEF TruthInv, RevisionsAreFresh, P!Generation
<1>4. \A x, g : Late(x, g)' <=> Late(x, g)
  BY <1>1 DEF Late, P!Stored
<1>5. ASSUME NEW d \in Callers
      PROVE  Truthful(v6[d])'
  <2>1. CASE d = c
    <3>1. v6'[d] = step
      BY <1>1, <2>1 DEF FoundedInv
    <3>2. step.phase = "waiting" /\ step.revision = v3 + 1 /\ step.since = v6[c].since
          /\ step.expected = v6[c].expected
      OBVIOUS
    <3>3. Late(v6[c], w.generation) /\ v6[c].since \in 0..P!Generation
      BY <1>1, <1>2 DEF TruthInv, Truthful
    <3>4. Late(step, w.generation)
      BY <3>2, <3>3 DEF Late
    <3>5. \A x \in v2' : x.revision = v3 + 1 => x = w
      BY <1>1, <1>2 DEF TruthInv, RevisionsAreFresh
    <3>6. \A x \in v2' : x.revision = step.revision => Late(step, x.generation)'
      BY <1>4, <3>2, <3>4, <3>5
    <3>7. P!Generation' = P!Generation /\ step.revision \in 1..v3'
      BY <1>1, <1>2, <3>2 DEF P!Generation
    <3> QED
      BY <3>1, <3>2, <3>3, <3>6, <3>7 DEF Truthful, Late
  <2>2. CASE d # c
    <3>1. v6'[d] = v6[d] /\ Truthful(v6[d])
      BY <1>1, <2>2 DEF FoundedInv, TruthInv
    <3>2. P!Generation' = P!Generation
      BY <1>1 DEF P!Generation
    <3> QED
      BY <1>1, <1>2, <3>1, <3>2 DEF Truthful, Late, P!Stored
  <2> QED
    BY <2>1, <2>2
<1> QED
  BY <1>3, <1>5 DEF TruthInv

(* A write lands or is refused, and whoever waits for it hears which.        *)
LEMMA ArriveSpeaks ==
    ASSUME FoundedInv, TruthInv, NEW w \in v2, P!Arrive(w)
    PROVE  /\ TruthInv'
           /\ \A c \in Callers : /\ v6[c].phase = "waiting"
                               /\ v6'[c].phase = "answered" /\ v6'[c].result = "conflict" =>
                P!Stored(v6[c].since).revision # v6[c].expected \/ P!Generation > v6[c].since
<1>1. v2' = v2 \ {w} /\ UNCHANGED v3 /\ v3 \in Nat /\ w.revision \in 1..v3
  BY DEF P!Arrive, FoundedInv, TruthInv, RevisionsAreFresh
<1>2. PICK landed \in BOOLEAN :
        /\ P!Notify(w, landed)
        /\ IF landed THEN v1' = Append(v1, [revision |-> w.revision, photo |-> w.photo,
                                            expected |-> w.expected])
                     ELSE UNCHANGED v1 /\ ~P!Holds(w)
  BY DEF P!Arrive
<1> PICK k : k = P!Generation
  OBVIOUS
<1>3. /\ k \in Nat /\ \A g \in 1..k : v1'[g] = v1[g]
      /\ landed => P!Generation' = k + 1 /\ v1'[k + 1].revision = w.revision
      /\ ~landed => P!Generation' = k
  <2>1. CASE landed
    <3> PICK v : v = [revision |-> w.revision, photo |-> w.photo, expected |-> w.expected]
      OBVIOUS
    <3>1. v \in Version /\ v1' = Append(v1, v) /\ v.revision = w.revision
      BY <1>2, <2>1 DEF Version, FoundedInv, WritesAreFounded
    <3> QED
      BY <2>1, <3>1 DEF P!Generation, FoundedInv
  <2>2. CASE ~landed
    BY <1>2, <2>2 DEF P!Generation, FoundedInv
  <2> QED
    BY <2>1, <2>2
<1>4. \A g \in 0..k : P!Stored(g)' = P!Stored(g)
  <2>1. \A g \in 0..k : g = 0 \/ g \in 1..k
    BY <1>3
  <2> QED
    BY <1>3, <2>1 DEF P!Stored, P!Nothing, P!ABSENT
<1>5. \A x : \A g : x.since \in 0..k => (Late(x, g)' <=> Late(x, g))
  BY <1>4 DEF Late
<1>6. RevisionsAreFresh'
  <2>1. ASSUME NEW g \in 1..P!Generation'
        PROVE  v1'[g].revision \in 1..v3 /\ \A x \in v2' : v1'[g].revision # x.revision
    <3>1. CASE g \in 1..k
      BY <1>1, <1>3, <3>1 DEF TruthInv, RevisionsAreFresh
    <3>2. CASE g = k + 1 /\ landed
      BY <1>1, <1>3, <3>2 DEF TruthInv, RevisionsAreFresh
    <3> QED
      BY <1>3, <2>1, <3>1, <3>2
  <2> QED
    BY <1>1, <2>1 DEF TruthInv, RevisionsAreFresh
<1>7. ASSUME NEW c \in Callers
      PROVE  Truthful(v6[c])'
  <2>1. Truthful(v6[c])
    BY DEF TruthInv
  <2>2. CASE ~P!WaitsFor(c, w)
    <3>1. v6'[c] = v6[c]
      BY <1>2, <2>2 DEF P!Notify
    <3> QED
      BY <1>1, <1>3, <1>5, <2>1, <3>1 DEF Truthful
  <2>3. CASE P!WaitsFor(c, w)
    <3>1. v6'[c].phase = "answered" /\ v6'[c].revision = w.revision
          /\ v6'[c].result = IF landed THEN "saved" ELSE "conflict"
      BY <1>2, <2>3 DEF P!Notify
    <3>2. CASE landed
      <4>1. k + 1 \in 1..P!Generation' /\ v1'[k + 1].revision = w.revision
        BY <1>3, <3>2
      <4> QED
        BY <3>1, <3>2, <4>1 DEF Truthful
    <3>3. CASE ~landed
      <4>1. \A g \in 1..P!Generation' : v1'[g].revision # w.revision
        BY <1>3, <3>3 DEF TruthInv, RevisionsAreFresh
      <4>2. \A x \in v2' : x.revision # w.revision
        BY <1>1 DEF TruthInv, RevisionsAreFresh
      <4> QED
        BY <1>1, <3>1, <3>3, <4>1, <4>2 DEF Truthful
    <3> QED
      BY <3>2, <3>3
  <2> QED
    BY <2>2, <2>3
<1>8. ASSUME NEW c \in Callers, v6[c].phase = "waiting",
             v6'[c].phase = "answered", v6'[c].result = "conflict"
      PROVE  P!Stored(v6[c].since).revision # v6[c].expected \/ P!Generation > v6[c].since
  <2>1. P!WaitsFor(c, w) /\ ~landed
    BY <1>2, <1>8 DEF P!Notify
  <2>2. Late(v6[c], w.generation) /\ v6[c].since \in 0..k
    BY <1>8, <2>1 DEF TruthInv, Truthful, P!WaitsFor
  <2>3. w.generation \in 0..k /\ w.generation # P!Generation
    BY <1>2, <2>1 DEF P!Holds, FoundedInv, WritesAreFounded, Founded
  <2> QED
    BY <1>3, <2>2, <2>3 DEF Late
<1> QED
  BY <1>6, <1>7, <1>8 DEF TruthInv

(* Every step keeps the answers true, and blames no tab without cause.       *)
LEMMA ProfileSpeaks ==
    ASSUME FoundedInv, TruthInv, [P!Next]_(P!vars)
    PROVE  TruthInv' /\ P!Conflict
<1>1. ASSUME NEW c \in Callers, NEW step, UNCHANGED <<v1, v2, v3>>,
             v6' = [v6 EXCEPT ![c] = step], Truthful(step),
             ~(step.phase = "answered" /\ step.result = "conflict")
      PROVE  TruthInv' /\ P!Conflict
  <2>1. TruthInv'
    BY <1>1, CallSpeaks
  <2>2. \A d \in Callers : v6'[d] = v6[d] \/ v6'[d] = step
    BY <1>1 DEF FoundedInv
  <2>3. P!Conflict
    BY <1>1, <2>2 DEF P!Conflict, P!Reading
  <2> QED
    BY <2>1, <2>3
<1>2. CASE P!Outage \/ UNCHANGED P!vars
  <2>1. UNCHANGED <<v1, v2, v3, v6>>
    BY <1>2 DEF P!Outage, P!vars
  <2> QED
    BY <2>1
       DEF TruthInv, RevisionsAreFresh, Truthful, Late, P!Stored,
       P!Generation, P!Conflict, P!Reading
<1>3. ASSUME NEW c \in Callers, NEW op \in {"metadata", "replace", "remove"}, P!Ask(c, op)
      PROVE  TruthInv' /\ P!Conflict
  <2> PICK step : step = [phase |-> IF op = "replace" THEN "preflight" ELSE "check", op |-> op,
                expected |-> v5[c], since |-> P!Generation, missing |-> FALSE]
    OBVIOUS
  <2>1. v6' = [v6 EXCEPT ![c] = step] /\ UNCHANGED <<v1, v2, v3>>
    BY <1>3 DEF P!Ask, P!Goto
  <2>2. step.phase \in {"preflight", "check"} /\ step.since \in 0..P!Generation
    BY DEF P!Generation, FoundedInv
  <2>3. Truthful(step)
    BY <2>2 DEF Truthful
  <2> QED
    BY <1>1, <2>1, <2>2, <2>3
<1>4. ASSUME NEW c \in Callers, \E revision : P!Answer(c, "unavailable", revision),
             UNCHANGED <<v1, v2, v3>>
      PROVE  TruthInv' /\ P!Conflict
  <2> PICK revision : P!Answer(c, "unavailable", revision)
    BY <1>4
  <2> PICK step : step = [phase |-> "answered", result |-> "unavailable",
             revision |-> revision]
    OBVIOUS
  <2>1. v6' = [v6 EXCEPT ![c] = step]
    BY DEF P!Answer, P!Goto
  <2>2. Truthful(step) /\ step.result = "unavailable"
    BY DEF Truthful
  <2> QED
    BY <1>1, <1>4, <2>1, <2>2
<1>5. ASSUME NEW c \in Callers, P!Fail(c) \/ P!Doubt(c)
      PROVE  TruthInv' /\ P!Conflict
  BY <1>4, <1>5 DEF P!Fail, P!Doubt
<1>6. ASSUME NEW c \in Callers, P!Told(c)
      PROVE  TruthInv' /\ P!Conflict
  <2>1. v6' = [v6 EXCEPT ![c] = P!Idle] /\ UNCHANGED <<v1, v2, v3>>
    BY <1>6 DEF P!Told, P!Goto
  <2> PICK step : step = [phase |-> "idle"]
    OBVIOUS
  <2>2. v6' = [v6 EXCEPT ![c] = step]
    BY <2>1 DEF P!Idle
  <2>3. Truthful(step) /\ step.phase = "idle"
    BY DEF Truthful
  <2> QED
    BY <1>1, <2>1, <2>2, <2>3
<1>7. ASSUME NEW c \in Callers, P!NotFound(c)
      PROVE  TruthInv' /\ P!Conflict
  <2> PICK step : step = [v6[c] EXCEPT !.missing = TRUE]
    OBVIOUS
  <2>1. v6' = [v6 EXCEPT ![c] = step] /\ UNCHANGED <<v1, v2, v3>> /\ P!Reading(c)
    BY <1>7 DEF P!NotFound, P!Goto
  <2>2. step.phase = v6[c].phase /\ step.since = v6[c].since
    OBVIOUS
  <2>3. Truthful(v6[c]) /\ v6[c].phase \in {"preflight", "check", "swap"}
    BY <2>1 DEF TruthInv, P!Reading
  <2>4. Truthful(step)
    BY <2>2, <2>3 DEF Truthful
  <2> QED
    BY <1>1, <2>1, <2>2, <2>3, <2>4
<1>8. ASSUME NEW c \in Callers, NEW g \in {0, P!Generation}, P!Reading(c), P!Continue(c, g),
             UNCHANGED <<v1, v2, v3>>, v6[c].missing = FALSE => g = P!Generation
      PROVE  TruthInv' /\ P!Conflict
  <2>1. /\ TruthInv'
        /\ ~v6[c].missing /\ v6'[c].phase = "answered" /\ v6'[c].result = "conflict" =>
             P!Stored(v6[c].since).revision # v6[c].expected \/ P!Generation > v6[c].since
    BY <1>8, ContinueSpeaks
  <2>2. \A d \in Callers : d = c \/ v6'[d] = v6[d]
    BY <1>8 DEF P!Continue, P!Answer, P!Resume, P!Goto, FoundedInv
  <2>3. P!Conflict
    BY <1>8, <2>1, <2>2 DEF P!Conflict, P!Reading
  <2> QED
    BY <2>1, <2>3
<1>9. ASSUME NEW c \in Callers, P!Read(c) \/ P!Verify(c)
      PROVE  TruthInv' /\ P!Conflict
  BY <1>4, <1>8, <1>9 DEF P!Read, P!Verify
<1>10. ASSUME NEW c \in Callers, P!Send(c)
       PROVE  TruthInv' /\ P!Conflict
  <2>1. \A d \in Callers : v6'[d] = v6[d] \/ v6'[d].phase = "waiting"
    BY <1>10 DEF P!Send, P!Goto, FoundedInv
  <2>2. P!Conflict
    BY <2>1 DEF P!Conflict, P!Reading
  <2> QED
    BY <1>10, <2>2, SendSpeaks
<1>11. ASSUME NEW w \in v2, P!Arrive(w)
       PROVE  TruthInv' /\ P!Conflict
  <2>1. \A c \in Callers : v6'[c] = v6[c] \/ v6[c].phase = "waiting"
    <3>1. \A landed : P!Notify(w, landed) => \A c \in Callers : v6'[c] = v6[c] \/ v6[c].phase = "waiting"
      BY DEF P!Notify, P!WaitsFor
    <3> QED
      BY <1>11, <3>1 DEF P!Arrive
  <2>2. P!Conflict
    BY <1>11, <2>1, ArriveSpeaks DEF P!Conflict, P!Reading
  <2> QED
    BY <1>11, <2>2, ArriveSpeaks
<1>12. ASSUME NEW w \in v2, P!Vanish(w)
       PROVE  TruthInv' /\ P!Conflict
  BY <1>12
     DEF P!Vanish, TruthInv, RevisionsAreFresh, Truthful, Late, P!Stored,
     P!Generation, P!Conflict, P!Reading
<1> QED
  BY <1>2, <1>3, <1>5, <1>6, <1>7, <1>9, <1>10, <1>11, <1>12 DEF P!Next


-----------------------------------------------------------------------------
(* What the tabs hold and are told has been issued.                          *)
Spoken(step) ==
    /\ step.phase \in P!Phases
    /\ step.phase = "answered" /\ step.result \in {"saved", "unchanged", "current"} =>
        step.revision \in 0..v3

ViewsInv ==
    /\ v3 \in 0..MaxWrites /\ v4 \in BOOLEAN /\ v5 \in [Callers -> 0..v3]
    /\ \A c \in Callers : Spoken(v6[c])

(* A revision that the object has had was issued.                            *)
LEMMA StoredIsIssued ==
    ASSUME FoundedInv, TruthInv, NEW g \in 0..P!Generation
    PROVE  P!Stored(g).revision \in 0..v3
<1>1. CASE g = 0
  BY <1>1 DEF P!Stored, P!Nothing, P!ABSENT, FoundedInv
<1>2. CASE g # 0
  BY <1>2 DEF P!Stored, TruthInv, RevisionsAreFresh, FoundedInv
<1> QED
  BY <1>1, <1>2

(* One call takes a step, under the revisions issued.                        *)
LEMMA SpeakingTypes ==
    ASSUME FoundedInv, ViewsInv, UNCHANGED <<v3, v4, v5>>, NEW c \in Callers,
           NEW step, v6' = [v6 EXCEPT ![c] = step], Spoken(step)
    PROVE  ViewsInv'
<1>1. \A d \in Callers : v6'[d] = IF d = c THEN step ELSE v6[d]
  BY DEF FoundedInv
<1>2. \A d \in Callers : Spoken(v6'[d])
  BY <1>1 DEF ViewsInv
<1> QED
  BY <1>2 DEF ViewsInv, Spoken

(* An answer to a read.                                                      *)
LEMMA ContinueTypes ==
    ASSUME FoundedInv, TruthInv, ViewsInv, UNCHANGED <<v3, v4, v5>>, NEW c \in Callers,
           NEW g \in 0..P!Generation, P!Continue(c, g)
    PROVE  ViewsInv'
<1>1. CASE \E result \in {"current", "unchanged"} : P!Answer(c, result, P!Stored(g).revision)
  <2> PICK result \in {"current", "unchanged"} : P!Answer(c, result, P!Stored(g).revision)
    BY <1>1
  <2> PICK step : step = [phase |-> "answered", result |-> result,
             revision |-> P!Stored(g).revision]
    OBVIOUS
  <2>1. v6' = [v6 EXCEPT ![c] = step]
    BY DEF P!Answer, P!Goto
  <2>2. Spoken(step)
    BY StoredIsIssued DEF Spoken, P!Phases
  <2> QED
    BY <2>1, <2>2, SpeakingTypes
<1>2. CASE P!Answer(c, "conflict", P!ABSENT)
  <2> PICK step : step = [phase |-> "answered", result |-> "conflict",
             revision |-> P!ABSENT]
    OBVIOUS
  <2>1. v6' = [v6 EXCEPT ![c] = step] /\ Spoken(step)
    BY <1>2 DEF P!Answer, P!Goto, Spoken, P!Phases
  <2> QED
    BY <2>1, SpeakingTypes
<1>3. CASE \E phase \in {"check", "swap", "send"} : P!Resume(c, phase, g)
  <2> PICK phase \in {"check", "swap", "send"} : P!Resume(c, phase, g)
    BY <1>3
  <2> PICK step : step = [phase |-> phase, op |-> v6[c].op, expected |-> v6[c].expected,
             since |-> v6[c].since, missing |-> FALSE, generation |-> g]
    OBVIOUS
  <2>1. v6' = [v6 EXCEPT ![c] = step] /\ Spoken(step)
    BY DEF P!Resume, P!Goto, Spoken, P!Phases
  <2> QED
    BY <2>1, SpeakingTypes
<1> QED
  BY <1>1, <1>2, <1>3 DEF P!Continue

(* The initial state.                                                        *)
LEMMA ViewsBegin == ASSUME P!ProfileAssumption, P!Init PROVE ViewsInv
BY DEF P!ProfileAssumption, P!Init, P!Idle, P!ABSENT, ViewsInv, Spoken, P!Phases

(* Every step of a tab or of the store.                                      *)
LEMMA ViewsKeep ==
    ASSUME FoundedInv, TruthInv, ViewsInv, P!ProfileAssumption, [P!Next]_(P!vars)
    PROVE  ViewsInv'
<1>0. P!Generation \in 0..P!Generation /\ 0 \in 0..P!Generation
  BY DEF FoundedInv, P!Generation
<1>1. CASE P!Outage \/ UNCHANGED P!vars
  BY <1>1 DEF P!Outage, P!vars, ViewsInv, Spoken
<1>2. ASSUME NEW c \in Callers, NEW op \in {"metadata", "replace", "remove"}, P!Ask(c, op)
      PROVE  ViewsInv'
  <2> PICK step : step = [phase |-> IF op = "replace" THEN "preflight" ELSE "check", op |-> op,
                expected |-> v5[c], since |-> P!Generation, missing |-> FALSE]
    OBVIOUS
  <2>1. v6' = [v6 EXCEPT ![c] = step] /\ Spoken(step) /\ UNCHANGED <<v3, v4, v5>>
    BY <1>2 DEF P!Ask, P!Goto, Spoken, P!Phases
  <2> QED
    BY <2>1, SpeakingTypes
<1>3. ASSUME NEW c \in Callers, P!Answer(c, "unavailable", P!ABSENT), UNCHANGED <<v3, v4, v5>>
      PROVE  ViewsInv'
  <2> PICK step : step = [phase |-> "answered", result |-> "unavailable",
             revision |-> P!ABSENT]
    OBVIOUS
  <2>1. v6' = [v6 EXCEPT ![c] = step] /\ Spoken(step)
    BY <1>3 DEF P!Answer, P!Goto, Spoken, P!Phases
  <2> QED
    BY <1>3, <2>1, SpeakingTypes
<1>4. ASSUME NEW c \in Callers, P!Read(c) \/ P!Verify(c) \/ P!Fail(c) \/ P!Doubt(c)
      PROVE  ViewsInv'
  <2>1. UNCHANGED <<v3, v4, v5>>
    BY <1>4 DEF P!Read, P!Verify, P!Fail, P!Doubt
  <2>2. P!Continue(c, P!Generation) \/ P!Continue(c, 0) \/ P!Answer(c, "unavailable", P!ABSENT)
    BY <1>4 DEF P!Read, P!Verify, P!Fail, P!Doubt
  <2> QED
    BY <1>0, <1>3, <2>1, <2>2, ContinueTypes
<1>5. ASSUME NEW c \in Callers, P!NotFound(c)
      PROVE  ViewsInv'
  <2> PICK step : step = [v6[c] EXCEPT !.missing = TRUE]
    OBVIOUS
  <2>1. v6' = [v6 EXCEPT ![c] = step] /\ UNCHANGED <<v3, v4, v5>> /\ v6[c].phase # "answered"
    BY <1>5 DEF P!NotFound, P!Goto, P!Reading
  <2>2. step.phase = v6[c].phase
    OBVIOUS
  <2>3. Spoken(step)
    BY <2>1, <2>2 DEF ViewsInv, Spoken
  <2> QED
    BY <2>1, <2>3, SpeakingTypes
<1>6. ASSUME NEW c \in Callers, P!Send(c)
      PROVE  ViewsInv'
  <2> PICK step : step = [phase |-> "waiting", revision |-> v3 + 1,
                 expected |-> v6[c].expected, since |-> v6[c].since]
    OBVIOUS
  <2>1. /\ v3' = v3 + 1 /\ v3 < MaxWrites /\ UNCHANGED <<v4, v5>>
        /\ v6' = [v6 EXCEPT ![c] = step]
    BY <1>6 DEF P!Send, P!Goto, P!NewRevision
  <2>2. v3 \in Nat /\ v3' \in 0..MaxWrites /\ 0..v3 \subseteq 0..v3'
    BY <2>1 DEF ViewsInv, P!ProfileAssumption
  <2>3. v5' \in [Callers -> 0..v3']
    BY <2>1, <2>2 DEF ViewsInv
  <2>4. ASSUME NEW d \in Callers PROVE Spoken(v6[d])'
    <3>1. v6'[d] = IF d = c THEN step ELSE v6[d]
      BY <2>1 DEF FoundedInv
    <3> QED
      BY <2>2, <3>1 DEF ViewsInv, Spoken, P!Phases
  <2> QED
    BY <2>1, <2>2, <2>3, <2>4 DEF ViewsInv
<1>7. ASSUME NEW c \in Callers, P!Told(c)
      PROVE  ViewsInv'
  <2>1. Spoken(v6[c]) /\ v6[c].phase = "answered" /\ v6' = [v6 EXCEPT ![c] = P!Idle]
        /\ UNCHANGED <<v3, v4>>
    BY <1>7 DEF P!Told, P!Goto, ViewsInv
  <2>2. v5' \in [Callers -> 0..v3]
    BY <1>7, <2>1 DEF P!Told, ViewsInv, Spoken
  <2>3. Spoken(P!Idle)
    BY DEF Spoken, P!Idle, P!Phases
  <2>4. \A d \in Callers : Spoken(v6'[d])
    BY <2>1, <2>3 DEF FoundedInv, ViewsInv
  <2> QED
    BY <2>1, <2>2, <2>4 DEF ViewsInv, Spoken
<1>8. ASSUME NEW w \in v2, P!Arrive(w)
      PROVE  ViewsInv'
  <2>1. UNCHANGED <<v3, v4, v5>> /\ w.revision \in 0..v3
    BY <1>8 DEF P!Arrive, TruthInv, RevisionsAreFresh, FoundedInv
  <2>2. PICK landed : P!Notify(w, landed)
    BY <1>8 DEF P!Arrive
  <2>3. ASSUME NEW c \in Callers PROVE Spoken(v6'[c])
    <3>1. CASE ~P!WaitsFor(c, w)
      BY <2>2, <3>1 DEF P!Notify, ViewsInv
    <3>2. CASE P!WaitsFor(c, w)
      <4>1. v6'[c] = [phase |-> "answered", revision |-> w.revision,
              result |-> IF landed THEN "saved" ELSE "conflict"]
        BY <2>2, <3>2 DEF P!Notify
      <4> QED
        BY <2>1, <4>1 DEF Spoken, P!Phases
    <3> QED
      BY <3>1, <3>2
  <2> QED
    BY <2>1, <2>3 DEF ViewsInv, Spoken
<1>9. ASSUME NEW w \in v2, P!Vanish(w)
      PROVE  ViewsInv'
  BY <1>9 DEF P!Vanish, ViewsInv, Spoken
<1> QED
  BY <1>1, <1>2, <1>4, <1>5, <1>6, <1>7, <1>8, <1>9 DEF P!Next

(* A sequence is one of whatever set its elements are in.                    *)
LEMMA ElementsType ==
    ASSUME NEW S, NEW s \in Seq(S), NEW X, \A i \in 1..Len(s) : s[i] \in X
    PROVE  s \in Seq(X)
OBVIOUS

(* The values of the variables follow.                                       *)
LEMMA ProfileTypes ==
    ASSUME FoundedInv, TruthInv, ViewsInv
    PROVE  P!TypeOK
<1>1. v1 \in Seq(Version) /\ v3 \in Nat
  BY DEF FoundedInv
<1>2. ASSUME NEW g \in 1..Len(v1)
      PROVE  v1[g] \in [revision : 1..v3, photo : BOOLEAN, expected : 0..v3]
  <2>1. v1[g] \in Version
    BY <1>1
  <2>2. v1[g].revision \in 1..v3
    BY DEF TruthInv, RevisionsAreFresh, P!Generation
  <2>3. v1[g].expected \in 0..v3
    <3>1. g - 1 \in 0..P!Generation
      BY <1>1 DEF P!Generation
    <3>2. v1[g].expected = P!Stored(g - 1).revision
      BY DEF FoundedInv, P!NoLostUpdate, P!Generation
    <3> QED
      BY <3>1, <3>2, StoredIsIssued
  <2> QED
    BY <2>1, <2>2, <2>3 DEF Version
<1>3. v1 \in Seq([revision : 1..v3, photo : BOOLEAN, expected : 0..v3])
  BY <1>1, <1>2, ElementsType
<1>4. ASSUME NEW w \in v2
      PROVE  w \in [revision : 1..v3, photo : BOOLEAN, expected : 0..v3, generation : Nat]
  <2>1. w \in [revision : Nat, photo : BOOLEAN, expected : Nat, generation : Nat]
    BY DEF FoundedInv, WritesAreFounded
  <2>2. w.revision \in 1..v3
    BY DEF TruthInv, RevisionsAreFresh
  <2>3. w.expected \in 0..v3
    <3>1. w.generation \in 0..P!Generation /\ w.expected = P!Stored(w.generation).revision
      BY DEF FoundedInv, WritesAreFounded, Founded
    <3> QED
      BY <3>1, StoredIsIssued
  <2> QED
    BY <2>1, <2>2, <2>3
<1>5. \A c \in Callers : v6[c].phase \in P!Phases
  BY DEF ViewsInv, Spoken
<1> QED
  BY <1>3, <1>4, <1>5 DEF P!TypeOK, ViewsInv

-----------------------------------------------------------------------------
(* The profile's contract. The object is compared by its generation, the     *)
(* contract by its revision: these are the same because no two versions ever *)
(* have the same revision, and because what a write is conditional on is a   *)
(* generation and its revision (Founded).                                    *)

VersionsDiffer ==
    \A g, h \in 1..P!Generation : v1[g].revision = v1[h].revision => g = h

SendsAreSaves ==
    \A c \in Callers : v6[c].phase = "send" => v6[c].op # "metadata"

ContractInv == VersionsDiffer /\ SendsAreSaves

(* The initial state.                                                        *)
LEMMA ContractInvBegins == P!Init => ContractInv
BY DEF P!Init, ContractInv, VersionsDiffer, SendsAreSaves, P!Idle, P!Generation

(* A write that lands has a revision of its own, and a request is only sent  *)
(* on after it was found not to be for the metadata.                         *)
LEMMA ContractInvKeeps ==
    ASSUME FoundedInv, TruthInv, ContractInv, [P!Next]_(P!vars)
    PROVE  ContractInv'
<1> USE DEF FoundedInv
<1>1. SendsAreSaves'
  <2>1. ASSUME NEW c \in Callers, NEW step, v6' = [v6 EXCEPT ![c] = step],
               step.phase = "send" => step.op # "metadata"
        PROVE  SendsAreSaves'
    BY <2>1 DEF ContractInv, SendsAreSaves
  <2>2. CASE UNCHANGED v6
    BY <2>2 DEF ContractInv, SendsAreSaves
  <2>3. ASSUME NEW c \in Callers, NEW g, P!Continue(c, g) PROVE SendsAreSaves'
    <3>1. CASE \E result, revision : P!Answer(c, result, revision)
      BY <2>1, <3>1 DEF P!Answer, P!Goto
    <3>2. CASE \E phase : P!Resume(c, phase, g) /\ v6[c].op # "metadata"
      BY <2>1, <3>2 DEF P!Resume, P!Goto
    <3> QED
      BY <2>3, <3>1, <3>2 DEF P!Continue
  <2>4. ASSUME NEW c \in Callers, P!Fail(c) \/ P!Doubt(c) \/ P!Told(c) \/ P!Verify(c) \/ P!Read(c)
        PROVE  SendsAreSaves'
    <3>1. CASE \E result, revision : P!Answer(c, result, revision)
      BY <2>1, <3>1 DEF P!Answer, P!Goto
    <3>2. CASE P!Told(c)
      BY <2>1, <3>2 DEF P!Told, P!Goto, P!Idle
    <3> QED
      BY <2>3, <2>4, <3>1, <3>2 DEF P!Fail, P!Doubt, P!Verify, P!Read
  <2>5. ASSUME NEW c \in Callers, NEW op, P!Ask(c, op) PROVE SendsAreSaves'
    <3>1. PICK step : /\ step = [phase |-> IF op = "replace" THEN "preflight" ELSE "check",
                          op |-> op, expected |-> v5[c], since |-> P!Generation,
                          missing |-> FALSE]
                      /\ v6' = [v6 EXCEPT ![c] = step]
      BY <2>5 DEF P!Ask, P!Goto
    <3>2. step.phase \in {"preflight", "check"}
      BY <3>1
    <3> QED
      BY <2>1, <3>1, <3>2
  <2>6. ASSUME NEW c \in Callers, P!NotFound(c) PROVE SendsAreSaves'
    <3>1. v6' = [v6 EXCEPT ![c] = [v6[c] EXCEPT !.missing = TRUE]] /\ v6[c].phase # "send"
      BY <2>6 DEF P!NotFound, P!Reading, P!Goto
    <3>2. [v6[c] EXCEPT !.missing = TRUE].phase = v6[c].phase
      OBVIOUS
    <3> QED
      BY <2>1, <3>1, <3>2
  <2>7. ASSUME NEW c \in Callers, P!Send(c) PROVE SendsAreSaves'
    BY <2>1, <2>7 DEF P!Send, P!Goto
  <2>8. ASSUME NEW w, P!Arrive(w) PROVE SendsAreSaves'
    <3>1. \A c \in Callers : v6'[c] = v6[c] \/ v6'[c].phase = "answered"
      BY <2>8 DEF P!Arrive, P!Notify
    <3> QED
      BY <3>1 DEF ContractInv, SendsAreSaves
  <2> QED
    BY <2>2, <2>4, <2>5, <2>6, <2>7, <2>8
       DEF P!Next, P!vars, P!Outage, P!Vanish
<1>2. VersionsDiffer'
  <2>1. CASE UNCHANGED v1
    BY <2>1 DEF ContractInv, VersionsDiffer, P!Generation
  <2>2. ASSUME NEW w \in v2, P!Holds(w), v1' = Append(v1,
                [revision |-> w.revision, photo |-> w.photo, expected |-> w.expected])
        PROVE  VersionsDiffer'
    <3> DEFINE v == [revision |-> w.revision, photo |-> w.photo, expected |-> w.expected]
               n == P!Generation
    <3>1. n \in Nat /\ P!Generation' = n + 1 /\ v1'[n + 1] = v
          /\ \A g \in 1..n : v1'[g] = v1[g]
      BY <2>2 DEF P!Generation
    <3>2. v.revision = w.revision /\ \A g \in 1..n : v1[g].revision # w.revision
      BY DEF TruthInv, RevisionsAreFresh
    <3> HIDE DEF v, n
    <3>3. ASSUME NEW g \in 1..(n + 1), NEW h \in 1..(n + 1), v1'[g].revision = v1'[h].revision
          PROVE  g = h
      <4>1. CASE g \in 1..n /\ h \in 1..n
        BY <3>1, <3>3, <4>1 DEF ContractInv, VersionsDiffer, n
      <4>2. CASE g \notin 1..n \/ h \notin 1..n
        BY <3>1, <3>2, <3>3, <4>2
      <4> QED
        BY <4>1, <4>2
    <3> QED
      BY <3>1, <3>3 DEF VersionsDiffer
  <2> QED
    BY <2>1, <2>2
       DEF P!Next, P!vars, P!Outage, P!Vanish, P!Arrive, P!Ask, P!Read, P!NotFound, P!Verify,
       P!Fail, P!Send, P!Doubt, P!Told
<1> QED
  BY <1>1, <1>2 DEF ContractInv

(* What a step of one tab's request is to the contract.                      *)
LEMMA RequestMoves ==
    ASSUME DOMAIN v6 = Callers, NEW c \in Callers, NEW step,
           v6' = [v6 EXCEPT ![c] = step]
    PROVE  Contract!Goto(c, P!AsRequest(step))
BY DEF Contract!Goto

(* An answer to a tab is the contract's.                                     *)
LEMMA AnswerMoves ==
    ASSUME DOMAIN v6 = Callers, NEW c \in Callers, NEW result,
           NEW revision, P!Answer(c, result, revision)
    PROVE  Contract!Goto(c, Contract!Answered(result, revision))
<1>1. PICK step : /\ step = [phase |-> "answered", result |-> result,
                        revision |-> revision]
                  /\ v6' = [v6 EXCEPT ![c] = step]
  BY DEF P!Answer, P!Goto
<1>2. P!AsRequest(step) = Contract!Answered(result, revision)
  BY <1>1 DEF P!AsRequest, Contract!Answered
<1> QED
  BY <1>1, <1>2, RequestMoves

(* A read that lets a request go on is nothing to the contract.              *)
LEMMA RequestRests ==
    ASSUME DOMAIN v6 = Callers, UNCHANGED <<v1, v2, v3, v5>>,
           \A c \in Callers : P!AsRequest(v6'[c]) = P!AsRequest(v6[c])
    PROVE  UNCHANGED Contract!vars
BY DEF Contract!vars, P!Stored, P!Generation

(* A tab asks.                                                               *)
LEMMA AskIsAsk ==
    ASSUME DOMAIN v6 = Callers, NEW c \in Callers,
           NEW op \in {"metadata", "replace", "remove"}, P!Ask(c, op)
    PROVE  Contract!Ask(c)
<1>1. PICK step : /\ step = [phase |-> IF op = "replace" THEN "preflight" ELSE "check", op |-> op,
                        expected |-> v5[c], since |-> P!Generation, missing |-> FALSE]
                  /\ v6' = [v6 EXCEPT ![c] = step]
  BY DEF P!Ask, P!Goto
<1>2. P!AsRequest(step) = [phase |-> "open", op |-> op, expected |-> v5[c]]
  <2>1. step.phase \in {"preflight", "check"}
    BY <1>1
  <2>2. step.op = op /\ step.expected = v5[c]
    BY <1>1
  <2> QED
    BY <2>1, <2>2 DEF P!AsRequest
<1>3. Contract!Goto(c, [phase |-> "open", op |-> op, expected |-> v5[c]])
  BY <1>1, <1>2, RequestMoves
<1>4. P!AsRequest(v6[c]).phase = "idle"
  BY DEF P!Ask, P!Idle, P!AsRequest
<1> QED
  BY <1>3, <1>4 DEF P!Ask, Contract!Ask, P!Stored, P!Generation

(* A read answers, or lets the request go on.                                *)
LEMMA ReadIsTell ==
    ASSUME DOMAIN v6 = Callers, NEW c \in Callers, P!Reading(c),
           UNCHANGED <<v1, v2, v3, v5>>, NEW g \in {0, P!Generation}, P!Continue(c, g)
    PROVE  Contract!Tell(c, P!Stored(g)) \/ UNCHANGED Contract!vars
<1> DEFINE r == P!AsRequest(v6[c])
           seen == P!Stored(g)
<1>1. r.phase = "open" /\ r.op = v6[c].op /\ r.expected = v6[c].expected
  BY DEF P!Reading, P!AsRequest
<1>2. CASE \E phase \in {"check", "swap", "send"} : P!Resume(c, phase, g)
  <2>1. PICK step : /\ v6' = [v6 EXCEPT ![c] = step] /\ step.phase \in {"check", "swap", "send"}
                    /\ step.op = v6[c].op /\ step.expected = v6[c].expected
    BY <1>2 DEF P!Resume, P!Goto
  <2>2. P!AsRequest(step) = P!AsRequest(v6[c])
    BY <2>1 DEF P!AsRequest, P!Reading
  <2> QED
    BY <2>1, <2>2, RequestRests
<1>3. ASSUME NEW result, NEW revision, P!Answer(c, result, revision),
             \/ v6[c].op = "metadata" /\ result = "current" /\ revision = seen.revision
             \/ /\ v6[c].op # "metadata" /\ seen.revision # v6[c].expected
                /\ result = "conflict" /\ revision = 0
             \/ /\ v6[c].op = "remove" /\ seen.revision = v6[c].expected /\ ~seen.photo
                /\ result = "unchanged" /\ revision = seen.revision
      PROVE  Contract!Tell(c, seen)
  <2>1. Contract!Goto(c, Contract!Answered(result, revision))
    BY <1>1, <1>3, AnswerMoves
  <2>2. UNCHANGED <<P!Stored(P!Generation), {P!AsSave(w) : w \in v2}, 1..v3, v5>>
    BY DEF P!Stored, P!Generation
  <2>3. seen \in {P!Stored(P!Generation), Contract!Nothing}
    BY DEF P!Stored, P!Nothing, P!ABSENT, Contract!Nothing, Contract!ABSENT
  <2>4. /\ [d \in Callers |-> P!AsRequest(v6[d])][c] = r
        /\ Contract!ABSENT = 0
    BY DEF Contract!ABSENT
  <2> HIDE DEF seen, r
  <2> QED
    BY <1>1, <1>3, <2>1, <2>2, <2>3, <2>4 DEF Contract!Tell
<1>4. \/ \E phase \in {"check", "swap", "send"} : P!Resume(c, phase, g)
      \/ v6[c].op = "metadata" /\ P!Answer(c, "current", seen.revision)
      \/ v6[c].op # "metadata" /\ seen.revision # v6[c].expected /\ P!Answer(c, "conflict", 0)
      \/ /\ v6[c].op = "remove" /\ seen.revision = v6[c].expected /\ ~seen.photo
         /\ P!Answer(c, "unchanged", seen.revision)
  BY DEF P!Continue, P!Matches, P!ABSENT
<1> QED
  BY <1>2, <1>3, <1>4

(* A request is given up: before its write, or in doubt about it.            *)
LEMMA AnswerIsGiveUp ==
    ASSUME DOMAIN v6 = Callers, NEW c \in Callers,
           v6[c].phase \in {"preflight", "check", "swap", "waiting", "answered"},
           P!Answer(c, "unavailable", P!ABSENT), UNCHANGED <<v1, v2, v3, v5>>
    PROVE  Contract!GiveUp(c)
<1>1. P!AsRequest(v6[c]).phase \in {"open", "waiting", "answered"}
  BY DEF P!AsRequest
<1>2. Contract!Goto(c, Contract!Answered("unavailable", 0))
  BY AnswerMoves DEF P!ABSENT
<1> QED
  BY <1>1, <1>2 DEF Contract!GiveUp, Contract!ABSENT, P!Stored, P!Generation

(* A tab takes its answer.                                                   *)
LEMMA ToldIsTold ==
    ASSUME DOMAIN v6 = Callers, NEW c \in Callers, P!Told(c)
    PROVE  Contract!Told(c)
<1>1. /\ P!AsRequest(v6[c]).phase = "answered" /\ P!AsRequest(v6[c]).result = v6[c].result
      /\ P!AsRequest(v6[c]).revision = v6[c].revision
  BY DEF P!AsRequest, P!Told
<1>2. Contract!Goto(c, P!AsRequest(P!Idle))
  BY RequestMoves DEF P!Told, P!Goto
<1>3. P!AsRequest(P!Idle) = [phase |-> "idle"]
  BY DEF P!AsRequest, P!Idle
<1> QED
  BY <1>1, <1>2, <1>3 DEF P!Told, Contract!Told, P!Stored, P!Generation

(* A write is sent, under a revision that was not drawn before.              *)
LEMMA SendIsSave ==
    ASSUME FoundedInv, ContractInv, NEW c \in Callers, P!Send(c)
    PROVE  Contract!Save(c)
<1> DEFINE w == [revision |-> v3 + 1, photo |-> v6[c].op = "replace",
                 expected |-> v6[c].expected, generation |-> v6[c].generation]
           save == [revision |-> v3 + 1, photo |-> v6[c].op = "replace",
                    expected |-> v6[c].expected]
           r == P!AsRequest(v6[c])
<1>1. /\ r.phase = "open" /\ r.op = v6[c].op /\ r.expected = v6[c].expected
      /\ r.op # "metadata"
  BY DEF P!Send, P!AsRequest, ContractInv, SendsAreSaves
<1>2. /\ v2' = v2 \cup {w} /\ v3' = v3 + 1 /\ v3 < MaxWrites /\ UNCHANGED <<v1, v5>>
  BY DEF P!Send, P!NewRevision
<1>3. {P!AsSave(x) : x \in v2'} = {P!AsSave(x) : x \in v2} \cup {save}
  <2>1. P!AsSave(w) = save
    BY DEF P!AsSave
  <2> HIDE DEF w, save
  <2> QED
    BY <1>2, <2>1
<1>4. v3 + 1 \in (1..MaxWrites) \ (1..v3) /\ 1..(v3 + 1) = (1..v3) \cup {v3 + 1}
  BY <1>2, Assumptions DEF FoundedInv, P!ProfileAssumption
<1>5. Contract!Goto(c, [phase |-> "waiting", revision |-> v3 + 1])
  <2>1. PICK step : /\ step = [phase |-> "waiting", revision |-> v3 + 1,
                               expected |-> v6[c].expected, since |-> v6[c].since]
                    /\ v6' = [v6 EXCEPT ![c] = step]
    BY DEF P!Send, P!NewRevision, P!Goto
  <2>2. P!AsRequest(step) = [phase |-> "waiting", revision |-> v3 + 1]
    BY <1>1, <2>1 DEF P!AsRequest
  <2> QED
    BY <2>1, <2>2, RequestMoves DEF FoundedInv
<1>6. save = [revision |-> v3 + 1, photo |-> r.op = "replace", expected |-> r.expected]
  BY <1>1
<1>7. UNCHANGED <<P!Stored(P!Generation), v5>>
  BY <1>2 DEF P!Stored, P!Generation
<1>8. [d \in Callers |-> P!AsRequest(v6[d])][c] = r
  OBVIOUS
<1> HIDE DEF save, r
<1> QED
  BY <1>1, <1>2, <1>3, <1>4, <1>5, <1>6, <1>7, <1>8 DEF Contract!Save

(* Without a write, and the writes on their way are told apart by their      *)
(* revisions, the contract is without its save.                              *)
LEMMA SaveLeaves ==
    ASSUME TruthInv, NEW w \in v2, v2' = v2 \ {w}
    PROVE  {P!AsSave(x) : x \in v2'} = {P!AsSave(x) : x \in v2} \ {P!AsSave(w)}
<1>1. \A x \in v2 : P!AsSave(x) = P!AsSave(w) => x = w
  <2>1. \A x : P!AsSave(x).revision = x.revision
    BY DEF P!AsSave
  <2> QED
    BY <2>1 DEF TruthInv, RevisionsAreFresh
<1> QED
  BY <1>1

(* Whoever waits for a write is answered as the contract judges it.          *)
LEMMA NotifyIsJudged ==
    ASSUME NEW w, NEW landed \in BOOLEAN, P!Notify(w, landed)
    PROVE  Contract!Judged(P!AsSave(w), IF landed THEN "saved" ELSE "conflict")
<1> DEFINE result == IF landed THEN "saved" ELSE "conflict"
           save == P!AsSave(w)
<1>1. P!AsSave(w).revision = w.revision
  BY DEF P!AsSave
<1>2. ASSUME NEW c \in Callers
      PROVE  P!AsRequest(v6'[c]) =
                IF P!AsRequest(v6[c]).phase = "waiting"
                   /\ P!AsRequest(v6[c]).revision = save.revision
                THEN Contract!Answered(result, save.revision)
                ELSE P!AsRequest(v6[c])
  <2>1. CASE P!WaitsFor(c, w)
    <3>1. PICK step : /\ step = [phase |-> "answered", revision |-> w.revision, result |-> result]
                      /\ v6'[c] = step
      BY <2>1 DEF P!Notify
    <3>2. P!AsRequest(step) = [phase |-> "answered", result |-> result,
                              revision |-> w.revision]
      BY <3>1 DEF P!AsRequest
    <3>3. P!AsRequest(v6[c]) = [phase |-> "waiting", revision |-> w.revision]
      BY <2>1 DEF P!AsRequest, P!WaitsFor
    <3> HIDE DEF result
    <3> QED
      BY <1>1, <3>1, <3>2, <3>3 DEF Contract!Answered
  <2>2. CASE ~P!WaitsFor(c, w)
    <3>1. v6'[c] = v6[c]
      BY <2>2 DEF P!Notify
    <3>2. ~(P!AsRequest(v6[c]).phase = "waiting" /\ P!AsRequest(v6[c]).revision = w.revision)
      BY <2>2 DEF P!WaitsFor, P!AsRequest
    <3> QED
      BY <1>1, <3>1, <3>2
  <2> QED
    BY <2>1, <2>2
<1> HIDE DEF result, save
<1> QED
  BY <1>2 DEF Contract!Judged, save, result

(* The store judges a write by its generation as the contract does by its    *)
(* revision.                                                                 *)
LEMMA GenerationIsRevision ==
    ASSUME FoundedInv, TruthInv, ContractInv, NEW w \in v2
    PROVE  P!Holds(w) <=> w.expected = P!Stored(P!Generation).revision
<1> DEFINE n == P!Generation
<1>1. n \in Nat /\ w.generation \in 0..n /\ w.expected = P!Stored(w.generation).revision
  BY DEF FoundedInv, WritesAreFounded, Founded, P!Generation
<1>2. \A g, h \in 0..n : P!Stored(g).revision = P!Stored(h).revision => g = h
  <2>1. \A g \in 1..n : P!Stored(g).revision = v1[g].revision /\ v1[g].revision \in 1..v3
    BY DEF P!Stored, TruthInv, RevisionsAreFresh
  <2>2. P!Stored(0).revision = 0
    BY DEF P!Stored, P!Nothing, P!ABSENT
  <2>3. v3 \in Nat
    BY DEF FoundedInv
  <2> HIDE DEF n
  <2>4. \A g \in 0..n : g = 0 \/ g \in 1..n
    BY <1>1
  <2>5. \A g \in 1..n : P!Stored(g).revision # 0
    BY <2>1, <2>3
  <2> QED
    BY <2>1, <2>2, <2>4, <2>5 DEF ContractInv, VersionsDiffer, n
<1> QED
  BY <1>1, <1>2 DEF P!Holds

(* A write arrives at the store.                                             *)
LEMMA ArriveIsSwap ==
    ASSUME FoundedInv, TruthInv, ContractInv,
           NEW w \in v2, P!Arrive(w)
    PROVE  Contract!compare_and_swap(P!AsSave(w))
<1> DEFINE save == P!AsSave(w)
           object == P!Stored(P!Generation)
<1>1. {P!AsSave(x) : x \in v2'} = {P!AsSave(x) : x \in v2} \ {save}
  BY SaveLeaves DEF P!Arrive
<1>2. save.expected = w.expected /\ save.revision = w.revision /\ save.photo = w.photo
  BY DEF P!AsSave
<1>3. UNCHANGED <<1..v3, v5>>
  BY DEF P!Arrive
<1>4. CASE P!Holds(w)
  <2>1. Contract!Judged(save, "saved")
    BY <1>4, NotifyIsJudged DEF P!Arrive
  <2>2. object' = [revision |-> save.revision, photo |-> save.photo]
    <3>1. v1' = Append(v1, [revision |-> w.revision, photo |-> w.photo,
                            expected |-> w.expected])
      BY <1>4 DEF P!Arrive
    <3>2. P!Generation' = Len(v1) + 1 /\ Len(v1) \in Nat
          /\ v1'[Len(v1) + 1] = [revision |-> w.revision, photo |-> w.photo,
                                 expected |-> w.expected]
      BY <3>1 DEF FoundedInv, P!Generation
    <3>3. P!Stored(P!Generation)' = [revision |-> w.revision, photo |-> w.photo]
      BY <3>2 DEF P!Stored
    <3> QED
      BY <1>2, <3>3
  <2>3. save.expected = object.revision
    BY <1>2, <1>4, GenerationIsRevision
  <2> HIDE DEF save, object
  <2> QED
    BY <1>1, <1>3, <2>1, <2>2, <2>3 DEF Contract!compare_and_swap, object, save
<1>5. CASE ~P!Holds(w)
  <2>1. Contract!Judged(save, "conflict")
    BY <1>5, NotifyIsJudged DEF P!Arrive
  <2>2. UNCHANGED object
    BY <1>5 DEF P!Arrive, P!Stored, P!Generation
  <2>3. save.expected # object.revision
    BY <1>2, <1>5, GenerationIsRevision
  <2> HIDE DEF save, object
  <2> QED
    BY <1>1, <1>3, <2>1, <2>2, <2>3 DEF Contract!compare_and_swap, object, save
<1> QED
  BY <1>4, <1>5

(* A write is lost.                                                          *)
LEMMA VanishIsLose ==
    ASSUME TruthInv, NEW w \in v2, P!Vanish(w)
    PROVE  Contract!Lose(P!AsSave(w))
<1>1. {P!AsSave(x) : x \in v2'} = {P!AsSave(x) : x \in v2} \ {P!AsSave(w)}
  BY SaveLeaves DEF P!Vanish
<1>2. UNCHANGED <<v1, v3, v5, v6>>
  BY DEF P!Vanish
<1> QED
  BY <1>1, <1>2 DEF Contract!Lose, P!Stored, P!Generation

(* Every step of the profile is one of the contract, or none.                *)
LEMMA ProfileIsContract ==
    ASSUME FoundedInv, TruthInv, ContractInv, [P!Next]_(P!vars)
    PROVE  [Contract!Next]_(Contract!vars)
<1>0. DOMAIN v6 = Callers
  BY DEF FoundedInv
<1>1. CASE P!Outage \/ UNCHANGED P!vars
  BY <1>0, <1>1, RequestRests DEF P!Outage, P!vars
<1>2. ASSUME NEW c \in Callers, NEW op \in {"metadata", "replace", "remove"}, P!Ask(c, op)
      PROVE  Contract!Next
  BY <1>0, <1>2, AskIsAsk DEF Contract!Next
<1>3. ASSUME NEW c \in Callers, P!Read(c) \/ P!Verify(c)
      PROVE  [Contract!Next]_(Contract!vars)
  <2>1. UNCHANGED <<v1, v2, v3, v5>> /\ P!Reading(c)
    BY <1>3 DEF P!Read, P!Verify
  <2>2. CASE P!Continue(c, P!Generation)
    BY <1>0, <2>1, <2>2, ReadIsTell DEF Contract!Next
  <2>3. CASE P!Continue(c, 0)
    <3>1. Contract!Tell(c, P!Stored(0)) \/ UNCHANGED Contract!vars
      BY <1>0, <2>1, <2>3, ReadIsTell
    <3>2. P!Stored(0) = Contract!Nothing
      BY DEF P!Stored, P!Nothing, P!ABSENT, Contract!Nothing, Contract!ABSENT
    <3> QED
      BY <3>1, <3>2 DEF Contract!Next
  <2>4. CASE P!Answer(c, "unavailable", P!ABSENT)
    BY <1>0, <2>1, <2>4, AnswerIsGiveUp DEF P!Reading, Contract!Next
  <2> QED
    BY <1>3, <2>2, <2>3, <2>4 DEF P!Read, P!Verify
<1>4. ASSUME NEW c \in Callers, P!Fail(c) \/ P!Doubt(c)
      PROVE  Contract!Next
  BY <1>0, <1>4, AnswerIsGiveUp DEF P!Fail, P!Doubt, P!Reading, Contract!Next
<1>5. ASSUME NEW c \in Callers, P!NotFound(c)
      PROVE  UNCHANGED Contract!vars
  <2>1. PICK step : /\ step = [v6[c] EXCEPT !.missing = TRUE]
                    /\ v6' = [v6 EXCEPT ![c] = step]
    BY <1>5 DEF P!NotFound, P!Goto
  <2>2. step.phase = v6[c].phase /\ step.op = v6[c].op /\ step.expected = v6[c].expected
    BY <2>1
  <2>3. P!AsRequest(step) = P!AsRequest(v6[c])
    BY <1>5, <2>2 DEF P!NotFound, P!Reading, P!AsRequest
  <2> QED
    BY <1>0, <1>5, <2>1, <2>3, RequestRests DEF P!NotFound
<1>6. ASSUME NEW c \in Callers, P!Send(c)
      PROVE  Contract!Next
  BY <1>6, SendIsSave DEF Contract!Next
<1>7. ASSUME NEW c \in Callers, P!Told(c)
      PROVE  Contract!Next
  BY <1>0, <1>7, ToldIsTold DEF Contract!Next
<1>8. ASSUME NEW w \in v2, P!Arrive(w) \/ P!Vanish(w)
      PROVE  Contract!Next
  <2>1. P!AsSave(w) \in {P!AsSave(x) : x \in v2}
    OBVIOUS
  <2>2. Contract!compare_and_swap(P!AsSave(w)) \/ Contract!Lose(P!AsSave(w))
    BY <1>8, ArriveIsSwap, VanishIsLose
  <2> QED
    BY <2>1, <2>2 DEF Contract!Next
<1> QED
  BY <1>1, <1>2, <1>3, <1>4, <1>5, <1>6, <1>7, <1>8 DEF P!Next

(* Nothing is in the object at first, and nobody asks.                       *)
LEMMA ContractBegins == P!Init => Contract!Init
<1> SUFFICES ASSUME P!Init PROVE Contract!Init
  OBVIOUS
<1>1. P!AsRequest(P!Idle) = [phase |-> "idle"]
  BY DEF P!AsRequest, P!Idle
<1>2. /\ P!Stored(P!Generation) = Contract!Nothing
      /\ {P!AsSave(w) : w \in v2} = {} /\ 1..v3 = {}
      /\ v5 = [c \in Callers |-> Contract!ABSENT]
      /\ \A c \in Callers : P!AsRequest(v6[c]) = [phase |-> "idle"]
  BY <1>1
     DEF P!Init, P!Stored, P!Generation, P!Nothing, P!ABSENT, Contract!Nothing, Contract!ABSENT
<1> QED
  BY <1>2 DEF Contract!Init

-----------------------------------------------------------------------------
(* NativeSession. Its sessions, parent, held, call, ownerLock, counts,       *)
(* minute and mishap are v1 to v8.                                           *)

SessionRow == [state : {"absent", "active", "revoked"},
               install : {"absent", "active", "revoked"},
               current : 0..MaxTokens, previous : 0..MaxTokens]

Drawn == N!Cardinality(N!Issued)

(* A session's current token was drawn for it alone and has not been         *)
(* replaced yet; what was drawn was drawn in order.                          *)
Tokens ==
    /\ v1 \in [Sessions -> SessionRow]
    /\ Drawn \in 0..MaxTokens /\ N!Issued = 1..Drawn
    /\ \A t \in N!Issued : v2[t] \in 0..Drawn
    /\ \A s \in Sessions :
        /\ v1[s].current \in 0..Drawn /\ v1[s].previous \in 0..Drawn
        /\ v1[s].current # 0 => v1[s].current # v1[s].previous
        /\ v1[s].state = "absent" => v1[s] = N!NoSession
        /\ v1[s].state = "active" => v1[s].current # 0
        /\ \A t \in N!Issued : v2[t] # 0 => v2[t] # v1[s].current
        /\ \A r \in Sessions : v1[r].current = v1[s].current /\ v1[s].current # 0 => r = s
    /\ N!SingleUse

(* What a call remembers between its steps.                                  *)
Remembered(step) ==
    /\ step.kind \in {"refresh", "reply"} => step.id \in Sessions /\ step.token \in 1..Drawn
    /\ step.kind \in {"validate", "count", "decide"} =>
           step.id \in Sessions /\ step.window \in 1..Windows
    /\ step.kind = "validate" =>
           step = [kind |-> "validate", id |-> step.id, window |-> step.window]
    /\ step.kind = "revoke_all" =>
           \A s \in Sessions : s \in step.rows => v1[s].state # "absent"

Requests ==
    /\ DOMAIN v4 = Calls
    /\ \A c \in Calls : Remembered(v4[c])
    /\ v3 \in [Sessions -> 0..Drawn]
    /\ v8 \subseteq Sessions

InFlight(c, s) == v4[c].kind \in {"refresh", "reply"} /\ v4[c].id = s

(* The device that lost nothing holds the current token or is about to       *)
(* receive it, and has one refresh at a time.                                *)
Orderly(s) ==
    /\ \A c, d \in Calls : InFlight(c, s) /\ InFlight(d, s) => c = d
    /\ \A c \in Calls : InFlight(c, s) =>
        /\ v4[c].token = v1[s].current
        /\ v4[c].kind = "refresh" => v3[s] = v1[s].current
    /\ (\A c \in Calls : ~InFlight(c, s)) => v3[s] \in {0, v1[s].current}

Devices ==
    \A s \in Sessions :
        /\ v1[s].state = "absent" => v3[s] = 0 /\ \A c \in Calls : ~InFlight(c, s)
        /\ s \notin v8 /\ v1[s].state = "active" => Orderly(s)

(* One validation at a time is past the owner's lock; what it has read of    *)
(* the counts is so until it decides.                                        *)
Rates ==
    /\ v5 \in Calls \cup {N!Free} /\ v7 \in 1..Windows
    /\ v6 \in [Sessions -> [1..Windows -> 0..SessionLimit]]
    /\ \A w \in 1..Windows : N!OwnerCount(w) <= OwnerLimit
    /\ \A c \in Calls :
        /\ v4[c].kind \in {"count", "decide"} => v5 = c
        /\ v4[c].kind = "decide" =>
            /\ v4[c].own = v6[v4[c].id][v4[c].window] + 1
            /\ v4[c].owner = N!OwnerCount(v4[c].window) + 1

SessionInv == Tokens /\ Requests /\ Devices /\ Rates

(* The instance has its own copy of FiniteSets.                              *)
LEMMA SameCardinality ==
    ASSUME NEW X
    PROVE  N!Cardinality(X) = Cardinality(X) /\ N!IsFiniteSet(X) = IsFiniteSet(X)
BY DEF N!Cardinality, Cardinality, N!IsFiniteSet, IsFiniteSet

-----------------------------------------------------------------------------
(* Tokens are drawn one after the other: those issued are 1..Drawn.          *)

(* So many tokens are drawn as there are.                                    *)
LEMMA CountsDrawn ==
    ASSUME NEW k \in Nat
    PROVE  N!Cardinality(1..k) = k
BY FS_Interval, SameCardinality

(* A token that is issued is the next one; no other changes its parent.      *)
LEMMA IssueDraws ==
    ASSUME Drawn \in Nat, N!Issued = 1..Drawn, NEW from, N!Issue(from)
    PROVE  /\ N!NewToken = Drawn + 1
           /\ N!Issued' = 1..(Drawn + 1) /\ Drawn' = Drawn + 1
           /\ v2'[Drawn + 1] = from /\ \A t \in 1..Drawn : v2'[t] = v2[t]
<1>1. N!NewToken = Drawn + 1
  BY DEF N!NewToken, Drawn
<1> PICK k : k = Drawn
  OBVIOUS
<1>2. v2' = [t \in (1..k) \cup {k + 1} |-> IF t \in 1..k THEN v2[t] ELSE from]
  BY <1>1 DEF N!Issue
<1>3. (1..k) \cup {k + 1} = 1..(k + 1)
  OBVIOUS
<1>4. N!Issued' = 1..(k + 1)
  BY <1>2, <1>3 DEF N!Issued
<1>5. Drawn' = k + 1
  BY <1>4, CountsDrawn DEF Drawn
<1> QED
  BY <1>1, <1>2, <1>4, <1>5

(* A step that draws no token and activates no session.                      *)
LEMMA TokensStay ==
    ASSUME Tokens, UNCHANGED v2, v1' \in [Sessions -> SessionRow],
           \A s \in Sessions :
              /\ v1'[s].current = v1[s].current /\ v1'[s].previous = v1[s].previous
              /\ v1'[s].state = "active" => v1[s].state = "active"
              /\ v1'[s].state = "absent" => v1'[s] = v1[s]
    PROVE  Tokens' /\ Drawn' = Drawn
BY DEF Tokens, Drawn, N!Issued, N!SingleUse

(* The session's new token replaces its current one, or none.                *)
LEMMA TokenDrawn ==
    ASSUME Tokens, NEW s \in Sessions, N!NewToken <= MaxTokens,
           NEW from \in {0, v1[s].current}, N!Issue(from),
           NEW row \in SessionRow, v1' = [v1 EXCEPT ![s] = row],
           row.state = "active", row.current = N!NewToken,
           row.previous \in {0, v1[s].current}
    PROVE  Tokens' /\ Drawn' = Drawn + 1
<1> PICK k : k = Drawn
  OBVIOUS
<1>1. k \in 0..MaxTokens /\ N!Issued = 1..k
  BY DEF Tokens
<1>2. /\ N!NewToken = k + 1 /\ N!Issued' = 1..(k + 1) /\ Drawn' = k + 1
      /\ v2'[k + 1] = from /\ \A t \in 1..k : v2'[t] = v2[t]
  BY <1>1, IssueDraws
<1>3. v1' \in [Sessions -> SessionRow] /\ v1'[s] = row
      /\ \A r \in Sessions : r # s => v1'[r] = v1[r]
  BY DEF Tokens
<1>4. k + 1 \in 0..MaxTokens
  BY <1>1, <1>2, Assumptions DEF N!LimitsAssumption
<1>5. from \in 0..k /\ row.current = k + 1 /\ row.previous \in 0..k
  BY <1>1, <1>2 DEF Tokens
<1>6. \A t \in N!Issued' : v2'[t] \in 0..Drawn'
  BY <1>1, <1>2, <1>5 DEF Tokens
<1>7. \A t \in N!Issued' : t = k + 1 \/ t \in 1..k
  BY <1>1, <1>2
<1>8. ASSUME NEW r \in Sessions
      PROVE  /\ v1'[r].current \in 0..Drawn' /\ v1'[r].previous \in 0..Drawn'
             /\ v1'[r].current # 0 => v1'[r].current # v1'[r].previous
             /\ v1'[r].state = "absent" => v1'[r] = N!NoSession
             /\ v1'[r].state = "active" => v1'[r].current # 0
  BY <1>1, <1>2, <1>3, <1>5 DEF Tokens
<1>9. ASSUME NEW r \in Sessions, NEW t \in N!Issued', v2'[t] # 0
      PROVE  v2'[t] # v1'[r].current
  <2>1. CASE r = s
    BY <1>1, <1>2, <1>3, <1>5, <1>7, <2>1 DEF Tokens
  <2>2. CASE r # s
    <3>1. v1'[r].current = v1[r].current
      BY <1>3, <2>2
    <3>2. CASE t = k + 1
      BY <1>2, <1>9, <2>2, <3>1, <3>2 DEF Tokens
    <3>3. CASE t \in 1..k
      BY <1>1, <1>2, <1>9, <3>1, <3>3 DEF Tokens
    <3> QED
      BY <1>7, <3>2, <3>3
  <2> QED
    BY <2>1, <2>2
<1>10. ASSUME NEW r \in Sessions, NEW q \in Sessions,
              v1'[r].current = v1'[q].current, v1'[q].current # 0
       PROVE  r = q
  <2>1. \A p \in Sessions : p # s => v1'[p].current = v1[p].current /\ v1[p].current \in 0..k
    BY <1>1, <1>3 DEF Tokens
  <2>2. v1'[s].current = k + 1
    BY <1>3, <1>5
  <2> QED
    BY <1>1, <1>10, <2>1, <2>2 DEF Tokens
<1>11. N!SingleUse'
  <2> SUFFICES ASSUME NEW t \in N!Issued', NEW u \in N!Issued',
                      v2'[t] = v2'[u], v2'[t] # 0
               PROVE  t = u
    BY DEF N!SingleUse
  <2>1. \A p \in 1..k : v2'[p] # from \/ from = 0
    BY <1>1, <1>2 DEF Tokens
  <2>2. \A p, q \in 1..k : v2'[p] = v2'[q] /\ v2'[p] # 0 => p = q
    BY <1>1, <1>2 DEF Tokens, N!SingleUse
  <2> QED
    BY <1>2, <1>7, <2>1, <2>2
<1> QED
  BY <1>2, <1>3, <1>4, <1>6, <1>8, <1>9, <1>10, <1>11 DEF Tokens

-----------------------------------------------------------------------------
(* Requests, devices and rates in the steps that leave them alone.           *)

(* A call takes a step; tokens only become more, and no session goes.        *)
LEMMA RequestsStay ==
    ASSUME Requests, Drawn \in Nat, Drawn' \in Nat, Drawn' >= Drawn,
           NEW c \in Calls, NEW step, v4' = [v4 EXCEPT ![c] = step], Remembered(step)',
           \A s \in Sessions : v1'[s].state = "absent" => v1[s].state = "absent",
           v3' \in [Sessions -> 0..Drawn'], v8' \subseteq Sessions
    PROVE  Requests'
<1>1. \A d \in Calls : Remembered(v4[d])'
        \/ d = c
  <2> SUFFICES ASSUME NEW d \in Calls, d # c PROVE Remembered(v4[d])'
    OBVIOUS
  <2>1. v4'[d] = v4[d] /\ Remembered(v4[d])
    BY DEF Requests
  <2> QED
    BY <2>1 DEF Remembered
<1>2. DOMAIN v4' = Calls /\ v4'[c] = step
  BY DEF Requests
<1>3. Remembered(v4[c])'
  BY <1>2 DEF Remembered
<1> QED
  BY <1>1, <1>2, <1>3 DEF Requests

(* No refresh begins, moves or ends, and no session becomes active.          *)
LEMMA DevicesStay ==
    ASSUME Devices, UNCHANGED <<v3, v8>>,
           \A s \in Sessions :
              /\ v1'[s].current = v1[s].current
              /\ v1'[s].state = "active" => v1[s].state = "active"
              /\ v1'[s].state = "absent" => v1[s].state = "absent",
           \A c \in Calls :
              \/ v4'[c] = v4[c]
              \/ v4[c].kind \notin {"refresh", "reply"} /\ v4'[c].kind \notin {"refresh", "reply"}
    PROVE  Devices'
<1>1. \A c \in Calls : \A s : InFlight(c, s)' <=> InFlight(c, s)
  BY DEF InFlight
<1>2. \A c \in Calls : \A s : InFlight(c, s) => v4'[c] = v4[c]
  BY DEF InFlight
<1>3. \A s \in Sessions : v1'[s].state = "absent" => v3'[s] = 0 /\ \A c \in Calls : ~InFlight(c, s)'
  BY <1>1 DEF Devices
<1>4. ASSUME NEW s \in Sessions, s \notin v8', v1'[s].state = "active"
      PROVE  Orderly(s)'
  <2>1. Orderly(s)
    BY <1>4 DEF Devices
  <2> QED
    BY <1>1, <1>2, <2>1 DEF Orderly
<1> QED
  BY <1>3, <1>4 DEF Devices

(* No validation passes the owner's lock or decides.                         *)
LEMMA RatesStay ==
    ASSUME Rates, UNCHANGED <<v5, v6>>, v7' \in 1..Windows,
           \A c \in Calls : v4'[c].kind \in {"count", "decide"} => v4'[c] = v4[c]
    PROVE  Rates'
<1>1. \A w : N!OwnerCount(w)' = N!OwnerCount(w)
  BY DEF N!OwnerCount, N!Counted
<1> QED
  BY <1>1 DEF Rates

-----------------------------------------------------------------------------
(* The steps of a session's calls, one lemma for each.                       *)

(* A call steps, with all else as it was but for the devices, the mishaps    *)
(* and the minute.                                                           *)
LEMMA SessionsUntouched ==
    ASSUME SessionInv, UNCHANGED <<v1, v2>>
    PROVE  Tokens' /\ Drawn' = Drawn /\ Drawn \in Nat
<1>1. Drawn \in Nat /\ v1 \in [Sessions -> SessionRow]
  BY DEF SessionInv, Tokens
<1> QED
  BY <1>1, TokensStay DEF SessionInv

(* The initial state: no session, no token, nobody at the lock.              *)
LEMMA SessionBegins == ASSUME N!LimitsAssumption, N!Init PROVE SessionInv
<1>1. N!Issued = {} /\ Drawn = 0
  <2>1. N!Issued = {}
    BY DEF N!Init, N!Issued
  <2> QED
    BY <2>1, FS_EmptySet, SameCardinality DEF Drawn
<1>2. v1 \in [Sessions -> SessionRow]
  <2>1. N!NoSession \in SessionRow
    BY DEF N!NoSession, SessionRow, N!LimitsAssumption
  <2> QED
    BY <2>1 DEF N!Init
<1>3. Tokens
  <2>1. MaxTokens \in Nat /\ 1..0 = {}
    BY DEF N!LimitsAssumption
  <2>2. \A s \in Sessions : v1[s] = N!NoSession
    BY DEF N!Init
  <2> QED
    BY <1>1, <1>2, <2>1, <2>2 DEF Tokens, N!SingleUse, N!NoSession
<1>4. Requests /\ Devices
  BY <1>1
     DEF N!Init, Requests, Devices, Remembered, N!Idle, N!NoSession, InFlight
<1>5. Rates
  <2>1. v6 = [s \in Sessions |-> [w \in 1..Windows |-> 0]]
    BY DEF N!Init
  <2>2. v6 \in [Sessions -> [1..Windows -> 0..SessionLimit]]
    BY <2>1 DEF N!LimitsAssumption
  <2>3. ASSUME NEW w \in 1..Windows
        PROVE  N!OwnerCount(w) <= OwnerLimit
    <3>1. N!Counted(w) = {}
      BY <2>1, <2>3 DEF N!Counted
    <3> QED
      BY <3>1, FS_EmptySet, SameCardinality
         DEF N!OwnerCount, N!LimitsAssumption
  <2>4. \A c \in Calls : v4[c].kind = "idle"
    BY DEF N!Init, N!Idle
  <2> QED
    BY <2>2, <2>3, <2>4 DEF N!Init, Rates, N!LimitsAssumption
<1> QED
  BY <1>3, <1>4, <1>5 DEF SessionInv

(* A bootstrap draws a token for a session that was not there.               *)
LEMMA BootstrapKeeps ==
    ASSUME SessionInv, NEW s \in Sessions, NEW arrives \in BOOLEAN,
           N!bootstrap_native_session(s, arrives)
    PROVE  SessionInv' /\ N!Revocation /\ N!Accusation
<1> PICK row : row = [state |-> "active", install |-> "active",
                      current |-> N!NewToken, previous |-> 0]
  OBVIOUS
<1> USE DEF SessionInv
<1>1. /\ v1[s].state = "absent" /\ v1[s] = N!NoSession /\ N!NewToken <= MaxTokens /\ N!Issue(0)
      /\ v1' = [v1 EXCEPT ![s] = row] /\ UNCHANGED <<v4, v5, v6, v7, v8>>
      /\ v3' = IF arrives THEN [v3 EXCEPT ![s] = N!NewToken] ELSE v3
  BY DEF N!bootstrap_native_session, N!rates, Tokens
<1>2. Drawn \in Nat /\ N!NewToken = Drawn + 1
  BY DEF Tokens, N!NewToken, Drawn
<1>3. row \in SessionRow /\ row.state = "active" /\ row.current = N!NewToken /\ row.previous = 0
  BY <1>1, <1>2, Assumptions DEF SessionRow, N!LimitsAssumption
<1>4. Tokens' /\ Drawn' = Drawn + 1
  BY <1>1, <1>3, TokenDrawn
<1>5. v1'[s] = row /\ \A r \in Sessions : r # s => v1'[r] = v1[r]
  BY <1>1 DEF Tokens
<1>6. v3' \in [Sessions -> 0..Drawn'] /\ v3'[s] \in {v3[s], N!NewToken}
      /\ \A r \in Sessions : r # s => v3'[r] = v3[r]
  <2>1. v3 \in [Sessions -> 0..Drawn] /\ \A i \in 0..Drawn : i \in 0..(Drawn + 1)
    BY <1>2 DEF Requests
  <2>2. v3 \in [Sessions -> 0..(Drawn + 1)] /\ N!NewToken \in 0..(Drawn + 1)
    BY <1>2, <2>1
  <2> QED
    BY <1>1, <1>4, <2>2
<1>7. Requests'
  <2>1. \A c \in Calls : Remembered(v4[c])'
    BY <1>1, <1>2, <1>3, <1>4, <1>5 DEF Requests, Remembered
  <2> QED
    BY <1>1, <1>6, <2>1 DEF Requests
<1>8. \A c : \A r : InFlight(c, r)' <=> InFlight(c, r)
  BY <1>1 DEF InFlight
<1>9. Devices'
  <2> SUFFICES ASSUME NEW r \in Sessions
               PROVE  /\ v1'[r].state = "absent" => v3'[r] = 0 /\ \A c \in Calls : ~InFlight(c, r)'
                      /\ r \notin v8' /\ v1'[r].state = "active" => Orderly(r)'
    BY DEF Devices
  <2>1. CASE r = s
    <3>1. v3[s] = 0 /\ \A c \in Calls : ~InFlight(c, s)
      BY <1>1 DEF Devices
    <3>2. v3'[s] \in {0, v1'[s].current}
      BY <1>3, <1>5, <1>6, <3>1
    <3> QED
      BY <1>3, <1>5, <1>8, <2>1, <3>1, <3>2 DEF Orderly
  <2>2. CASE r # s
    BY <1>1, <1>5, <1>6, <1>8, <2>2 DEF Devices, Orderly
  <2> QED
    BY <2>1, <2>2
<1>10. Rates'
  BY <1>1, RatesStay DEF Rates
<1>11. N!Revocation
  <2>1. \A r \in Sessions : v1[r].install = "revoked" => r # s
    BY <1>1 DEF N!NoSession
  <2>2. \A c \in Calls : v4'[c] = v4[c]
    BY <1>1
  <2> QED
    BY <1>1, <1>5, <2>1, <2>2 DEF N!Revocation, N!Idle
<1>12. N!Accusation
  BY <1>1, <1>3, <1>5 DEF N!Accusation, Requests, Remembered
<1> QED
  BY <1>4, <1>7, <1>9, <1>10, <1>11, <1>12

(* A revocation of sessions or installations, by a call that is none of      *)
(* theirs or by none.                                                        *)
LEMMA RevokingKeeps ==
    ASSUME SessionInv, UNCHANGED <<v2, v3, v5, v6, v7, v8>>,
           v1' \in [Sessions -> SessionRow],
           \A s \in Sessions :
              /\ v1'[s].current = v1[s].current /\ v1'[s].previous = v1[s].previous
              /\ v1'[s].state \in {v1[s].state, "revoked"}
              /\ v1'[s].install = v1[s].install \/ v1'[s].install = "revoked"
              /\ v1[s].state = "absent" => v1'[s] = v1[s],
           v4' = v4 \/ \E c \in Calls : v4[c].kind = "revoke_all" /\ v4' = [v4 EXCEPT ![c] = N!Idle]
    PROVE  SessionInv' /\ N!Accusation
<1> USE DEF SessionInv
<1>1. \A s \in Sessions :
        /\ v1'[s].state = "active" => v1[s].state = "active"
        /\ v1'[s].state = "absent" => v1'[s] = v1[s] /\ v1[s].state = "absent"
  OBVIOUS
<1>2. Tokens' /\ Drawn' = Drawn /\ Drawn \in Nat
  <2>1. Drawn \in Nat
    BY DEF Tokens
  <2> QED
    BY <1>1, <2>1, TokensStay
<1>3. \A c \in Calls : v4'[c] = v4[c] \/ (v4[c].kind = "revoke_all" /\ v4'[c] = N!Idle)
  BY DEF Requests
<1>4. Requests'
  <2>1. ASSUME NEW c \in Calls
        PROVE  Remembered(v4[c])'
    <3>1. CASE v4'[c] = v4[c]
      BY <1>1, <1>2, <2>1, <3>1 DEF Requests, Remembered
    <3>2. CASE v4'[c] = N!Idle
      BY <3>2 DEF Remembered, N!Idle
    <3> QED
      BY <1>3, <2>1, <3>1, <3>2
  <2>2. DOMAIN v4' = Calls
    BY DEF Requests
  <2> QED
    BY <1>2, <2>1, <2>2 DEF Requests
<1>5. Devices'
  BY <1>1, <1>3, DevicesStay DEF N!Idle
<1>6. Rates'
  BY <1>3, RatesStay DEF N!Idle, Rates
<1>7. N!Accusation
  BY <1>3 DEF N!Accusation, N!Idle
<1> QED
  BY <1>2, <1>4, <1>5, <1>6, <1>7

(* The row of a session whose state and installation change.                 *)
Changed(row, state, install) == [row EXCEPT !.state = state, !.install = install]

(* It is a row, with the state and the installation named and its tokens as  *)
(* they were.                                                                *)
LEMMA RowChanged ==
    ASSUME NEW row \in SessionRow,
           NEW state \in {"absent", "active", "revoked"},
           NEW install \in {"absent", "active", "revoked"}
    PROVE  /\ Changed(row, state, install) \in SessionRow
           /\ Changed(row, state, install).state = state
           /\ Changed(row, state, install).install = install
           /\ Changed(row, state, install).current = row.current
           /\ Changed(row, state, install).previous = row.previous
           /\ state = row.state /\ install = row.install =>
                  Changed(row, state, install) = row
BY DEF SessionRow, Changed

(* Logout, removal of a device or of its installation.                       *)
LEMMA RevokeKeeps ==
    ASSUME SessionInv, NEW s \in Sessions,
           \/ \E installation \in BOOLEAN : N!revoke_native_session(s, installation)
           \/ N!revoke_mobile_location_installation(s)
    PROVE  SessionInv' /\ N!Revocation /\ N!Accusation
<1>1. UNCHANGED <<v2, v3, v4, v5, v6, v7, v8>>
  BY DEF N!revoke_native_session, N!revoke_mobile_location_installation,
     N!rates
<1>2. v1[s].state # "absent"
  <2>1. v1[s].install = "active" => v1[s] # N!NoSession
    BY DEF N!NoSession
  <2> QED
    BY <2>1
       DEF SessionInv, Tokens, N!revoke_native_session,
       N!revoke_mobile_location_installation
<1>3. PICK state \in {v1[s].state, "revoked"}, install \in {v1[s].install, "revoked"} :
        v1' = [v1 EXCEPT ![s] = [v1[s] EXCEPT !.state = state, !.install = install]]
  <2>1. ASSUME NEW installation \in BOOLEAN, N!revoke_native_session(s, installation)
        PROVE  \E install \in {v1[s].install, "revoked"} :
                 v1' = [v1 EXCEPT ![s] = [v1[s] EXCEPT !.state = "revoked", !.install = install]]
    <3> PICK install : install = IF installation THEN "revoked" ELSE v1[s].install
      OBVIOUS
    <3>1. v1' = [v1 EXCEPT ![s].state = "revoked", ![s].install = install]
      BY <2>1 DEF N!revoke_native_session
    <3> QED
      BY <3>1
  <2>2. CASE N!revoke_mobile_location_installation(s)
    <3>1. v1' = [v1 EXCEPT ![s].install = "revoked"]
      BY <2>2 DEF N!revoke_mobile_location_installation
    <3>2. ASSUME NEW u, u = [v1[s] EXCEPT !.state = v1[s].state, !.install = "revoked"]
          PROVE  u = [v1[s] EXCEPT !.install = "revoked"]
      BY <3>2 DEF SessionInv, Tokens, SessionRow
    <3>3. v1' = [v1 EXCEPT ![s] = [v1[s] EXCEPT !.state = v1[s].state, !.install = "revoked"]]
      BY <3>1, <3>2
    <3> QED
      BY <3>3
  <2> QED
    BY <2>1, <2>2
<1>4. PICK row : row = Changed(v1[s], state, install)
  OBVIOUS
<1>5. row \in SessionRow /\ row.state = state /\ row.install = install
      /\ row.current = v1[s].current /\ row.previous = v1[s].previous
  <2>1. v1[s] \in SessionRow
    BY DEF SessionInv, Tokens
  <2>2. state \in {"absent", "active", "revoked"} /\ install \in {"absent", "active", "revoked"}
    BY <2>1 DEF SessionRow
  <2> QED
    BY <1>4, <2>1, <2>2, RowChanged
<1>6. v1' \in [Sessions -> SessionRow] /\ v1'[s] = row
      /\ \A r \in Sessions : r # s => v1'[r] = v1[r]
  BY <1>3, <1>4, <1>5 DEF SessionInv, Tokens, Changed
<1>7. SessionInv' /\ N!Accusation
  BY <1>1, <1>2, <1>5, <1>6, RevokingKeeps
<1>8. N!Revocation
  <2>1. \A c \in Calls : v4'[c] = v4[c] /\ ~(v4[c].kind = "revoke_all" /\ v4[c] = N!Idle)
    BY <1>1 DEF N!Idle
  <2> QED
    BY <1>5, <1>6, <2>1 DEF N!Revocation
<1> QED
  BY <1>7, <1>8

(* The second UPDATE of revoke-all and its commit.                           *)
LEMMA RevokeAllKeeps ==
    ASSUME SessionInv, NEW c \in Calls, N!RevokeInstallations(c)
    PROVE  SessionInv' /\ N!Revocation /\ N!Accusation
<1>1. /\ v4[c].kind = "revoke_all" /\ v4' = [v4 EXCEPT ![c] = N!Idle]
      /\ UNCHANGED <<v2, v3, v5, v6, v7, v8>>
  BY DEF N!RevokeInstallations, N!Goto, N!rates
<1> DEFINE state(s) == IF s \in v4[c].rows THEN "revoked" ELSE v1[s].state
           install(s) == IF v1[s].install = "active" THEN "revoked" ELSE v1[s].install
<1>2. v1' = [s \in Sessions |-> [v1[s] EXCEPT !.state = state(s), !.install = install(s)]]
  BY DEF N!RevokeInstallations
<1>3. ASSUME NEW s \in Sessions
      PROVE  /\ v1'[s] \in SessionRow
             /\ v1'[s].current = v1[s].current /\ v1'[s].previous = v1[s].previous
             /\ v1'[s].state = state(s) /\ v1'[s].install = install(s)
             /\ v1[s].state = "absent" => v1'[s] = v1[s]
  <2>1. v1[s] \in SessionRow /\ (v1[s].state = "absent" => s \notin v4[c].rows /\ v1[s].install # "active")
    BY <1>1 DEF SessionInv, Tokens, Requests, Remembered, N!NoSession
  <2>2. state(s) \in {"absent", "active", "revoked"} /\ install(s) \in {"absent", "active", "revoked"}
    BY <2>1 DEF SessionRow
  <2>3. v1[s].state = "absent" => state(s) = v1[s].state /\ install(s) = v1[s].install
    BY <2>1
  <2> PICK a, b : a = state(s) /\ b = install(s)
    OBVIOUS
  <2>4. v1'[s] = Changed(v1[s], a, b)
    BY <1>2 DEF Changed
  <2>5. /\ v1'[s] \in SessionRow /\ v1'[s].state = a /\ v1'[s].install = b
        /\ v1'[s].current = v1[s].current /\ v1'[s].previous = v1[s].previous
        /\ a = v1[s].state /\ b = v1[s].install => v1'[s] = v1[s]
    BY <2>1, <2>2, <2>4, RowChanged
  <2> QED
    BY <2>3, <2>5
<1>4. v1' \in [Sessions -> SessionRow]
  BY <1>2, <1>3
<1>5. SessionInv' /\ N!Accusation
  BY <1>1, <1>3, <1>4, RevokingKeeps
<1>6. N!Revocation
  BY <1>3 DEF N!Revocation, N!Usable
<1> QED
  BY <1>5, <1>6

(* A step of a call that leaves the sessions and their tokens alone revokes  *)
(* nothing and accuses nobody.                                               *)
LEMMA NothingRevoked ==
    ASSUME UNCHANGED v1, NEW c \in Calls, NEW step, v4' = [v4 EXCEPT ![c] = step],
           v4[c].kind # "revoke_all"
    PROVE  N!Revocation /\ N!Accusation
<1>1. \A d \in Calls : d = c \/ v4'[d] = v4[d]
  OBVIOUS
<1> QED
  BY <1>1 DEF N!Revocation, N!Accusation, N!Idle

(* A device sends its token.                                                 *)
LEMMA RefreshKeeps ==
    ASSUME SessionInv, NEW c \in Calls, NEW s \in Sessions, N!Refresh(c, s)
    PROVE  SessionInv' /\ N!Revocation /\ N!Accusation
<1> PICK step : step = [kind |-> "refresh", id |-> s, token |-> v3[s]]
  OBVIOUS
<1> USE DEF SessionInv
<1>1. /\ v4[c] = N!Idle /\ v3[s] # 0 /\ v4' = [v4 EXCEPT ![c] = step]
      /\ v8' = IF \E d \in Calls : InFlight(d, s) THEN v8 \cup {s} ELSE v8
      /\ UNCHANGED <<v1, v2, v3, v5, v6, v7>>
  BY DEF N!Refresh, N!Goto, N!rates, InFlight
<1>2. Tokens' /\ Drawn' = Drawn /\ Drawn \in Nat
  BY <1>1, SessionsUntouched
<1>3. step.kind = "refresh" /\ step.id = s /\ step.token = v3[s] /\ v3[s] \in 1..Drawn
  BY <1>1, <1>2 DEF Requests
<1>4. v4'[c] = step /\ \A d \in Calls : d # c => v4'[d] = v4[d]
  BY <1>1 DEF Requests
<1>5. Requests'
  BY <1>1, <1>2, <1>3, RequestsStay DEF Requests, Remembered
<1>6. \A r \in Sessions : /\ ~InFlight(c, r) /\ (InFlight(c, r)' <=> r = s)
                         /\ \A d \in Calls : d # c => (InFlight(d, r)' <=> InFlight(d, r))
  BY <1>1, <1>3, <1>4 DEF InFlight, N!Idle
<1>7. Devices'
  <2> SUFFICES ASSUME NEW r \in Sessions
               PROVE  /\ v1[r].state = "absent" => v3[r] = 0 /\ \A d \in Calls : ~InFlight(d, r)'
                      /\ r \notin v8' /\ v1[r].state = "active" => Orderly(r)'
    BY <1>1 DEF Devices
  <2>1. CASE r = s
    <3>1. v1[s].state # "absent"
      BY <1>1 DEF Devices
    <3>2. ASSUME s \notin v8', v1[s].state = "active"
          PROVE  Orderly(s)'
      <4>1. Orderly(s) /\ \A d \in Calls : ~InFlight(d, s)
        BY <1>1, <3>2 DEF Devices
      <4>2. v3[s] = v1[s].current
        BY <1>1, <4>1 DEF Orderly
      <4> QED
        BY <1>1, <1>3, <1>4, <1>6, <4>1, <4>2 DEF Orderly
    <3> QED
      BY <2>1, <3>1, <3>2
  <2>2. CASE r # s
    <3>1. r \notin v8' => r \notin v8
      BY <1>1
    <3>2. \A d \in Calls : InFlight(d, r)' <=> InFlight(d, r)
      BY <1>6, <2>2
    <3>3. \A d \in Calls : InFlight(d, r) => v4'[d] = v4[d]
      BY <1>4, <1>6, <2>2
    <3> QED
      BY <1>1, <3>1, <3>2, <3>3 DEF Devices, Orderly
  <2> QED
    BY <2>1, <2>2
<1>8. Rates'
  BY <1>1, <1>3, <1>4, RatesStay DEF Rates
<1>9. v4[c].kind = "idle"
  BY <1>1 DEF N!Idle
<1>10. N!Revocation /\ N!Accusation
  BY ONLY <1>1, <1>9, c \in Calls, NothingRevoked
<1> QED
  BY <1>2, <1>5, <1>7, <1>8, <1>10

(* The reuse of the previous token revokes, an older one is refused.         *)
LEMMA RefusedKeeps ==
    ASSUME SessionInv, NEW c \in Calls, N!refresh_native_session(c),
           v4' = [v4 EXCEPT ![c] = N!Idle], UNCHANGED v2
    PROVE  SessionInv' /\ N!Revocation /\ N!Accusation
<1> DEFINE s == v4[c].id  token == v4[c].token
<1> USE DEF SessionInv
<1>1. /\ v4[c].kind = "refresh" /\ s \in Sessions /\ token \in 1..Drawn
      /\ UNCHANGED <<v3, v5, v6, v7, v8>>
  BY DEF N!refresh_native_session, N!rates, Requests, Remembered
<1>2. \/ /\ N!Reused(v1[s], token)
         /\ v1' = [v1 EXCEPT ![s].state = "revoked", ![s].install = "revoked"]
      \/ UNCHANGED v1
  <2>1. CASE v4' = [v4 EXCEPT ![c] = [kind |-> "reply", id |-> s, token |-> N!NewToken]]
    <3>1. v4'[c].kind = "idle" /\ v4'[c].kind = "reply"
      BY <2>1 DEF Requests, N!Idle
    <3> QED
      BY <3>1
  <2> QED
    BY <2>1 DEF N!refresh_native_session, N!Goto
<1>3. v1[s] \in SessionRow /\ v1 \in [Sessions -> SessionRow]
  BY <1>1 DEF Tokens
<1>4. /\ v1' \in [Sessions -> SessionRow]
      /\ \A r \in Sessions : v1'[r] # v1[r] => r = s /\ N!Reused(v1[s], token)
      /\ \A r \in Sessions : v1'[r].current = v1[r].current /\ v1'[r].previous = v1[r].previous
      /\ v1'[s] = v1[s] \/ (v1'[s].state = "revoked" /\ v1'[s].install = "revoked")
  <2>1. CASE UNCHANGED v1
    BY <1>3, <2>1
  <2>2. CASE /\ N!Reused(v1[s], token)
             /\ v1' = [v1 EXCEPT ![s].state = "revoked", ![s].install = "revoked"]
    <3> PICK row : row = Changed(v1[s], "revoked", "revoked")
      OBVIOUS
    <3>1. v1' = [v1 EXCEPT ![s] = row]
      BY <2>2 DEF Changed
    <3>2. /\ row \in SessionRow /\ row.state = "revoked" /\ row.install = "revoked"
          /\ row.current = v1[s].current /\ row.previous = v1[s].previous
      BY <1>3, RowChanged
    <3>3. /\ v1' \in [Sessions -> SessionRow] /\ v1'[s] = row
          /\ \A r \in Sessions : r # s => v1'[r] = v1[r]
      <4>1. s \in Sessions
        BY <1>1
      <4> HIDE DEF s
      <4> QED
        BY ONLY <1>3, <3>1, <3>2, <4>1
    <3> QED
      BY ONLY <2>2, <3>2, <3>3
  <2> QED
    BY <1>2, <2>1, <2>2
<1>5. v1[s].state # "absent" /\ (v1[s].state = "active" /\ N!Reused(v1[s], token) => s \in v8)
  <2>1. InFlight(c, s)
    BY <1>1 DEF InFlight
  <2>2. v1[s].state # "absent"
    BY <1>1, <2>1 DEF Devices
  <2>3. ASSUME v1[s].state = "active", N!Reused(v1[s], token), s \notin v8
        PROVE  FALSE
    <3>1. token = v1[s].current
      BY <1>1, <2>1, <2>3 DEF Devices, Orderly
    <3>2. v1[s].current # 0 /\ v1[s].current # v1[s].previous
      BY <1>1, <2>3 DEF Tokens
    <3> QED
      BY <2>3, <3>1, <3>2 DEF N!Reused
  <2> QED
    BY <2>2, <2>3
<1>6. Tokens' /\ Drawn' = Drawn /\ Drawn \in Nat
  <2>1. Drawn \in Nat
    BY DEF Tokens
  <2>2. \A r \in Sessions : /\ v1'[r].state = "active" => v1[r].state = "active"
                           /\ v1'[r].state = "absent" => v1'[r] = v1[r]
    BY <1>4
  <2> QED
    BY <1>4, <2>1, <2>2, TokensStay
<1>7. Requests'
  <2> PICK step : step = [kind |-> "idle"]
    OBVIOUS
  <2>1. Remembered(step)' /\ v4' = [v4 EXCEPT ![c] = step]
    BY DEF Remembered, N!Idle
  <2>2. \A r \in Sessions : v1'[r].state = "absent" => v1[r].state = "absent"
    BY <1>4
  <2>3. v3' \in [Sessions -> 0..Drawn'] /\ v8' \subseteq Sessions
    BY <1>1, <1>6 DEF Requests
  <2>4. Requests
    OBVIOUS
  <2> QED
    BY <1>6, <2>1, <2>2, <2>3, RequestsStay DEF Requests, Remembered
<1>8. v4'[c] = N!Idle /\ \A d \in Calls : d # c => v4'[d] = v4[d]
  BY DEF Requests
<1>9. \A r \in Sessions : /\ ~InFlight(c, r)'
                         /\ \A d \in Calls : d # c => (InFlight(d, r)' <=> InFlight(d, r))
  BY <1>8 DEF InFlight, N!Idle
<1>10. Devices'
  <2> SUFFICES ASSUME NEW r \in Sessions
               PROVE  /\ v1'[r].state = "absent" => v3'[r] = 0 /\ \A d \in Calls : ~InFlight(d, r)'
                      /\ r \notin v8' /\ v1'[r].state = "active" => Orderly(r)'
    BY DEF Devices
  <2>1. v1'[r].state # v1[r].state => v1'[r].state = "revoked"
    BY <1>4
  <2>2. v1'[r].state = "absent" => v3'[r] = 0 /\ \A d \in Calls : ~InFlight(d, r)'
    BY <1>1, <1>9, <2>1 DEF Devices
  <2>3. ASSUME r \notin v8', v1'[r].state = "active"
        PROVE  Orderly(r)'
    <3>1. Orderly(r) /\ v1'[r].current = v1[r].current /\ v3'[r] = v3[r]
      BY <1>1, <1>4, <2>1, <2>3 DEF Devices
    <3>2. (\A d \in Calls : ~InFlight(d, r)') => v3[r] \in {0, v1[r].current}
      <4>1. CASE InFlight(c, r)
        BY <1>1, <3>1, <4>1 DEF Orderly
      <4>2. CASE ~InFlight(c, r)
        BY <1>9, <3>1, <4>2 DEF Orderly
      <4> QED
        BY <4>1, <4>2
    <3> QED
      BY <1>8, <1>9, <3>1, <3>2 DEF Orderly
  <2> QED
    BY <2>2, <2>3
<1>11. Rates'
  BY <1>1, <1>8, RatesStay DEF Rates, N!Idle
<1>12. N!Revocation
  <2>1. \A d \in Calls : v4'[d] = N!Idle => v4[d].kind # "revoke_all"
    BY <1>1, <1>8 DEF N!Idle
  <2>2. \A r \in Sessions : /\ v1[r].state = "revoked" => v1'[r].state = "revoked"
                           /\ v1[r].install = "revoked" => v1'[r].install = "revoked"
    BY <1>4
  <2> QED
    BY <1>4, <2>1, <2>2 DEF N!Revocation
<1>13. N!Accusation
  <2> SUFFICES ASSUME NEW d \in Calls, v4[d].kind = "refresh", v1[v4[d].id].state = "active",
                      v1'[v4[d].id].state = "revoked", v4'[d] = N!Idle
               PROVE  v4[d].id \in v8
    BY DEF N!Accusation
  <2>1. d = c
    BY <1>8 DEF N!Idle
  <2>2. v1'[s] # v1[s]
    BY <2>1
  <2> QED
    BY <1>1, <1>4, <1>5, <2>1, <2>2
<1> QED
  BY <1>6, <1>7, <1>10, <1>11, <1>12, <1>13

(* The current token is replaced by a new one, with a reply on its way.      *)
LEMMA RotationKeeps ==
    ASSUME SessionInv, NEW c \in Calls, N!refresh_native_session(c),
           v4' # [v4 EXCEPT ![c] = N!Idle] \/ v2' # v2
    PROVE  SessionInv' /\ N!Revocation /\ N!Accusation
<1> PICK s, token : s = v4[c].id /\ token = v4[c].token
  OBVIOUS
<1> USE DEF SessionInv
<1> PICK row : row = N!Rotated(v1[s], N!NewToken)
  OBVIOUS
<1> PICK step : step = [kind |-> "reply", id |-> s, token |-> N!NewToken]
  OBVIOUS
<1>1. /\ v4[c].kind = "refresh" /\ s \in Sessions /\ token \in 1..Drawn
      /\ UNCHANGED <<v3, v5, v6, v7, v8>>
      /\ N!Usable(s) /\ token = v1[s].current
      /\ N!NewToken <= MaxTokens /\ N!Issue(token)
      /\ v1' = [v1 EXCEPT ![s] = row] /\ v4' = [v4 EXCEPT ![c] = step]
  BY DEF N!refresh_native_session, N!rates, N!Goto, N!Reused, Requests,
     Remembered
<1>2. v1[s].state = "active" /\ v1[s].install = "active" /\ v1[s] \in SessionRow
  BY <1>1 DEF N!Usable, Tokens
<1>3. Drawn \in Nat /\ N!NewToken = Drawn + 1 /\ N!NewToken \in 0..MaxTokens
  <2>1. Drawn \in Nat /\ N!NewToken = Drawn + 1
    BY DEF Tokens, N!NewToken, Drawn
  <2> QED
    BY <1>1, <2>1, Assumptions DEF N!LimitsAssumption
<1>4. /\ row \in SessionRow /\ row.state = "active" /\ row.install = "active"
      /\ row.current = N!NewToken /\ row.previous = v1[s].current
  BY <1>2, <1>3 DEF N!Rotated, SessionRow
<1>5. Tokens' /\ Drawn' = Drawn + 1
  <2>1. token \in {0, v1[s].current} /\ row.previous \in {0, v1[s].current}
    BY <1>1, <1>4
  <2> QED
    BY <1>1, <1>4, <2>1, TokenDrawn
<1>6. v1'[s] = row /\ \A r \in Sessions : r # s => v1'[r] = v1[r]
  BY <1>1 DEF Tokens
<1>7. step.kind = "reply" /\ step.id = s /\ step.token = Drawn + 1
  BY <1>3
<1>8. v4'[c] = step /\ \A d \in Calls : d # c => v4'[d] = v4[d]
  BY <1>1 DEF Requests
<1>9. Requests'
  <2>1. v3' \in [Sessions -> 0..Drawn'] /\ v8' \subseteq Sessions
    <3>1. \A i \in 0..Drawn : i \in 0..(Drawn + 1)
      BY <1>3
    <3> QED
      BY <1>1, <1>5, <3>1 DEF Requests
  <2>2. \A r \in Sessions : v1'[r].state = "absent" => v1[r].state = "absent"
    BY <1>4, <1>6
  <2>3. Drawn' \in Nat /\ Drawn' >= Drawn /\ Drawn + 1 \in 1..Drawn'
    BY <1>3, <1>5
  <2> QED
    BY <1>1, <1>3, <1>7, <2>1, <2>2, <2>3, <1>5, RequestsStay
       DEF Requests, Remembered
<1>10. \A d \in Calls : \A r \in Sessions : InFlight(d, r)' <=> InFlight(d, r)
  BY <1>1, <1>7, <1>8 DEF InFlight
<1>11. Devices'
  <2> SUFFICES ASSUME NEW r \in Sessions
               PROVE  /\ v1'[r].state = "absent" => v3'[r] = 0 /\ \A d \in Calls : ~InFlight(d, r)'
                      /\ r \notin v8' /\ v1'[r].state = "active" => Orderly(r)'
    BY DEF Devices
  <2>1. CASE r = s
    <3>1. ASSUME s \notin v8
          PROVE  Orderly(s)'
      <4>1. Orderly(s) /\ InFlight(c, s)
        BY <1>1, <1>2, <3>1 DEF Devices, InFlight
      <4>2. \A d \in Calls : InFlight(d, s)' => d = c
        BY <1>1, <1>10, <4>1 DEF Orderly
      <4>3. v4'[c].token = v1'[s].current /\ v4'[c].kind = "reply"
        BY <1>3, <1>4, <1>6, <1>7, <1>8
      <4>4. InFlight(c, s)'
        BY <1>1, <1>10, <4>1
      <4> QED
        BY <4>2, <4>3, <4>4 DEF Orderly
    <3> QED
      BY <1>1, <1>4, <1>6, <2>1, <3>1
  <2>2. CASE r # s
    <3>1. \A d \in Calls : InFlight(d, r) => d # c
      BY <1>1, <2>2 DEF InFlight
    <3>2. \A d \in Calls : InFlight(d, r) => v4'[d] = v4[d]
      BY <1>8, <3>1
    <3> QED
      BY <1>1, <1>6, <1>10, <2>2, <3>2 DEF Devices, Orderly
  <2> QED
    BY <2>1, <2>2
<1>12. Rates'
  BY <1>1, <1>7, <1>8, RatesStay DEF Rates
<1>13. N!Revocation /\ N!Accusation
  <2>1. \A d \in Calls : v4'[d] = N!Idle => v4'[d] = v4[d] /\ v4[d].kind = "idle"
    BY <1>7, <1>8 DEF N!Idle
  <2>3. N!Revocation
    <3>1. \A r \in Sessions :
            /\ v1[r].state = "revoked" =>
                 v1'[r].state = "revoked" /\ v1'[r].current = v1[r].current
            /\ v1[r].install = "revoked" => v1'[r].install = "revoked"
      <4> TAKE r \in Sessions
      <4>1. CASE r = s
        BY <1>2, <4>1
      <4>2. CASE r # s
        <5>1. v1'[r] = v1[r]
          BY <1>6, <4>2
        <5> QED
          BY <5>1
      <4> QED
        BY <4>1, <4>2
    <3>2. \A d \in Calls : ~(v4[d].kind = "revoke_all" /\ v4'[d] = N!Idle)
      BY <2>1
    <3> QED
      BY <3>1, <3>2 DEF N!Revocation
  <2>4. N!Accusation
    BY <2>1 DEF N!Accusation
  <2> QED
    BY <2>3, <2>4
<1> QED
  BY <1>5, <1>9, <1>11, <1>12, <1>13

(* A reply arrives, or a request or a reply is lost.                         *)
LEMMA ReplyKeeps ==
    ASSUME SessionInv, NEW c \in Calls, N!Deliver(c) \/ N!LoseRefresh(c)
    PROVE  SessionInv' /\ N!Revocation /\ N!Accusation
<1> PICK s : s = v4[c].id
  OBVIOUS
<1> USE DEF SessionInv
<1> PICK step : step = [kind |-> "idle"]
  OBVIOUS
<1>1. /\ v4[c].kind \in {"refresh", "reply"} /\ s \in Sessions /\ v4[c].token \in 1..Drawn
      /\ v4' = [v4 EXCEPT ![c] = step] /\ UNCHANGED <<v1, v2, v5, v6, v7>>
      /\ \/ v4[c].kind = "reply" /\ v3' = [v3 EXCEPT ![s] = v4[c].token] /\ v8' = v8
         \/ v4[c].kind = "reply" /\ v3' = v3 /\ v8' = v8 \cup {s}
         \/ v4[c].kind = "refresh" /\ v3' = v3 /\ v8' = v8
  BY DEF N!Deliver, N!LoseRefresh, N!Goto, N!rates, N!Idle, Requests,
     Remembered
<1>2. Tokens' /\ Drawn' = Drawn /\ Drawn \in Nat
  BY <1>1, SessionsUntouched
<1>3. v4'[c] = step /\ \A d \in Calls : d # c => v4'[d] = v4[d]
  BY <1>1 DEF Requests
<1>4. v3' \in [Sessions -> 0..Drawn'] /\ v8' \subseteq Sessions
  BY <1>1, <1>2 DEF Requests
<1>5. Requests'
  BY <1>1, <1>2, <1>4, RequestsStay DEF Requests, Remembered
<1>6. \A r \in Sessions : /\ ~InFlight(c, r)' /\ (InFlight(c, r) <=> r = s)
                         /\ \A d \in Calls : d # c => (InFlight(d, r)' <=> InFlight(d, r))
  BY <1>1, <1>3 DEF InFlight
<1>7. Devices'
  <2> SUFFICES ASSUME NEW r \in Sessions
               PROVE  /\ v1[r].state = "absent" => v3'[r] = 0 /\ \A d \in Calls : ~InFlight(d, r)'
                      /\ r \notin v8' /\ v1[r].state = "active" => Orderly(r)'
    BY <1>1 DEF Devices
  <2>1. CASE r = s
    <3>1. v1[s].state # "absent"
      BY <1>1, <1>6 DEF Devices
    <3>2. ASSUME s \notin v8', v1[s].state = "active"
          PROVE  Orderly(s)'
      <4>1. Orderly(s) /\ InFlight(c, s)
        BY <1>1, <1>6, <3>2 DEF Devices
      <4>2. \A d \in Calls : ~InFlight(d, s)'
        BY <1>1, <1>6, <4>1 DEF Orderly
      <4>3. v3'[s] = v1[s].current
        <5>1. v4[c].token = v1[s].current /\ (v4[c].kind = "refresh" => v3[s] = v1[s].current)
          BY <4>1 DEF Orderly
        <5> QED
          BY <1>1, <3>2, <5>1 DEF Requests
      <4> QED
        BY <1>1, <4>2, <4>3 DEF Orderly
    <3> QED
      BY <2>1, <3>1, <3>2
  <2>2. CASE r # s
    <3>1. r \notin v8' => r \notin v8
      BY <1>1
    <3>2. v3'[r] = v3[r]
      BY <1>1, <2>2 DEF Requests
    <3>3. \A d \in Calls : InFlight(d, r)' <=> InFlight(d, r)
      BY <1>6, <2>2
    <3>4. \A d \in Calls : InFlight(d, r) => v4'[d] = v4[d]
      BY <1>3, <1>6, <2>2
    <3> QED
      BY <1>1, <3>1, <3>2, <3>3, <3>4 DEF Devices, Orderly
  <2> QED
    BY <2>1, <2>2
<1>8. Rates'
  BY <1>1, <1>3, RatesStay DEF Rates
<1>9. v4[c].kind # "revoke_all"
  BY <1>1
<1>10. N!Revocation /\ N!Accusation
  BY <1>1, <1>9, NothingRevoked
<1> QED
  BY <1>2, <1>5, <1>7, <1>8, <1>10

(* A step of a call other than a refresh or revoke-all in progress.          *)
LEMMA CallMoves ==
    ASSUME SessionInv, NEW c \in Calls, NEW step, v4' = [v4 EXCEPT ![c] = step],
           UNCHANGED <<v1, v2, v3, v8>>, Remembered(step), Rates',
           v4[c].kind \notin {"refresh", "reply", "revoke_all"},
           step.kind \notin {"refresh", "reply"}
    PROVE  SessionInv' /\ N!Revocation /\ N!Accusation
<1> USE DEF SessionInv
<1>1. Tokens' /\ Drawn' = Drawn /\ Drawn \in Nat
  BY SessionsUntouched
<1>2. Requests'
  BY <1>1, RequestsStay DEF Requests, Remembered
<1>3. \A d \in Calls : v4'[d] = v4[d] \/ d = c
  BY DEF Requests
<1>4. v4'[c] = step
  BY DEF Requests
<1>5. Devices'
  BY <1>3, <1>4, DevicesStay
<1>6. N!Revocation /\ N!Accusation
  BY NothingRevoked
<1> QED
  BY <1>1, <1>2, <1>5, <1>6

-----------------------------------------------------------------------------
(* Rates. The counts of a minute are a finite set of units, which a          *)
(* validation accepted under the owner's lock grows by one.                  *)

(* A minute's requests are finitely many.                                    *)
LEMMA CountedIsFinite ==
    ASSUME Rates, N!LimitsAssumption, NEW w \in 1..Windows
    PROVE  IsFiniteSet(N!Counted(w))
<1>1. IsFiniteSet(Sessions) /\ IsFiniteSet(1..SessionLimit)
  BY FS_Interval, SameCardinality DEF N!LimitsAssumption
<1>2. IsFiniteSet(Sessions \X (1..SessionLimit))
  BY <1>1, FS_Product
<1>3. N!Counted(w) \in SUBSET (Sessions \X (1..SessionLimit))
  <2> SUFFICES ASSUME NEW s \in Sessions, NEW n \in 1..v6[s][w]
               PROVE  n \in 1..SessionLimit
    BY DEF N!Counted
  <2>1. v6[s][w] \in 0..SessionLimit
    BY DEF Rates
  <2> QED
    BY <2>1 DEF N!LimitsAssumption
<1> QED
  BY <1>2, <1>3, FS_Subset

(* A request more of one session is one more in its minute, and in no other. *)
LEMMA OneRequestMore ==
    ASSUME Rates, N!LimitsAssumption, NEW s \in Sessions, NEW w \in 1..Windows,
           v6' = [v6 EXCEPT ![s][w] = v6[s][w] + 1]
    PROVE  /\ N!OwnerCount(w)' = N!OwnerCount(w) + 1
           /\ \A m \in 1..Windows : m # w => N!OwnerCount(m)' = N!OwnerCount(m)
<1> PICK n : n = v6[s][w]
  OBVIOUS
<1>1. n \in Nat
  BY DEF Rates, N!LimitsAssumption
<1>2. \A r \in Sessions : \A m \in 1..Windows :
        v6'[r][m] = IF r = s /\ m = w THEN n + 1 ELSE v6[r][m]
  BY DEF Rates
<1>3. N!Counted(w)' = N!Counted(w) \cup {<<s, n + 1>>}
  <2>1. ASSUME NEW x \in N!Counted(w)'
        PROVE  x \in N!Counted(w) \cup {<<s, n + 1>>}
    <3> PICK r \in Sessions : \E i \in 1..v6'[r][w] : x = <<r, i>>
      BY <2>1 DEF N!Counted
    <3>1. PICK i \in 1..v6'[r][w] : x = <<r, i>>
      OBVIOUS
    <3>2. i \in 1..v6[r][w] \/ (r = s /\ i = n + 1)
      BY <1>1, <1>2, <3>1
    <3> QED
      BY <3>1, <3>2 DEF N!Counted
  <2>2. ASSUME NEW x \in N!Counted(w)
        PROVE  x \in N!Counted(w)'
    <3> PICK r \in Sessions : \E i \in 1..v6[r][w] : x = <<r, i>>
      BY <2>2 DEF N!Counted
    <3>1. PICK i \in 1..v6[r][w] : x = <<r, i>>
      OBVIOUS
    <3>2. i \in 1..v6'[r][w]
      BY <1>1, <1>2, <3>1
    <3> QED
      BY <3>1, <3>2 DEF N!Counted
  <2>3. <<s, n + 1>> \in N!Counted(w)'
    <3>1. n + 1 \in 1..v6'[s][w]
      BY <1>1, <1>2
    <3> QED
      BY <3>1 DEF N!Counted
  <2> QED
    BY <2>1, <2>2, <2>3
<1>4. <<s, n + 1>> \notin N!Counted(w)
  BY <1>1 DEF N!Counted
<1>5. N!OwnerCount(w)' = N!OwnerCount(w) + 1
  BY <1>3, <1>4, CountedIsFinite, FS_AddElement, SameCardinality
     DEF N!OwnerCount
<1>6. ASSUME NEW m \in 1..Windows, m # w
      PROVE  N!OwnerCount(m)' = N!OwnerCount(m)
  <2>1. \A r \in Sessions : v6'[r][m] = v6[r][m]
    BY <1>2, <1>6
  <2>2. N!Counted(m)' = N!Counted(m)
    BY <2>1 DEF N!Counted
  <2> QED
    BY <2>2 DEF N!OwnerCount
<1> QED
  BY <1>5, <1>6

(* A validation counts its request if neither limit is exceeded.             *)
LEMMA DecideKeeps ==
    ASSUME SessionInv, NEW c \in Calls, N!Decide(c)
    PROVE  SessionInv' /\ N!Revocation /\ N!Accusation
<1> USE DEF SessionInv
<1> PICK s, w : s = v4[c].id /\ w = v4[c].window
  OBVIOUS
<1> PICK step : step = [kind |-> "idle"]
  OBVIOUS
<1>1. /\ v4[c].kind = "decide" /\ s \in Sessions /\ w \in 1..Windows
      /\ v4' = [v4 EXCEPT ![c] = step] /\ UNCHANGED <<v1, v2, v3, v7, v8>>
      /\ v5 = c /\ v5' = N!Free
      /\ v4[c].own = v6[s][w] + 1 /\ v4[c].owner = N!OwnerCount(w) + 1
  BY DEF N!Decide, N!Unlock, N!Goto, N!Idle, Requests, Remembered, Rates
<1>2. v6[s][w] \in 0..SessionLimit /\ SessionLimit \in Nat /\ OwnerLimit \in Nat
  BY <1>1, Assumptions DEF Rates, N!LimitsAssumption
<1>3. \A d \in Calls : v4'[d].kind \notin {"count", "decide"}
  <2>1. c # N!Free
    BY Assumptions DEF N!LimitsAssumption
  <2>2. \A d \in Calls : d # c => v4'[d] = v4[d] /\ v4[d].kind \notin {"count", "decide"}
    BY <1>1 DEF Rates, Requests
  <2>3. v4'[c].kind = "idle"
    BY <1>1 DEF Requests
  <2> QED
    BY <2>2, <2>3
<1>4. CASE v6' = v6
  <2>1. \A m : N!OwnerCount(m)' = N!OwnerCount(m)
    BY <1>4 DEF N!OwnerCount, N!Counted
  <2> QED
    <3>1. Rates'
      BY <1>1, <1>3, <1>4, <2>1 DEF Rates
    <3>2. Remembered(step)
      BY DEF Remembered
    <3>3. v4[c].kind \notin {"refresh", "reply", "revoke_all"}
      BY <1>1
    <3> QED
      BY <1>1, <3>1, <3>2, <3>3, CallMoves
<1>5. CASE v6' # v6
  <2>1. /\ v6' = [v6 EXCEPT ![s][w] = v6[s][w] + 1]
        /\ v6[s][w] + 1 <= SessionLimit /\ N!OwnerCount(w) + 1 <= OwnerLimit
    <3>1. ~N!Exceeded(v4[c].own, v4[c].owner) /\ v6' = [v6 EXCEPT ![s][w] = v4[c].own]
      BY <1>5 DEF N!Decide
    <3>2. N!OwnerCount(w) \in Nat
      BY <1>1, Assumptions, CountedIsFinite, FS_CardinalityType,
         SameCardinality DEF N!OwnerCount
    <3> QED
      BY <1>1, <1>2, <3>1, <3>2 DEF N!Exceeded
  <2>2. v6' \in [Sessions -> [1..Windows -> 0..SessionLimit]]
    <3>1. v6[s][w] + 1 \in 0..SessionLimit
      BY <1>2, <2>1
    <3> QED
      BY <1>1, <2>1, <3>1 DEF Rates
  <2>3. \A m \in 1..Windows : N!OwnerCount(m)' <= OwnerLimit
    BY <1>1, <2>1, OneRequestMore, Assumptions DEF Rates
  <2>4. Rates'
    BY <1>1, <1>3, <2>2, <2>3 DEF Rates
  <2>5. Remembered(step)
    BY DEF Remembered
  <2>6. v4[c].kind \notin {"refresh", "reply", "revoke_all"}
    BY <1>1
  <2> QED
    BY <1>1, <2>4, <2>5, <2>6, CallMoves
<1> QED
  BY <1>4, <1>5

(* A validation begins, takes the owner's lock or reads the counts, or       *)
(* revoke-all begins.                                                        *)
LEMMA ValidationKeeps ==
    ASSUME SessionInv, NEW c \in Calls,
           \/ \E s \in Sessions : N!Validate(c, s)
           \/ N!LockOwner(c) \/ N!CountRequest(c) \/ N!RevokeSessions(c)
    PROVE  SessionInv' /\ N!Revocation /\ N!Accusation
<1> USE DEF SessionInv
<1>1. ASSUME NEW s \in Sessions, N!Validate(c, s)
      PROVE  SessionInv' /\ N!Revocation /\ N!Accusation
  <2> PICK step : step = [kind |-> "validate", id |-> s, window |-> v7]
    OBVIOUS
  <2>1. v4' = [v4 EXCEPT ![c] = step] /\ UNCHANGED <<v1, v2, v3, v5, v6, v7, v8>>
        /\ v4[c].kind = "idle"
    BY <1>1 DEF N!Validate, N!Goto, N!rates, N!Idle
  <2>2. Remembered(step)
    BY DEF Remembered, Rates
  <2>3. \A d \in Calls : v4'[d].kind \in {"count", "decide"} => v4'[d] = v4[d]
    BY <2>1 DEF Requests
  <2>4. Rates'
    BY <2>1, <2>3, RatesStay DEF Rates
  <2>5. v4[c].kind \notin {"refresh", "reply", "revoke_all"}
    BY <2>1
  <2> QED
    BY <2>1, <2>2, <2>4, <2>5, CallMoves
<1>2. CASE N!RevokeSessions(c)
  <2> PICK step : step = [kind |-> "revoke_all", rows |-> {s \in Sessions : v1[s].state = "active"}]
    OBVIOUS
  <2>1. v4' = [v4 EXCEPT ![c] = step] /\ UNCHANGED <<v1, v2, v3, v5, v6, v7, v8>>
        /\ v4[c].kind = "idle"
    BY <1>2 DEF N!RevokeSessions, N!Goto, N!rates, N!Idle
  <2>2. Remembered(step)
    BY DEF Remembered
  <2>3. \A d \in Calls : v4'[d].kind \in {"count", "decide"} => v4'[d] = v4[d]
    BY <2>1 DEF Requests
  <2>4. Rates'
    BY <2>1, <2>3, RatesStay DEF Rates
  <2>5. v4[c].kind \notin {"refresh", "reply", "revoke_all"}
    BY <2>1
  <2> QED
    BY <2>1, <2>2, <2>4, <2>5, CallMoves
<1>3. CASE N!LockOwner(c)
  <2> PICK step : step = [kind |-> "count", id |-> v4[c].id, window |-> v4[c].window]
    OBVIOUS
  <2>1. v4' = [v4 EXCEPT ![c] = [v4[c] EXCEPT !.kind = "count"]] /\ UNCHANGED <<v1, v2, v3, v6, v7, v8>>
        /\ v4[c].kind = "validate" /\ v5 = N!Free /\ v5' = c
    BY <1>3 DEF N!LockOwner, N!Goto, N!rates
  <2>2. v4' = [v4 EXCEPT ![c] = step]
    <3> PICK s, w : s = v4[c].id /\ w = v4[c].window
      OBVIOUS
    <3>1. v4[c] = [kind |-> "validate", id |-> s, window |-> w]
      BY <2>1 DEF Requests, Remembered
    <3>2. [v4[c] EXCEPT !.kind = "count"] = step
      BY <3>1
    <3> QED
      BY <2>1, <3>2
  <2>3. Remembered(step)
    BY <2>1 DEF Requests, Remembered
  <2>4. \A d \in Calls : v4[d].kind \notin {"count", "decide"}
    BY <2>1, Assumptions DEF Rates, N!LimitsAssumption
  <2>5. \A d \in Calls : v4'[d] = (IF d = c THEN step ELSE v4[d])
    BY <2>2 DEF Requests
  <2>6. \A w : N!OwnerCount(w)' = N!OwnerCount(w)
    BY <2>1 DEF N!OwnerCount, N!Counted
  <2>7. Rates'
    BY <2>1, <2>4, <2>5, <2>6 DEF Rates
  <2>8. v4[c].kind \notin {"refresh", "reply", "revoke_all"}
    BY <2>1
  <2> QED
    BY <2>1, <2>2, <2>3, <2>7, <2>8, CallMoves
<1>4. CASE N!CountRequest(c)
  <2> PICK s, w : s = v4[c].id /\ w = v4[c].window
    OBVIOUS
  <2> PICK step : step = [kind |-> "decide", id |-> s, window |-> w,
                          own |-> v6[s][w] + 1, owner |-> N!OwnerCount(w) + 1]
    OBVIOUS
  <2>1. v4' = [v4 EXCEPT ![c] = step] /\ UNCHANGED <<v1, v2, v3, v5, v6, v7, v8>>
        /\ v4[c].kind = "count"
    BY <1>4 DEF N!CountRequest, N!Goto, N!rates
  <2>2. s \in Sessions /\ w \in 1..Windows /\ v5 = c
    BY <2>1 DEF Requests, Remembered, Rates
  <2>3. Remembered(step)
    BY <2>2 DEF Remembered
  <2>4. \A d \in Calls : v4'[d] = (IF d = c THEN step ELSE v4[d])
    BY <2>1 DEF Requests
  <2>5. \A m : N!OwnerCount(m)' = N!OwnerCount(m)
    BY <2>1 DEF N!OwnerCount, N!Counted
  <2>6. Rates'
    <3>1. ASSUME NEW d \in Calls
          PROVE  /\ v4'[d].kind \in {"count", "decide"} => v5' = d
                 /\ v4'[d].kind = "decide" =>
                     /\ v4'[d].own = v6'[v4'[d].id][v4'[d].window] + 1
                     /\ v4'[d].owner = N!OwnerCount(v4[d].window)' + 1
      <4>1. CASE d = c
        BY <2>1, <2>2, <2>4, <2>5, <4>1
      <4>2. CASE d # c
        BY <2>1, <2>4, <2>5, <4>2 DEF Rates
      <4> QED
        BY <4>1, <4>2
    <3> QED
      BY <2>1, <2>5, <3>1 DEF Rates
  <2>7. v4[c].kind \notin {"refresh", "reply", "revoke_all"} /\ step.kind \notin {"refresh", "reply"}
    BY <2>1
  <2> QED
    BY <2>1, <2>3, <2>6, <2>7, CallMoves
<1> QED
  BY <1>1, <1>2, <1>3, <1>4

(* Every step keeps the invariant, revokes for good and accuses with cause.  *)
LEMMA SessionSteps ==
    ASSUME SessionInv, [N!Next]_(N!vars)
    PROVE  SessionInv' /\ N!Revocation /\ N!Accusation
<1>1. CASE N!Tick \/ UNCHANGED N!vars
  <2>1. UNCHANGED <<v1, v2, v3, v4, v5, v6, v8>> /\ v7' \in 1..Windows
    BY <1>1, Assumptions
       DEF N!Tick, N!vars, SessionInv, Rates, N!LimitsAssumption
  <2>2. Tokens' /\ Drawn' = Drawn
    BY <2>1, SessionsUntouched
  <2>3. Requests' /\ Devices'
    BY <2>1, <2>2
       DEF SessionInv, Requests, Remembered, Devices, Orderly, InFlight
  <2>4. Rates'
    BY <2>1, RatesStay DEF SessionInv
  <2>5. N!Revocation /\ N!Accusation
    BY <2>1 DEF N!Revocation, N!Accusation, N!Idle
  <2> QED
    BY <2>2, <2>3, <2>4, <2>5 DEF SessionInv
<1>2. CASE \E s \in Sessions :
        \/ \E arrives \in BOOLEAN : N!bootstrap_native_session(s, arrives)
        \/ \E installation \in BOOLEAN : N!revoke_native_session(s, installation)
        \/ N!revoke_mobile_location_installation(s)
  BY <1>2, BootstrapKeeps, RevokeKeeps
<1>3. CASE \E c \in Calls :
        \/ \E s \in Sessions : N!Refresh(c, s) \/ N!Validate(c, s)
        \/ N!refresh_native_session(c) \/ N!Deliver(c) \/ N!LoseRefresh(c)
        \/ N!RevokeSessions(c) \/ N!RevokeInstallations(c)
        \/ N!LockOwner(c) \/ N!CountRequest(c) \/ N!Decide(c)
  BY <1>3, RefreshKeeps, RefusedKeeps, RotationKeeps, ReplyKeeps,
     RevokeAllKeeps,
     ValidationKeeps, DecideKeeps
<1> QED
  BY <1>1, <1>2, <1>3 DEF N!Next

(* What the invariant says of the state.                                     *)
LEMMA SessionSafe ==
    ASSUME SessionInv
    PROVE  N!TypeOK /\ N!SingleUse /\ N!RateIsBounded
<1>1. MaxTokens \in Nat /\ SessionLimit \in Nat
  BY Assumptions DEF N!LimitsAssumption
<1>2. N!TypeOK
  <2>1. v3 \in [Sessions -> 0..MaxTokens]
    <3>1. \A i \in 0..Drawn : i \in 0..MaxTokens
      BY <1>1 DEF SessionInv, Tokens
    <3> QED
      BY <3>1 DEF SessionInv, Requests
  <2> QED
    BY <2>1
       DEF SessionInv, Tokens, Requests, Rates, N!TypeOK, SessionRow, Drawn
<1>3. N!RateIsBounded
  <2>1. \A w \in 1..Windows : N!OwnerCount(w) <= OwnerLimit
    BY DEF SessionInv, Rates
  <2>2. ASSUME NEW w \in 1..Windows, NEW s \in Sessions
        PROVE  v6[s][w] <= SessionLimit
    <3>1. v6[s][w] \in 0..SessionLimit
      BY DEF SessionInv, Rates
    <3> QED
      BY <1>1, <3>1
  <2> QED
    BY <2>1, <2>2 DEF N!RateIsBounded
<1> QED
  BY <1>2, <1>3 DEF SessionInv, Tokens

-----------------------------------------------------------------------------
(* ProviderActions. Its calls, flight, events, drafts and tasks are v1 to    *)
(* v5.                                                                       *)

(* An event's id is a function of what was asked for. By itself the property *)
(* is not kept: a call that inserts what another one has inserted has to     *)
(* meet its id.                                                              *)
Keyed == \A event \in v3 : event.id = event.what

EventsAreKeyed == Keyed /\ A!OneEvent

(* An insertion that meets its id changes nothing; another one adds it.      *)
LEMMA Insertion ==
    ASSUME NEW c \in Writers, EventsAreKeyed, A!InsertEvent(c)
    PROVE  EventsAreKeyed'
<1>1. CASE UNCHANGED v3
  BY <1>1 DEF EventsAreKeyed, Keyed, A!OneEvent
<1>2. CASE v3' = v3 \cup {[id |-> v1[c].what, what |-> v1[c].what]}
           /\ ~\E event \in v3 : event.id = v1[c].what
  BY <1>2 DEF EventsAreKeyed, Keyed, A!OneEvent
<1> QED
  BY <1>1, <1>2 DEF A!InsertEvent, A!_event_id


(* What the provider has when an action is completed.                        *)
Effect(action, what) ==
    CASE action = "calendar.create" -> \E event \in v3 : event.what = what
      [] action = "email.create_draft" -> v4[what] > 0
      [] action = "task.create" -> v5[what] # "none"
      [] action = "task.complete" -> v5[what] = "completed"
      [] action = "task.cancel" -> v5[what] = "cancelled"
      [] action = "read" -> TRUE
      [] OTHER -> FALSE

ProviderCall == [pc : {"new", "reading", "looking", "sent", "reconciling", "done"},
                 action : A!Actions \cup {"none"}, what : Contents \cup {"none"},
                 reply : {"none", "ok", "conflict", "error"},
                 outcome : {"none", "completed", "approval_required", "failed"}]

(* Before its write is sent.                                                 *)
Unsent == {"new", "reading", "looking"}

(* A call has been answered well, or waits at a place that its action leads  *)
(* to; whatever the provider said to be done is done.                        *)
Answered(r) ==
    /\ r.pc \in Unsent => r.reply = "none"
    /\ r.pc = "new" => r.outcome = "none"
    /\ r.pc # "new" => r.what \in Contents /\ r.action \in A!Actions
    /\ r.pc = "reading" => r.action = "read"
    /\ r.pc = "looking" => r.action = "email.create_draft"
    /\ r.pc = "reconciling" => r.reply = "conflict"
    /\ r.reply \in {"ok", "conflict"} => Effect(r.action, r.what)
    /\ r.outcome = "completed" => Effect(r.action, r.what)

ProviderInv ==
    /\ EventsAreKeyed
    /\ v1 \in [Writers -> ProviderCall] /\ v2 \subseteq Writers
    /\ \A event \in v3 : event.what \in Contents
    /\ v4 \in [Contents -> Nat]
    /\ v5 \in [Contents -> {"none", "open", "completed", "cancelled"}]
    /\ \A c \in Writers : Answered(v1[c])
    /\ \A c \in v2 : v1[c].reply = "none" /\ v1[c].action \in A!Writes
                     /\ v1[c].pc \notin Unsent

(* The initial state.                                                        *)
LEMMA ProviderBegins == A!Init => ProviderInv
BY DEF A!Init, ProviderInv, EventsAreKeyed, Keyed, A!OneEvent, ProviderCall,
   Answered, Unsent

(* A call moves, with the providers as they were.                            *)
LEMMA CallerMoves ==
    ASSUME ProviderInv, NEW c \in Writers, NEW r \in ProviderCall, Answered(r),
           v1' = [v1 EXCEPT ![c] = r], UNCHANGED <<v3, v4, v5>>,
           \/ v2' = v2 /\ (c \in v2 => r.reply = v1[c].reply /\ r.action = v1[c].action /\ r.pc \notin Unsent)
           \/ v2' = v2 \cup {c} /\ r.reply = "none" /\ r.action \in A!Writes /\ r.pc \notin Unsent
    PROVE  ProviderInv'
<1>1. EventsAreKeyed'
  BY DEF ProviderInv, EventsAreKeyed, Keyed, A!OneEvent
<1>2. \A d \in Writers : v1'[d] = IF d = c THEN r ELSE v1[d]
  BY DEF ProviderInv
<1>3. \A d \in Writers : Answered(v1'[d])
  BY <1>2 DEF ProviderInv
<1>4. \A d \in Writers : Answered(v1[d])'
  BY <1>3 DEF Answered, Effect
<1>5. v1' \in [Writers -> ProviderCall] /\ v2' \subseteq Writers
  BY DEF ProviderInv
<1>6. \A d \in v2' : v1'[d].reply = "none" /\ v1'[d].action \in A!Writes /\ v1'[d].pc \notin Unsent
  BY <1>2 DEF ProviderInv
<1> QED
  BY <1>1, <1>4, <1>5, <1>6 DEF ProviderInv

(* A write lands: what was done stays done, and what is replied is done.     *)
LEMMA LandingKeeps ==
    ASSUME ProviderInv, NEW c \in Writers, A!Land(c)
    PROVE  ProviderInv'
<1> PICK action, what : action = v1[c].action /\ what = v1[c].what
  OBVIOUS
<1> USE DEF ProviderInv
<1>1. c \in v2 /\ v2' = v2 \ {c} /\ action \in A!Writes /\ what \in Contents /\ v1[c].pc \notin Unsent
  BY DEF A!Land, Answered, Unsent
<1>2. EventsAreKeyed'
  <2>1. CASE A!InsertEvent(c)
    BY <2>1, Insertion
  <2>2. CASE UNCHANGED v3
    BY <2>2 DEF EventsAreKeyed, Keyed, A!OneEvent
  <2> QED
    BY <2>1, <2>2 DEF A!Land, A!InsertDraft, A!create_task, A!set_task_status
<1>3. PICK reply \in {"ok", "conflict", "error"} :
        /\ v1' = [v1 EXCEPT ![c].reply = reply]
        /\ reply # "error" => Effect(action, what)'
        /\ \A event \in v3' : event.what \in Contents
        /\ v3 \subseteq v3'
        /\ v4' \in [Contents -> Nat]
        /\ \A x \in Contents : v4[x] > 0 => v4'[x] > 0
        /\ v5' \in [Contents -> {"none", "open", "completed", "cancelled"}]
        /\ \A x \in Contents : v5'[x] = v5[x] \/ v5[x] = "none" \/ (v5[x] = "open" /\ v5'[x] # "none")
  <2>1. CASE A!InsertEvent(c)
    <3>1. action = "calendar.create" /\ UNCHANGED <<v4, v5>>
      BY <2>1 DEF A!InsertEvent
    <3>2. CASE (\E event \in v3 : event.id = what) /\ A!Reply(c, "conflict") /\ UNCHANGED v3
      <4>1. \E event \in v3' : event.what = what
        BY <3>2 DEF EventsAreKeyed, Keyed
      <4> QED
        BY <3>1, <3>2, <4>1 DEF Effect, A!Reply
    <3>3. CASE v3' = v3 \cup {[id |-> what, what |-> what]} /\ A!Reply(c, "ok")
      <4> PICK inserted : inserted = [id |-> what, what |-> what]
        OBVIOUS
      <4>1. inserted \in v3' /\ inserted.what = what
        BY <3>3
      <4> QED
        BY <1>1, <3>1, <3>3, <4>1 DEF Effect, A!Reply
    <3> QED
      BY <2>1, <3>2, <3>3 DEF A!InsertEvent, A!_event_id
  <2>2. CASE A!InsertDraft(c)
    <3>1. action = "email.create_draft" /\ UNCHANGED <<v3, v5>> /\ A!Reply(c, "ok")
          /\ v4' = [v4 EXCEPT ![what] = v4[what] + 1]
      BY <2>2 DEF A!InsertDraft
    <3>2. v4[what] \in Nat /\ v4'[what] = v4[what] + 1 /\ v4' \in [Contents -> Nat]
          /\ \A x \in Contents : x # what => v4'[x] = v4[x]
      BY <1>1, <3>1
    <3>3. v4'[what] > 0 /\ \A x \in Contents : v4[x] > 0 => v4'[x] > 0
      BY <3>2
    <3> QED
      BY <3>1, <3>2, <3>3 DEF Effect, A!Reply
  <2>3. CASE A!create_task(c)
    <3>1. action = "task.create" /\ UNCHANGED <<v3, v4>> /\ A!Reply(c, "ok")
          /\ v5' = [v5 EXCEPT ![what] = IF v5[what] = "none" THEN "open" ELSE v5[what]]
      BY <2>3 DEF A!create_task
    <3>2. v5'[what] # "none" /\ v5' \in [Contents -> {"none", "open", "completed", "cancelled"}]
          /\ \A x \in Contents : v5'[x] = v5[x] \/ v5[x] = "none"
      BY <1>1, <3>1
    <3> QED
      BY <3>1, <3>2 DEF Effect, A!Reply
  <2>4. CASE A!set_task_status(c)
    <3> PICK status : status = A!Requested(action)
      OBVIOUS
    <3>1. action \in {"task.complete", "task.cancel"} /\ UNCHANGED <<v3, v4>>
          /\ status \in {"completed", "cancelled"}
          /\ Effect(action, what)' = (v5'[what] = status)
      BY <2>4 DEF A!set_task_status, Effect, A!Requested
    <3>2. \/ v5[what] = status /\ A!Reply(c, "ok") /\ UNCHANGED v5
          \/ v5[what] = "open" /\ A!Reply(c, "ok") /\ v5' = [v5 EXCEPT ![what] = status]
          \/ A!Reply(c, "error") /\ UNCHANGED v5
      BY <2>4 DEF A!set_task_status, A!MayClose
    <3>3. CASE v5[what] = status /\ A!Reply(c, "ok") /\ UNCHANGED v5
      BY <3>1, <3>3 DEF A!Reply
    <3>4. CASE v5[what] = "open" /\ A!Reply(c, "ok") /\ v5' = [v5 EXCEPT ![what] = status]
      <4>1. v5'[what] = status /\ v5' \in [Contents -> {"none", "open", "completed", "cancelled"}]
            /\ \A x \in Contents : x # what => v5'[x] = v5[x]
        BY <1>1, <3>1, <3>4
      <4> QED
        BY <3>1, <3>4, <4>1 DEF A!Reply
    <3>5. CASE A!Reply(c, "error") /\ UNCHANGED v5
      BY <3>1, <3>5 DEF A!Reply
    <3> QED
      BY <3>2, <3>3, <3>4, <3>5
  <2> QED
    BY <2>1, <2>2, <2>3, <2>4 DEF A!Land
<1>4. ASSUME NEW a \in A!Actions, NEW x \in Contents, Effect(a, x)
      PROVE  Effect(a, x)'
  BY <1>3, <1>4 DEF Effect, A!Actions, A!Writes
<1> PICK r : r = [v1[c] EXCEPT !.reply = reply]
  OBVIOUS
<1>5. /\ r \in ProviderCall /\ r.reply = reply /\ r.action = action /\ r.what = what
      /\ r.pc = v1[c].pc /\ r.outcome = v1[c].outcome
  BY <1>1, <1>3 DEF ProviderCall
<1>6. v1' = [v1 EXCEPT ![c] = r] /\ \A d \in Writers : v1'[d] = IF d = c THEN r ELSE v1[d]
  BY <1>3
<1>7. \A d \in Writers : Answered(v1[d])'
  <2> SUFFICES ASSUME NEW d \in Writers PROVE Answered(v1[d])'
    OBVIOUS
  <2>1. Answered(v1[d])
    OBVIOUS
  <2>2. CASE d # c
    <3>1. v1'[d] = v1[d]
      BY <1>6, <2>2
    <3>2. v1[d].pc = "new" => v1[d].reply = "none" /\ v1[d].outcome = "none"
      BY <2>1 DEF Answered, Unsent
    <3> QED
      BY <1>4, <2>1, <3>1, <3>2 DEF Answered
  <2>3. CASE d = c
    <3>1. v1'[d] = r
      BY <1>6, <2>3
    <3>2. r.pc # "reconciling"
      BY <1>1, <1>5, <2>1, <2>3 DEF Answered
    <3>3. action \in A!Actions
      BY <1>1 DEF A!Actions
    <3> QED
      BY <1>1, <1>3, <1>4, <1>5, <2>1, <2>3, <3>1, <3>2, <3>3 DEF Answered
  <2> QED
    BY <2>2, <2>3
<1>8. \A d \in v2' : v1'[d].reply = "none" /\ v1'[d].action \in A!Writes /\ v1'[d].pc \notin Unsent
  BY <1>1, <1>6
<1>9. v1' \in [Writers -> ProviderCall] /\ v2' \subseteq Writers
  BY <1>1, <1>5, <1>6
<1> QED
  BY <1>2, <1>3, <1>7, <1>8, <1>9

(* The steps of the executors; a write that is lost was not answered.        *)
LEMMA ExecutorKeeps ==
    ASSUME ProviderInv, NEW c \in Writers,
           \/ A!execute(c) \/ A!Read(c) \/ A!Fail(c) \/ A!create_draft(c)
           \/ A!Receive(c) \/ A!Reconcile(c) \/ A!Lose(c)
    PROVE  ProviderInv'
<1> USE DEF ProviderInv
<1>1. v1[c] \in ProviderCall /\ Answered(v1[c])
  OBVIOUS
<1>2. ASSUME NEW outcome \in {"completed", "approval_required", "failed"}, A!Outcome(c, outcome),
             UNCHANGED <<v2, v3, v4, v5>>, v1[c].pc # "new",
             outcome = "completed" => Effect(v1[c].action, v1[c].what)
      PROVE  ProviderInv'
  <2> PICK r : r = [v1[c] EXCEPT !.pc = "done", !.outcome = outcome]
    OBVIOUS
  <2>1. v1' = [v1 EXCEPT ![c] = r]
    BY <1>2 DEF A!Outcome, A!To
  <2>2. /\ r \in ProviderCall /\ r.pc = "done" /\ r.outcome = outcome /\ r.action = v1[c].action
        /\ r.what = v1[c].what /\ r.reply = v1[c].reply
    BY <1>1, <1>2 DEF ProviderCall
  <2>3. Answered(r)
    BY <1>1, <1>2, <2>2 DEF Answered, Unsent
  <2> QED
    BY <1>2, <2>1, <2>2, <2>3, CallerMoves DEF Unsent
<1>3. CASE A!Fail(c)
  BY <1>2, <1>3 DEF A!Fail
<1>4. CASE A!Read(c)
  <2>1. v1[c].action = "read" /\ v1[c].pc = "reading"
    BY <1>1, <1>4 DEF A!Read, Answered
  <2>2. Effect(v1[c].action, v1[c].what)
    BY <2>1 DEF Effect
  <2> QED
    BY <1>2, <1>4, <2>1, <2>2 DEF A!Read
<1>5. CASE A!Reconcile(c)
  <2>1. v1[c].pc = "reconciling" /\ Effect(v1[c].action, v1[c].what)
    BY <1>1, <1>5 DEF A!Reconcile, Answered
  <2> QED
    BY <1>2, <1>5, <2>1 DEF A!Reconcile
<1>6. CASE A!Receive(c)
  <2>1. v1[c].pc = "sent" /\ UNCHANGED <<v2, v3, v4, v5>>
    BY <1>6 DEF A!Receive
  <2>2. CASE v1[c].reply = "ok" /\ A!Outcome(c, "completed")
    BY <1>1, <1>2, <2>1, <2>2 DEF Answered
  <2>3. CASE v1[c].reply = "error" /\ A!Outcome(c, "failed")
    BY <1>2, <2>1, <2>3
  <2>4. CASE v1[c].reply = "conflict" /\ A!To(c, [v1[c] EXCEPT !.pc = "reconciling"])
    <3> PICK r : r = [v1[c] EXCEPT !.pc = "reconciling"]
      OBVIOUS
    <3>1. v1' = [v1 EXCEPT ![c] = r]
      BY <2>4 DEF A!To
    <3>2. /\ r \in ProviderCall /\ r.pc = "reconciling" /\ r.outcome = v1[c].outcome
          /\ r.action = v1[c].action /\ r.what = v1[c].what /\ r.reply = v1[c].reply
      BY <1>1 DEF ProviderCall
    <3>3. Answered(r)
      BY <1>1, <2>1, <2>4, <3>2 DEF Answered, Unsent
    <3> QED
      BY <2>1, <3>1, <3>2, <3>3, CallerMoves DEF Unsent
  <2>5. v1[c].reply \in {"ok", "conflict", "error"}
    BY <1>1, <1>6 DEF A!Receive, ProviderCall
  <2> QED
    BY <1>6, <2>2, <2>3, <2>4, <2>5 DEF A!Receive
<1>7. CASE A!create_draft(c)
  <2>1. v1[c].pc = "looking" /\ v1[c].action = "email.create_draft" /\ UNCHANGED <<v3, v4, v5>>
    BY <1>1, <1>7 DEF A!create_draft, Answered
  <2>2. CASE v4[v1[c].what] > 0 /\ A!Outcome(c, "completed") /\ UNCHANGED v2
    BY <1>2, <2>1, <2>2 DEF Effect
  <2>3. CASE A!To(c, [v1[c] EXCEPT !.pc = "sent"]) /\ v2' = v2 \cup {c}
    <3> PICK r : r = [v1[c] EXCEPT !.pc = "sent"]
      OBVIOUS
    <3>1. v1' = [v1 EXCEPT ![c] = r]
      BY <2>3 DEF A!To
    <3>2. /\ r \in ProviderCall /\ r.pc = "sent" /\ r.outcome = v1[c].outcome
          /\ r.action = v1[c].action /\ r.what = v1[c].what /\ r.reply = v1[c].reply
      BY <1>1 DEF ProviderCall
    <3>3. Answered(r)
      BY <1>1, <2>1, <3>2 DEF Answered, Unsent
    <3>4. v1[c].reply = "none"
      BY <1>1, <2>1 DEF Answered, Unsent
    <3> QED
      BY <2>1, <2>3, <3>1, <3>2, <3>3, <3>4, CallerMoves DEF A!Writes, Unsent
  <2> QED
    BY <1>7, <2>2, <2>3 DEF A!create_draft
<1>8. CASE A!execute(c)
  <2>1. v1[c].pc = "new" /\ v1[c].reply = "none" /\ v1[c].outcome = "none" /\ c \notin v2
        /\ UNCHANGED <<v3, v4, v5>>
    BY <1>1, <1>8 DEF A!execute, Answered, Unsent
  <2> PICK action \in A!Actions, what \in Contents, approved \in BOOLEAN :
        IF action \in A!Writes /\ ~approved
        THEN /\ A!To(c, [[v1[c] EXCEPT !.action = action, !.what = what]
                           EXCEPT !.pc = "done", !.outcome = "approval_required"])
             /\ UNCHANGED v2
        ELSE /\ A!To(c, [[v1[c] EXCEPT !.action = action, !.what = what]
                           EXCEPT !.pc = A!Entry(action)])
             /\ v2' = IF A!Entry(action) = "sent" THEN v2 \cup {c} ELSE v2
    BY <1>8 DEF A!execute
  <2> PICK entry : entry = A!Entry(action)
    OBVIOUS
  <2>2. /\ entry \in {"reading", "looking", "sent"}
        /\ entry = "reading" => action = "read"
        /\ entry = "looking" => action = "email.create_draft"
        /\ entry = "sent" => action \in A!Writes
    BY DEF A!Entry, A!Actions
  <2>3. CASE /\ A!To(c, [[v1[c] EXCEPT !.action = action, !.what = what]
                           EXCEPT !.pc = "done", !.outcome = "approval_required"])
             /\ UNCHANGED v2
    <3> PICK r : r = [[v1[c] EXCEPT !.action = action, !.what = what]
                           EXCEPT !.pc = "done", !.outcome = "approval_required"]
      OBVIOUS
    <3>1. v1' = [v1 EXCEPT ![c] = r]
      BY <2>3 DEF A!To
    <3>2. /\ r \in ProviderCall /\ r.pc = "done" /\ r.outcome = "approval_required"
          /\ r.action = action /\ r.what = what /\ r.reply = v1[c].reply
      BY <1>1 DEF ProviderCall
    <3>3. Answered(r)
      BY <2>1, <3>2 DEF Answered, Unsent
    <3> QED
      BY <2>1, <2>3, <3>1, <3>2, <3>3, CallerMoves
  <2>4. CASE /\ A!To(c, [[v1[c] EXCEPT !.action = action, !.what = what]
                           EXCEPT !.pc = entry])
             /\ v2' = IF entry = "sent" THEN v2 \cup {c} ELSE v2
    <3> PICK r : r = [[v1[c] EXCEPT !.action = action, !.what = what] EXCEPT !.pc = entry]
      OBVIOUS
    <3>1. v1' = [v1 EXCEPT ![c] = r]
      BY <2>4 DEF A!To
    <3>2. /\ r \in ProviderCall /\ r.pc = entry /\ r.outcome = "none"
          /\ r.action = action /\ r.what = what /\ r.reply = "none"
      BY <1>1, <2>1, <2>2 DEF ProviderCall
    <3>3. Answered(r)
      BY <2>1, <2>2, <3>2 DEF Answered, Unsent
    <3>4. entry = "sent" => r.pc \notin Unsent
      BY <3>2 DEF Unsent
    <3> QED
      BY <2>1, <2>2, <2>4, <3>1, <3>2, <3>3, <3>4, CallerMoves
  <2> QED
    BY <2>3, <2>4
<1>9. CASE A!Lose(c)
  <2>1. v2' \subseteq v2 /\ UNCHANGED <<v1, v3, v4, v5>>
    BY <1>9 DEF A!Lose
  <2> QED
    BY <2>1 DEF EventsAreKeyed, Keyed, A!OneEvent, Answered, Effect
<1> QED
  BY <1>3, <1>4, <1>5, <1>6, <1>7, <1>8, <1>9

(* Every step of the provider keeps its invariant.                           *)
LEMMA ProviderKeeps == ASSUME ProviderInv, [A!Next]_(A!vars) PROVE ProviderInv'
<1>1. CASE A!Next
  BY <1>1, LandingKeeps, ExecutorKeeps DEF A!Next
<1>2. CASE UNCHANGED A!vars
  BY <1>2
     DEF A!vars, ProviderInv, EventsAreKeyed, Keyed, A!OneEvent, Answered,
     Effect
<1> QED
  BY <1>1, <1>2

(* What the invariant says of the state.                                     *)
LEMMA ProviderSafe == ASSUME ProviderInv PROVE A!TypeOK /\ A!CompletedIsTrue /\ A!OneEvent
<1>1. A!TypeOK
  BY DEF ProviderInv, ProviderCall, A!TypeOK
<1>2. A!CompletedIsTrue
  <2> SUFFICES ASSUME NEW c \in Writers, v1[c].outcome = "completed"
               PROVE  CASE v1[c].action = "calendar.create" -> \E event \in v3 : event.what = v1[c].what
                        [] v1[c].action = "email.create_draft" -> v4[v1[c].what] > 0
                        [] v1[c].action = "task.create" -> v5[v1[c].what] # "none"
                        [] v1[c].action = "task.complete" -> v5[v1[c].what] = "completed"
                        [] v1[c].action = "task.cancel" -> v5[v1[c].what] = "cancelled"
                        [] v1[c].action = "read" -> TRUE
    BY DEF A!CompletedIsTrue
  <2>1. Effect(v1[c].action, v1[c].what)
    BY DEF ProviderInv, Answered
  <2>2. v1[c].action \in A!Actions
    BY <2>1 DEF ProviderInv, Answered
  <2> QED
    BY <2>1 DEF Effect
<1>3. A!OneEvent
  BY DEF ProviderInv, EventsAreKeyed
<1> QED
  BY <1>1, <1>2, <1>3


-----------------------------------------------------------------------------
(* RhythmRun. Its rhythm, runs, briefs, claims, pc, key, token and result    *)
(* are v1 to v8. A run that can still be claimed has no brief, so what a     *)
(* delivery was told outlives every later delivery of the same occurrence.   *)

RunRows == [status : R!Results \cup {"absent", "claimed", "failed"},
            token : R!Tokens \cup {R!NoToken}, lease : BOOLEAN]

(* A delivery that has left its claim behind is for an occurrence, and only  *)
(* a claimed or a generated run has drawn a token.                           *)
Underway ==
    /\ \A d \in Deliveries :
        /\ v5[d] # "idle" => v6[d] \in Occurrences
        /\ v5[d] = "complete" => v8[d] \in R!Results
    /\ \A o \in Occurrences :
        v2[o].status \in {"claimed", "generated", "empty"} => v2[o].token \in R!Tokens

RhythmInv == R!TypeOK /\ Underway /\ R!BriefMatchesRun /\ R!ToldIsStored

(* The tokens of the briefs of an occurrence.                                *)
BriefTokens(o) == {b.token : b \in {c \in v3 : c.occurrence = o}}

(* The initial state: no run, no brief, no delivery.                         *)
LEMMA RhythmBegins == ASSUME R!ClaimsAssumption, R!Init PROVE RhythmInv
<1>1. R!TypeOK
  BY DEF R!TypeOK, R!Init, R!NoRun, R!NoToken, R!None, R!ClaimsAssumption,
     R!Results, R!Tokens
<1>2. Underway
  BY DEF Underway, R!Init, R!NoRun
<1>3. R!BriefMatchesRun
  BY DEF R!BriefMatchesRun, R!Init, R!NoRun
<1>4. R!ToldIsStored
  BY DEF R!ToldIsStored, R!Init
<1> QED
  BY <1>1, <1>2, <1>3, <1>4 DEF RhythmInv

(* A delivery that takes a step with the database as it is: it keeps its     *)
(* token, and what it tells is nothing that was recorded.                    *)
LEMMA DeliveryMoves ==
    ASSUME RhythmInv, NEW d \in Deliveries,
           UNCHANGED <<v2, v3, v4, v7>>, v1' = v1,
           NEW step \in {"claim", "build", "complete", "fail", "done"},
           v5' = [v5 EXCEPT ![d] = step],
           NEW o \in Occurrences, v6' = [v6 EXCEPT ![d] = o],
           NEW r \in R!Results \cup {"disabled", "in_progress", "duplicate", "error", R!None},
           v8' = [v8 EXCEPT ![d] = r],
           step = "complete" => r \in R!Results,
           step = "done" => r \notin R!Results
    PROVE  RhythmInv'
<1>1. R!TypeOK'
  BY DEF RhythmInv, R!TypeOK
<1>2. Underway'
  BY DEF RhythmInv, R!TypeOK, Underway
<1>3. R!BriefMatchesRun'
  BY DEF RhythmInv, R!BriefMatchesRun
<1>4. R!ToldIsStored'
  BY DEF RhythmInv, R!TypeOK, R!ToldIsStored
<1> QED
  BY <1>1, <1>2, <1>3, <1>4 DEF RhythmInv

(* A run whose row changes while no brief does: it was not generated, and    *)
(* is not.                                                                   *)
LEMMA RowChanges ==
    ASSUME RhythmInv, NEW o \in Occurrences, NEW row \in RunRows,
           v2' = [v2 EXCEPT ![o] = row],
           UNCHANGED v3,
           \/ v2[o].status # "generated" /\ row.status # "generated"
           \/ row.status = v2[o].status /\ row.token = v2[o].token
    PROVE  R!BriefMatchesRun'
<1> SUFFICES ASSUME NEW p \in Occurrences
             PROVE  BriefTokens(p)'
                      = IF v2'[p].status = "generated" THEN {v2'[p].token} ELSE {}
  BY DEF R!BriefMatchesRun, BriefTokens
<1>1. BriefTokens(p)' = BriefTokens(p)
  BY DEF BriefTokens
<1>2. BriefTokens(p) = IF v2[p].status = "generated" THEN {v2[p].token} ELSE {}
  BY DEF RhythmInv, R!BriefMatchesRun, BriefTokens
<1>3. CASE p = o
  BY <1>1, <1>2, <1>3 DEF RhythmInv, R!TypeOK
<1>4. CASE p # o
  BY <1>1, <1>2, <1>4 DEF RhythmInv, R!TypeOK
<1> QED
  BY <1>3, <1>4

(* What deliveries were told stays recorded when a row changes that was not  *)
(* at its end, or only loses its lease.                                      *)
LEMMA ToldStays ==
    ASSUME RhythmInv, NEW o \in Occurrences, NEW row \in RunRows,
           v2' = [v2 EXCEPT ![o] = row],
           \/ v2[o].status \notin R!Results
           \/ row.status = v2[o].status /\ row.token = v2[o].token,
           NEW d \in Deliveries, v5[d] = "done", v8[d] \in R!Results
    PROVE  v2'[v6[d]].status = v8[d] /\ v2'[v6[d]].token = v7[d]
<1>1. v2[v6[d]].status = v8[d] /\ v2[v6[d]].token = v7[d] /\ v6[d] \in Occurrences
  BY DEF RhythmInv, R!ToldIsStored, Underway
<1> QED
  BY <1>1 DEF RhythmInv, R!TypeOK

(* A claim is granted: the run was absent, had failed, or is claimed with a  *)
(* lease that ran out.                                                       *)
LEMMA ClaimKeeps == 
    ASSUME RhythmInv, NEW d \in Deliveries, R!claim_rhythm_run(d), R!ClaimsAssumption
    PROVE  RhythmInv'
<1> USE DEF RhythmInv
<1>1. v5[d] = "claim" /\ v6[d] \in Occurrences /\ UNCHANGED <<v1, v3, v6>>
  BY DEF R!claim_rhythm_run, Underway
<1> DEFINE o == v6[d]  row == R!ClaimedRow(o)
<1>2. CASE /\ R!Claimable(v2[o]) /\ v4 < MaxClaims /\ v4' = v4 + 1
           /\ v2' = [v2 EXCEPT ![o] = row]
           /\ \/ /\ v7' = [v7 EXCEPT ![d] = v2'[o].token]
                 /\ R!Goto(d, "build") /\ UNCHANGED v8
              \/ R!Answer(d, "error") /\ UNCHANGED v7
  <2>1. row \in RunRows /\ row.status = "claimed" /\ row.token \in R!Tokens /\ v4 + 1 \in 1..MaxClaims
    BY <1>2 DEF R!ClaimedRow, RunRows, R!TypeOK, R!Tokens, R!ClaimsAssumption
  <2>2. v2[o].status \notin R!Results
    BY <1>2 DEF R!Claimable, R!Results
  <2> HIDE DEF row
  <2>3. v2'[o] = row /\ v2' \in [Occurrences -> RunRows]
    BY <1>1, <1>2, <2>1 DEF R!TypeOK, RunRows
  <2>4. v5' \in [Deliveries -> {"idle", "claim", "build", "complete", "fail", "done"}]
        /\ v7' \in [Deliveries -> R!Tokens \cup {R!NoToken}]
        /\ v8' \in [Deliveries -> R!Results \cup
            {"disabled", "in_progress", "duplicate", "error", R!None}]
    BY <1>2, <2>1, <2>3 DEF R!TypeOK, R!Goto, R!Answer
  <2>5. R!TypeOK'
    BY <1>1, <1>2, <2>1, <2>3, <2>4 DEF R!TypeOK, RunRows
  <2>6. Underway'
    <3>1. \A e \in Deliveries : /\ v5'[e] # "idle" => v6'[e] \in Occurrences
                                /\ v5'[e] = "complete" => v8'[e] \in R!Results
      BY <1>1, <1>2 DEF R!TypeOK, R!Goto, R!Answer, Underway
    <3>2. \A p \in Occurrences : v2'[p].status \in {"claimed", "generated", "empty"} => v2'[p].token \in R!Tokens
      BY <1>1, <1>2, <2>1, <2>3 DEF R!TypeOK, Underway
    <3> QED
      BY <3>1, <3>2 DEF Underway
  <2>7. R!BriefMatchesRun'
    BY <1>1, <1>2, <2>1, <2>2, RowChanges DEF R!Results
  <2>8. R!ToldIsStored'
    <3> SUFFICES ASSUME NEW e \in Deliveries, v5'[e] = "done", v8'[e] \in R!Results
                 PROVE  v2'[v6'[e]].status = v8'[e] /\ v2'[v6'[e]].token = v7'[e]
      BY DEF R!ToldIsStored
    <3>1. e # d
      BY <1>2 DEF R!TypeOK, R!Goto, R!Answer, R!Results
    <3>2. v5[e] = "done" /\ v8[e] \in R!Results /\ v8'[e] = v8[e] /\ v7'[e] = v7[e]
      BY <1>2, <3>1 DEF R!TypeOK, R!Goto, R!Answer
    <3> QED
      BY <1>1, <1>2, <2>1, <2>2, <3>2, ToldStays
  <2> QED
    BY <2>5, <2>6, <2>7, <2>8
<1>3. CASE /\ UNCHANGED <<v2, v4, v7>>
           /\ \E state \in {"disabled", "in_progress", "duplicate", "error"} : R!Answer(d, state)
  <2> PICK state \in {"disabled", "in_progress", "duplicate", "error"} : R!Answer(d, state)
    BY <1>3
  <2>1. v6' = [v6 EXCEPT ![d] = v6[d]]
    BY <1>1 DEF R!TypeOK
  <2> QED
    BY <1>1, <1>3, <2>1, DeliveryMoves DEF R!Answer, R!Goto, R!Results
<1>4. \/ R!Claimable(v2[o]) /\ v4 < MaxClaims /\ v4' = v4 + 1
           /\ v2' = [v2 EXCEPT ![o] = row]
           /\ \/ /\ v7' = [v7 EXCEPT ![d] = v2'[o].token]
                 /\ R!Goto(d, "build") /\ UNCHANGED v8
              \/ R!Answer(d, "error") /\ UNCHANGED v7
      \/ /\ UNCHANGED <<v2, v4, v7>>
         /\ \/ R!Answer(d, "disabled") \/ R!Answer(d, IF v2[o].status = "claimed" THEN "in_progress"
                             ELSE "duplicate")
            \/ R!Answer(d, "error")
  BY DEF R!claim_rhythm_run
<1> QED
  BY <1>2, <1>3, <1>4

(* A run ends, in the claim that holds it.                                   *)
LEMMA EndKeeps == 
    ASSUME RhythmInv, NEW d \in Deliveries, R!complete_rhythm_run(d) \/ R!fail_rhythm_run(d)
    PROVE  RhythmInv'
<1> USE DEF RhythmInv
<1>1. v5[d] \in {"complete", "fail"} /\ v6[d] \in Occurrences /\ UNCHANGED <<v4, v6, v7>>
  BY DEF R!complete_rhythm_run, R!fail_rhythm_run, Underway
<1> DEFINE o == v6[d]
<1>2. v6' = [v6 EXCEPT ![d] = v6[d]] /\ v8 = [v8 EXCEPT ![d] = v8[d]]
  BY <1>1 DEF R!TypeOK
<1>3. CASE UNCHANGED <<v1, v2, v3>>
  <2>1. CASE R!Goto(d, "fail") /\ UNCHANGED v8
    BY <1>1, <1>2, <1>3, <2>1, DeliveryMoves DEF R!Goto, R!TypeOK
  <2>2. CASE R!Answer(d, "error")
    BY <1>1, <1>2, <1>3, <2>2, DeliveryMoves DEF R!Goto, R!Answer, R!Results
  <2>3. CASE R!complete_rhythm_run(d) /\ R!Holds(d) /\ R!Ended(o, v8[d])
    <3>1. v8[d] # "claimed" /\ v2[o].status = "claimed"
      BY <2>3 DEF R!complete_rhythm_run, R!Holds, R!Results, Underway
    <3>2. v2'[o].status = v8[d]
      BY <1>1, <2>3 DEF R!Ended, R!TypeOK
    <3> QED
      BY <1>3, <3>1, <3>2
  <2> QED
    BY <1>3, <2>1, <2>2, <2>3 DEF R!complete_rhythm_run, R!fail_rhythm_run
<1>4. ASSUME NEW status \in R!Results \cup {"failed"}, R!Holds(d), R!Ended(o, status),
             v3' = IF status = "generated"
                   THEN v3 \cup {[occurrence |-> o, token |-> v7[d]]} ELSE v3,
             \/ R!Goto(d, "fail") /\ UNCHANGED v8
             \/ \E r \in {status, "error"} : R!Answer(d, r) /\ (r = "failed" => FALSE)
      PROVE  RhythmInv'
  <2> PICK row : row = [v2[o] EXCEPT !.status = status, !.lease = FALSE]
    OBVIOUS
  <2>1. v2' = [v2 EXCEPT ![o] = row] /\ v1' = [v1 EXCEPT !.last = o, !.result = status]
    BY <1>4 DEF R!Ended
  <2>2. v2[o].status = "claimed" /\ v2[o].token = v7[d] /\ v7[d] \in R!Tokens
    BY <1>1, <1>4 DEF R!Holds, Underway
  <2>3. row \in RunRows /\ row.status = status /\ row.token = v7[d]
    <3>1. v2[o] \in RunRows
      BY <1>1 DEF R!TypeOK, RunRows
    <3>2. row \in RunRows /\ row.status = status /\ row.token = v2[o].token
      BY <3>1 DEF RunRows
    <3> QED
      BY <2>2, <3>2
  <2>4. v2'[o] = row /\ v2' \in [Occurrences -> RunRows]
    BY <1>1, <2>1, <2>3 DEF R!TypeOK, RunRows
  <2>5. PICK step \in {"fail", "done"}, r \in {v8[d], status, "error"} :
           /\ v5' = [v5 EXCEPT ![d] = step] /\ v8' = [v8 EXCEPT ![d] = r]
           /\ step = "done" => r \in {status, "error"} /\ r # "failed"
    BY <1>2, <1>4 DEF R!Goto, R!Answer
  <2>6. R!TypeOK'
    <3>1. v1' \in [enabled : BOOLEAN, last : Occurrences \cup {R!None}, result : R!Results \cup {"failed", R!None}]
      BY <1>1, <2>1 DEF R!TypeOK
    <3>2. v3' \subseteq [occurrence : Occurrences, token : R!Tokens]
      BY <1>1, <1>4, <2>2 DEF R!TypeOK
    <3>3. v5' \in [Deliveries -> {"idle", "claim", "build", "complete", "fail", "done"}]
      BY <2>5 DEF R!TypeOK
    <3>4. v8' \in [Deliveries -> R!Results \cup
            {"disabled", "in_progress", "duplicate", "error", R!None}]
      <4>1. CASE r # "failed"
        BY <2>5, <4>1 DEF R!TypeOK
      <4>2. CASE r = "failed"
        BY <1>4, <2>5, <4>2 DEF R!TypeOK, R!Goto, R!Answer
      <4> QED
        BY <4>1, <4>2
    <3> QED
      BY <1>1, <2>4, <3>1, <3>2, <3>3, <3>4 DEF R!TypeOK, RunRows
  <2>7. Underway'
    <3>1. \A e \in Deliveries : /\ v5'[e] # "idle" => v6'[e] \in Occurrences
                                /\ v5'[e] = "complete" => v8'[e] \in R!Results
      BY <1>1, <2>5 DEF R!TypeOK, Underway
    <3>2. \A p \in Occurrences : v2'[p].status \in {"claimed", "generated", "empty"} => v2'[p].token \in R!Tokens
      BY <1>1, <2>1, <2>2, <2>3, <2>4 DEF R!TypeOK, Underway
    <3> QED
      BY <3>1, <3>2 DEF Underway
  <2>8. R!BriefMatchesRun'
    <3>1. CASE status # "generated"
      BY <1>1, <1>4, <2>1, <2>2, <2>3, <3>1, RowChanges
    <3>2. CASE status = "generated"
      <4> SUFFICES ASSUME NEW p \in Occurrences
                   PROVE  BriefTokens(p)'
                      = IF v2'[p].status = "generated" THEN {v2'[p].token} ELSE {}
        BY DEF R!BriefMatchesRun, BriefTokens
      <4>1. BriefTokens(p) = IF v2[p].status = "generated" THEN {v2[p].token} ELSE {}
        BY DEF R!BriefMatchesRun, BriefTokens
      <4>2. CASE p = o
        <5>1. v2'[p].status = "generated" /\ v2'[p].token = v7[d] /\ BriefTokens(p) = {}
          BY <2>2, <2>3, <2>4, <3>2, <4>1, <4>2
        <5>2. \A b \in v3 : b.occurrence # o
          BY <4>2, <5>1 DEF BriefTokens
        <5>3. v3' = v3 \cup {[occurrence |-> o, token |-> v7[d]]}
          BY <1>4, <3>2
        <5>4. PICK brief : brief = [occurrence |-> o, token |-> v7[d]]
          OBVIOUS
        <5>5. {c \in v3' : c.occurrence = p} = {brief}
          BY <4>2, <5>2, <5>3, <5>4
        <5>6. BriefTokens(p)' = {b.token : b \in {brief}}
          BY <5>5 DEF BriefTokens
        <5>7. BriefTokens(p)' = {v7[d]}
          BY <5>4, <5>6
        <5> QED
          BY <5>1, <5>7
      <4>3. CASE p # o
        <5>1. BriefTokens(p)' = BriefTokens(p)
          BY <1>4, <3>2, <4>3 DEF BriefTokens
        <5>2. v2'[p] = v2[p]
          BY <2>1, <4>3 DEF R!TypeOK
        <5> QED
          BY <4>1, <5>1, <5>2
      <4> QED
        BY <4>2, <4>3
    <3> QED
      BY <3>1, <3>2
  <2>9. R!ToldIsStored'
    <3> SUFFICES ASSUME NEW e \in Deliveries, v5'[e] = "done", v8'[e] \in R!Results
                 PROVE  v2'[v6'[e]].status = v8'[e] /\ v2'[v6'[e]].token = v7'[e]
      BY DEF R!ToldIsStored
    <3>1. CASE e = d
      <4>1. v8'[e] = r /\ step = "done"
        BY <2>5, <3>1 DEF R!TypeOK
      <4>2. r = status
        BY <2>5, <4>1 DEF R!Results
      <4> QED
        BY <1>1, <2>3, <2>4, <3>1, <4>1, <4>2
    <3>2. CASE e # d
      <4>1. v5[e] = "done" /\ v8[e] \in R!Results /\ v8'[e] = v8[e]
        BY <2>5, <3>2 DEF R!TypeOK
      <4>2. v2[o].status \notin R!Results
        BY <2>2 DEF R!Results
      <4> QED
        BY <1>1, <2>1, <2>3, <4>1, <4>2, ToldStays
    <3> QED
      BY <3>1, <3>2
  <2> QED
    BY <2>6, <2>7, <2>8, <2>9
<1>5. CASE R!complete_rhythm_run(d) /\ ~UNCHANGED <<v1, v2, v3>>
  <2>1. v8[d] \in R!Results
    BY <1>5 DEF R!complete_rhythm_run, Underway
  <2>2. v8[d] # "failed"
    BY <2>1 DEF R!Results
  <2>3. /\ R!Holds(d) /\ R!Ended(o, v8[d])
        /\ v3' = IF v8[d] = "generated"
                 THEN v3 \cup {[occurrence |-> o, token |-> v7[d]]} ELSE v3
        /\ R!Answer(d, v8[d]) \/ (R!Goto(d, "fail") /\ UNCHANGED v8)
    BY <1>5 DEF R!complete_rhythm_run
  <2> QED
    BY <1>4, <2>1, <2>2, <2>3
<1>6. CASE R!fail_rhythm_run(d) /\ ~UNCHANGED <<v1, v2, v3>>
  <2>1. R!Holds(d) /\ R!Ended(o, "failed") /\ UNCHANGED v3 /\ R!Answer(d, "error")
    BY <1>6 DEF R!fail_rhythm_run
  <2> QED
    BY <1>4, <2>1
<1> QED
  BY <1>3, <1>5, <1>6

(* Every step keeps the invariant.                                           *)
LEMMA RhythmSteps ==
    ASSUME RhythmInv, R!ClaimsAssumption, R!Next
    PROVE  RhythmInv'
<1> USE DEF RhythmInv
<1>1. ASSUME NEW d \in Deliveries, NEW o \in Occurrences, R!Deliver(d, o)
      PROVE  RhythmInv'
  <2>1. v8' = [v8 EXCEPT ![d] = v8[d]] /\ v8[d] \in R!Results \cup {"disabled", "in_progress", "duplicate", "error", R!None}
    BY <1>1 DEF R!TypeOK, R!Deliver
  <2> QED
    BY <1>1, <2>1, DeliveryMoves DEF R!Deliver, R!Goto
<1>2. ASSUME NEW d \in Deliveries, R!BuildBrief(d) \/ R!Crash(d)
      PROVE  RhythmInv'
  <2>1. v6[d] \in Occurrences /\ v6' = [v6 EXCEPT ![d] = v6[d]] /\ v8 = [v8 EXCEPT ![d] = v8[d]]
    BY <1>2 DEF R!TypeOK, R!BuildBrief, R!Crash, Underway
  <2>2. CASE R!BuildBrief(d)
    <3>1. CASE \E r \in R!Results : v8' = [v8 EXCEPT ![d] = r] /\ R!Goto(d, "complete")
      BY <2>1, <2>2, <3>1, DeliveryMoves DEF R!BuildBrief, R!Goto
    <3>2. CASE R!Goto(d, "fail") /\ UNCHANGED v8
      BY <2>1, <2>2, <3>2, DeliveryMoves DEF R!BuildBrief, R!Goto, R!TypeOK
    <3> QED
      BY <2>2, <3>1, <3>2 DEF R!BuildBrief
  <2>3. CASE R!Crash(d)
    BY <2>1, <2>3, DeliveryMoves DEF R!Crash, R!Answer, R!Goto, R!Results
  <2> QED
    BY <1>2, <2>2, <2>3
<1>3. ASSUME NEW o \in Occurrences, R!LeaseRunsOut(o)
      PROVE  RhythmInv'
  <2> PICK row : row = [v2[o] EXCEPT !.lease = FALSE]
    OBVIOUS
  <2>1. v2' = [v2 EXCEPT ![o] = row] /\ UNCHANGED <<v1, v3, v4, v5, v6, v7, v8>>
    BY <1>3 DEF R!LeaseRunsOut, R!local
  <2>2. row \in RunRows /\ row.status = v2[o].status /\ row.token = v2[o].token
    <3>1. v2[o] \in RunRows
      BY DEF R!TypeOK, RunRows
    <3> QED
      BY ONLY <3>1, row = [v2[o] EXCEPT !.lease = FALSE] DEF RunRows
  <2>3. v2' \in [Occurrences -> RunRows]
    BY <2>1, <2>2 DEF R!TypeOK, RunRows
  <2>4. R!TypeOK' /\ Underway'
    BY <2>1, <2>2, <2>3 DEF R!TypeOK, Underway, RunRows
  <2>5. R!BriefMatchesRun'
    BY <2>1, <2>2, RowChanges
  <2>6. R!ToldIsStored'
    BY <2>1, <2>2, ToldStays DEF R!ToldIsStored
  <2> QED
    BY <2>4, <2>5, <2>6
<1>4. CASE R!configure_rhythm
  <2>1. UNCHANGED <<v2, v3, v4, v5, v6, v7, v8>> /\ v1' = [v1 EXCEPT !.enabled = ~v1.enabled]
    BY <1>4 DEF R!configure_rhythm, R!local
  <2> QED
    BY <2>1 DEF R!TypeOK, Underway, R!BriefMatchesRun, R!ToldIsStored
<1> QED
  BY <1>1, <1>2, <1>3, <1>4, ClaimKeeps, EndKeeps DEF R!Next

(* Every step of the rhythm keeps its invariant.                             *)
LEMMA RhythmKeeps == ASSUME RhythmInv, [R!Next]_(R!vars) PROVE RhythmInv'
<1>1. CASE R!Next
  BY <1>1, RhythmSteps, Assumptions
<1>2. CASE UNCHANGED R!vars
  BY <1>2
     DEF R!vars, RhythmInv, R!TypeOK, Underway, R!BriefMatchesRun,
     R!ToldIsStored
<1> QED
  BY <1>1, <1>2

-----------------------------------------------------------------------------
(* ProviderTrial. Its exists, journal, container, run and bill are v1 to v5. *)
(* Of the processes one at most has opened the journal, and nobody else      *)
(* spends. While it is not stopped, what the journal covers is what the      *)
(* process has counted, and of the call under way there is the reservation   *)
(* alone; a budget that is stopped reserves no more.                         *)

Units(f) == UNION {{x} \X (1..f[x]) : x \in DOMAIN f}

Counts(j, i) ==
    \/ j[i].event = "usage"
    \/ /\ j[i].event = "reserved"
       /\ \A k \in DOMAIN j : j[k].event = "usage" => j[k].call # j[i].call

Cover(j) == [i \in {i \in DOMAIN j : Counts(j, i)} |-> j[i].bound_micro_usd]
Covered(j) == Cardinality(Units(Cover(j)))

Bounds(calls) == [i \in DOMAIN calls |-> calls[i].bound]
Charged(calls) == Cardinality(Units(Bounds(calls)))

Entry == [event : {"created", "turn", "reserved", "usage", "stopped", "checkpoint"},
          call : 0..MaxCalls, bound_micro_usd : 0..MaxMicroUsd]

Going == {"open", "up", "turn", "reserved", "answered", "failing"}

Call == [bound : 0..MaxMicroUsd, settled : BOOLEAN]
CallLists == {c \in Seq(Call) : Len(c) <= MaxCalls}

Process == [pc : Going \cup {"idle", "checked", "cleanup", "ended", "crashed"},
            owned : BOOLEAN, at : 0..MaxTurns, seen : SUBSET {"response", "failure"},
            cost : 0..MaxMicroUsd,
            calls : CallLists,
            stopped : BOOLEAN, replaying : BOOLEAN]

Opened(p) == p.pc \in Going \cup {"cleanup"} \/ p.calls # <<>>

(* Of a call nothing is in the journal but its reservation.                  *)
Reserved(j, n, bound) ==
    \E i \in DOMAIN j :
        /\ j[i].event = "reserved" /\ j[i].call = n /\ j[i].bound_micro_usd = bound
        /\ \A k \in DOMAIN j : j[k].call = n => k = i

(* What a process p, charged b, and the journal j are to each other.         *)
Sound(p, b, j) ==
    /\ b <= Covered(j)
    /\ IsFiniteSet(Units(Bounds(p.calls)))
    /\ p.pc \in {"idle", "checked", "open"} => p.calls = <<>>
    /\ p.calls = <<>> => b = 0
    /\ p.pc \in Going /\ ~p.stopped =>
        /\ Covered(j) = Charged(p.calls)
        /\ \A i \in DOMAIN j : j[i].call <= Len(p.calls)
    /\ p.pc \in {"reserved", "answered"} =>
        /\ ~p.stopped /\ p.calls # <<>>
        /\ Reserved(j, Len(p.calls), p.calls[Len(p.calls)].bound)
    /\ p.pc = "reserved" => b + p.calls[Len(p.calls)].bound <= Covered(j)
    /\ p.pc = "answered" => /\ b + p.calls[Len(p.calls)].bound <= Covered(j) + p.cost
                            /\ p.cost <= p.calls[Len(p.calls)].bound

JournalHolds(j) ==
    j \in Seq(Entry) /\ IsFiniteSet(Units(Cover(j))) /\ Covered(j) <= MaxMicroUsd

TrialInv ==
    /\ v1 \in BOOLEAN /\ (v2 # <<>> => v1) /\ JournalHolds(v2)
    /\ v3 = {} \/ \E r \in Runs : v3 = {r}
    /\ v4 \in [Runs -> Process] /\ v5 \in [Runs -> Nat]
    /\ \A r \in Runs : Sound(v4[r], v5[r], v2) /\ (Opened(v4[r]) => v1)
    /\ \A r, q \in Runs : Opened(v4[r]) /\ Opened(v4[q]) => r = q

-----------------------------------------------------------------------------
(* Sums.                                                                     *)

(* The instance has its own copy of FiniteSets, and of Last.                 *)
LEMMA TrialCardinality ==
    ASSUME NEW X
    PROVE  T!Cardinality(X) = Cardinality(X)
BY DEF T!Cardinality, Cardinality, T!IsFiniteSet, IsFiniteSet

(* A set of one element or of none.                                          *)
LEMMA AtMostOne ==
    ASSUME NEW S, \A q, r \in S : q = r
    PROVE  T!Cardinality(S) <= 1
<1> PICK k : k = Cardinality(S)
  OBVIOUS
<1>1. ASSUME S = {} PROVE k = 0
  BY <1>1, FS_EmptySet
<1>2. ASSUME NEW r \in S PROVE k = 1
  <2>1. S = {r}
    OBVIOUS
  <2> QED
    BY <2>1, FS_Singleton
<1>3. k \in {0, 1}
  BY <1>1, <1>2, FS_EmptySet
<1>4. T!Cardinality(S) = k
  BY TrialCardinality
<1>5. k <= 1
  BY <1>3
<1> QED
  BY <1>4, <1>5

(* A total is the number of the units.                                       *)
LEMMA TotalIsUnits ==
    ASSUME NEW f
    PROVE  T!Total(f) = Cardinality(Units(f))
BY TrialCardinality DEF T!Total, Units

(* What each value has of the units.                                         *)
LEMMA UnitOf ==
    ASSUME NEW f, NEW u
    PROVE  u \in Units(f) <=> \E x \in DOMAIN f : \E k \in 1..f[x] : u = <<x, k>>
BY DEF Units

(* The units of one value.                                                   *)
LEMMA UnitsOfOne ==
    ASSUME NEW x, NEW n \in Nat
    PROVE  IsFiniteSet({x} \X (1..n)) /\ Cardinality({x} \X (1..n)) = n
<1>1. IsFiniteSet({x}) /\ Cardinality({x}) = 1
  BY FS_Singleton
<1>2. IsFiniteSet(1..n) /\ Cardinality(1..n) = n
  BY FS_Interval
<1>3. IsFiniteSet({x} \X (1..n))
  BY <1>1, <1>2, FS_Product
<1>4. Cardinality({x} \X (1..n)) = Cardinality({x}) * Cardinality(1..n)
  BY <1>1, <1>2, FS_Product
<1>5. Cardinality({x} \X (1..n)) = 1 * n
  BY <1>1, <1>2, <1>4
<1>6. 1 * n = n
  OBVIOUS
<1> QED
  BY <1>3, <1>5, <1>6

(* A value more is so many units more.                                       *)
LEMMA TotalGrows ==
    ASSUME NEW f, IsFiniteSet(Units(f)), NEW g, NEW x, x \notin DOMAIN f,
           DOMAIN g = DOMAIN f \cup {x}, \A y \in DOMAIN f : g[y] = f[y], g[x] \in Nat
    PROVE  /\ IsFiniteSet(Units(g))
           /\ Cardinality(Units(f)) \in Nat
           /\ Cardinality(Units(g)) = Cardinality(Units(f)) + g[x]
<1> PICK n : n = g[x]
  OBVIOUS
<1> DEFINE one == {x} \X (1..n)
<1>1. Units(g) = Units(f) \cup one
  <2>1. ASSUME NEW u, u \in Units(g) PROVE u \in Units(f) \cup one
    BY <2>1, UnitOf
  <2>2. ASSUME NEW u, u \in Units(f) PROVE u \in Units(g)
    BY <2>2, UnitOf
  <2>3. ASSUME NEW u, u \in one PROVE u \in Units(g)
    BY <2>3, UnitOf
  <2> QED
    BY <2>1, <2>2, <2>3
<1>2. Units(f) \cap one = {}
  BY UnitOf
<1>3. IsFiniteSet(one) /\ Cardinality(one) = n
  BY UnitsOfOne
<1> HIDE DEF one
<1>4. /\ IsFiniteSet(Units(f) \cup one)
      /\ Cardinality(Units(f) \cup one) = Cardinality(Units(f)) + n - Cardinality(Units(f) \cap one)
  BY <1>3, FS_Union
<1>5. Cardinality(Units(f)) \in Nat /\ Cardinality(Units(f) \cap one) = 0
  BY <1>2, FS_CardinalityType, FS_EmptySet
<1> QED
  BY <1>1, <1>4, <1>5

(* One value is another, at another place or the same.                       *)
LEMMA TotalMoves ==
    ASSUME NEW f, IsFiniteSet(Units(f)), NEW g, NEW x \in DOMAIN f, NEW y,
           y \notin DOMAIN f \ {x}, DOMAIN g = (DOMAIN f \ {x}) \cup {y},
           \A z \in DOMAIN f \ {x} : g[z] = f[z], f[x] \in Nat, g[y] \in Nat
    PROVE  /\ IsFiniteSet(Units(g))
           /\ Cardinality(Units(f)) \in Nat
           /\ Cardinality(Units(g)) = Cardinality(Units(f)) - f[x] + g[y]
<1> PICK h : h = [z \in DOMAIN f \ {x} |-> f[z]]
  OBVIOUS
<1>1. DOMAIN h = DOMAIN f \ {x} /\ \A z \in DOMAIN h : h[z] = f[z] /\ h[z] = g[z]
  OBVIOUS
<1>2. Units(h) \subseteq Units(f)
  BY <1>1, UnitOf
<1>3. IsFiniteSet(Units(h))
  BY <1>2, FS_Subset
<1>4. DOMAIN f = DOMAIN h \cup {x} /\ x \notin DOMAIN h
  BY <1>1
<1>5. DOMAIN g = DOMAIN h \cup {y} /\ y \notin DOMAIN h
  BY <1>1
<1>6. /\ Cardinality(Units(h)) \in Nat
      /\ Cardinality(Units(f)) = Cardinality(Units(h)) + f[x]
  <2>1. (\A z \in DOMAIN h : f[z] = h[z]) /\ f[x] \in Nat
    BY <1>1
  <2> QED
    BY ONLY <1>3, <1>4, <2>1, TotalGrows
<1>7. /\ IsFiniteSet(Units(g))
      /\ Cardinality(Units(g)) = Cardinality(Units(h)) + g[y]
  BY <1>1, <1>3, <1>5, TotalGrows
<1> QED
  BY <1>6, <1>7

(* A sum of which one value alone counts is that value.                      *)
LEMMA TotalOfOne ==
    ASSUME NEW f, NEW x, f[x] \in Nat, x \in DOMAIN f, \A y \in DOMAIN f : y # x => f[y] = 0
    PROVE  Cardinality(Units(f)) = f[x]
<1>1. Units(f) = {x} \X (1..f[x])
  <2>1. \A y \in DOMAIN f : y # x => 1..f[y] = {}
    OBVIOUS
  <2>2. ASSUME NEW u, u \in Units(f) PROVE u \in {x} \X (1..f[x])
    BY <2>1, <2>2, UnitOf
  <2>3. ASSUME NEW u, u \in {x} \X (1..f[x]) PROVE u \in Units(f)
    BY <2>3, UnitOf
  <2> QED
    BY <2>2, <2>3
<1> PICK n : n = f[x]
  OBVIOUS
<1> QED
  BY <1>1, UnitsOfOne

(* Nothing is the sum of nothing.                                            *)
LEMMA TotalOfNone ==
    ASSUME NEW f, \A x \in DOMAIN f : f[x] = 0
    PROVE  IsFiniteSet(Units(f)) /\ Cardinality(Units(f)) = 0
<1>1. \A x \in DOMAIN f : 1..f[x] = {}
  OBVIOUS
<1>2. Units(f) = {}
  BY <1>1, UnitOf
<1> QED
  BY <1>2, FS_EmptySet

-----------------------------------------------------------------------------
(* The journal and the calls.                                                *)

(* What is read of a journal.                                                *)
LEMMA ReadCover ==
    ASSUME NEW j
    PROVE  /\ \A i : i \in DOMAIN Cover(j) <=> i \in DOMAIN j /\ Counts(j, i)
           /\ \A i \in DOMAIN Cover(j) : Cover(j)[i] = j[i].bound_micro_usd
BY DEF Cover

(* What is read of calls.                                                    *)
LEMMA ReadBounds ==
    ASSUME NEW c
    PROVE  DOMAIN Bounds(c) = DOMAIN c /\ \A i \in DOMAIN c : Bounds(c)[i] = c[i].bound
BY DEF Bounds

(* The last of some calls.                                                   *)
LEMMA LastCallIs ==
    ASSUME NEW c \in Seq(Call), c # <<>>
    PROVE  Len(c) \in Nat /\ Len(c) \in DOMAIN c /\ c[Len(c)] \in Call
OBVIOUS

(* A journal with one event more.                                            *)
LEMMA LongerIs ==
    ASSUME NEW S, NEW j \in Seq(S), NEW e \in S, NEW k, k = Append(j, e)
    PROVE  /\ k \in Seq(S) /\ Len(j) \in Nat /\ Len(k) = Len(j) + 1
           /\ DOMAIN k = DOMAIN j \cup {Len(j) + 1} /\ Len(j) + 1 \notin DOMAIN j
           /\ \A i \in DOMAIN j : k[i] = j[i]
           /\ k[Len(j) + 1] = e
OBVIOUS

(* A note, which belongs to no call, changes nothing of what is covered.     *)
LEMMA NoteKeeps ==
    ASSUME NEW j, JournalHolds(j), NEW e \in Entry, e.event \notin {"reserved", "usage"},
           e.call = 0, NEW k, k = Append(j, e)
    PROVE  /\ JournalHolds(k) /\ Covered(k) = Covered(j)
           /\ \A p \in Process, b \in Nat : Sound(p, b, j) => Sound(p, b, k)
<1>1. j \in Seq(Entry)
  BY DEF JournalHolds
<1>2. /\ k \in Seq(Entry) /\ Len(j) \in Nat
      /\ DOMAIN k = DOMAIN j \cup {Len(j) + 1} /\ Len(j) + 1 \notin DOMAIN j
      /\ \A i \in DOMAIN j : k[i] = j[i]
      /\ k[Len(j) + 1] = e
  BY <1>1, LongerIs
<1>3. \A i \in DOMAIN j : Counts(k, i) <=> Counts(j, i)
  BY <1>2 DEF Counts
<1>4. ~Counts(k, Len(j) + 1)
  BY <1>2 DEF Counts
<1>5. {i \in DOMAIN k : Counts(k, i)} = {i \in DOMAIN j : Counts(j, i)}
  BY <1>2, <1>3, <1>4
<1>6. Cover(k) = Cover(j)
  BY <1>2, <1>5 DEF Cover
<1>7. ASSUME NEW p \in Process, NEW b \in Nat, Sound(p, b, j) PROVE Sound(p, b, k)
  <2>1. Len(p.calls) \in Nat /\ (p.calls # <<>> => Len(p.calls) > 0)
    BY DEF Process, CallLists
  <2>2. (\A i \in DOMAIN j : j[i].call <= Len(p.calls)) =>
            \A i \in DOMAIN k : k[i].call <= Len(p.calls)
    BY <1>2, <2>1
  <2>3. ASSUME NEW bound, Reserved(j, Len(p.calls), bound), p.calls # <<>>
        PROVE  Reserved(k, Len(p.calls), bound)
    BY <1>2, <2>1, <2>3 DEF Reserved
  <2> QED
    BY <1>6, <1>7, <2>2, <2>3 DEF Sound, Covered
<1> QED
  BY <1>2, <1>6, <1>7 DEF JournalHolds, Covered

(* A reservation for the next call is covered from now on.                   *)
LEMMA ReservationIs ==
    ASSUME NEW j, JournalHolds(j), NEW n \in Nat, \A i \in DOMAIN j : j[i].call <= n,
           NEW e \in Entry, e.event = "reserved", e.call = n + 1,
           Covered(j) + e.bound_micro_usd <= MaxMicroUsd, NEW k, k = Append(j, e)
    PROVE  /\ JournalHolds(k) /\ Covered(j) \in Nat
           /\ Covered(k) = Covered(j) + e.bound_micro_usd
           /\ Reserved(k, n + 1, e.bound_micro_usd)
           /\ \A i \in DOMAIN k : k[i].call <= n + 1
<1>1. j \in Seq(Entry) /\ \A i \in DOMAIN j : j[i].call \in Nat
  <2>1. j \in Seq(Entry)
    BY DEF JournalHolds
  <2>2. \A i \in DOMAIN j : j[i] \in Entry
    BY <2>1
  <2> QED
    BY <2>1, <2>2 DEF Entry
<1>2. /\ k \in Seq(Entry) /\ Len(j) \in Nat
      /\ DOMAIN k = DOMAIN j \cup {Len(j) + 1} /\ Len(j) + 1 \notin DOMAIN j
      /\ \A i \in DOMAIN j : k[i] = j[i]
      /\ k[Len(j) + 1] = e
  BY <1>1, LongerIs
<1>3. \A i \in DOMAIN j : j[i].call # n + 1
  BY <1>1
<1>4. \A i \in DOMAIN j : Counts(k, i) <=> Counts(j, i)
  BY <1>2 DEF Counts
<1>5. Counts(k, Len(j) + 1)
  BY <1>2, <1>3 DEF Counts
<1>6. e.bound_micro_usd \in Nat
  BY DEF Entry
<1>7. /\ DOMAIN Cover(k) = DOMAIN Cover(j) \cup {Len(j) + 1} /\ Len(j) + 1 \notin DOMAIN Cover(j)
      /\ \A i \in DOMAIN Cover(j) : Cover(k)[i] = Cover(j)[i]
      /\ Cover(k)[Len(j) + 1] = e.bound_micro_usd
  <2>1. /\ \A i : i \in DOMAIN Cover(j) <=> i \in DOMAIN j /\ Counts(j, i)
        /\ \A i \in DOMAIN Cover(j) : Cover(j)[i] = j[i].bound_micro_usd
    BY ReadCover
  <2>2. /\ \A i : i \in DOMAIN Cover(k) <=> i \in DOMAIN k /\ Counts(k, i)
        /\ \A i \in DOMAIN Cover(k) : Cover(k)[i] = k[i].bound_micro_usd
    BY ReadCover
  <2>3. \A i : i \in DOMAIN Cover(k) <=> i \in DOMAIN Cover(j) \cup {Len(j) + 1}
    BY <1>2, <1>4, <1>5, <2>1, <2>2
  <2> QED
    BY <1>2, <2>1, <2>2, <2>3
<1>8. IsFiniteSet(Units(Cover(j)))
  BY DEF JournalHolds
<1>9. /\ IsFiniteSet(Units(Cover(k))) /\ Cardinality(Units(Cover(j))) \in Nat
      /\ Cardinality(Units(Cover(k))) = Cardinality(Units(Cover(j))) + Cover(k)[Len(j) + 1]
  BY <1>6, <1>7, <1>8, TotalGrows
<1>10. Reserved(k, n + 1, e.bound_micro_usd)
  BY <1>2, <1>3 DEF Reserved
<1>11. \A i \in DOMAIN k : k[i].call <= n + 1
  BY <1>1, <1>2
<1> QED
  BY <1>2, <1>7, <1>9, <1>10, <1>11 DEF JournalHolds, Covered

(* The usage of a call takes the place of its reservation.                   *)
LEMMA UsageIs ==
    ASSUME NEW j, JournalHolds(j), NEW n, NEW bound \in Nat, Reserved(j, n, bound),
           NEW e \in Entry, e.event = "usage", e.call = n, e.bound_micro_usd <= bound,
           NEW k, k = Append(j, e)
    PROVE  /\ JournalHolds(k) /\ Covered(j) \in Nat
           /\ Covered(k) = Covered(j) - bound + e.bound_micro_usd
<1>1. j \in Seq(Entry)
  BY DEF JournalHolds
<1>2. /\ k \in Seq(Entry) /\ Len(j) \in Nat
      /\ DOMAIN k = DOMAIN j \cup {Len(j) + 1} /\ Len(j) + 1 \notin DOMAIN j
      /\ \A i \in DOMAIN j : k[i] = j[i]
      /\ k[Len(j) + 1] = e
  BY <1>1, LongerIs
<1>3. PICK x \in DOMAIN j :
        /\ j[x].event = "reserved" /\ j[x].call = n /\ j[x].bound_micro_usd = bound
        /\ \A i \in DOMAIN j : j[i].call = n => i = x
  BY DEF Reserved
<1>4. Counts(j, x)
  BY <1>3 DEF Counts
<1>5. ~Counts(k, x)
  BY <1>2, <1>3 DEF Counts
<1>6. \A i \in DOMAIN j \ {x} : Counts(k, i) <=> Counts(j, i)
  BY <1>2, <1>3 DEF Counts
<1>7. Counts(k, Len(j) + 1)
  BY <1>2 DEF Counts
<1>8. x \in DOMAIN Cover(j) /\ Cover(j)[x] = bound
  BY <1>3, <1>4, ReadCover
<1>9. /\ DOMAIN Cover(k) = (DOMAIN Cover(j) \ {x}) \cup {Len(j) + 1}
      /\ Len(j) + 1 \notin DOMAIN Cover(j)
      /\ \A i \in DOMAIN Cover(j) \ {x} : Cover(k)[i] = Cover(j)[i]
      /\ Cover(k)[Len(j) + 1] = e.bound_micro_usd
  <2>1. /\ \A i : i \in DOMAIN Cover(j) <=> i \in DOMAIN j /\ Counts(j, i)
        /\ \A i \in DOMAIN Cover(j) : Cover(j)[i] = j[i].bound_micro_usd
    BY ReadCover
  <2>2. /\ \A i : i \in DOMAIN Cover(k) <=> i \in DOMAIN k /\ Counts(k, i)
        /\ \A i \in DOMAIN Cover(k) : Cover(k)[i] = k[i].bound_micro_usd
    BY ReadCover
  <2>3. \A i : i \in DOMAIN Cover(k) <=> i \in (DOMAIN Cover(j) \ {x}) \cup {Len(j) + 1}
    BY <1>2, <1>3, <1>5, <1>6, <1>7, <2>1, <2>2
  <2> QED
    BY <1>2, <2>1, <2>2, <2>3
<1>11. IsFiniteSet(Units(Cover(j))) /\ e.bound_micro_usd \in Nat
  BY DEF JournalHolds, Entry
<1>12. /\ IsFiniteSet(Units(Cover(k))) /\ Cardinality(Units(Cover(j))) \in Nat
       /\ Cardinality(Units(Cover(k))) =
              Cardinality(Units(Cover(j))) - Cover(j)[x] + Cover(k)[Len(j) + 1]
  BY <1>8, <1>9, <1>11, TotalMoves
<1>13. Covered(j) \in Nat /\ Covered(k) = Covered(j) - bound + e.bound_micro_usd
  BY <1>8, <1>9, <1>12 DEF Covered
<1>14. Covered(k) <= MaxMicroUsd
  BY <1>11, <1>13, Assumptions DEF JournalHolds, T!BudgetAssumption
<1> QED
  BY <1>2, <1>12, <1>13, <1>14 DEF JournalHolds

(* A call more is charged with its bound.                                    *)
LEMMA ChargeGrows ==
    ASSUME NEW S, NEW c \in Seq(S), IsFiniteSet(Units(Bounds(c))), NEW x \in S, x.bound \in Nat,
           NEW d, d = Append(c, x)
    PROVE  /\ IsFiniteSet(Units(Bounds(d))) /\ Charged(c) \in Nat
           /\ Charged(d) = Charged(c) + x.bound
<1>1. /\ DOMAIN d = DOMAIN c \cup {Len(c) + 1} /\ Len(c) + 1 \notin DOMAIN c
      /\ \A i \in DOMAIN c : d[i] = c[i]
      /\ d[Len(c) + 1] = x
  BY LongerIs
<1>2. /\ DOMAIN Bounds(d) = DOMAIN Bounds(c) \cup {Len(c) + 1} /\ Len(c) + 1 \notin DOMAIN Bounds(c)
      /\ \A i \in DOMAIN Bounds(c) : Bounds(d)[i] = Bounds(c)[i]
      /\ Bounds(d)[Len(c) + 1] = x.bound
  <2>1. DOMAIN Bounds(c) = DOMAIN c /\ \A i \in DOMAIN c : Bounds(c)[i] = c[i].bound
    BY ReadBounds
  <2>2. DOMAIN Bounds(d) = DOMAIN d /\ \A i \in DOMAIN d : Bounds(d)[i] = d[i].bound
    BY ReadBounds
  <2> QED
    BY <1>1, <2>1, <2>2
<1> QED
  BY <1>2, TotalGrows DEF Charged

(* What the last call cost takes the place of its bound.                     *)
LEMMA ChargeMoves ==
    ASSUME NEW S, NEW c \in Seq(S), IsFiniteSet(Units(Bounds(c))), c # <<>>,
           c[Len(c)].bound \in Nat, NEW x, x.bound \in Nat, NEW d, d = [c EXCEPT ![Len(c)] = x]
    PROVE  /\ IsFiniteSet(Units(Bounds(d))) /\ Charged(c) \in Nat
           /\ Charged(d) = Charged(c) - c[Len(c)].bound + x.bound
<1> PICK n : n = Len(c)
  OBVIOUS
<1>1. n \in DOMAIN c /\ DOMAIN d = DOMAIN c /\ d[n] = x /\ \A i \in DOMAIN c \ {n} : d[i] = c[i]
  OBVIOUS
<1>2. /\ n \in DOMAIN Bounds(c) /\ n \notin DOMAIN Bounds(c) \ {n}
      /\ DOMAIN Bounds(d) = (DOMAIN Bounds(c) \ {n}) \cup {n}
      /\ \A i \in DOMAIN Bounds(c) \ {n} : Bounds(d)[i] = Bounds(c)[i]
      /\ Bounds(c)[n] = c[n].bound /\ Bounds(d)[n] = x.bound
  <2>1. DOMAIN Bounds(c) = DOMAIN c /\ \A i \in DOMAIN c : Bounds(c)[i] = c[i].bound
    BY ReadBounds
  <2>2. DOMAIN Bounds(d) = DOMAIN d /\ \A i \in DOMAIN d : Bounds(d)[i] = d[i].bound
    BY ReadBounds
  <2> QED
    BY <1>1, <2>1, <2>2
<1>3. /\ IsFiniteSet(Units(Bounds(d))) /\ Cardinality(Units(Bounds(c))) \in Nat
      /\ Cardinality(Units(Bounds(d))) =
             Cardinality(Units(Bounds(c))) - Bounds(c)[n] + Bounds(d)[n]
  <2>1. Bounds(c)[n] \in Nat /\ Bounds(d)[n] \in Nat
    BY <1>2
  <2> QED
    BY ONLY <1>2, <2>1, IsFiniteSet(Units(Bounds(c))), TotalMoves
<1> QED
  BY <1>2, <1>3 DEF Charged

-----------------------------------------------------------------------------
(* The processes.                                                            *)

(* Whoever has not opened the journal is sound whatever it holds.            *)
LEMMA UnopenedIsSound ==
    ASSUME NEW p \in Process, ~Opened(p), NEW j, JournalHolds(j)
    PROVE  Sound(p, 0, j)
<1>1. p.calls = <<>> /\ p.pc \notin Going
  BY DEF Opened
<1>2. \A x \in DOMAIN Bounds(p.calls) : Bounds(p.calls)[x] = 0
  BY <1>1 DEF Bounds
<1>3. IsFiniteSet(Units(Bounds(p.calls)))
  BY <1>2, TotalOfNone
<1>4. Covered(j) \in Nat
  BY FS_CardinalityType DEF JournalHolds, Covered
<1> QED
  BY <1>1, <1>3, <1>4 DEF Sound, Going

(* A process steps, and its journal or its bill may grow with it.            *)
TrialStep(r, p, b) ==
    /\ v4' = [v4 EXCEPT ![r] = p] /\ v5' = [v5 EXCEPT ![r] = b]
    /\ v1' \in BOOLEAN /\ (v1 => v1')
    /\ v2' # <<>> => v1'
    /\ v3' = {} \/ \E q \in Runs : v3' = {q}
    /\ Opened(p) => v1' /\ (Opened(v4[r]) \/ ~v1)
    /\ v2' = v2 \/ Opened(v4[r]) \/ ~v1

(* All other processes are as sound as before.                               *)
LEMMA TrialMoves ==
    ASSUME TrialInv, NEW r \in Runs, NEW p \in Process, NEW b \in Nat,
           TrialStep(r, p, b), JournalHolds(v2'), Sound(p, b, v2')
    PROVE  TrialInv'
<1>1. v4 \in [Runs -> Process] /\ v5 \in [Runs -> Nat]
  BY DEF TrialInv
<1>2. /\ v4' \in [Runs -> Process] /\ v5' \in [Runs -> Nat] /\ v4'[r] = p /\ v5'[r] = b
      /\ \A q \in Runs \ {r} : v4'[q] = v4[q] /\ v5'[q] = v5[q]
  BY <1>1 DEF TrialStep
<1>3. ASSUME NEW q \in Runs \ {r} PROVE Sound(v4[q], v5[q], v2') /\ (Opened(v4[q]) => v1')
  <2>1. Sound(v4[q], v5[q], v2) /\ (Opened(v4[q]) => v1) /\ v4[q] \in Process
    BY <1>1 DEF TrialInv
  <2>2. CASE v2' = v2
    BY <2>1, <2>2 DEF TrialStep
  <2>3. CASE v2' # v2
    <3>1. ~Opened(v4[q])
      BY <2>1, <2>3 DEF TrialStep, TrialInv
    <3>2. v5[q] = 0
      BY <2>1, <3>1 DEF Opened, Sound
    <3> QED
      BY <2>1, <3>1, <3>2, UnopenedIsSound
  <2> QED
    BY <2>2, <2>3
<1>4. \A q \in Runs : Sound(v4'[q], v5'[q], v2') /\ (Opened(v4'[q]) => v1')
  BY <1>2, <1>3 DEF TrialStep
<1>5. ASSUME NEW q \in Runs, NEW s \in Runs, Opened(v4'[q]), Opened(v4'[s]) PROVE q = s
  <2>1. ASSUME NEW t \in Runs \ {r}, Opened(v4'[t]), Opened(v4'[r]) PROVE FALSE
    <3>1. Opened(v4[t]) /\ Opened(p)
      BY <1>2, <2>1
    <3>2. v1 /\ (Opened(v4[r]) \/ ~v1)
      BY <3>1 DEF TrialInv, TrialStep
    <3> QED
      BY <2>1, <3>1, <3>2 DEF TrialInv
  <2>2. CASE q # r /\ s # r
    BY <1>2, <1>5, <2>2 DEF TrialInv
  <2> QED
    BY <1>5, <2>1, <2>2
<1>6. /\ v1' \in BOOLEAN /\ (v2' # <<>> => v1')
      /\ v3' = {} \/ \E q \in Runs : v3' = {q}
  BY DEF TrialStep
<1> QED
  BY <1>2, <1>4, <1>5, <1>6 DEF TrialInv

(* q has made no call more than p, and is where p was or has stopped.        *)
Follows(q, p) ==
    /\ q.calls = p.calls /\ q.pc \notin {"reserved", "answered"}
    /\ q.pc \in {"idle", "checked", "open"} => p.calls = <<>>
    /\ q.pc \in Going /\ ~q.stopped => p.pc \in Going /\ ~p.stopped
    /\ Opened(q) => Opened(p)

(* A process that makes no call notes at most something in the journal.      *)
LEMMA FollowingKeeps ==
    ASSUME TrialInv, NEW r \in Runs, NEW p \in Process, Follows(p, v4[r]),
           v4' = [v4 EXCEPT ![r] = p], UNCHANGED <<v1, v5>>,
           v3' = {} \/ \E q \in Runs : v3' = {q},
           NEW kind \in {"created", "turn", "stopped", "checkpoint"},
           v2' = v2 \/ (Opened(v4[r]) /\ v2' = Append(v2, T!Note(kind)))
    PROVE  TrialInv'
<1>1. v4[r] \in Process /\ v5[r] \in Nat /\ JournalHolds(v2) /\ Sound(v4[r], v5[r], v2)
  BY DEF TrialInv
<1>2. PICK e : e = T!Note(kind)
  OBVIOUS
<1>3. e \in Entry /\ e.event \notin {"reserved", "usage"} /\ e.call = 0
  BY <1>2, Assumptions DEF T!Note, T!Event, Entry, T!BudgetAssumption
<1>4. JournalHolds(v2') /\ Sound(v4[r], v5[r], v2')
  BY <1>1, <1>2, <1>3, NoteKeeps
<1>5. Sound(p, v5[r], v2')
  BY <1>4 DEF Follows, Sound
<1>6. v5' = [v5 EXCEPT ![r] = v5[r]]
  BY DEF TrialInv
<1>7. TrialStep(r, p, v5[r])
  <2>1. Opened(v4[r]) => v1
    BY DEF TrialInv
  <2>2. v1 \in BOOLEAN /\ (v2 # <<>> => v1)
    BY DEF TrialInv
  <2> QED
    BY <1>6, <2>1, <2>2 DEF TrialStep, Follows
<1> QED
  BY <1>1, <1>4, <1>5, <1>7, TrialMoves

(* What goes on without a call, ends or raises.                              *)
LEMMA Followers ==
    ASSUME NEW p \in Process, NEW q
    PROVE  /\ q = [p EXCEPT !.pc = "cleanup"] /\ p.pc \in Going => q \in Process /\ Follows(q, p)
           /\ q = [p EXCEPT !.pc = "ended"] => q \in Process /\ Follows(q, p)
           /\ q = [p EXCEPT !.pc = "crashed"] => q \in Process /\ Follows(q, p)
           /\ \A pc \in {"cleanup", "turn"}, stops \in BOOLEAN :
                p.pc \in Going /\ q = [p EXCEPT !.pc = pc, !.seen = @ \cup {"failure"},
                                                !.stopped = @ \/ stops]
                    => q \in Process /\ Follows(q, p)
<1>1. CASE q = [p EXCEPT !.pc = "cleanup"] /\ p.pc \in Going
  BY <1>1 DEF Process, Follows, Opened, Going
<1>2. CASE q = [p EXCEPT !.pc = "ended"]
  BY <1>2 DEF Process, Follows, Opened, Going
<1>3. CASE q = [p EXCEPT !.pc = "crashed"]
  BY <1>3 DEF Process, Follows, Opened, Going
<1>4. ASSUME NEW pc \in {"cleanup", "turn"}, NEW stops \in BOOLEAN, p.pc \in Going,
             q = [p EXCEPT !.pc = pc, !.seen = @ \cup {"failure"}, !.stopped = @ \/ stops]
      PROVE  q \in Process /\ Follows(q, p)
  BY <1>4 DEF Process, Follows, Opened, Going
<1> QED
  BY <1>1, <1>2, <1>3, <1>4

-----------------------------------------------------------------------------
(* The actions.                                                              *)

(* An exception, with or without a line in the journal.                      *)
LEMMA RaiseKeeps ==
    ASSUME TrialInv, NEW r \in Runs, NEW stops \in BOOLEAN, T!Raise(r, stops),
           v4[r].pc \in Going, UNCHANGED <<v1, v3, v5>>,
           NEW kind \in {"created", "turn", "stopped", "checkpoint"},
           v2' = v2 \/ v2' = Append(v2, T!Note(kind))
    PROVE  TrialInv'
<1> PICK pc \in {"cleanup", "turn"} : \E q :
        /\ q = [v4[r] EXCEPT !.pc = pc, !.seen = @ \cup {"failure"}, !.stopped = @ \/ stops]
        /\ v4' = [v4 EXCEPT ![r] = q]
  BY DEF T!Raise, T!To
<1>1. PICK q :
        /\ q = [v4[r] EXCEPT !.pc = pc, !.seen = @ \cup {"failure"}, !.stopped = @ \/ stops]
        /\ v4' = [v4 EXCEPT ![r] = q]
  OBVIOUS
<1>2. v4[r] \in Process /\ Opened(v4[r])
  BY DEF TrialInv, Opened
<1>3. q \in Process /\ Follows(q, v4[r])
  BY <1>1, <1>2, Followers
<1>4. v3' = {} \/ \E s \in Runs : v3' = {s}
  BY DEF TrialInv
<1> QED
  BY <1>1, <1>2, <1>3, <1>4, FollowingKeeps

(* A run that ends, its container there or not.                              *)
LEMMA EndsKeeps ==
    ASSUME TrialInv, NEW r \in Runs, T!Ends(r), v4[r].pc \in Going, UNCHANGED <<v1, v5>>,
           v3' = v3 \/ v3' = {} \/ v3' = {r},
           NEW kind \in {"created", "turn", "stopped", "checkpoint"},
           v2' = v2 \/ v2' = Append(v2, T!Note(kind))
    PROVE  TrialInv'
<1>1. PICK q : q = [v4[r] EXCEPT !.pc = "cleanup"] /\ v4' = [v4 EXCEPT ![r] = q]
  BY DEF T!Ends, T!To
<1>2. v4[r] \in Process /\ Opened(v4[r])
  BY DEF TrialInv, Opened
<1>3. q \in Process /\ Follows(q, v4[r])
  BY <1>1, <1>2, Followers
<1>4. v3' = {} \/ \E s \in Runs : v3' = {s}
  BY DEF TrialInv
<1> QED
  BY <1>1, <1>2, <1>3, <1>4, FollowingKeeps

(* A process begins, or finds another trial.                                 *)
LEMMA StartKeeps ==
    ASSUME TrialInv, NEW r \in Runs, T!trial_journal(r)
    PROVE  TrialInv'
<1> PICK pc \in {"ended", "checked"} : \E q :
        q = [v4[r] EXCEPT !.pc = pc] /\ v4' = [v4 EXCEPT ![r] = q]
  BY DEF T!trial_journal, T!To
<1>1. PICK q : q = [v4[r] EXCEPT !.pc = pc] /\ v4' = [v4 EXCEPT ![r] = q]
  OBVIOUS
<1>2. v4[r] \in Process /\ v4[r].pc = "idle" /\ v4[r].calls = <<>>
  BY DEF TrialInv, Sound, T!trial_journal
<1>3. q \in Process /\ Follows(q, v4[r])
  BY <1>1, <1>2 DEF Process, Follows, Opened, Going
<1>4. /\ UNCHANGED <<v1, v2, v3, v5>> /\ "created" \in {"created", "turn", "stopped", "checkpoint"}
      /\ v3' = {} \/ \E s \in Runs : v3' = {s}
  BY DEF T!trial_journal, TrialInv
<1> QED
  BY <1>1, <1>3, <1>4, FollowingKeeps

(* One process creates the journal, of all that saw that there is none.      *)
LEMMA CreateJournalKeeps ==
    ASSUME TrialInv, NEW r \in Runs, T!TrialBudget(r)
    PROVE  TrialInv'
<1>1. /\ v4[r] \in Process /\ v4[r].pc = "checked" /\ v4[r].calls = <<>>
      /\ v5[r] \in Nat /\ v5[r] = 0 /\ v5' = [v5 EXCEPT ![r] = v5[r]]
      /\ JournalHolds(v2) /\ ~Opened(v4[r])
  BY DEF TrialInv, Sound, T!TrialBudget, Opened, Going
<1>2. v3' = {} \/ \E s \in Runs : v3' = {s}
  BY DEF T!TrialBudget, TrialInv
<1>3. PICK e : e = T!Note("created")
  OBVIOUS
<1>4. e \in Entry /\ e.event \notin {"reserved", "usage"} /\ e.call = 0
  BY <1>3, Assumptions DEF T!Note, T!Event, Entry, T!BudgetAssumption
<1>5. CASE v1
  <2>1. PICK q : q = [v4[r] EXCEPT !.pc = "ended"] /\ v4' = [v4 EXCEPT ![r] = q]
    BY <1>5 DEF T!TrialBudget, T!MayCreate, T!To
  <2>2. UNCHANGED <<v1, v2, v5>>
    BY <1>5 DEF T!TrialBudget, T!MayCreate
  <2>3. q \in Process /\ Follows(q, v4[r])
    BY <1>1, <2>1, Followers
  <2> QED
    BY <1>2, <2>1, <2>2, <2>3, FollowingKeeps
<1>6. CASE ~v1
  <2>1. v2 = <<>> /\ v1' = TRUE
    BY <1>6 DEF T!TrialBudget, T!MayCreate, TrialInv
  <2> PICK pc \in {"open", "ended"} : \E q :
          /\ q = [v4[r] EXCEPT !.pc = pc] /\ v4' = [v4 EXCEPT ![r] = q]
          /\ v2' = Append(v2, e) \/ (v2' = v2 /\ pc = "ended")
    BY <1>3, <1>6 DEF T!TrialBudget, T!MayCreate, T!To
  <2>2. PICK q :
          /\ q = [v4[r] EXCEPT !.pc = pc] /\ v4' = [v4 EXCEPT ![r] = q]
          /\ v2' = Append(v2, e) \/ (v2' = v2 /\ pc = "ended")
    OBVIOUS
  <2>3. JournalHolds(v2') /\ Covered(v2') = Covered(v2)
    BY <1>1, <1>4, <2>2, NoteKeeps
  <2>4. q \in Process /\ q.calls = <<>> /\ q.pc = pc
    BY <1>1, <2>2 DEF Process, Going
  <2>5. TrialStep(r, q, v5[r])
    BY <1>1, <1>2, <1>6, <2>1, <2>2 DEF TrialStep
  <2>6. Sound(q, v5[r], v2')
    <3>1. CASE pc = "ended"
      BY <1>1, <2>3, <2>4, <3>1, UnopenedIsSound DEF Opened, Going
    <3>2. CASE pc = "open"
      <4>1. v2' = <<e>>
        BY <2>1, <2>2, <3>2
      <4>2. \A i \in DOMAIN v2' : v2'[i].call <= Len(q.calls)
        BY <1>4, <2>4, <4>1
      <4>3. DOMAIN Cover(v2) = {} /\ DOMAIN Bounds(q.calls) = {}
        <5>1. \A i : i \in DOMAIN Cover(v2) <=> i \in DOMAIN v2 /\ Counts(v2, i)
          BY ReadCover
        <5>2. DOMAIN Bounds(q.calls) = DOMAIN q.calls
          BY ReadBounds
        <5>3. DOMAIN v2 = {} /\ DOMAIN q.calls = {}
          BY <2>1, <2>4
        <5> QED
          BY <5>1, <5>2, <5>3
      <4>4. /\ Covered(v2) = 0 /\ Charged(q.calls) = 0
            /\ IsFiniteSet(Units(Bounds(q.calls)))
        BY <4>3, TotalOfNone DEF Covered, Charged
      <4> QED
        BY <1>1, <2>3, <2>4, <3>2, <4>2, <4>4 DEF Sound
    <3> QED
      BY <3>1, <3>2
  <2> QED
    BY <1>1, <2>3, <2>4, <2>5, <2>6, TrialMoves
<1> QED
  BY <1>5, <1>6 DEF TrialInv

(* A container is started, or the process leaves, or goes on to a turn.      *)
LEMMA OutsideKeeps ==
    ASSUME TrialInv, NEW r \in Runs,
           T!StartContainer(r) \/ T!LeaveCases(r) \/ T!turn(r) \/ T!require(r)
    PROVE  TrialInv'
<1>1. v4[r] \in Process /\ Opened(v4[r]) /\ v4[r].pc \in Going
  BY DEF TrialInv, Opened, Going, T!StartContainer, T!LeaveCases, T!turn, T!require
<1>2. UNCHANGED <<v1, v5>> /\ (v3' = v3 \/ v3' = {} \/ v3' = {r})
  BY DEF T!StartContainer, T!LeaveCases, T!turn, T!require
<1>3. v3' = {} \/ \E s \in Runs : v3' = {s}
  BY <1>2 DEF TrialInv
<1>4. CASE T!Ends(r) /\ (v2' = v2 \/ v2' = Append(v2, T!Note("turn")))
  BY <1>1, <1>2, <1>4, EndsKeeps
<1>5. CASE T!To(r, [v4[r] EXCEPT !.pc = "up", !.owned = TRUE]) /\ v2' = v2
           /\ v4[r].pc = "open"
  <2>1. PICK q : q = [v4[r] EXCEPT !.pc = "up", !.owned = TRUE] /\ v4' = [v4 EXCEPT ![r] = q]
    BY <1>5 DEF T!To
  <2>2. q \in Process /\ Follows(q, v4[r])
    BY <1>1, <2>1 DEF Process, Follows, Opened, Going
  <2> QED
    BY <1>2, <1>3, <1>5, <2>1, <2>2, FollowingKeeps
<1>6. CASE /\ T!To(r, [v4[r] EXCEPT !.pc = "turn", !.at = @ + 1, !.seen = {}, !.replaying = FALSE])
           /\ v2' = Append(v2, T!Note("turn")) /\ v4[r].at < MaxTurns
  <2>1. PICK q : /\ q = [v4[r] EXCEPT !.pc = "turn", !.at = @ + 1, !.seen = {},
                                      !.replaying = FALSE]
                 /\ v4' = [v4 EXCEPT ![r] = q]
    BY <1>6 DEF T!To
  <2>2. v4[r].at + 1 \in 0..MaxTurns
    BY <1>1, <1>6, Assumptions DEF Process, CallLists, T!BudgetAssumption
  <2>3. q \in Process /\ Follows(q, v4[r])
    BY <1>1, <2>1, <2>2 DEF Process, Follows, Opened, Going
  <2> QED
    BY <1>1, <1>2, <1>3, <1>6, <2>1, <2>3, FollowingKeeps
<1> QED
  <2>1. v4[r].at \in Nat /\ MaxTurns \in Nat
    BY <1>1, Assumptions DEF Process, CallLists, T!BudgetAssumption
  <2> QED
    BY <1>4, <1>5, <1>6, <2>1 DEF T!StartContainer, T!LeaveCases, T!turn, T!require

(* What was observed is noted, and a shown case is sent again.               *)
LEMMA ObservingKeeps ==
    ASSUME TrialInv, NEW r \in Runs, T!Observe(r) \/ T!Replay(r) \/ T!Evidence(r)
    PROVE  TrialInv'
<1>1. v4[r] \in Process /\ Opened(v4[r]) /\ v4[r].pc \in Going /\ v4[r].pc = "turn"
  BY DEF TrialInv, Opened, Going, T!Observe, T!Replay, T!Evidence
<1>2. UNCHANGED <<v1, v3, v5>> /\ (v3' = {} \/ \E s \in Runs : v3' = {s})
  BY DEF T!Observe, T!Replay, T!Evidence, TrialInv
<1>3. CASE T!Raise(r, TRUE) /\ (v2' = v2 \/ v2' = Append(v2, T!Note("checkpoint")))
  BY <1>1, <1>2, <1>3, RaiseKeeps
<1>4. CASE \E q : /\ q \in {v4[r], [v4[r] EXCEPT !.replaying = TRUE], [v4[r] EXCEPT !.pc = "up"]}
                  /\ T!To(r, q) /\ (v2' = v2 \/ v2' = Append(v2, T!Note("checkpoint")))
  <2>1. PICK q : /\ q \in {v4[r], [v4[r] EXCEPT !.replaying = TRUE], [v4[r] EXCEPT !.pc = "up"]}
                 /\ v4' = [v4 EXCEPT ![r] = q]
                 /\ v2' = v2 \/ v2' = Append(v2, T!Note("checkpoint"))
    BY <1>4 DEF T!To
  <2>2. q \in Process /\ Follows(q, v4[r])
    BY <1>1, <2>1 DEF Process, Follows, Opened, Going
  <2> QED
    BY <1>1, <1>2, <2>1, <2>2, FollowingKeeps
<1> QED
  BY <1>3, <1>4 DEF T!Observe, T!Replay, T!Evidence, T!checkpoint, T!_append

(* A call that failed stops the budget; a run is cleaned up, or crashes.     *)
LEMMA EndingKeeps ==
    ASSUME TrialInv, NEW r \in Runs, T!fail(r) \/ T!Cleanup(r) \/ T!Crash(r)
    PROVE  TrialInv'
<1>1. v4[r] \in Process
  BY DEF TrialInv
<1>2. CASE T!fail(r)
  BY <1>2, RaiseKeeps DEF T!fail, Going
<1>3. CASE T!Cleanup(r) \/ T!Crash(r)
  <2> PICK pc \in {"ended", "crashed"} : \E q :
          q = [v4[r] EXCEPT !.pc = pc] /\ v4' = [v4 EXCEPT ![r] = q]
    BY <1>3 DEF T!Cleanup, T!Crash, T!To
  <2>1. PICK q : q = [v4[r] EXCEPT !.pc = pc] /\ v4' = [v4 EXCEPT ![r] = q]
    OBVIOUS
  <2>2. q \in Process /\ Follows(q, v4[r])
    BY <1>1, <2>1, Followers
  <2>3. UNCHANGED <<v1, v2, v5>> /\ (v3' = {} \/ \E s \in Runs : v3' = {s})
    BY <1>3 DEF T!Cleanup, T!Crash, TrialInv
  <2> QED
    BY <2>1, <2>2, <2>3, FollowingKeeps
<1> QED
  BY <1>2, <1>3

(* A reservation is on disk before its call, within the owner's limit.       *)
LEMMA ReserveKeeps ==
    ASSUME TrialInv, NEW r \in Runs, T!reserve(r)
    PROVE  TrialInv'
<1>1. /\ v4[r] \in Process /\ Opened(v4[r]) /\ v4[r].pc \in Going /\ v4[r].pc = "turn"
      /\ v5[r] \in Nat /\ JournalHolds(v2) /\ Sound(v4[r], v5[r], v2)
  BY DEF TrialInv, Opened, Going, T!reserve
<1>2. /\ UNCHANGED <<v1, v3, v5>> /\ v5' = [v5 EXCEPT ![r] = v5[r]]
      /\ v3' = {} \/ \E s \in Runs : v3' = {s}
      /\ v1 = TRUE
  BY <1>1 DEF T!reserve, TrialInv
<1>3. CASE \E stops \in BOOLEAN : T!Raise(r, stops) /\ v2' = v2
  BY <1>1, <1>2, <1>3, RaiseKeeps
<1>4. ASSUME NEW amount \in Amounts, T!Affordable(r, amount), ~v4[r].stopped,
             Len(v4[r].calls) < MaxCalls,
             T!_append(r, T!Event("reserved", Len(v4[r].calls) + 1, amount),
                [v4[r] EXCEPT !.pc = "reserved",
                              !.calls = Append(@, [bound |-> amount, settled |-> FALSE])])
      PROVE  TrialInv'
  <2> PICK e : e = T!Event("reserved", Len(v4[r].calls) + 1, amount)
    OBVIOUS
  <2> PICK n : n = Len(v4[r].calls)
    OBVIOUS
  <2> PICK call : call = [bound |-> amount, settled |-> FALSE]
    OBVIOUS
  <2>1. /\ v4[r].calls \in Seq(Call)
        /\ n \in Nat /\ n + 1 \in 0..MaxCalls /\ MaxCalls \in Nat /\ MaxMicroUsd \in Nat
    BY <1>1, <1>4, Assumptions DEF Process, CallLists, T!BudgetAssumption
  <2>2. /\ Covered(v2) = Charged(v4[r].calls) /\ IsFiniteSet(Units(Bounds(v4[r].calls)))
        /\ \A i \in DOMAIN v2 : v2[i].call <= n
    BY <1>1, <1>4 DEF Sound
  <2>3. Covered(v2) \in Nat
    BY <1>1, FS_CardinalityType DEF JournalHolds, Covered
  <2>4. amount \in Nat /\ Covered(v2) + amount <= MaxMicroUsd
    <3>1. T!charged_bound(r) = Charged(v4[r].calls)
      BY TotalIsUnits DEF T!charged_bound, Charged, Bounds
    <3>2. amount \in Nat
      BY Assumptions DEF T!BudgetAssumption
    <3> QED
      BY <1>4, <2>2, <3>1, <3>2 DEF T!Affordable
  <2>5. amount \in 0..MaxMicroUsd /\ call \in Call /\ call.bound = amount
    <3>1. amount \in 0..MaxMicroUsd
      BY <2>1, <2>3, <2>4
    <3> QED
      BY <3>1 DEF Call
  <2>6. /\ e \in Entry /\ e.event = "reserved" /\ e.call = n + 1 /\ e.bound_micro_usd = amount
    BY <2>1, <2>5 DEF T!Event, Entry
  <2>7. ASSUME v2' = Append(v2, e)
        PROVE  /\ JournalHolds(v2') /\ Covered(v2') = Covered(v2) + amount
               /\ Reserved(v2', n + 1, amount) /\ \A i \in DOMAIN v2' : v2'[i].call <= n + 1
    <3>1. Covered(v2) + e.bound_micro_usd <= MaxMicroUsd
      BY <2>4, <2>6
    <3> QED
      BY ONLY <1>1, <2>1, <2>2, <2>6, <2>7, <3>1, ReservationIs
  <2>8. ASSUME NEW q \in Process, v4' = [v4 EXCEPT ![r] = q]
        PROVE  TrialStep(r, q, v5[r])
    BY <1>1, <1>2, <2>8 DEF TrialStep
  <2>9. CASE v2' = Append(v2, e) /\ T!To(r, [v4[r] EXCEPT !.pc = "reserved", !.calls = Append(@, call)])
    <3>1. PICK q : /\ q = [v4[r] EXCEPT !.pc = "reserved", !.calls = Append(@, call)]
                   /\ v4' = [v4 EXCEPT ![r] = q]
      BY <2>9 DEF T!To
    <3> PICK d : d = Append(v4[r].calls, call)
      OBVIOUS
    <3>2. d \in Seq(Call) /\ Len(d) = n + 1 /\ d[n + 1] = call /\ d # <<>>
      BY <2>1, <2>5
    <3>9. d \in CallLists
      BY <2>1, <3>2 DEF CallLists
    <3>3. /\ q.pc = "reserved" /\ q.calls = d /\ q.stopped = v4[r].stopped
      BY <1>1, <3>1 DEF Process
    <3>4. q \in Process
      BY <1>1, <3>1, <3>9 DEF Process, Going
    <3>5. /\ IsFiniteSet(Units(Bounds(q.calls))) /\ Charged(v4[r].calls) \in Nat
          /\ Charged(q.calls) = Charged(v4[r].calls) + amount
      <4>1. call.bound \in Nat
        BY <2>4, <2>5
      <4>2. /\ IsFiniteSet(Units(Bounds(d))) /\ Charged(v4[r].calls) \in Nat
            /\ Charged(d) = Charged(v4[r].calls) + call.bound
        BY ONLY <2>1, <2>2, <2>5, <4>1, d = Append(v4[r].calls, call), ChargeGrows
      <4> QED
        BY <2>5, <3>3, <4>2
    <3>6. /\ Len(q.calls) = n + 1 /\ q.calls[Len(q.calls)].bound = amount /\ q.calls # <<>>
      BY <2>5, <3>2, <3>3
    <3>7. v5[r] <= Covered(v2)
      BY <1>1 DEF Sound
    <3>8. Sound(q, v5[r], v2')
      <4>1. Covered(v2') = Covered(v2) + amount
        BY <2>7, <2>9
      <4>2. v5[r] <= Covered(v2') /\ v5[r] + amount <= Covered(v2')
        BY <1>1, <2>3, <2>4, <3>7, <4>1
      <4>3. Covered(v2') = Charged(q.calls)
        BY <2>2, <3>5, <4>1
      <4>4. (\A i \in DOMAIN v2' : v2'[i].call <= n + 1) /\ Reserved(v2', n + 1, amount)
        BY <2>7, <2>9
      <4> QED
        BY <1>4, <3>3, <3>5, <3>6, <4>2, <4>3, <4>4 DEF Sound
    <3> QED
      BY <1>1, <2>7, <2>8, <2>9, <3>1, <3>4, <3>8, TrialMoves
  <2>10. CASE v2' = v2 /\ T!Raise(r, TRUE)
    BY <1>1, <1>2, <2>10, RaiseKeeps
  <2>11. CASE v2' = Append(v2, e) /\ T!Raise(r, TRUE)
    <3> PICK pc \in {"cleanup", "turn"} : \E q :
          /\ q = [v4[r] EXCEPT !.pc = pc, !.seen = @ \cup {"failure"}, !.stopped = @ \/ TRUE]
          /\ v4' = [v4 EXCEPT ![r] = q]
      BY <2>11 DEF T!Raise, T!To
    <3>1. PICK q :
          /\ q = [v4[r] EXCEPT !.pc = pc, !.seen = @ \cup {"failure"}, !.stopped = @ \/ TRUE]
          /\ v4' = [v4 EXCEPT ![r] = q]
      OBVIOUS
    <3>2. q \in Process
      BY <1>1, <3>1, Followers
    <3>3. q.pc = pc /\ q.calls = v4[r].calls /\ q.stopped = TRUE
      BY <1>1, <3>1 DEF Process
    <3>4. v5[r] <= Covered(v2) /\ v5[r] <= Covered(v2')
      BY <1>1, <2>3, <2>4, <2>7, <2>11 DEF Sound
    <3>5. Sound(q, v5[r], v2')
      BY <1>1, <2>2, <3>3, <3>4 DEF Sound
    <3> QED
      BY <1>1, <2>7, <2>8, <2>11, <3>1, <3>2, <3>5, TrialMoves
  <2> QED
    BY <1>4, <2>9, <2>10, <2>11 DEF T!_append
<1> QED
  BY <1>3, <1>4 DEF T!reserve

(* What the provider charges has been reserved.                              *)
LEMMA CreateKeeps ==
    ASSUME TrialInv, NEW r \in Runs, T!create(r)
    PROVE  TrialInv'
<1>1. /\ v4[r] \in Process /\ Opened(v4[r]) /\ v4[r].pc = "reserved" /\ ~v4[r].stopped
      /\ v5[r] \in Nat /\ JournalHolds(v2) /\ Sound(v4[r], v5[r], v2) /\ v4[r].calls # <<>>
  BY DEF TrialInv, Opened, Going, Sound, T!create
<1> PICK calls : calls = v4[r].calls
  OBVIOUS
<1> PICK bound : bound = calls[Len(calls)].bound
  OBVIOUS
<1>2. /\ calls \in Seq(Call)
      /\ Len(calls) \in DOMAIN calls /\ bound \in 0..MaxMicroUsd /\ MaxMicroUsd \in Nat
  <2>1. calls \in Seq(Call) /\ MaxMicroUsd \in Nat
    BY <1>1, Assumptions DEF Process, CallLists, T!BudgetAssumption
  <2>2. Len(calls) \in DOMAIN calls
    BY <1>1, <2>1, LastCallIs
  <2>3. calls[Len(calls)] \in Call
    BY <1>1, <2>1, LastCallIs
  <2> QED
    BY <2>1, <2>2, <2>3 DEF Call
<1>3. T!Last(v4[r].calls).bound = bound
  BY DEF T!Last
<1> PICK cost \in 0..bound : \E pc \in {"answered", "failing"} : \E q :
        /\ q = [v4[r] EXCEPT !.pc = pc, !.cost = cost] /\ v4' = [v4 EXCEPT ![r] = q]
        /\ v5' = [v5 EXCEPT ![r] = @ + cost]
  BY <1>3 DEF T!create, T!To
<1> PICK pc \in {"answered", "failing"} : \E q :
        /\ q = [v4[r] EXCEPT !.pc = pc, !.cost = cost] /\ v4' = [v4 EXCEPT ![r] = q]
        /\ v5' = [v5 EXCEPT ![r] = @ + cost]
  OBVIOUS
<1>4. PICK q :
        /\ q = [v4[r] EXCEPT !.pc = pc, !.cost = cost] /\ v4' = [v4 EXCEPT ![r] = q]
        /\ v5' = [v5 EXCEPT ![r] = @ + cost]
  OBVIOUS
<1>5. cost \in 0..MaxMicroUsd /\ cost \in Nat /\ cost <= bound
  BY <1>2
<1>6. q \in Process /\ q.pc = pc /\ q.cost = cost /\ q.calls = calls /\ ~q.stopped
  BY <1>1, <1>4, <1>5 DEF Process, Going
<1>7. v5[r] + cost \in Nat /\ v5' = [v5 EXCEPT ![r] = v5[r] + cost]
  BY <1>1, <1>4, <1>5
<1>8. UNCHANGED <<v1, v2, v3>>
  BY DEF T!create
<1>9. TrialStep(r, q, v5[r] + cost)
  <2>1. v1 = TRUE /\ (v2 # <<>> => v1) /\ (v3 = {} \/ \E s \in Runs : v3 = {s})
    BY <1>1 DEF TrialInv
  <2> QED
    BY <1>1, <1>4, <1>7, <1>8, <2>1 DEF TrialStep
<1>10. Sound(q, v5[r] + cost, v2)
  <2>1. v5[r] + bound <= Covered(v2) /\ Covered(v2) \in Nat
    BY <1>1, FS_CardinalityType DEF Sound, JournalHolds, Covered
  <2>2. v5[r] + cost <= Covered(v2) /\ v5[r] + cost + bound <= Covered(v2) + cost
    <3>1. \A b, c, m, t \in Nat : b + m <= t /\ c <= m => b + c <= t /\ b + c + m <= t + c
      OBVIOUS
    <3>2. bound \in Nat
      BY <1>2
    <3> QED
      BY <1>1, <1>5, <2>1, <3>1, <3>2
  <2>3. /\ IsFiniteSet(Units(Bounds(calls))) /\ calls # <<>> /\ Covered(v2) = Charged(calls)
        /\ \A i \in DOMAIN v2 : v2[i].call <= Len(calls)
        /\ Reserved(v2, Len(calls), bound)
    BY <1>1 DEF Sound, Going
  <2> QED
    BY <1>5, <1>6, <2>2, <2>3 DEF Sound
<1> QED
  BY <1>1, <1>6, <1>7, <1>8, <1>9, <1>10, TrialMoves

(* The usage on disk replaces the reservation, and the sum in memory too.    *)
LEMMA SettleKeeps ==
    ASSUME TrialInv, NEW r \in Runs, T!settle(r)
    PROVE  TrialInv'
<1>1. /\ v4[r] \in Process /\ Opened(v4[r]) /\ v4[r].pc = "answered" /\ ~v4[r].stopped
      /\ v5[r] \in Nat /\ JournalHolds(v2) /\ Sound(v4[r], v5[r], v2) /\ v4[r].calls # <<>>
  BY DEF TrialInv, Opened, Going, Sound, T!settle
<1> PICK calls : calls = v4[r].calls
  OBVIOUS
<1> PICK n : n = Len(calls)
  OBVIOUS
<1> PICK bound : bound = calls[n].bound
  OBVIOUS
<1> PICK cost : cost = v4[r].cost
  OBVIOUS
<1> PICK e : e = T!Event("usage", n, cost)
  OBVIOUS
<1>2. /\ calls \in Seq(Call) /\ MaxMicroUsd \in Nat
      /\ n \in DOMAIN calls /\ n \in 0..MaxCalls /\ bound \in 0..MaxMicroUsd
  <2>1. calls \in Seq(Call) /\ MaxMicroUsd \in Nat
        /\ Len(calls) <= MaxCalls /\ MaxCalls \in Nat
    BY <1>1, Assumptions DEF Process, CallLists, T!BudgetAssumption
  <2>2. n \in DOMAIN calls
    BY <1>1, <2>1, LastCallIs
  <2>3. calls[n] \in Call
    BY <1>1, <2>1, LastCallIs
  <2> QED
    BY <2>1, <2>2, <2>3 DEF Call
<1>3. /\ cost \in 0..MaxMicroUsd /\ cost <= bound /\ Reserved(v2, n, bound)
      /\ v5[r] + bound <= Covered(v2) + cost /\ Covered(v2) = Charged(calls)
      /\ IsFiniteSet(Units(Bounds(calls))) /\ \A i \in DOMAIN v2 : v2[i].call <= n
  BY <1>1 DEF Sound, Process, Going
<1>4. e \in Entry /\ e.event = "usage" /\ e.call = n /\ e.bound_micro_usd = cost
  BY <1>2, <1>3 DEF T!Event, Entry
<1>5. ASSUME v2' = Append(v2, e)
      PROVE  /\ JournalHolds(v2') /\ Covered(v2) \in Nat
             /\ Covered(v2') = Covered(v2) - bound + cost
             /\ \A i \in DOMAIN v2' : v2'[i].call <= n
  <2>1. v2 \in Seq(Entry)
    BY <1>1 DEF JournalHolds
  <2>2. \A i \in DOMAIN v2' : v2'[i].call <= n
    BY <1>2, <1>3, <1>4, <1>5, <2>1, LongerIs
  <2>3. bound \in Nat
    BY <1>2
  <2> QED
    <3>1. e.bound_micro_usd <= bound
      BY <1>3, <1>4
    <3>2. /\ JournalHolds(v2') /\ Covered(v2) \in Nat
          /\ Covered(v2') = Covered(v2) - bound + e.bound_micro_usd
      BY ONLY <1>1, <1>3, <1>4, <1>5, <2>3, <3>1, UsageIs
    <3> QED
      BY <1>4, <2>2, <3>2
<1>6. UNCHANGED <<v1, v3, v5>> /\ v5' = [v5 EXCEPT ![r] = v5[r]]
  BY DEF T!settle, TrialInv
<1>10. bound \in Int /\ cost \in Int /\ v5[r] \in Int
  <2>1. bound \in 0..MaxMicroUsd /\ cost \in 0..MaxMicroUsd /\ v5[r] \in Nat
    BY <1>1, <1>2, <1>3
  <2> QED
    BY ONLY <2>1
<1>7. ASSUME NEW q \in Process, v4' = [v4 EXCEPT ![r] = q]
      PROVE  TrialStep(r, q, v5[r])
  <2>1. v1 = TRUE /\ (v3 = {} \/ \E s \in Runs : v3 = {s})
    BY <1>1 DEF TrialInv
  <2> QED
    BY <1>1, <1>6, <1>7, <2>1 DEF TrialStep
<1>8. CASE /\ v2' = Append(v2, e)
           /\ T!To(r, [v4[r] EXCEPT !.pc = "turn", !.seen = @ \cup {"response"}, !.cost = 0,
                                    !.calls[n] = [bound |-> cost, settled |-> TRUE]])
  <2> PICK call : call = [bound |-> cost, settled |-> TRUE]
    OBVIOUS
  <2> PICK after : after = [calls EXCEPT ![n] = call]
    OBVIOUS
  <2>1. PICK q : /\ q = [v4[r] EXCEPT !.pc = "turn", !.seen = @ \cup {"response"}, !.cost = 0,
                                      !.calls = after]
                 /\ v4' = [v4 EXCEPT ![r] = q]
    BY <1>8 DEF T!To
  <2>2. /\ after \in Seq(Call) /\ Len(after) = n
        /\ after # <<>> /\ after = [calls EXCEPT ![Len(calls)] = call]
    <3>1. call \in Call
      BY <1>3 DEF Call
    <3> QED
      BY <1>2, <3>1
  <2>3. q \in Process /\ q.pc = "turn" /\ q.calls = after /\ q.stopped = v4[r].stopped
    <3>1. after \in CallLists
      BY <1>2, <2>2 DEF CallLists
    <3>2. 0 \in 0..MaxMicroUsd
      BY <1>2
    <3> QED
      BY <1>1, <2>1, <3>1, <3>2 DEF Process, Going
  <2>4. /\ IsFiniteSet(Units(Bounds(after))) /\ Charged(calls) \in Nat
        /\ Charged(after) = Charged(calls) - bound + cost
    <3>1. calls[Len(calls)].bound \in Nat /\ call.bound \in Nat /\ call.bound = cost
      BY <1>2, <1>3
    <3> QED
      <4>1. /\ IsFiniteSet(Units(Bounds(after))) /\ Charged(calls) \in Nat
            /\ Charged(after) = Charged(calls) - calls[Len(calls)].bound + call.bound
        BY ONLY <1>1, <1>2, <1>3, <2>2, <3>1, calls = v4[r].calls, ChargeMoves
      <4> QED
        BY <3>1, <4>1
  <2>5. v5[r] <= Covered(v2')
    <3>1. bound \in Int /\ cost \in Int /\ v5[r] \in Int /\ Covered(v2) \in Int
      BY <1>5, <1>8, <1>10
    <3>2. Covered(v2') = Covered(v2) - bound + cost
      BY <1>5, <1>8
    <3> QED
      BY <1>3, <3>1, <3>2
  <2>6. Sound(q, v5[r], v2')
    BY <1>3, <1>5, <1>8, <2>2, <2>3, <2>4, <2>5 DEF Sound
  <2> QED
    BY <1>1, <1>5, <1>7, <1>8, <2>1, <2>3, <2>6, TrialMoves
<1>9. CASE /\ v2' \in {v2, Append(v2, e)}
           /\ T!To(r, [v4[r] EXCEPT !.pc = "failing", !.stopped = TRUE])
  <2>1. PICK q : /\ q = [v4[r] EXCEPT !.pc = "failing", !.stopped = TRUE]
                 /\ v4' = [v4 EXCEPT ![r] = q]
    BY <1>9 DEF T!To
  <2>2. q \in Process /\ q.pc = "failing" /\ q.calls = calls /\ q.stopped = TRUE
    BY <1>1, <2>1 DEF Process, Going
  <2>3. v5[r] <= Covered(v2) /\ (v2' # v2 => v5[r] <= Covered(v2'))
    <3>1. v5[r] <= Covered(v2)
      BY <1>1 DEF Sound
    <3>2. ASSUME v2' = Append(v2, e) PROVE v5[r] <= Covered(v2')
      <4>1. bound \in Int /\ cost \in Int /\ v5[r] \in Int /\ Covered(v2) \in Int
        BY <1>5, <1>10, <3>2
      <4>2. Covered(v2') = Covered(v2) - bound + cost
        BY <1>5, <3>2
      <4> QED
        BY <1>3, <4>1, <4>2
    <3> QED
      BY <1>9, <3>1, <3>2
  <2>4. Sound(q, v5[r], v2') /\ JournalHolds(v2')
    BY <1>1, <1>3, <1>5, <1>9, <2>2, <2>3 DEF Sound
  <2> QED
    BY <1>1, <1>7, <2>1, <2>2, <2>4, TrialMoves
<1> QED
  BY <1>8, <1>9 DEF T!settle

-----------------------------------------------------------------------------
(* The trial as a whole.                                                     *)

(* The initial state.                                                        *)
LEMMA TrialBegins == ASSUME T!Init PROVE TrialInv
<1>1. /\ v1 = FALSE /\ v2 = <<>> /\ v3 = {} /\ v4 = [r \in Runs |-> T!NotStarted]
      /\ v5 = [r \in Runs |-> 0]
  BY DEF T!Init
<1>2. T!NotStarted \in Process /\ ~Opened(T!NotStarted)
  <2>1. <<>> \in CallLists
    BY Assumptions DEF CallLists, T!BudgetAssumption
  <2>2. 0 \in 0..MaxTurns /\ 0 \in 0..MaxMicroUsd
    BY Assumptions DEF T!BudgetAssumption
  <2> QED
    BY <2>1, <2>2 DEF T!NotStarted, Process, Opened, Going
<1>3. JournalHolds(v2)
  <2>1. DOMAIN Cover(v2) = {}
    <3>1. \A i : i \in DOMAIN Cover(v2) <=> i \in DOMAIN v2 /\ Counts(v2, i)
      BY ReadCover
    <3>2. DOMAIN v2 = {}
      BY <1>1
    <3> QED
      BY <3>1, <3>2
  <2>2. IsFiniteSet(Units(Cover(v2))) /\ Covered(v2) = 0
    BY <2>1, TotalOfNone DEF Covered
  <2> QED
    BY <1>1, <2>2, Assumptions DEF JournalHolds, T!BudgetAssumption
<1>4. Sound(T!NotStarted, 0, v2)
  BY <1>2, <1>3, UnopenedIsSound
<1> QED
  BY <1>1, <1>2, <1>3, <1>4 DEF TrialInv

(* Every step of a process keeps the invariant.                              *)
LEMMA TrialKeeps == ASSUME TrialInv, [T!Next]_(T!vars) PROVE TrialInv'
<1>1. CASE UNCHANGED T!vars
  BY <1>1 DEF T!vars, TrialInv
<1>2. CASE T!Next
  BY <1>2, StartKeeps, CreateJournalKeeps, OutsideKeeps, ObservingKeeps, ReserveKeeps,
     CreateKeeps, SettleKeeps, EndingKeeps DEF T!Next
<1> QED
  BY <1>1, <1>2

(* What the invariant says of the spending.                                  *)
LEMMA TrialSafe ==
    ASSUME TrialInv
    PROVE  T!TypeOK /\ T!SpendingIsCovered /\ T!OneTrial
<1>1. JournalHolds(v2) /\ v2 \in Seq(Entry)
  BY DEF TrialInv, JournalHolds
<1>2. T!Reconciled = Covered(v2)
  BY TotalIsUnits DEF T!Reconciled, Covered, Cover, Counts
<1>3. Covered(v2) \in Nat /\ Covered(v2) <= MaxMicroUsd
  BY <1>1, FS_CardinalityType DEF JournalHolds, Covered
<1>4. T!Total(v5) <= Covered(v2)
  <2>1. v5 \in [Runs -> Nat] /\ DOMAIN v5 = Runs
    BY DEF TrialInv
  <2>2. CASE \A r \in Runs : v5[r] = 0
    BY <1>3, <2>1, <2>2, TotalIsUnits, TotalOfNone
  <2>3. CASE \E r \in Runs : v5[r] # 0
    <3>1. PICK r \in Runs : v5[r] # 0
      BY <2>3
    <3>2. Opened(v4[r]) /\ v5[r] <= Covered(v2)
      BY <3>1 DEF TrialInv, Sound, Opened
    <3>3. \A q \in Runs : q # r => v5[q] = 0
      BY <3>2 DEF TrialInv, Sound, Opened
    <3>4. Cardinality(Units(v5)) = v5[r]
      BY <2>1, <3>3, TotalOfOne
    <3> QED
      BY <3>2, <3>4, TotalIsUnits
  <2> QED
    BY <2>2, <2>3
<1>5. T!OneTrial
  <2> PICK S : S = {r \in Runs : v4[r].calls # <<>>}
    OBVIOUS
  <2>1. \A q, r \in S : q = r
    BY DEF TrialInv, Opened
  <2>2. T!Cardinality(S) <= 1
    BY ONLY <2>1, AtMostOne
  <2> QED
    BY <2>2 DEF T!OneTrial
<1>6. T!TypeOK
  <2>1. ASSUME NEW i \in DOMAIN v2
        PROVE  /\ v2[i].event \in {"created", "turn", "reserved", "usage", "stopped", "checkpoint"}
               /\ v2[i].call \in 0..MaxCalls /\ v2[i].bound_micro_usd \in 0..MaxMicroUsd
    <3>1. v2[i] \in Entry
      BY <1>1
    <3> QED
      BY <3>1 DEF Entry
  <2>2. v3 \subseteq Runs /\ T!Cardinality(v3) <= 1
    <3>1. v3 \subseteq Runs /\ \A q, r \in v3 : q = r
      BY DEF TrialInv
    <3> QED
      BY <3>1, AtMostOne
  <2>3. ASSUME NEW r \in Runs
        PROVE  /\ v4[r].pc \in {"idle", "checked", "open", "up", "turn", "reserved", "answered",
                                "failing", "cleanup", "ended", "crashed"}
               /\ v4[r].at \in 0..MaxTurns /\ Len(v4[r].calls) <= MaxCalls
               /\ v4[r].seen \subseteq {"response", "failure"}
    <3>1. v4[r] \in Process
      BY DEF TrialInv
    <3> QED
      BY <3>1 DEF Process, Going, CallLists
  <2> QED
    BY <2>1, <2>2, <2>3 DEF T!TypeOK, TrialInv
<1> QED
  BY <1>2, <1>3, <1>4, <1>5, <1>6 DEF T!SpendingIsCovered

-----------------------------------------------------------------------------
(* The components together: a behaviour is one of one component.             *)

ProfileInv == FoundedInv /\ TruthInv /\ ViewsInv /\ ContractInv

Inv ==
    /\ focus = "profile" => ProfileInv
    /\ focus = "session" => SessionInv
    /\ focus = "trial" => TrialInv
    /\ focus = "provider" => ProviderInv
    /\ focus = "rhythm" => RhythmInv

(* A step of a component keeps its invariant and is as its action property   *)
(* says; all others pause.                                                   *)
LEMMA StepKeeps ==
    ASSUME Inv, [Next]_vars
    PROVE  /\ Inv'
           /\ focus = "session" => N!Revocation /\ N!Accusation
           /\ focus = "profile" => P!Conflict
<1>1. focus' = focus
  BY DEF Next, Profile, Session, Trial, Provider, Rhythm, Rest, vars
<1>2. UNCHANGED vars => UNCHANGED <<P!vars, N!vars, T!vars, A!vars, R!vars>>
  BY DEF vars, last, P!vars, N!vars, T!vars, A!vars, R!vars
<1>3. CASE focus = "profile"
  <2>1. [P!Next]_(P!vars)
    BY <1>2, <1>3 DEF Next, Profile, Session, Trial, Provider, Rhythm, Rest
  <2> QED
    BY <1>1, <1>3, <2>1, FoundedKeeps, ProfileSpeaks, ViewsKeep, ContractInvKeeps,
       Assumptions DEF Inv, ProfileInv
<1>4. CASE focus = "session"
  <2>1. [N!Next]_(N!vars)
    BY <1>2, <1>4 DEF Next, Profile, Session, Trial, Provider, Rhythm, Rest
  <2> QED
    BY <1>1, <1>4, <2>1, SessionSteps DEF Inv
<1>5. CASE focus = "provider"
  <2>1. [A!Next]_(A!vars)
    BY <1>2, <1>5 DEF Next, Profile, Session, Trial, Provider, Rhythm, Rest
  <2> QED
    BY <1>1, <1>5, <2>1, ProviderKeeps DEF Inv
<1>6. CASE focus = "rhythm"
  <2>1. [R!Next]_(R!vars)
    BY <1>2, <1>6 DEF Next, Profile, Session, Trial, Provider, Rhythm, Rest
  <2> QED
    BY <1>1, <1>6, <2>1, RhythmKeeps DEF Inv
<1>7. CASE focus = "trial"
  <2>1. [T!Next]_(T!vars)
    BY <1>2, <1>7 DEF Next, Profile, Session, Trial, Provider, Rhythm, Rest
  <2> QED
    BY <1>1, <1>7, <2>1, TrialKeeps DEF Inv
<1> QED
  BY <1>1, <1>3, <1>4, <1>5, <1>6, <1>7 DEF Inv

(* The invariant holds from the start, whatever the behaviour is of.         *)
LEMMA Invariance == Spec => []Inv
<1>1. Init => Inv
  BY FoundedBegins, TruthBegins, ViewsBegin, ContractInvBegins, SessionBegins, TrialBegins,
     ProviderBegins, RhythmBegins, Assumptions
     DEF Init, Inv, ProfileInv
<1>2. Inv /\ [Next]_vars => Inv'
  BY StepKeeps
<1> QED
  BY <1>1, <1>2, PTL DEF Spec

(* The variables of every component have the values that its code can give   *)
(* them (Snapshot, NativeSession and its token rows, TrialBudget, the        *)
(* provider adapters, rhythm_runs).                                          *)
THEOREM TypesHold == Spec => []TypeOK
<1>1. Inv => TypeOK
  BY ProfileTypes, SessionSafe, TrialSafe, ProviderSafe DEF Inv, ProfileInv, RhythmInv, TypeOK
<1> QED
  BY <1>1, Invariance, PTL

(* Every version of the profile was saved by a caller that named the         *)
(* version before it: nothing is overwritten unseen, and no delayed save     *)
(* revives a removed photo.                                                  *)
THEOREM NothingIsLost == Spec => []NoLostUpdate
<1>1. Inv => NoLostUpdate
  BY DEF Inv, ProfileInv, FoundedInv, NoLostUpdate
<1> QED
  BY <1>1, Invariance, PTL

(* What a tab was told of its write is so (ProfileApplication), and what an  *)
(* executor was told to be completed is so and stays so, whatever other      *)
(* calls do meanwhile (execute_calendar_action, execute_email_action,        *)
(* execute_task_action).                                                     *)
THEOREM AnswersHold == Spec => []AnswersAreTrue
<1>1. ASSUME TruthInv PROVE P!AnswersAreTrue
  BY <1>1 DEF TruthInv, Truthful, P!AnswersAreTrue
<1>2. Inv => AnswersAreTrue
  BY <1>1, ProviderSafe DEF Inv, ProfileInv, AnswersAreTrue
<1> QED
  BY <1>2, Invariance, PTL

(* The conditional object implements the contract that the service is        *)
(* written against: a save compares the revision and replaces it at one      *)
(* moment, is judged by the revision alone although the store judges by its  *)
(* generation, and is told as it was judged (Repository,                     *)
(* ObjectRepository.compare_and_swap).                                       *)
THEOREM ContractHolds == Spec => ContractIsKept /\ (InProfile => Contract!Spec)
<1>1. Init => (InProfile => Contract!Init)
  BY ContractBegins DEF Init, InProfile
<1>2. ASSUME Inv, [Next]_vars, InProfile PROVE InProfile' /\ [Contract!Next]_(Contract!vars)
  <2>1. InProfile'
    BY <1>2
       DEF InProfile, Next, Profile, Session, Trial, Provider, Rhythm, Rest, vars
  <2>2. [P!Next]_(P!vars) /\ FoundedInv /\ TruthInv /\ ContractInv
    BY <1>2
       DEF Next, Profile, Session, Trial, Provider, Rhythm, Rest, vars, last, P!vars,
       InProfile, Inv, ProfileInv
  <2> QED
    BY <2>1, <2>2, ProfileIsContract
<1>3. Inv /\ [Next]_vars => [InProfile => UNCHANGED Contract!vars \/ Contract!Next]_vars
  BY <1>2
<1>4. Spec => ContractIsKept
  BY <1>1, <1>3, Invariance, PTL DEF Spec, ContractIsKept
<1>5. Spec => (InProfile => Contract!Spec)
  BY <1>1, <1>2, Invariance, PTL DEF Spec, Contract!Spec
<1> QED
  BY <1>4, <1>5

(* Whoever loses no reply and refreshes once at a time is never taken for a  *)
(* thief (refresh_native_session), and no tab is told that the profile       *)
(* changed while it did not (ObjectProfileRepository.compare_and_swap).      *)
THEOREM BlameIsJust == Spec => BlameHasCause
<1>1. Inv /\ [Next]_vars => [Blame]_vars
  BY StepKeeps DEF Blame
<1> QED
  BY <1>1, Invariance, PTL DEF Spec, BlameHasCause

(* A refresh token is never replaced twice, however many calls send it       *)
(* (refresh_native_session).                                                 *)
THEOREM TokensAreSingleUse == Spec => []SingleUse
<1>1. Inv => SingleUse
  BY SessionSafe DEF Inv, SingleUse
<1> QED
  BY <1>1, Invariance, PTL

(* No minute accepts more requests than the limits of session and owner,     *)
(* however many validations overlap (validate_native_session).               *)
THEOREM RatesHold == Spec => []RateIsBounded
<1>1. Inv => RateIsBounded
  BY SessionSafe DEF Inv, RateIsBounded
<1> QED
  BY <1>1, Invariance, PTL

(* What is revoked stays so, and revoke-all leaves nothing usable, not even  *)
(* what was bootstrapped while it ran (revoke_all_native_sessions).          *)
THEOREM RevocationIsFinal == Spec => RevocationHolds
<1>1. Inv /\ [Next]_vars => [focus = "session" => N!Revocation]_vars
  BY StepKeeps
<1> QED
  BY <1>1, Invariance, PTL DEF Spec, RevocationHolds

(* Whenever the trial stops, crashes or loses an append or an answer, its    *)
(* journal covers all that the provider has charged and stays within the     *)
(* owner's limit; and of the processes started one at most calls the         *)
(* provider (TrialBudget, trial_journal).                                    *)
THEOREM SpendingHolds == Spec => []SpendingIsCovered
<1>1. Inv => SpendingIsCovered
  BY TrialSafe DEF Inv, SpendingIsCovered
<1> QED
  BY <1>1, Invariance, PTL

(* However often and by however many calls an event is asked for, it is in   *)
(* the calendar once (_event_id, create_event).                              *)
THEOREM EventsAreUnique == Spec => []OneEvent
<1>1. Inv => OneEvent
  BY ProviderSafe DEF Inv, OneEvent
<1> QED
  BY <1>1, Invariance, PTL

(* What the deliveries were told is recorded, and the inbox holds the briefs *)
(* of the runs recorded as generated, each by the claim that the run ended   *)
(* with (claim_rhythm_run, complete_rhythm_run).                             *)
THEOREM BriefsMatch == Spec => []BriefMatchesRun
<1>1. Inv => BriefMatchesRun
  BY DEF Inv, RhythmInv, BriefMatchesRun
<1> QED
  BY <1>1, Invariance, PTL
=============================================================================
