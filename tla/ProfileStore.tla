---------------------------- MODULE ProfileStore ----------------------------
(***************************************************************************)
(* The owner's profile photo (profile-service): one object of a cloud      *)
(* store holds the revision and the photo, and changes through             *)
(* compare-and-swap on the revision, which the repository turns into a     *)
(* write conditional on the store's generation number.                     *)
(*                                                                         *)
(* A replacement reads the object three times: before the upload is taken  *)
(* (_preflight_revision), after it is decoded (_current) and inside        *)
(* compare_and_swap.  Other instances of the service work between any two  *)
(* of its calls of the store.  A read is a reload and a download that is   *)
(* conditional on the generation the reload saw, so that it returns the    *)
(* object as it was at one moment or fails, and is one step.  A write may  *)
(* be answered late, or land after the service gave up waiting for it.     *)
(* Revisions are fresh UUIDs, modelled as numbers in order of issue;       *)
(* the photo is present or not.                                            *)
(***************************************************************************)
EXTENDS Naturals, Sequences

CONSTANTS
    Callers,    \* the tabs of the owner, each with one request at a time
    MaxWrites   \* bound: writes that are ever sent

ProfileAssumption == MaxWrites \in Nat

VARIABLES
    versions,   \* what the object has held; its generation is the length
    pending,    \* writes on their way to the store
    issued,     \* how many revisions have been issued
    reachable,  \* whether the bucket answers
    view,       \* per tab: the revision it was last told
    call        \* per tab: its request

vars == <<versions, pending, issued, reachable, view, call>>

ABSENT == 0

(* The uuid4 of a new Snapshot.  Faulty forms end in a suffix that names   *)
(* the fault; the mutation runs put each in the place of the definition    *)
(* that follows it.                                                        *)
NewRevision_Kept == issued

NewRevision == issued + 1

Nothing == [revision |-> ABSENT, photo |-> FALSE]
Generation == Len(versions)
Stored(g) == IF g = 0 THEN Nothing
             ELSE [revision |-> versions[g].revision, photo |-> versions[g].photo]
Idle == [phase |-> "idle"]

Init ==
    /\ versions = << >>
    /\ pending = {}
    /\ issued = 0
    /\ reachable = TRUE
    /\ view = [c \in Callers |-> ABSENT]
    /\ call = [c \in Callers |-> Idle]

Goto(c, next) == call' = [call EXCEPT ![c] = next]
Answer(c, result, revision) ==
    Goto(c, [phase |-> "answered", result |-> result, revision |-> revision])

Outage ==
    /\ reachable' = ~reachable
    /\ UNCHANGED <<versions, pending, issued, view, call>>

(* A tab asks for the metadata, a replacement or a removal, with If-Match  *)
(* naming the revision it was told.                                        *)
Ask(c, op) ==
    /\ call[c] = Idle
    /\ Goto(c, [phase |-> IF op = "replace" THEN "preflight" ELSE "check", op |-> op,
                expected |-> view[c], since |-> Generation, missing |-> FALSE])
    /\ UNCHANGED <<versions, pending, issued, reachable, view>>

-----------------------------------------------------------------------------
(* Reading.                                                                *)

Reading(c) == call[c].phase \in {"preflight", "check", "swap"}

Matches_Preflight(c, seen) ==
    call[c].phase # "preflight" \/ seen.revision = call[c].expected

Matches_Photo(c, seen) ==
    seen.revision = call[c].expected /\ (seen.photo \/ seen.revision = ABSENT)

Matches(c, seen) == seen.revision = call[c].expected

Resume(c, phase, generation) ==
    Goto(c, [phase |-> phase, op |-> call[c].op, expected |-> call[c].expected,
             since |-> call[c].since, missing |-> FALSE, generation |-> generation])

(* What each of the reads is for.                                          *)
Continue(c, generation) ==
    LET seen == Stored(generation)
        phase == call[c].phase
        op == call[c].op IN
    \/ op = "metadata" /\ Answer(c, "current", seen.revision)
    \/ op # "metadata" /\ ~Matches(c, seen) /\ Answer(c, "conflict", ABSENT)
    \/ /\ op # "metadata" /\ Matches(c, seen)
       /\ \/ phase = "preflight" /\ Resume(c, "check", generation)
          \/ /\ phase = "check" /\ op = "remove" /\ ~seen.photo
             /\ Answer(c, "unchanged", seen.revision)
          \/ /\ phase = "check" /\ (op = "replace" \/ seen.photo)
             /\ Resume(c, "swap", generation)
          \/ phase = "swap" /\ Resume(c, "send", generation)

Read(c) ==
    /\ Reading(c) /\ ~call[c].missing
    /\ reachable /\ Generation > 0
    /\ Continue(c, Generation)
    /\ UNCHANGED <<versions, pending, issued, reachable, view>>

(* reload finds nothing: an object that is absent, or a bucket that is.    *)
NotFound(c) ==
    /\ Reading(c) /\ ~call[c].missing
    /\ ~reachable \/ Generation = 0
    /\ Goto(c, [call[c] EXCEPT !.missing = TRUE])
    /\ UNCHANGED <<versions, pending, issued, reachable, view>>

(* The namespace is verified before not-found means absence.               *)
Verify(c) ==
    /\ Reading(c) /\ call[c].missing
    /\ \/ reachable /\ Continue(c, 0)
       \/ ~reachable /\ Answer(c, "unavailable", ABSENT)
    /\ UNCHANGED <<versions, pending, issued, reachable, view>>

(* The store does not answer, or the upload or its decoding fails.         *)
Fail(c) ==
    /\ Reading(c)
    /\ Answer(c, "unavailable", ABSENT)
    /\ UNCHANGED <<versions, pending, issued, reachable, view>>

-----------------------------------------------------------------------------
(* Writing.                                                                *)

Send(c) ==
    /\ call[c].phase = "send"
    /\ issued < MaxWrites
    /\ issued' = issued + 1
    /\ pending' = pending \cup
            {[revision |-> NewRevision, photo |-> call[c].op = "replace",
              expected |-> call[c].expected, generation |-> call[c].generation]}
    /\ Goto(c, [phase |-> "waiting", revision |-> NewRevision,
                expected |-> call[c].expected, since |-> call[c].since])
    /\ UNCHANGED <<versions, reachable, view>>

Holds(w) == w.generation = Generation

WaitsFor(c, w) == call[c].phase = "waiting" /\ call[c].revision = w.revision

(* The answer of the store, for the caller that still waits for it.        *)
Notify(w, landed) ==
    call' = [c \in Callers |->
        IF ~WaitsFor(c, w) THEN call[c]
        ELSE [phase |-> "answered", revision |-> w.revision,
              result |-> IF landed THEN "saved" ELSE "conflict"]]

(* An SDK that retries has the store judge a write it has made already.    *)
Arrive_Retried(w) ==
    /\ reachable /\ Holds(w)
    /\ versions' = Append(versions,
            [revision |-> w.revision, photo |-> w.photo, expected |-> w.expected])
    /\ pending' = pending \ {w}
    /\ \E first \in BOOLEAN : Notify(w, first)
    /\ UNCHANGED <<issued, reachable, view>>

(* The store performs the write if the object still has the generation.    *)
Arrive(w) ==
    /\ reachable
    /\ pending' = pending \ {w}
    /\ \/ /\ Holds(w)
          /\ versions' = Append(versions,
                [revision |-> w.revision, photo |-> w.photo, expected |-> w.expected])
          /\ Notify(w, TRUE)
       \/ /\ ~Holds(w)
          /\ Notify(w, FALSE)
          /\ UNCHANGED versions
    /\ UNCHANGED <<issued, reachable, view>>

(* A write that is lost.                                                   *)
Vanish(w) ==
    /\ pending' = pending \ {w}
    /\ UNCHANGED <<versions, issued, reachable, view, call>>

(* The write's own timeout, or a lost answer to the tab: "could not be     *)
(* confirmed".  The write itself may be anywhere.                          *)
Doubt(c) ==
    /\ call[c].phase \in {"waiting", "answered"}
    /\ Answer(c, "unavailable", ABSENT)
    /\ UNCHANGED <<versions, pending, issued, reachable, view>>

(* The tab takes the answer; after a conflict, or without an answer, it    *)
(* keeps the revision that it has.                                         *)
Told(c) ==
    /\ call[c].phase = "answered"
    /\ view' = IF call[c].result \in {"saved", "unchanged", "current"}
               THEN [view EXCEPT ![c] = call[c].revision] ELSE view
    /\ Goto(c, Idle)
    /\ UNCHANGED <<versions, pending, issued, reachable>>

Next ==
    \/ Outage
    \/ \E c \in Callers :
        \/ \E op \in {"metadata", "replace", "remove"} : Ask(c, op)
        \/ Read(c) \/ NotFound(c) \/ Verify(c) \/ Fail(c)
        \/ Send(c) \/ Doubt(c) \/ Told(c)
    \/ \E w \in pending : Arrive(w) \/ Vanish(w)

Spec == Init /\ [][Next]_vars

-----------------------------------------------------------------------------
(* What a tab's request and the writes on their way are to the contract of *)
(* the repository (ProfileRepository): reads that let a request go on, and *)
(* generations, are the implementation's own.                              *)

AsRequest(step) ==
    CASE step.phase = "idle" -> [phase |-> "idle"]
      [] step.phase = "waiting" ->
            [phase |-> "waiting", revision |-> step.revision]
      [] step.phase = "answered" ->
            [phase |-> "answered", result |-> step.result, revision |-> step.revision]
      [] OTHER -> [phase |-> "open", op |-> step.op, expected |-> step.expected]

AsSave(w) == [revision |-> w.revision, photo |-> w.photo, expected |-> w.expected]

-----------------------------------------------------------------------------
(* Correctness.                                                            *)

Phases == {"idle", "preflight", "check", "swap", "send", "waiting", "answered"}

(* The values of the variables; revisions are those that were issued.      *)
TypeOK ==
    /\ issued \in 0..MaxWrites
    /\ versions \in Seq([revision : 1..issued, photo : BOOLEAN, expected : 0..issued])
    /\ pending \subseteq [revision : 1..issued, photo : BOOLEAN,
                          expected : 0..issued, generation : Nat]
    /\ reachable \in BOOLEAN
    /\ view \in [Callers -> 0..issued]
    /\ \A c \in Callers : call[c].phase \in Phases

(* "Revisions prevent stale writes": every version was saved by a caller   *)
(* that named the version before it, so that nothing is overwritten unseen *)
(* and no delayed save revives a removed photo, however late it lands.     *)
NoLostUpdate ==
    \A g \in 1..Generation : versions[g].expected = Stored(g - 1).revision

(* A caller told of a conflict wrote nothing, and nothing of its lands     *)
(* later; one told of a success has its version in the object's history.   *)
AnswersAreTrue ==
    \A c \in Callers : call[c].phase = "answered" =>
        /\ call[c].result = "conflict" =>
            /\ \A g \in 1..Generation : versions[g].revision # call[c].revision
            /\ \A w \in pending : w.revision # call[c].revision
        /\ call[c].result = "saved" =>
            \E g \in 1..Generation : versions[g].revision = call[c].revision

(* "Your profile changed" is true: a tab that is told so by a read of the  *)
(* object or by a refused write, and not because the bucket was away       *)
(* between the read and the verification, expected another revision than   *)
(* the object had at some moment of the call.                              *)
Conflict ==
    \A c \in Callers :
        /\ call[c].phase = "waiting" \/ (Reading(c) /\ ~call[c].missing)
        /\ call'[c].phase = "answered" /\ call'[c].result = "conflict"
        => \/ Stored(call[c].since).revision # call[c].expected
           \/ Generation > call[c].since
=============================================================================
