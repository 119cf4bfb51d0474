---------------------------- MODULE PlaceVisits -----------------------------
(* The visits to one country and whether it is shown among the most visited: *)
(* countries do not touch each other. Overnight visits are merged as they    *)
(* are recorded, by the owner or by a device; a device's events can be       *)
(* classified anew. Each call is a transaction at READ COMMITTED, and each   *)
(* of its statements a step. The backend states the rules once more as       *)
(* functions of all visits at once, which nothing calls but the tests: they  *)
(* are the reference here.                                                   *)
EXTENDS Integers, Sequences, SequencesExt, FiniteSets

CONSTANTS
    Calls,        \* calls that write visits at a time
    LastDay,      \* bound: the days are counted from 0 to this one
    Spans,        \* bound: over how many nights a visit can go
    Year,         \* how many days count as recent: 365 in the code
    MaxEvents     \* bound: how many visits are recorded

DaysAssumption == Year \in Nat /\ LastDay \in Nat /\ MaxEvents \in Nat

VARIABLES
    visits,       \* the table of visits
    preference,   \* the country's preference
    events,       \* what devices have recorded, as classified now
    manual,       \* what the owner has recorded
    choice,       \* what the owner last did with the country: see set_most_visited_preference
    call,         \* each call's transaction
    today,
    disturbed     \* what keeps visits and events apart: see Undisturbed

vars == <<visits, preference, choice, events, manual, call, today, disturbed>>

Days == 0..LastDay
Ranges == {range \in [first : Days, last : Days] : range.first <= range.last}
Stays == {stay \in [first : Days, last : Days, overnight : BOOLEAN] :
            stay.first <= stay.last /\ (stay.overnight => stay.first < stay.last)}
Sources == {"manual", "device_coarse"}

DaysOf(v) == [first |-> v.first, last |-> v.last]

(* stay: the visit recorded, or event as it is corrected; todo: the visits   *)
(* still to be stored; day: CURRENT_DATE; range: v_first and v_last; wanted: *)
(* what a DELETE has found and may have to wait for; gone and added: the     *)
(* days of the visits deleted or overwritten so far, and the visits stored;  *)
(* preference: the one stored, if any. None of it is committed.              *)
Idle == [pc |-> "idle", stay |-> [first |-> 0, last |-> 0, overnight |-> FALSE],
         source |-> "manual", event |-> 0, todo |-> <<>>, day |-> 0,
         range |-> [first |-> 0, last |-> 0],
         wanted |-> {}, gone |-> {}, added |-> {}, preference |-> "none"]

Row(v) ==
    /\ [first |-> v.first, last |-> v.last, overnight |-> v.overnight] \in Stays
    /\ v.source \in Sources

(* Type invariant: a confirmed overnight visit spans a night, and no two     *)
(* visits have the same days.                                                *)
TypeOK ==
    /\ \A v \in visits : Row(v) /\ \A w \in visits : DaysOf(v) = DaysOf(w) => v = w
    /\ preference \in {"none", "automatic", "pinned", "suppressed"}
    /\ choice \in {"none", "pin", "remove", "late"}
    /\ events \in Seq(Stays) /\ manual \subseteq Stays
    /\ \A c \in Calls :
        /\ call[c].pc \in {"idle", "clear", "clearing", "select", "read", "delete", "deleting",
                          "insert", "count", "test", "promote", "commit"}
        /\ call[c].stay \in Stays /\ call[c].source \in Sources
        /\ call[c].event \in 0..Len(events) /\ call[c].todo \in Seq(Stays)
        /\ call[c].day \in 0..today /\ call[c].range \in Ranges
        /\ call[c].wanted \subseteq Ranges /\ call[c].gone \subseteq Ranges
        /\ \A v \in call[c].added : Row(v)
        /\ call[c].preference \in {"none", "automatic", "pinned"}
    /\ today \in Days /\ disturbed \subseteq {"overlap", "entangled"}

Init ==
    /\ visits = {} /\ preference = "none" /\ choice = "none" /\ events = <<>> /\ manual = {}
    /\ call = [c \in Calls |-> Idle]
    /\ today = 0 /\ disturbed = {}

-----------------------------------------------------------------------------
(* The reference.                                                            *)

Least(S) == CHOOSE x \in S : \A y \in S : x <= y
Greatest(S) == CHOOSE x \in S : \A y \in S : x >= y

Before(a, b) == a.first < b.first \/ (a.first = b.first /\ a.last < b.last)

Trip(range, merged) ==
    IF merged # <<>> /\ range.first <= Last(merged).last + 1
    THEN [merged EXCEPT ![Len(merged)].last = Greatest({@, range.last})]
    ELSE Append(merged, range)

Sorted(ranges) ==
    [i \in 1..Cardinality(ranges) |->
        CHOOSE r \in ranges : Cardinality({q \in ranges : Before(q, r)}) = i - 1]

Trips(sorted) ==
    LET merged[n \in 0..Len(sorted)] ==
            IF n = 0 THEN <<>> ELSE Trip(sorted[n], merged[n - 1])
    IN  merged[Len(sorted)]

Overnight(stays) == {[first |-> s.first, last |-> s.last] : s \in {t \in stays : t.overnight}}

qualifying_visit_count(stays) ==
    LET trips == Trips(Sorted(Overnight(stays))) IN
    Cardinality({i \in DOMAIN trips : trips[i].last >= today - Year})

promoted(stays) ==
    choice = "pin" \/ (choice = "none" /\ qualifying_visit_count(stays) >= 2)

-----------------------------------------------------------------------------
(* What a transaction sees: what is committed, and its own changes.          *)

View(c) == {v \in visits : DaysOf(v) \notin call[c].gone} \cup call[c].added

Own(c) == IF call[c].preference = "none" THEN preference ELSE call[c].preference

Active == {c \in Calls : call[c].pc # "idle"}

(* The visits of these days are not locked by another transaction.           *)
Free(c, ranges) == \A d \in Calls \ {c} : call[d].gone \cap ranges = {}

PreferenceFree(c) == \A d \in Calls \ {c} : call[d].preference = "none"

Recent(rows, day) == {v \in rows : v.overnight /\ v.last >= day - Year}

shown == preference = "pinned"
         \/ (preference = "automatic" /\ Cardinality(Recent(visits, today)) >= 2)

(* A call goes on, or changes only what is its own.                          *)
To(c, new) ==
    /\ call' = [call EXCEPT ![c] = new]
    /\ UNCHANGED <<visits, preference, choice, events, manual, today, disturbed>>

-----------------------------------------------------------------------------
(* Statements of add_place_visit, for the first of the visits to be stored.  *)

\* Faulty: visits on consecutive days are two.
Touches_Overlapping(v, stay) == v.overnight /\ v.first <= stay.last /\ v.last >= stay.first

Touches(v, stay) == v.overnight /\ v.first <= stay.last + 1 /\ v.last >= stay.first - 1

Merged(rows, stay) ==
    LET touched == {v \in rows : Touches(v, stay)} IN
    [first |-> Least({stay.first} \cup {v.first : v \in touched}),
     last  |-> Greatest({stay.last} \cup {v.last : v \in touched})]

Read(c) ==
    LET stay == Head(call[c].todo) IN
    /\ call[c].pc = "read"
    /\ To(c, IF stay.overnight
             THEN [call[c] EXCEPT !.pc = "delete", !.range = Merged(View(c), stay)]
             ELSE [call[c] EXCEPT !.pc = "insert", !.range = DaysOf(stay)])

(* What a DELETE is about, here and in a correction. It finds its visits in  *)
(* one step and deletes them in another, when nobody holds them any more:    *)
(* those that are still there and still to be deleted.                       *)
Condemned(c, v) ==
    IF call[c].pc \in {"clear", "clearing"}
    THEN v.source = "device_coarse"
    ELSE Touches(v, Head(call[c].todo))

Find(c) ==
    /\ call[c].pc \in {"clear", "delete"}
    /\ To(c, [call[c] EXCEPT !.pc = IF @ = "clear" THEN "clearing" ELSE "deleting",
                             !.wanted = {DaysOf(v) : v \in {w \in View(c) : Condemned(c, w)}}])

Delete(c) ==
    LET deleted == {v \in View(c) : DaysOf(v) \in call[c].wanted /\ Condemned(c, v)} IN
    /\ call[c].pc \in {"clearing", "deleting"} /\ Free(c, call[c].wanted)
    /\ To(c, [call[c] EXCEPT !.pc = IF @ = "clearing" THEN "select" ELSE "insert",
                             !.wanted = {},
                             !.gone = @ \cup {DaysOf(v) : v \in deleted},
                             !.added = @ \ deleted])

Same(c) == {v \in View(c) : DaysOf(v) = call[c].range}

NewVisit(c) ==
    [first |-> call[c].range.first, last |-> call[c].range.last, source |-> call[c].source,
     overnight |-> Head(call[c].todo).overnight \/ \E v \in Same(c) : v.overnight]

\* Faulty: the same days are stored again.
Insert_Again(c) ==
    /\ call[c].pc = "insert" /\ Free(c, {call[c].range})
    /\ To(c, [call[c] EXCEPT !.pc = "count", !.added = @ \cup {NewVisit(c)}])

Insert(c) ==
    /\ call[c].pc = "insert" /\ Free(c, {call[c].range})
    /\ To(c, [call[c] EXCEPT !.pc = "count",
                             !.gone = @ \cup {call[c].range},
                             !.added = (@ \ Same(c)) \cup {NewVisit(c)}])

(* The next visit, if any.                                                   *)
Stored(c) == [call[c] EXCEPT !.pc = IF Len(call[c].todo) = 1 THEN "commit" ELSE "read",
                             !.todo = Tail(@)]

Count(c) ==
    /\ call[c].pc = "count"
    /\ To(c, IF Cardinality(Recent(View(c), call[c].day)) >= 2
             THEN [call[c] EXCEPT !.pc = "test"] ELSE Stored(c))

\* Faulty: a country that the owner has removed comes back by itself.
Test_Never(c) ==
    /\ call[c].pc = "test"
    /\ To(c, [call[c] EXCEPT !.pc = "promote"])

Test(c) ==
    /\ call[c].pc = "test"
    /\ To(c, IF Own(c) = "suppressed" THEN Stored(c) ELSE [call[c] EXCEPT !.pc = "promote"])

Promote(c) ==
    /\ call[c].pc = "promote" /\ PreferenceFree(c)
    /\ To(c, [Stored(c) EXCEPT !.preference = IF Own(c) = "pinned" THEN "pinned" ELSE "automatic"])

-----------------------------------------------------------------------------
(* The transactions.                                                         *)

Recorded == Cardinality(manual) + Len(events) + Cardinality({c \in Active : call[c].event = 0})

(* What an overnight visit of the table has been made of.                    *)
Made(stay, v) ==
    IF stay.overnight THEN v.first <= stay.first /\ stay.last <= v.last
    ELSE DaysOf(v) = DaysOf(stay)

Entangled == \E v \in visits, s \in manual, e \in DOMAIN events :
    v.overnight /\ Made(s, v) /\ Made(events[e], v)

Begin(c, new) ==
    /\ call[c].pc = "idle" /\ call' = [call EXCEPT ![c] = new]
    /\ UNCHANGED <<visits, preference, choice, events, manual, today>>

(* A device's event has passed.                                              *)
add_place_visit(c) ==
    /\ Recorded < MaxEvents
    /\ \E stay \in Stays, source \in Sources :
        /\ stay.last - stay.first \in Spans
        /\ source = "device_coarse" => stay.last <= today
        /\ Begin(c, [Idle EXCEPT !.pc = "read", !.stay = stay, !.todo = <<stay>>,
                                 !.source = source, !.day = today])
    /\ disturbed' = disturbed \cup (IF Active = {} THEN {} ELSE {"overlap"})

(* The device's visits are deleted and its events recorded anew, in the      *)
(* order of their times: those of one day can come in any order.             *)
correct_mobile_location_visit(c, e) ==
    /\ e \in DOMAIN events /\ \A d \in Active : call[d].event # e
    /\ \E overnight \in BOOLEAN :
        /\ overnight => events[e].first < events[e].last
        /\ Begin(c, [Idle EXCEPT !.pc = "clear", !.stay = [events[e] EXCEPT !.overnight = overnight],
                                 !.event = e, !.source = "device_coarse", !.day = today])
    /\ disturbed' = disturbed \cup (IF Active = {} THEN {} ELSE {"overlap"})
                              \cup (IF Entangled THEN {"entangled"} ELSE {})

Select(c) ==
    LET corrected == [events EXCEPT ![call[c].event] = call[c].stay] IN
    /\ call[c].pc = "select"
    /\ \E order \in SetToSeqs(DOMAIN events) :
        LET stays == [i \in DOMAIN events |-> corrected[order[i]]] IN
        /\ \A i, j \in DOMAIN stays : i < j => stays[i].first <= stays[j].first
        /\ To(c, [call[c] EXCEPT !.pc = "read", !.todo = stays])

Commit(c) ==
    LET stay == call[c].stay IN
    /\ call[c].pc = "commit"
    /\ visits' = View(c) /\ preference' = Own(c)
    /\ manual' = IF call[c].source = "manual" THEN manual \cup {stay} ELSE manual
    /\ events' = IF call[c].source = "manual" THEN events
                 ELSE IF call[c].event = 0 THEN Append(events, stay)
                 ELSE [events EXCEPT ![call[c].event] = stay]
    /\ call' = [call EXCEPT ![c] = Idle]
    /\ UNCHANGED <<choice, today, disturbed>>

(* The transaction is lost at any point, or given up to end a deadlock.      *)
Fail(c) == call[c].pc # "idle" /\ To(c, Idle)

(* A removal is late when a call has found that there was none, and will     *)
(* overwrite it.                                                             *)
set_most_visited_preference ==
    /\ \A d \in Calls : call[d].preference = "none"
    /\ \/ choice' = "pin" /\ preference' = "pinned"
       \/ /\ choice' = IF \E d \in Calls : call[d].pc = "promote" THEN "late" ELSE "remove"
          /\ preference' = "suppressed"
    /\ UNCHANGED <<visits, events, manual, call, today, disturbed>>

DayPasses ==
    /\ today + 1 \in Days /\ today' = today + 1
    /\ UNCHANGED <<visits, preference, choice, events, manual, call, disturbed>>

Step(c) ==
    \/ Read(c) \/ Find(c) \/ Delete(c) \/ Insert(c) \/ Count(c) \/ Test(c) \/ Promote(c)
    \/ Select(c) \/ Commit(c) \/ Fail(c)

Next ==
    \/ \E c \in Calls : add_place_visit(c) \/ Step(c)
    \/ \E c \in Calls, e \in 1..MaxEvents : correct_mobile_location_visit(c, e)
    \/ set_most_visited_preference
    \/ DayPasses

Spec == Init /\ [][Next]_vars

-----------------------------------------------------------------------------
(* The code loses visits when calls that write them overlap, since one       *)
(* deletes what another has stored after it read; and when a correction      *)
(* meets a visit that was made of the owner's and of a device's, which it    *)
(* deletes or keeps as a whole. Nothing is stated of what follows.           *)
Undisturbed == disturbed = {}

Stated == manual \cup {events[e] : e \in DOMAIN events}

(* However visits arrive, are merged, replayed, given up half-way and grow   *)
(* old, the table holds as many recent trips as the reference finds in all   *)
(* that was recorded (add_place_visit, correct_mobile_location_visit).       *)
TripsAgree == Undisturbed =>
    Cardinality(Recent(visits, today)) = qualifying_visit_count(Stated)

(* The country is shown when the reference promotes it, unless a removal     *)
(* came late and was overwritten (add_place_visit, get_place_settings).      *)
PromotionAgrees == Undisturbed =>
    (shown <=> promoted(Stated)) \/ (choice = "late" /\ preference = "automatic")
=============================================================================
