----------------------------- MODULE MobilePlace -----------------------------
(***************************************************************************)
(* Where Li believes its owner is: coarse observations sent by registered  *)
(* devices, and corrections made by hand (migrations 032 and 033).         *)
(*                                                                         *)
(* A device queues observations and repeats a submission whose answer it   *)
(* missed, so calls overlap.  submit_mobile_location_update is modelled by *)
(* its statements, each of which reads what is committed when it starts:   *)
(* the checks, the wait for the installation's row, the reading of the     *)
(* current place, and the writes with the commit.  The primary key of      *)
(* mobile_location_updates rejects nothing here: the properties say that   *)
(* it never needs to.  Device clocks are taken to be right.                *)
(***************************************************************************)
EXTENDS Naturals, FiniteSets

CONSTANTS
    Installations,  \* registered devices
    Updates,        \* the observations that are ever made
    Calls,          \* concurrent submissions
    Day, Hour,      \* 24 hours and one hour, in ticks
    RateLimit,      \* observations accepted per installation and hour (30)
    MaxTime         \* bound: ticks of the clock

ClockAssumption ==
    Day \in Nat /\ Hour \in Nat /\ RateLimit \in Nat \ {0} /\ MaxTime \in Nat \ {0}

VARIABLES
    now,            \* the clock
    installs,       \* mobile_location_installations
    updates,        \* per observation: its installation and its time
    accepted,       \* mobile_location_updates.accepted_at, 0 if there is no row
    place,          \* the row of place_settings
    call,           \* per call: what it submits, when it began, what it has read
    lock            \* per installation: the call that holds its row

vars == <<now, installs, updates, accepted, place, call, lock>>

Free == "free"
Idle == [at |-> "idle"]
NoInstall == [state |-> "absent", permission |-> "not_requested", last |-> 0]
NoPlace == [source |-> "none", at |-> 0]

NamesAssumption == Free \notin Calls /\ "none" \notin Installations /\ IsFiniteSet(Updates)

Init ==
    /\ now = 1
    /\ installs = [i \in Installations |-> NoInstall]
    /\ updates = [u \in Updates |-> [by |-> "none", observed |-> 0]]
    /\ accepted = [u \in Updates |-> 0]
    /\ place = NoPlace
    /\ call = [c \in Calls |-> Idle]
    /\ lock = [i \in Installations |-> Free]

-----------------------------------------------------------------------------
(* The owner and the devices.                                              *)

Tick ==
    /\ now < MaxTime
    /\ now' = now + 1
    /\ UNCHANGED <<installs, updates, accepted, place, call, lock>>

register_mobile_location_installation(i) ==
    /\ installs[i].state = "absent"
    /\ installs' = [installs EXCEPT ![i].state = "active"]
    /\ UNCHANGED <<now, updates, accepted, place, call, lock>>

(* Faulty forms end in a suffix that names the fault; the mutation runs    *)
(* put each in the place of the definition that follows it.                *)
revoke_mobile_location_installation_AsPermission(i) ==
    /\ installs[i].state = "active"
    /\ lock[i] = Free
    /\ installs' = [installs EXCEPT ![i].state = "revoked", ![i].permission = "revoked"]
    /\ UNCHANGED <<now, updates, accepted, place, call, lock>>

revoke_mobile_location_installation(i) ==
    /\ installs[i].state = "active"
    /\ lock[i] = Free
    /\ installs' = [installs EXCEPT ![i].state = "revoked", ![i].permission = "denied"]
    /\ UNCHANGED <<now, updates, accepted, place, call, lock>>

set_current_place ==
    /\ place' = [source |-> "manual", at |-> now]
    /\ UNCHANGED <<now, installs, updates, accepted, call, lock>>

(* The device observes, and may submit much later.                         *)
Observe(i, u) ==
    /\ installs[i].state = "active"
    /\ updates[u].by = "none"
    /\ updates' = [updates EXCEPT ![u] = [by |-> i, observed |-> now]]
    /\ UNCHANGED <<now, installs, accepted, place, call, lock>>

-----------------------------------------------------------------------------
(* submit_mobile_location_update.                                          *)

Observed(c) == updates[call[c].id].observed
Installation(c) == updates[call[c].id].by
Fresh(u) == updates[u].observed + Day >= now

(* The checks that precede the lock; a call that fails one of them, and    *)
(* one whose update is known ("idempotent"), ends here.                    *)
Submit(c, u) ==
    /\ call[c] = Idle
    /\ updates[u].by # "none"
    /\ installs[updates[u].by].state = "active"
    /\ accepted[u] = 0
    /\ Fresh(u)
    /\ call' = [call EXCEPT ![c] = [at |-> "lock", id |-> u, began |-> now]]
    /\ UNCHANGED <<now, installs, updates, accepted, place, lock>>

(* The transaction ends; its locks are released.                           *)
Finish(c) ==
    /\ call' = [call EXCEPT ![c] = Idle]
    /\ lock' = [i \in Installations |-> IF lock[i] = c THEN Free ELSE lock[i]]

TooMany_NeverCounted(c) == FALSE

AcceptedSince(i, t) ==
    {u \in Updates : updates[u].by = i /\ accepted[u] > 0 /\ accepted[u] + Hour >= t}

TooMany(c) == Cardinality(AcceptedSince(Installation(c), call[c].began)) >= RateLimit

OutOfOrder_Older(c) == Observed(c) < installs[Installation(c)].last

OutOfOrder(c) ==
    LET last == installs[Installation(c)].last IN last # 0 /\ Observed(c) <= last

(* SELECT ... FOR UPDATE on the installation, then the two refusals that   *)
(* depend on what it protects.                                             *)
LockInstallation(c) ==
    /\ call[c].at = "lock"
    /\ lock[Installation(c)] = Free
    /\ IF TooMany(c) \/ OutOfOrder(c)
       THEN Finish(c)
       ELSE /\ call' = [call EXCEPT ![c].at = "read"]
            /\ lock' = [lock EXCEPT ![Installation(c)] = c]
    /\ UNCHANGED <<now, installs, updates, accepted, place>>

ReadPlace(c) ==
    /\ call[c].at = "read"
    /\ call' = [call EXCEPT ![c] =
            [at |-> "write", id |-> call[c].id, began |-> call[c].began, seen |-> place]]
    /\ UNCHANGED <<now, installs, updates, accepted, place, lock>>

(* A correction by hand holds for a day.                                   *)
Applies(seen, observed) ==
    seen.source # "manual" \/ observed >= seen.at + Day

(* The INSERT, the UPDATE of the installation, which does not look whether *)
(* it was revoked, the new place, and the commit.                          *)
WriteUpdate(c) ==
    /\ call[c].at = "write"
    /\ accepted' = [accepted EXCEPT ![call[c].id] = call[c].began]
    /\ installs' = [installs EXCEPT ![Installation(c)].permission = "granted",
                                    ![Installation(c)].last = Observed(c)]
    /\ place' = IF Applies(call[c].seen, Observed(c))
                THEN [source |-> "device", at |-> Observed(c)]
                ELSE place
    /\ Finish(c)
    /\ UNCHANGED <<now, updates>>

(* The connection is lost before the commit.                               *)
Lose(c) ==
    /\ call[c] # Idle
    /\ Finish(c)
    /\ UNCHANGED <<now, installs, updates, accepted, place>>

Serve(c) == LockInstallation(c) \/ ReadPlace(c) \/ WriteUpdate(c)

Next ==
    \/ Tick
    \/ set_current_place
    \/ \E i \in Installations :
        \/ register_mobile_location_installation(i)
        \/ revoke_mobile_location_installation(i)
        \/ \E u \in Updates : Observe(i, u)
    \/ \E c \in Calls :
        \/ \E u \in Updates : Submit(c, u)
        \/ Serve(c) \/ Lose(c)

Spec == Init /\ [][Next]_vars

-----------------------------------------------------------------------------
(* Correctness.                                                            *)

(* The values of the variables; the tables of 032 and 033.                 *)
TypeOK ==
    /\ now \in 1..MaxTime
    /\ installs \in [Installations ->
            [state : {"absent", "active", "revoked"},
             permission : {"not_requested", "granted", "denied"}, last : 0..MaxTime]]
    /\ updates \in [Updates -> [by : Installations \cup {"none"}, observed : 0..MaxTime]]
    /\ accepted \in [Updates -> 0..MaxTime]
    /\ place \in [source : {"none", "manual", "device"}, at : 0..MaxTime]
    /\ \A c \in Calls : call[c].at \in {"idle", "lock", "read", "write"}
    /\ lock \in [Installations -> Calls \cup {Free}]

Advances ==
    \A u \in Updates : accepted'[u] # accepted[u] =>
        accepted[u] = 0 /\ installs[updates[u].by].last < updates[u].observed

(* An observation is accepted once, and each after the one before: repeats *)
(* and late arrivals of the same device never rewrite what it said.        *)
ObservationsAdvance == [][Advances]_vars

(* No hour holds more accepted observations of an installation than the    *)
(* limit, however many calls are in flight.                                *)
UpdatesAreBounded ==
    \A i \in Installations, t \in 1..MaxTime :
        Cardinality({u \in AcceptedSince(i, t) : accepted[u] <= t}) <= RateLimit

-----------------------------------------------------------------------------
(* A statement of the documents that the code breaks.                      *)

(* MOBILE_LOCATION_ARCHITECTURE 35: "A manual Web/mobile correction holds  *)
(* precedence for 24 hours."                                               *)
CorrectionHolds ==
    [][\A c \in Calls :
        place.source = "manual" /\ place'.source = "device"
            /\ call[c].at = "write" /\ call'[c] = Idle =>
                Observed(c) >= place.at + Day]_vars
=============================================================================
