---------------------------- MODULE NativeSession ----------------------------
(***************************************************************************)
(* Sessions of the native gateway (migration 034): refresh tokens that are *)
(* used once and rotate, revocation of one session or of all of them, and  *)
(* the request limits that every protected call is counted against.        *)
(*                                                                         *)
(* bootstrap and refresh hold their row or advisory lock from their first  *)
(* effect to their commit and are one step.  validate_native_session waits *)
(* for the owner's lock between its check and its count, and               *)
(* revoke_all_native_sessions has two UPDATEs that see different           *)
(* snapshots: these have steps of their own.  A session and its            *)
(* installation are created together, so an installation is named by its   *)
(* session.  Replies to devices may be lost.  Expiry by time, the hourly   *)
(* bootstrap limit and the signature of access tokens are left out.        *)
(***************************************************************************)
EXTENDS Naturals, FiniteSets

CONSTANTS
    Sessions,       \* the sessions that are ever bootstrapped
    Calls,          \* requests in flight
    MaxTokens,      \* bound: refresh tokens that are ever issued
    Windows,        \* bound: the minutes that are counted, 1..Windows
    SessionLimit,   \* requests per session and minute (120)
    OwnerLimit      \* requests per owner and minute (300)

Free == "free"     \* whoever holds a free lock

LimitsAssumption ==
    /\ MaxTokens \in Nat /\ Windows \in Nat \ {0}
    /\ SessionLimit \in Nat /\ OwnerLimit \in Nat
    /\ IsFiniteSet(Sessions) /\ Free \notin Calls

VARIABLES
    sessions,       \* native_gateway_sessions and their installations
    parent,         \* the token that each issued token replaced, 0 if none
    held,           \* per session: the token its device holds, 0 if none
    call,           \* per request: where it is
    ownerLock,      \* the validation that holds the owner's advisory lock
    counts,         \* native_gateway_rate_windows, per session and minute
    minute,         \* the current minute
    mishap          \* sessions whose device lost a reply or overlapped calls

vars == <<sessions, parent, held, call, ownerLock, counts, minute, mishap>>
rates == <<ownerLock, counts, minute>>

Idle == [kind |-> "idle"]
NoSession == [state |-> "absent", install |-> "absent", current |-> 0, previous |-> 0]
Issued == DOMAIN parent
NewToken == Cardinality(Issued) + 1

Init ==
    /\ sessions = [s \in Sessions |-> NoSession]
    /\ parent = [t \in {} |-> 0]
    /\ held = [s \in Sessions |-> 0]
    /\ call = [c \in Calls |-> Idle]
    /\ ownerLock = Free
    /\ counts = [s \in Sessions |-> [w \in 1..Windows |-> 0]]
    /\ minute = 1
    /\ mishap = {}

(* A session that refresh and validate accept.                             *)
Usable(s) == sessions[s].state = "active" /\ sessions[s].install = "active"

Issue(from) == parent' = [t \in Issued \cup {NewToken} |->
                            IF t \in Issued THEN parent[t] ELSE from]
Goto(c, step) == call' = [call EXCEPT ![c] = step]

(* revoke_all has revoked this row and not committed: others wait for it.  *)
RowLocked(s) == \E c \in Calls : call[c].kind = "revoke_all" /\ s \in call[c].rows

-----------------------------------------------------------------------------
(* Bootstrap; a device that misses the reply has no session.               *)
bootstrap_native_session(s, arrives) ==
    /\ sessions[s].state = "absent"
    /\ NewToken <= MaxTokens
    /\ sessions' = [sessions EXCEPT ![s] =
            [state |-> "active", install |-> "active", current |-> NewToken, previous |-> 0]]
    /\ Issue(0)
    /\ held' = IF arrives THEN [held EXCEPT ![s] = NewToken] ELSE held
    /\ UNCHANGED <<call, rates, mishap>>

(* The device refreshes with the token it holds.                           *)
Refresh(c, s) ==
    /\ call[c] = Idle
    /\ held[s] # 0
    /\ Goto(c, [kind |-> "refresh", id |-> s, token |-> held[s]])
    /\ mishap' = IF \E d \in Calls : call[d].kind \in {"refresh", "reply"} /\ call[d].id = s
                 THEN mishap \cup {s} ELSE mishap
    /\ UNCHANGED <<sessions, parent, held, rates>>

(* Faulty forms end in a suffix that names the fault; the mutation runs    *)
(* put each in the place of the definition that follows it.                *)
Reused_Never(row, token) == FALSE

Reused(row, token) == row.previous = token

Rotated_ForgetsUsed(row, token) == [row EXCEPT !.current = token, !.previous = token]

Rotated(row, token) == [row EXCEPT !.current = token, !.previous = row.current]

(* refresh_native_session finds the row that has the token as its current  *)
(* or previous one.  Reuse of the previous token revokes the session and   *)
(* its installation; an older token, or one of a session that is not       *)
(* usable, is refused; the current one is replaced.                        *)
refresh_native_session(c) ==
    LET s == call[c].id
        token == call[c].token
        row == sessions[s] IN
    /\ call[c].kind = "refresh"
    /\ ~RowLocked(s)
    /\ \/ /\ Reused(row, token)
          /\ sessions' = [sessions EXCEPT ![s].state = "revoked", ![s].install = "revoked"]
          /\ Goto(c, Idle)
          /\ UNCHANGED parent
       \/ /\ ~Reused(row, token)
          /\ ~Usable(s) \/ token \notin {row.current, row.previous}
          /\ Goto(c, Idle)
          /\ UNCHANGED <<sessions, parent>>
       \/ /\ ~Reused(row, token)
          /\ Usable(s) /\ token \in {row.current, row.previous}
          /\ NewToken <= MaxTokens
          /\ sessions' = [sessions EXCEPT ![s] = Rotated(row, NewToken)]
          /\ Issue(token)
          /\ Goto(c, [kind |-> "reply", id |-> s, token |-> NewToken])
    /\ UNCHANGED <<held, rates, mishap>>

Deliver(c) ==
    /\ call[c].kind = "reply"
    /\ held' = [held EXCEPT ![call[c].id] = call[c].token]
    /\ Goto(c, Idle)
    /\ UNCHANGED <<sessions, parent, rates, mishap>>

(* A request or a reply is lost; the device keeps the token it has.        *)
LoseRefresh(c) ==
    /\ call[c].kind \in {"refresh", "reply"}
    /\ mishap' = IF call[c].kind = "reply" THEN mishap \cup {call[c].id} ELSE mishap
    /\ Goto(c, Idle)
    /\ UNCHANGED <<sessions, parent, held, rates>>

-----------------------------------------------------------------------------
(* Revocation.                                                             *)

(* Logout, and removal of the device; a removal whose installation is      *)
(* revoked already raises, which undoes the revocation of the session.     *)
revoke_native_session(s, installation) ==
    /\ sessions[s].state # "absent"
    /\ ~RowLocked(s)
    /\ installation => sessions[s].install = "active"
    /\ sessions' = [sessions EXCEPT ![s].state = "revoked",
                                    ![s].install = IF installation THEN "revoked" ELSE @]
    /\ UNCHANGED <<parent, held, call, rates, mishap>>

(* The installation alone, from the place settings (migration 033).        *)
revoke_mobile_location_installation(s) ==
    /\ sessions[s].install = "active"
    /\ sessions' = [sessions EXCEPT ![s].install = "revoked"]
    /\ UNCHANGED <<parent, held, call, rates, mishap>>

(* revoke_all_native_sessions: the UPDATE of the sessions it finds active, *)
(* then the UPDATE of the installations, and the commit.  A session        *)
(* bootstrapped between the last two counts as bootstrapped after both:    *)
(* what other calls do there touches either rows that are locked or the    *)
(* new session alone.                                                      *)
RevokeSessions(c) ==
    LET active == {s \in Sessions : sessions[s].state = "active"} IN
    /\ call[c] = Idle
    /\ \A s \in active : ~RowLocked(s)
    /\ Goto(c, [kind |-> "revoke_all", rows |-> active])
    /\ UNCHANGED <<sessions, parent, held, rates, mishap>>

RevokeInstallations_OfSessions(c) ==
    /\ call[c].kind = "revoke_all"
    /\ sessions' = [s \in Sessions |->
            IF s \in call[c].rows
            THEN [sessions[s] EXCEPT !.state = "revoked", !.install = "revoked"]
            ELSE sessions[s]]
    /\ Goto(c, Idle)
    /\ UNCHANGED <<parent, held, rates, mishap>>

RevokeInstallations(c) ==
    /\ call[c].kind = "revoke_all"
    /\ sessions' = [s \in Sessions |->
            [sessions[s] EXCEPT
                !.state = IF s \in call[c].rows THEN "revoked" ELSE @,
                !.install = IF @ = "active" THEN "revoked" ELSE @]]
    /\ Goto(c, Idle)
    /\ UNCHANGED <<parent, held, rates, mishap>>

-----------------------------------------------------------------------------
(* validate_native_session, which precedes every protected call.           *)

Tick ==
    /\ minute < Windows
    /\ minute' = minute + 1
    /\ UNCHANGED <<sessions, parent, held, call, ownerLock, counts, mishap>>

(* The minute is that of NOW(), when the transaction began.                *)
Validate(c, s) ==
    /\ call[c] = Idle
    /\ Usable(s)
    /\ Goto(c, [kind |-> "validate", id |-> s, window |-> minute])
    /\ UNCHANGED <<sessions, parent, held, rates, mishap>>

LockOwner_None(c) ==
    /\ call[c].kind = "validate"
    /\ Goto(c, [call[c] EXCEPT !.kind = "count"])
    /\ UNCHANGED <<sessions, parent, held, rates, mishap>>

LockOwner(c) ==
    /\ call[c].kind = "validate"
    /\ ownerLock = Free
    /\ ownerLock' = c
    /\ Goto(c, [call[c] EXCEPT !.kind = "count"])
    /\ UNCHANGED <<sessions, parent, held, counts, minute, mishap>>

(* The sum over the sessions: so many pairs of a session and the number    *)
(* that one of its requests in the minute has.                             *)
Counted(w) == UNION {{s} \X (1..counts[s][w]) : s \in Sessions}
OwnerCount(w) == Cardinality(Counted(w))

(* The upsert and the sums, of which the caller sees its own and what is   *)
(* committed.                                                              *)
CountRequest(c) ==
    LET w == call[c].window IN
    /\ call[c].kind = "count"
    /\ Goto(c, [kind |-> "decide", id |-> call[c].id, window |-> w,
                own |-> counts[call[c].id][w] + 1, owner |-> OwnerCount(w) + 1])
    /\ UNCHANGED <<sessions, parent, held, rates, mishap>>

Exceeded(own, owner) == own > SessionLimit \/ owner > OwnerLimit

Unlock(c) == ownerLock' = IF ownerLock = c THEN Free ELSE ownerLock

(* A request over a limit raises, and its own count is undone with it.     *)
Decide(c) ==
    /\ call[c].kind = "decide"
    /\ counts' = IF Exceeded(call[c].own, call[c].owner)
                 THEN counts
                 ELSE [counts EXCEPT ![call[c].id][call[c].window] = call[c].own]
    /\ Unlock(c)
    /\ Goto(c, Idle)
    /\ UNCHANGED <<sessions, parent, held, minute, mishap>>

Next ==
    \/ Tick
    \/ \E s \in Sessions :
        \/ \E arrives \in BOOLEAN : bootstrap_native_session(s, arrives)
        \/ \E installation \in BOOLEAN : revoke_native_session(s, installation)
        \/ revoke_mobile_location_installation(s)
    \/ \E c \in Calls :
        \/ \E s \in Sessions : Refresh(c, s) \/ Validate(c, s)
        \/ refresh_native_session(c) \/ Deliver(c) \/ LoseRefresh(c)
        \/ RevokeSessions(c) \/ RevokeInstallations(c)
        \/ LockOwner(c) \/ CountRequest(c) \/ Decide(c)

Spec == Init /\ [][Next]_vars

-----------------------------------------------------------------------------
(* Correctness.                                                            *)

(* The values of the variables; the tables of 034.                         *)
TypeOK ==
    /\ sessions \in [Sessions -> [state : {"absent", "active", "revoked"},
                                  install : {"absent", "active", "revoked"},
                                  current : 0..MaxTokens, previous : 0..MaxTokens]]
    /\ Issued = 1..Cardinality(Issued)
    /\ held \in [Sessions -> 0..MaxTokens]
    /\ \A s \in Sessions : sessions[s].current # 0 => sessions[s].current # sessions[s].previous
    /\ ownerLock \in Calls \cup {Free}
    /\ minute \in 1..Windows
    /\ mishap \subseteq Sessions

(* "Refresh is single-use rotation": a token is never replaced twice, so   *)
(* no session has two lines of descent.                                    *)
SingleUse ==
    \A t, u \in Issued : parent[t] = parent[u] /\ parent[t] # 0 => t = u

Accusation ==
    \A c \in Calls :
        call[c].kind = "refresh" /\ sessions[call[c].id].state = "active"
            /\ sessions'[call[c].id].state = "revoked" /\ call'[c] = Idle =>
                call[c].id \in mishap

(* A device that receives every reply and makes one refresh at a time is   *)
(* never taken for a thief.                                                *)
ReuseHasCause == [][Accusation]_vars

Revocation ==
    /\ \A s \in Sessions :
        /\ sessions[s].state = "revoked" =>
                /\ sessions'[s].state = "revoked"
                /\ sessions'[s].current = sessions[s].current
        /\ sessions[s].install = "revoked" => sessions'[s].install = "revoked"
    /\ \A c \in Calls :
        call[c].kind = "revoke_all" /\ call'[c] = Idle =>
            \A s \in Sessions : ~Usable(s)'

(* A revoked session or installation is never rotated or used again, and   *)
(* "revoke-all invalidates all owner sessions and installations": none is  *)
(* usable when it is done, not even one bootstrapped between its UPDATEs.  *)
RevocationHolds == [][Revocation]_vars

(* No minute counts more accepted requests than the limits of the session  *)
(* and of the owner, however many validations overlap.                     *)
RateIsBounded ==
    \A w \in 1..Windows :
        /\ \A s \in Sessions : counts[s][w] <= SessionLimit
        /\ OwnerCount(w) <= OwnerLimit
=============================================================================
