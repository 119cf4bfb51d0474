---------------------------- MODULE ActionPolicy ----------------------------
(***************************************************************************)
(* The versions of Li's action policy, the proposals to change it, and the *)
(* owner's decisions and rollbacks (migration 030).                        *)
(*                                                                         *)
(* The functions are modelled below the grain of a transaction: each       *)
(* statement that waits for a row lock is a step.  Under READ COMMITTED a  *)
(* statement chooses the effective version when it starts; when it had to  *)
(* wait and that version was superseded meanwhile, it finds no row and     *)
(* v_current is NULL.  The primary key and the index                       *)
(* one_effective_action_policy are not used to reject anything here: the   *)
(* properties say that they never need to.                                 *)
(***************************************************************************)
EXTENDS Naturals, Sequences

CONSTANTS
    Sessions,       \* concurrent database sessions
    Proposals,      \* the proposals that are ever made
    MaxVersions     \* bound: versions that are ever written

VersionsAssumption == MaxVersions \in Nat \ {0}

(* What a row says instead of a session, and of a proposal.                *)
NamesAssumption ==
    /\ "free" \notin Sessions
    /\ "baseline" \notin Proposals /\ "rollback" \notin Proposals

VARIABLES
    versions,       \* action_policy_versions, in the order of insertion
    proposals,      \* per proposal: its action_policy_proposals row
    pc,             \* per session: the statement it is at
    call,           \* per session: what it was asked to do
    current,        \* per session: the version it chose, then v_current
    proposalLock,   \* per proposal: the session that holds the row's lock
    versionLock     \* the session that holds the effective version's lock

vars == <<versions, proposals, pc, call, current, proposalLock, versionLock>>
locks == <<proposalLock, versionLock>>

Null == 0
Free == "free"
NoCall == [kind |-> "none"]
Baseline == [version |-> 1, policy |-> "baseline", names |-> 1,
             source |-> "baseline", effective |-> TRUE]
NoProposal == [state |-> "absent", base |-> Null]

Init ==
    /\ versions = <<Baseline>>
    /\ proposals = [p \in Proposals |-> NoProposal]
    /\ pc = [s \in Sessions |-> "idle"]
    /\ call = [s \in Sessions |-> NoCall]
    /\ current = [s \in Sessions |-> Null]
    /\ proposalLock = [p \in Proposals |-> Free]
    /\ versionLock = Free

Effective == CHOOSE n \in DOMAIN versions : versions[n].effective
Goto(s, step) == pc' = [pc EXCEPT ![s] = step]

(* The transaction of s is over; its locks are released.                   *)
Finish(s) ==
    /\ Goto(s, "idle")
    /\ call' = [call EXCEPT ![s] = NoCall]
    /\ current' = [current EXCEPT ![s] = Null]
    /\ proposalLock' = [p \in Proposals |->
            IF proposalLock[p] = s THEN Free ELSE proposalLock[p]]
    /\ versionLock' = IF versionLock = s THEN Free ELSE versionLock

(* An exception or a lost connection.                                      *)
Abort(s) == Finish(s) /\ UNCHANGED <<versions, proposals>>

-----------------------------------------------------------------------------
(* propose_action_policy_change reads the effective version without a lock *)
(* and inserts in a later statement.                                       *)
Begin(s, request) ==
    /\ pc[s] = "idle"
    /\ call' = [call EXCEPT ![s] = request]
    /\ UNCHANGED <<versions, proposals, current, locks>>

Propose(s, p) ==
    /\ proposals[p].state = "absent"
    /\ \A t \in Sessions : call[t].kind = "propose" => call[t].id # p
    /\ Begin(s, [kind |-> "propose", id |-> p, base |-> Effective])
    /\ Goto(s, "insert")

InsertProposal(s) ==
    /\ pc[s] = "insert"
    /\ proposals' = [proposals EXCEPT ![call[s].id] =
                        [state |-> "proposed", base |-> call[s].base]]
    /\ Finish(s)
    /\ UNCHANGED versions

Decide(s, p, decision) ==
    /\ proposals[p].state = "proposed"
    /\ Begin(s, [kind |-> decision, id |-> p])
    /\ Goto(s, "lock_proposal")

RollBack(s, target) ==
    /\ target \in DOMAIN versions
    /\ Begin(s, [kind |-> "rollback", target |-> target])
    /\ Goto(s, "choose_version")

-----------------------------------------------------------------------------
(* decide_action_policy_change and rollback_action_policy.                 *)

(* Faulty forms end in a suffix that names the fault; the mutation runs    *)
(* put each in the place of the definition that follows it.                *)
StillProposed_Stale(p) == proposals[p].state # "absent"

(* The row is read again once its lock is granted.                         *)
StillProposed(p) == proposals[p].state = "proposed"

LockProposal(s) ==
    LET p == call[s].id IN
    /\ pc[s] = "lock_proposal"
    /\ proposalLock[p] = Free
    /\ IF StillProposed(p)
       THEN /\ proposalLock' = [proposalLock EXCEPT ![p] = s]
            /\ Goto(s, "choose_version")
            /\ UNCHANGED <<versions, proposals, call, current, versionLock>>
       ELSE Abort(s)

ChooseVersion(s) ==
    /\ pc[s] = "choose_version"
    /\ current' = [current EXCEPT ![s] = Effective]
    /\ Goto(s, "lock_version")
    /\ UNCHANGED <<versions, proposals, call, locks>>

LockVersion_None(s) ==
    /\ pc[s] = "lock_version"
    /\ Goto(s, "apply")
    /\ UNCHANGED <<versions, proposals, call, current, locks>>

LockVersion(s) ==
    /\ pc[s] = "lock_version"
    /\ versionLock = Free
    /\ IF versions[current[s]].effective
       THEN versionLock' = s /\ UNCHANGED current
       ELSE current' = [current EXCEPT ![s] = Null] /\ UNCHANGED versionLock
    /\ Goto(s, "apply")
    /\ UNCHANGED <<versions, proposals, call, proposalLock>>

Superseded == [n \in DOMAIN versions |-> [versions[n] EXCEPT !.effective = FALSE]]

(* Supersede the effective version and insert its successor.  With         *)
(* v_current NULL the insert violates NOT NULL and everything is undone.   *)
Replace(s, policy, names, source) ==
    /\ current[s] # Null
    /\ Len(versions) < MaxVersions
    /\ versions' = Append(Superseded,
            [version |-> current[s] + 1, policy |-> policy, names |-> names,
             source |-> source, effective |-> TRUE])

Resolve(p, state) == proposals' = [proposals EXCEPT ![p].state = state]

Stale_Ignored(s, p) == FALSE

(* "v_current<>p.base_version", which is not true of NULL.                 *)
Stale(s, p) == current[s] # Null /\ current[s] # proposals[p].base

ApplyDecision_KeepsLocks(s) ==
    LET p == call[s].id IN
    /\ pc[s] = "apply"
    /\ call[s].kind \in {"approve", "reject"}
    /\ \/ Stale(s, p) /\ Resolve(p, "stale") /\ UNCHANGED versions
       \/ ~Stale(s, p) /\ call[s].kind = "reject"
          /\ Resolve(p, "rejected") /\ UNCHANGED versions
       \/ ~Stale(s, p) /\ call[s].kind = "approve" /\ Resolve(p, "approved")
          /\ Replace(s, p, proposals[p].base + 1, p)
    /\ Goto(s, "idle")
    /\ UNCHANGED <<call, current, locks>>

ApplyDecision(s) ==
    LET p == call[s].id IN
    /\ pc[s] = "apply"
    /\ call[s].kind \in {"approve", "reject"}
    /\ \/ Stale(s, p) /\ Resolve(p, "stale") /\ UNCHANGED versions
       \/ ~Stale(s, p) /\ call[s].kind = "reject"
          /\ Resolve(p, "rejected") /\ UNCHANGED versions
       \/ ~Stale(s, p) /\ call[s].kind = "approve" /\ Resolve(p, "approved")
          /\ Replace(s, p, proposals[p].base + 1, p)
    /\ Finish(s)

ApplyRollback_SaysRestored(s) ==
    LET target == call[s].target IN
    /\ pc[s] = "apply"
    /\ call[s].kind = "rollback"
    /\ target # current[s]
    /\ Replace(s, versions[target].policy, current[s] + 1, "restored")
    /\ Finish(s)
    /\ UNCHANGED proposals

ApplyRollback(s) ==
    LET target == call[s].target IN
    /\ pc[s] = "apply"
    /\ call[s].kind = "rollback"
    /\ target # current[s]
    /\ Replace(s, versions[target].policy, current[s] + 1, "rollback")
    /\ Finish(s)
    /\ UNCHANGED proposals

(* The call raises, or its session is lost before it commits.              *)
Fail(s) == pc[s] # "idle" /\ Abort(s)

Step(s) ==
    \/ InsertProposal(s) \/ LockProposal(s) \/ ChooseVersion(s) \/ LockVersion(s)
    \/ ApplyDecision(s) \/ ApplyRollback(s)

Next ==
    \E s \in Sessions :
        \/ \E p \in Proposals : Propose(s, p)
        \/ \E p \in Proposals, d \in {"approve", "reject"} : Decide(s, p, d)
        \/ \E n \in 1..MaxVersions : RollBack(s, n)
        \/ Step(s) \/ Fail(s)

Spec == Init /\ [][Next]_vars

-----------------------------------------------------------------------------
(* Correctness.                                                            *)

(* The values of the variables; the tables of 030.                         *)
TypeOK ==
    /\ versions \in Seq([version : 1..MaxVersions,
            policy : Proposals \cup {"baseline"}, names : 1..MaxVersions,
            source : Proposals \cup {"baseline", "rollback"}, effective : BOOLEAN])
    /\ proposals \in [Proposals ->
            [state : {"absent", "proposed", "approved", "rejected", "stale"},
             base : 0..MaxVersions]]
    /\ pc \in [Sessions -> {"idle", "insert", "lock_proposal", "choose_version",
                            "lock_version", "apply"}]
    /\ \A s \in Sessions :
            call[s].kind \in {"none", "propose", "approve", "reject", "rollback"}
    /\ current \in [Sessions -> 0..MaxVersions]
    /\ proposalLock \in [Proposals -> Sessions \cup {Free}]
    /\ versionLock \in Sessions \cup {Free}

(* The versions are one chain, whatever decisions and rollbacks meet: only *)
(* the newest is in force, and no number is drawn twice or skipped, or     *)
(* differs from the one that the policy itself carries.                    *)
OneChain ==
    \A n \in DOMAIN versions :
        /\ versions[n].effective <=> n = Len(versions)
        /\ versions[n].version = n /\ versions[n].names = n

(* The owner approved a change to what was in force: a proposal that       *)
(* became a version was written against the version before it.             *)
ReviewedAgainstPredecessor ==
    \A n \in DOMAIN versions : versions[n].source \in Proposals =>
        proposals[versions[n].source].base = n - 1

VersionsOf(p) == {n \in DOMAIN versions : versions[n].source = p}

(* A proposal is decided once: an approved one is one version, any other   *)
(* is none.                                                                *)
DecidedOnce ==
    \A p \in Proposals :
        /\ proposals[p].state = "approved" <=> VersionsOf(p) # {}
        /\ \A m, n \in VersionsOf(p) : m = n

Lock(s) == LockProposal(s) \/ LockVersion(s)
Statement(s) ==
    \/ InsertProposal(s) \/ ChooseVersion(s)
    \/ pc[s] = "apply" /\ (ApplyDecision(s) \/ ApplyRollback(s) \/ Fail(s))

(* Liveness: the database runs a statement once its lock is free, and a    *)
(* statement that cannot succeed raises.                                   *)
FairSpec == Spec /\ \A s \in Sessions : SF_vars(Lock(s)) /\ WF_vars(Statement(s))

Busy(s) == pc[s] # "idle"

(* No call waits for ever: the locks are taken in an order that cannot     *)
(* deadlock, and every path releases them.                                 *)
CallsEnd == \A s \in Sessions : Busy(s) ~> ~Busy(s)
=============================================================================
