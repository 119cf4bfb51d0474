-------------------------- MODULE ArtifactRetention --------------------------
(***************************************************************************)
(* A file of Li's lives in two stores that share no transaction: its row   *)
(* in li_runtime_data.artifacts (migration 017) and its object in a        *)
(* private bucket (artifacts.py).  Requests of the backend save, keep and  *)
(* delete files (main.py) while the daily retention job (retention_job.py) *)
(* removes what is due.                                                    *)
(*                                                                         *)
(* A request is one transaction or one bucket call per step.  The job is   *)
(* one transaction from its first statement to its last: its rows stay     *)
(* locked and its marks invisible until it commits, and it loses the marks *)
(* but not the deletions when it is interrupted.                           *)
(***************************************************************************)
EXTENDS Naturals, FiniteSets

CONSTANTS
    Artifacts,          \* the artifacts that are ever saved
    Requests,           \* concurrent requests to the backend
    Jobs,               \* executions of the retention job that may overlap
    MaxInterruptions    \* bound: job executions that fail before they commit

InterruptionsAssumption == MaxInterruptions \in Nat

VARIABLES
    rows,           \* per artifact: its row
    objects,        \* the artifacts whose object is in the bucket
    pc,             \* per request: the step it is at and what it is about
    locked,         \* per job: the rows it selected FOR UPDATE
    marked,         \* per job: the rows its transaction has marked expired
    interruptions,  \* job executions that failed
    asked           \* the artifacts whose deletion the owner asked for

jobs == <<locked, marked, interruptions>>
vars == <<rows, objects, pc, jobs, asked>>

NoRow == [state |-> "absent", source |-> "none", stored |-> FALSE, expires |-> "never"]
Idle == [at |-> "idle"]

Init ==
    /\ rows = [a \in Artifacts |-> NoRow]
    /\ objects = {}
    /\ pc = [r \in Requests |-> Idle]
    /\ locked = [j \in Jobs |-> {}]
    /\ marked = [j \in Jobs |-> {}]
    /\ interruptions = 0
    /\ asked = {}

Goto(r, step, a) == pc' = [pc EXCEPT ![r] = [at |-> step, id |-> a]]
Finish(r) == pc' = [pc EXCEPT ![r] = Idle]
At(r, step) == pc[r].at = step

(* Faulty forms end in a suffix that names the fault; the mutation runs    *)
(* put each in the place of the definition that follows it.                *)
Unlocked_Always(a) == TRUE

(* An UPDATE waits for a row that the job's transaction has locked.        *)
Unlocked(a) == \A j \in Jobs : a \notin locked[j]

-----------------------------------------------------------------------------
(* _persist_artifact: reserve the row, put the object, finalize the row.   *)

Saving(a) == \E r \in Requests : pc[r].at \in {"put", "finalize", "discard"} /\ pc[r].id = a

reserve_artifact(r, a, source) ==
    /\ At(r, "idle")
    /\ rows[a].state = "absent"
    /\ rows' = [rows EXCEPT ![a] =
            [state |-> "expiring", source |-> source, stored |-> FALSE,
             expires |-> IF source = "li_generated" THEN "later" ELSE "never"]]
    /\ Goto(r, "put", a)
    /\ UNCHANGED <<objects, jobs, asked>>

put(r) ==
    /\ At(r, "put")
    /\ objects' = objects \cup {pc[r].id}
    /\ Goto(r, "finalize", pc[r].id)
    /\ UNCHANGED <<rows, jobs, asked>>

(* An upload is saved with keep, a generated file without.                 *)
Finalized(row) ==
    IF row.source = "upload"
    THEN [row EXCEPT !.stored = TRUE, !.state = "kept", !.expires = "never"]
    ELSE [row EXCEPT !.stored = TRUE, !.state = "expiring"]

finalize_artifact(r) ==
    LET a == pc[r].id IN
    /\ At(r, "finalize")
    /\ Unlocked(a)
    /\ IF rows[a].state # "deleted"
       THEN rows' = [rows EXCEPT ![a] = Finalized(rows[a])] /\ Finish(r)
       ELSE Goto(r, "discard", a) /\ UNCHANGED rows
    /\ UNCHANGED <<objects, jobs, asked>>

-----------------------------------------------------------------------------
(* POST /artifacts/{artifact_id}/retention                                 *)

(* get_artifact reads without a lock; a missing file is answered 404.      *)
Ask(r, a, action) ==
    /\ At(r, "idle")
    /\ rows[a].state \in {"expiring", "kept"}
    /\ rows[a].stored
    /\ Goto(r, IF action = "delete" THEN "remove" ELSE "keep", a)
    /\ asked' = IF action = "delete" THEN asked \cup {a} ELSE asked
    /\ UNCHANGED <<rows, objects, jobs>>

Remove_Skipped(r) ==
    /\ At(r, "remove")
    /\ Goto(r, "delete", pc[r].id)
    /\ UNCHANGED <<rows, objects, jobs, asked>>

(* An object that is gone already (404) counts as deleted.  A file whose   *)
(* finalization found no row is discarded and the request fails.           *)
Remove(r) ==
    /\ pc[r].at \in {"remove", "discard"}
    /\ objects' = objects \ {pc[r].id}
    /\ IF At(r, "remove") THEN Goto(r, "delete", pc[r].id) ELSE Finish(r)
    /\ UNCHANGED <<rows, jobs, asked>>

Keep_Revives(a) == rows[a].state # "absent"

Keep(a) == rows[a].state # "deleted"

Kept_StillExpires(row) == [row EXCEPT !.state = "kept"]

Kept(row) == [row EXCEPT !.state = "kept", !.expires = "never"]

(* When the UPDATE finds no row, RETURN NEXT still returns one, of NULLs:  *)
(* "not changed" is never true and the answer is 200 all the same.         *)
KeepFile(r) ==
    LET a == pc[r].id IN
    /\ At(r, "keep")
    /\ Unlocked(a)
    /\ rows' = IF Keep(a) THEN [rows EXCEPT ![a] = Kept(rows[a])] ELSE rows
    /\ Finish(r)
    /\ UNCHANGED <<objects, jobs, asked>>

DeleteFile(r) ==
    LET a == pc[r].id IN
    /\ At(r, "delete")
    /\ Unlocked(a)
    /\ rows' = [rows EXCEPT ![a].state = "deleted"]
    /\ Finish(r)
    /\ UNCHANGED <<objects, jobs, asked>>

(* A bucket or database error, or the loss of the process, ends a request  *)
(* between any two of its steps; nothing resumes it.                       *)
GiveUp(r) ==
    /\ ~At(r, "idle")
    /\ Finish(r)
    /\ UNCHANGED <<rows, objects, jobs, asked>>

-----------------------------------------------------------------------------
(* The retention job.                                                      *)

(* The retention period is days, a request is minutes.                     *)
FallDue(a) ==
    /\ rows[a].state = "expiring"
    /\ rows[a].expires = "later"
    /\ ~Saving(a)
    /\ rows' = [rows EXCEPT ![a].expires = "due"]
    /\ UNCHANGED <<objects, pc, jobs, asked>>

Expired(a) == rows[a].state = "expiring" /\ rows[a].expires = "due"

list_expired_artifacts_OnlyStored(j) ==
    LET batch == {a \in Artifacts : Expired(a) /\ Unlocked(a) /\ rows[a].stored} IN
    /\ locked[j] = {}
    /\ batch # {}
    /\ locked' = [locked EXCEPT ![j] = batch]
    /\ UNCHANGED <<rows, objects, pc, marked, interruptions, asked>>

(* FOR UPDATE SKIP LOCKED passes over what another execution has locked.   *)
list_expired_artifacts(j) ==
    LET batch == {a \in Artifacts : Expired(a) /\ Unlocked(a)} IN
    /\ locked[j] = {}
    /\ batch # {}
    /\ locked' = [locked EXCEPT ![j] = batch]
    /\ UNCHANGED <<rows, objects, pc, marked, interruptions, asked>>

(* Delete the object, if the row names one, and mark the row.              *)
RemoveExpired(j, a) ==
    /\ a \in locked[j] \ marked[j]
    /\ objects' = IF rows[a].stored THEN objects \ {a} ELSE objects
    /\ marked' = [marked EXCEPT ![j] = @ \cup {a}]
    /\ UNCHANGED <<rows, pc, locked, interruptions, asked>>

Release(j) ==
    /\ locked' = [locked EXCEPT ![j] = {}]
    /\ marked' = [marked EXCEPT ![j] = {}]

Commit(j) ==
    /\ locked[j] # {}
    /\ marked[j] = locked[j]
    /\ rows' = [a \in Artifacts |->
            IF a \in marked[j] THEN [rows[a] EXCEPT !.state = "deleted"] ELSE rows[a]]
    /\ Release(j)
    /\ UNCHANGED <<objects, pc, interruptions, asked>>

(* A deletion that fails, or the loss of the job, undoes every mark of the *)
(* transaction, those of other files included.                             *)
Interrupt(j) ==
    /\ locked[j] # {}
    /\ interruptions < MaxInterruptions
    /\ interruptions' = interruptions + 1
    /\ Release(j)
    /\ UNCHANGED <<rows, objects, pc, asked>>

-----------------------------------------------------------------------------
Request(r) ==
    \/ \E a \in Artifacts, s \in {"upload", "li_generated"} : reserve_artifact(r, a, s)
    \/ put(r) \/ finalize_artifact(r)
    \/ \E a \in Artifacts, action \in {"keep", "delete"} : Ask(r, a, action)
    \/ Remove(r) \/ KeepFile(r) \/ DeleteFile(r) \/ GiveUp(r)

Job(j) ==
    \/ list_expired_artifacts(j)
    \/ \E a \in Artifacts : RemoveExpired(j, a)
    \/ Commit(j)

Next ==
    \/ \E r \in Requests : Request(r)
    \/ \E j \in Jobs : Job(j) \/ Interrupt(j)
    \/ \E a \in Artifacts : FallDue(a)

Spec == Init /\ [][Next]_vars

(* Scheduler starts the job every day, and Cloud Run retries it; a bucket  *)
(* error that stays for ever is excluded by MaxInterruptions.              *)
FairSpec == Spec /\ \A j \in Jobs : WF_vars(Job(j))

-----------------------------------------------------------------------------
(* Correctness.                                                            *)

(* The values of the variables; the CHECKs of migration 017, among them    *)
(* that a kept row has no expiry.                                          *)
TypeOK ==
    /\ rows \in [Artifacts ->
            [state : {"absent", "expiring", "kept", "deleted"},
             source : {"none", "upload", "li_generated"},
             stored : BOOLEAN, expires : {"never", "later", "due"}]]
    /\ \A a \in Artifacts : rows[a].state = "kept" => rows[a].expires = "never"
    /\ objects \subseteq Artifacts
    /\ \A r \in Requests : pc[r].at \in
            {"idle", "put", "finalize", "discard", "remove", "keep", "delete"}
    /\ locked \in [Jobs -> SUBSET Artifacts]
    /\ \A j \in Jobs : marked[j] \subseteq locked[j]
    /\ interruptions \in 0..MaxInterruptions
    /\ asked \subseteq Artifacts

Removal ==
    \A a \in objects \ objects' :
        \/ a \in asked
        \/ rows[a].source = "li_generated"
           /\ rows[a].state = "expiring" /\ rows[a].expires = "due"

(* An object is removed only at the owner's request, or when Li made the   *)
(* file and its row still says that it is due: what the owner uploaded     *)
(* stays, and a keep that commits is never overtaken by a job that listed  *)
(* the file before.                                                        *)
RemovedForAReason == [][Removal]_vars

(* "The active Cloud Storage object is removed first and its metadata is   *)
(* then marked deleted": a row that names an object is never marked        *)
(* before the object is gone.                                              *)
RemovedThenMarked ==
    \A a \in Artifacts : rows[a].state = "deleted" /\ rows[a].stored => a \notin objects

Finality == \A a \in Artifacts : rows[a].state = "deleted" => rows'[a] = rows[a]

(* A deleted file is never kept, stored or listed again, whatever the      *)
(* requests that read its row before it was deleted.                       *)
DeletedIsFinal == [][Finality]_vars

(* Liveness: a file that is due, and that nobody keeps, is deleted,        *)
(* whatever failed on the way.                                             *)
DueIsSettled == \A a \in Artifacts : Expired(a) ~> ~Expired(a)

-----------------------------------------------------------------------------
(* A statement of the documents that the code breaks.                      *)

(* README 135: "Deleted" means that the object was removed.                *)
DeletedHasNoObject == \A a \in Artifacts : rows[a].state = "deleted" => a \notin objects
=============================================================================
