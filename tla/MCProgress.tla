----------------------------- MODULE MCProgress -----------------------------
(* Five components whose steps end in time, side by side for TLC: `focus' is *)
(* the component of a behaviour. They share variables, as each behaviour     *)
(* needs those of one component only.                                        *)
EXTENDS Integers, Sequences

CONSTANTS
    Specialists, Nora, James, Oliver, MaxSpecialists,   \* LiTurn
    Requests,                                           \* ActionIntent
    Files, FileRequests, Jobs, MaxInterruptions,        \* ArtifactRetention
    Sessions, Proposals, MaxVersions,                   \* ActionPolicy
    Uploads, MaxInput, MaxChunks                        \* PhotoIntake

VARIABLES focus, v1, v2, v3, v4, v5, v6, v7, v8, v9, v10, v11, v12, v13

L == INSTANCE LiTurn WITH
        pc <- v1, routed <- v2, needs <- v3, due <- v4, web <- v5, fresh <- v6,
        result <- v7, unavailable <- v8, rows <- v9, ids <- v10, draft <- v11,
        credit <- v12, answer <- v13
I == INSTANCE ActionIntent WITH
        Lifetime <- TRUE, Deletes <- TRUE,
        row <- v1, log <- v2, overdue <- v3, linked <- v4,
        pc <- v5, verdict <- v6, answer <- v7, told <- v8
F == INSTANCE ArtifactRetention WITH
        Artifacts <- Files, Requests <- FileRequests,
        rows <- v1, objects <- v2, pc <- v3, locked <- v4, marked <- v5,
        interruptions <- v6, asked <- v7
P == INSTANCE ActionPolicy WITH
        versions <- v1, proposals <- v2, pc <- v3, call <- v4, current <- v5,
        proposalLock <- v6, versionLock <- v7
U == INSTANCE PhotoIntake WITH
        Requests <- Uploads,
        request <- v1, _upload_lock <- v2, _busy <- v3, worker <- v4, stored <- v5,
        sent <- v6

ASSUME Assumptions ==
    /\ L!RegistryAssumption /\ I!SwitchAssumption /\ F!InterruptionsAssumption
    /\ P!VersionsAssumption /\ P!NamesAssumption /\ U!LimitsAssumption

upload == <<v1, v2, v3, v4, v5, v6>>
policy == <<upload, v7>>
files == policy
intent == <<policy, v8>>
last == <<v9, v10, v11, v12, v13>>
turn == <<intent, last>>
vars == <<focus, turn>>

Spare == v9 = "none" /\ v10 = "none" /\ v11 = "none" /\ v12 = "none" /\ v13 = "none"

Init ==
    \/ focus = "turn" /\ L!Init
    \/ focus = "intent" /\ I!Init /\ Spare
    \/ focus = "files" /\ F!Init /\ v8 = "none" /\ Spare
    \/ focus = "policy" /\ P!Init /\ v8 = "none" /\ Spare
    \/ focus = "upload" /\ U!Init /\ v7 = "none" /\ v8 = "none" /\ Spare

Turn == focus = "turn" /\ L!Next /\ UNCHANGED focus
Intent == focus = "intent" /\ I!Next /\ UNCHANGED <<focus, last>>
File == focus = "files" /\ F!Next /\ UNCHANGED <<focus, v8, last>>
Policy == focus = "policy" /\ P!Next /\ UNCHANGED <<focus, v8, last>>
Upload == focus = "upload" /\ U!Next /\ UNCHANGED <<focus, v7, v8, last>>

(* Nothing more has to happen to an intent, to files and to uploads: the     *)
(* other components are checked for deadlock.                                *)
Rest == focus \in {"intent", "files", "upload"} /\ UNCHANGED vars

Next == Turn \/ Intent \/ File \/ Policy \/ Upload \/ Rest

(* Each component's own fairness, owed to the one that moves.                *)
Fairness ==
    /\ WF_turn(focus = "turn" /\ L!Next)
    /\ WF_intent(focus = "intent" /\ I!DayPasses)
    /\ WF_intent(focus = "intent" /\ I!expire_action_intents)
    /\ \A j \in Jobs : WF_files(focus = "files" /\ F!Job(j))
    /\ \A s \in Sessions :
        /\ SF_policy(focus = "policy" /\ P!Lock(s))
        /\ WF_policy(focus = "policy" /\ P!Statement(s))
    /\ \A r \in Uploads :
        /\ WF_upload(focus = "upload" /\ U!Handler(r))
        /\ WF_upload(focus = "upload" /\ U!Timer(r))
        /\ WF_upload(focus = "upload" /\ U!System(r))

Spec == Init /\ [][Next]_vars /\ Fairness

-----------------------------------------------------------------------------
(* Correctness: the components' properties, which their modules explain.     *)

(* The type invariants of the five modules.                                  *)
TypeOK ==
    /\ focus = "turn" => L!TypeOK
    /\ focus = "intent" => I!TypeOK
    /\ focus = "files" => F!TypeOK
    /\ focus = "policy" => P!TypeOK
    /\ focus = "upload" => U!TypeOK

(* Text of the model is answered only on the evidence that the routed        *)
(* specialists' policies require (LiRuntime.run).                            *)
EvidenceHolds == focus = "turn" => L!EvidenceHolds

(* Specialists are credited only for stored advice that the model's answer   *)
(* used (LiRuntime.run).                                                     *)
CreditIsEarned == focus = "turn" => L!CreditIsEarned

(* Actions are proposed only by an answer that kept its contract             *)
(* (LiRuntime.run).                                                          *)
ProposalsAreFounded == focus = "turn" => L!ProposalsAreFounded

(* However often the owner approves and whatever is lost, one request at     *)
(* most takes an intent to its provider, and only one that the owner         *)
(* approved (decide_intent, resolve_action_intent).                          *)
SingleExecution ==
    focus = "intent" => I!SingleExecution /\ I!ApprovalComesFirst

(* What an intent's row says happened is what happened, and a final state    *)
(* that the owner was told never changes (resolve_action_intent).            *)
OutcomeIsTrue == focus = "intent" => I!OutcomeIsTrue /\ I!ToldIsFinal

(* An object is removed at the owner's request or because it is due, before  *)
(* its row is marked, and its row is then final (retention_job).             *)
RemovedForAReason ==
    [](focus = "files" => F!RemovedThenMarked) /\
    [][focus = "files" => F!Removal /\ F!Finality]_vars

(* The versions of the action policy are one chain with one in force         *)
(* (decide_action_policy_change, rollback_action_policy).                    *)
OneChain == focus = "policy" => P!OneChain

(* A version was approved once, and against the version before it            *)
(* (decide_action_policy_change).                                            *)
ReviewedAgainstPredecessor ==
    focus = "policy" => P!ReviewedAgainstPredecessor /\ P!DecidedOnce

(* A decoder process lives only within the request that holds lock and       *)
(* decoder (DecoderProcess.normalize).                                       *)
WorkerHasOwner == focus = "upload" => U!WorkerHasOwner

(* A photo is stored only if it is whole, well decoded and wanted to the     *)
(* end; who is told so stored it, who is refused never does (collect_upload, *)
(* ProfileApplication.replace, ProfileState._write).                         *)
StoredIsMeant ==
    focus = "upload" => U!StoredIsWhole /\ U!CancelledStoresNothing

(* Settles, DueIsSettled, CallsEnd, SlotReturns and TurnEnds at once: an     *)
(* intent is resolved, a due file deleted or kept, a session's call done, an *)
(* upload's slot free again and a chat turn answered or failed in the end    *)
(* (expire_action_intents, retention_job, decide_action_policy_change,       *)
(* DecoderProcess.normalize, LiRuntime.run). One formula says it, since only *)
(* one component moves, and of one file, session and upload, which are as    *)
(* good as any other: TLC needs the time of one property.                    *)
EverythingEnds ==
    LET a == CHOOSE a \in Files : TRUE
        s == CHOOSE s \in Sessions : TRUE
        r == CHOOSE r \in Uploads : TRUE
    IN  (\/ focus = "intent" /\ I!Proposed
         \/ focus = "files" /\ F!Expired(a)
         \/ focus = "policy" /\ P!Busy(s)
         \/ focus = "upload" /\ U!Uploading(r)
         \/ focus = "turn" /\ L!Started)
        ~>
        (\/ focus = "intent" /\ I!Resolved
         \/ focus = "files" /\ ~F!Expired(a)
         \/ focus = "policy" /\ ~P!Busy(s)
         \/ focus = "upload" /\ ~U!Uploading(r)
         \/ focus = "turn" /\ L!Ended)
=============================================================================
