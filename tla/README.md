# Li: specifications, checks and proofs

Li is a private AI assistant for one owner. This directory holds TLA+ modules
for the protocols on which that owner's data and actions depend, TLC
configurations that check them on small instances, and proofs for any instance
of the results that matter most. Definitions keep the names of the code where
TLA+ allows it (`begin_chat_turn`, `claim_rhythm_run`, `add_place_visit`);
`PROJECT.json` names, for every definition, the lines it stands for.

Run a check with `tlc -config X.cfg M`, the proofs with `tlapm M.tla`.

## 1. The system

    browser -> frontend (BFF) ----------\
    Android/iOS -> native-gateway -------> backend (FastAPI) -> PostgreSQL (li_api.*)
    Cloud Scheduler -> rhythm endpoint --/        |-> model, calendar, mail, research
    Cloud Run job -> retention_job ------------------> PostgreSQL + private bucket
    browser -> frontend -> profile-service ----------> its own bucket
    owner's machine -> provider trial ---------------> a container of the backend, journal file

All state is in PostgreSQL, two buckets, the providers and the trial's journal; the
processes keep none between requests. The backend calls `SECURITY DEFINER` functions
of the schema `li_api` (`src/memory/migrations`). Each call is one transaction at READ
COMMITTED, on a connection of its own (`runtime_data.py`, `database.py`). Such a call takes
effect as a whole or not at all, but each of its statements sees what has been committed
by then, and waits for rows that others have changed. A function is one step here where
it locks first what it decides on, is one statement, or leaves a conflict to a unique index; where what it read can
have changed before it writes (030, 032 to 034, reviews of memory), its statements are
steps. A request makes many calls with model and provider calls in between, and is not
atomic at all. A call that fails may have committed: the caller sees the same exception
as for a refusal.

### Components

| component | state | operations | what makes it hard | what makes it correct | module |
|---|---|---|---|---|---|
| Chat turns (`main.py`, 038, 039, 041) | `chat_turns`: state, attempt token, lease, stage, effect, response | begin (claim), bind, mark, fence, finish, expire, delete | requests outlive their lease and overlap with retries; crashes and lost answers between any two calls; memory and mail effects in between | one attempt at most has effects; a turn is repeated only if nothing happened; all clients are replayed one answer | `ChatTurn` |
| Specialist orchestration (`li_runtime.py`, `specialist_runtime.py`, `freshness_policy.py`) | the turn's routes, evidence, results; `agent_interactions` | route, retrieve, consult, refine, record, synthesise, repair, attribute | any specialist, provider or store may fail or be rejected at any point, in parallel | no model text without the required evidence; credit and proposals only for what was earned | `LiTurn` |
| Disclosure (`main.py`, `conversation_context.py`, `memory_capture.py`) | labels of messages, memories, proposals | label, read context, consult, answer, capture, review | an answer is history for the next turn; turns overlap | private words reach no specialist, through any number of derivations; rows and files of restricted messages go only to whom those name | `Disclosure` |
| Explicit memory, proposals and review (003-013, 040, `memory_capture.py`, `theo_runtime.py`) | records, links, proposals | store, correct, forget, capture, propose, review, confirm | reuse of equal values, racing reviews, stale decisions | privacy is kept; the owner decides what was left to the owner; promoted once | `MemoryStore` |
| Calendar, mail drafts, tasks (`google_calendar.py`, `google_gmail.py`, `task_runtime.py`) | events, drafts, tasks at their providers | create, complete, cancel, read | lost, late and repeated requests | one event per request; "completed" is true | `ProviderActions` |
| Action intents (`action_intents.py`, 028, 029, 038) | `action_intents`, `action_intent_events` | create, approve, confirm, deny, execute, complete, expire | decisions repeated or crossing the provider's call; expiry during it; crash after the claim | executed once, only after approval; what the row says happened did happen; settles | `ActionIntent` |
| Action policy (030) | versions, proposals | propose, decide, roll back | sessions wait for each other's locks and go on with a row that was superseded | one chain of versions, each approved against the one before it | `ActionPolicy` |
| Rhythms and briefs (031, `main.py`, `proactivity.py`) | definitions, runs, briefs | configure, claim, build, complete, fail | duplicate and late deliveries, leases | one brief per occurrence, by the claim that ended it | `RhythmRun` |
| Native gateway (034, `native-gateway`) | sessions, token hashes, rate windows | bootstrap, refresh, validate, revoke, revoke all | lost replies look like theft; bulk revocation races bootstrap | tokens are single-use; revocation is complete; limits hold | `NativeSession` |
| Place (032, 033) | installations, updates, place | register, submit, revoke, correct | queued, repeated, overlapping submissions | a device's observations advance; hourly limit | `MobilePlace` |
| Visits (032, 033, `location_settings.py`) | visits, preferences | add, reclassify and replay, pin, remove | ranges merge as they arrive in any order, change class, and grow old; calls and the owner's choices come between their statements | the table agrees with the reference of all visits at once | `PlaceVisits` |
| Artifacts (017, 023, `artifacts.py`, `retention_job.py`) | rows, bucket objects | save, keep, delete, expire | two stores without a common transaction; job against owner | bytes go for a reason, before the row says so; deletion is final | `ArtifactRetention` |
| Profile photo (`profile-service`: `object_repository.py`, `profile_state.py`) | one conditional object | metadata, replace, remove | three reads before a write, writes that land after their timeout, an unreachable bucket | nothing overwritten unseen; answers are true | `ProfileStore` |
| Upload and decoding (`profile-service`: `asgi_adapter.py`, `decoder_process.py`) | a lock, a flag, a worker process | collect, spawn, decode, clean up, answer | cancellation and timeouts at every await | no worker outlives its request; what is stored is whole and wanted; the slot returns | `PhotoIntake` |
| Provider trial (`backend/acceptance`) | journal file, container, limits | open, reserve, call, settle, stop, reconcile | crash or failure between reservation, call and usage; started twice | the journal covers what was spent; one process spends | `ProviderTrial` |
| Conversations (014, 015, 021, 025) | conversations, messages | append, list, delete | deletion under a running turn | a turn's messages are in one conversation | in `ChatTurn` |
| Open loops, agent analytics, governed systems, model registry, portfolio | one row per thing | single statements | little: no protocol of several steps | - | not modelled |
| Search and the language of requests, auth, configuration, schema, front end, profile identity, native clients, deployment | none | stateless | - | - | not modelled |

`PROJECT.json` lists every component with its reason.

### How components interact

* A chat turn calls the memory functions, the mail provider and the model, and
  may create an action intent and an artifact at its end. In `ChatTurn` those
  are an effect or no effect; how the answer comes about is `LiTurn`, who may read
  what it is drawn from is `Disclosure`, what capture does to memory is `MemoryStore`,
  and the intent's life after that is `ActionIntent`.
* What `ActionIntent.CallProvider` calls, effect or failure, is `ProviderActions`
  for the three providers: there calls overlap although `SingleExecution` holds,
  since a request may land after its caller gave up, and a chat turn calls the mail
  provider too.
* Deleting a conversation deletes its turns (`ChatTurn.DeleteConversation`) and
  the interactions that an intent's completion is attributed to
  (`ActionIntent.delete_private_conversation`).
* The retention job expires artifacts, intents and replay responses in one
  transaction: `ArtifactRetention.Job`, `ActionIntent.expire_action_intents`,
  `ChatTurn.ExpireReplay`. A failure of the first undoes the other two, and the
  fairness that `Settles` assumes says that this does not go on for ever.
* Revoking a native session revokes its place installation, and reuse of a
  refresh token does too (`NativeSession.sessions[s].install`); `MobilePlace`
  has the installation's own revocation. A submission of `MobilePlace` that sees a new
  country is an `add_place_visit` of `PlaceVisits`.
* A photo that `PhotoIntake` decoded is what a caller of `ProfileStore` saves.

## 2. Modules

### ChatTurn, TurnPromise

`ChatTurn` models one turn. `row` is the `chat_turns` row, `claims` the number of
accepted claims, which doubles as the token last drawn. A request enters when
its claim is accepted and is known by its token; `pc`, `conv`, `resumed`,
`possible`, `noCapture` and `unsaved` are the request's locals
(`conversation_id`, `resumed_stage`, `progress["external_effect_possible"]`,
`capture_error`, `conversation_history_error`). `effects` records which attempts
changed memory or the mailbox, `seen` which responses a client got as completed.

* `ClaimNew`, `ClaimAgain`, `GiveUp`, `Replay` and `ExpireReplay` are the outcomes
  of `begin_chat_turn` and of the retention of its response.
* `Request(a)` is the sequence of calls in `_execute_li_chat` and
  `li_chat_endpoint`: create and bind the conversation, read the history, store the
  owner's message, prepare, dispatch and record the mail draft, apply the capture's
  changes behind the write-ahead fence of migration 041, ask the model, append
  the answer, complete or abort. Each call answers, is refused, or commits with its
  answer lost (`Answers`).
* `Crash`, `LeaseRunsOut`, `ResponseAges` and `DeleteConversation` are the environment.

`TurnPromise` is what a stable identity promises, without leases, tokens or
processes: at most one attempt acts, the answer is that attempt's, a doubtful
turn never opens again, and only deletion forgets. `Promise` in `ChatTurn` is
the instance under the refinement mapping (`Outcome`, `row.response`, `Actor`).

### LiTurn

One call of `talk_to_li_with_outcome`. `pc` follows `LiRuntime.run`: routing (named,
referenced or ranked specialists), the packets of each specialist with its freshness
policy and the provider that it needs, the start of the interactions, parallel
consultations, Nora's one research pass, the requirement of evidence, the recording of
outcomes, synthesis, one repair, the evidence limit, attribution. A text is a kind: of
the message, which triggers and domains it has; of a model's output, whether it keeps
the contract of the prompt, whom it names as used and whether it proposes actions.
Every call to a model, a provider or the database may fail where the code catches it
(the turn goes on with less) or where it does not (`failed`).

### Disclosure

One conversation and several turns that may overlap (`InProgress`). A text is what its
labels ought to say: whether it draws on private words, and which specialists every
message it draws on allows; the label is what the code stores. A turn takes a window of
rows, fragments of older ones, files and memories, and `sent` is what each specialist's
packet holds of them (`specialist_conversation_context`). The answer is labelled by
`_response_disclosure`, saved as a row or not, and captured as memory or a proposal;
`Review` promotes a proposal.

### MemoryStore

The functions that write canonical memory, each one transaction with its checks, the
unique index as a refusal, and an answer that may be lost. `capture` is
`apply_memory_capture` of a chat turn: candidates one after another, corrections,
proposals for what is not explicit. `review` is Theo: a claim of the head proposal, a
decision by the model outside any transaction, then `review_memory_proposal`. Two
spellings of a domain are one to the unique index and two to the review's duplicate test.

### ProviderActions

Calls for the same event, draft or task. A call looks for what is there, sends its write
(`flight`), and learns that it landed, failed or was lost; a lost write may still `Land`.
The calendar refuses an id it has (409, then a read), the mailbox does not, tasks have a
unique key. Its two violations of idempotence are separate: `OneEvent` holds, `OneDraft`
does not (section 6).

### ActionIntent

One intent, its event log and the requests that decide about it. `Decide` has
one disjunct per outcome of `resolve_action_intent`; `CheckStored`,
`CallProvider` and `Report` are the rest of `decide_intent`. A provider confirms
its effect, fails with the effect done or not, or says that it is unavailable;
`VerdictOf` is what the code makes of it.

### ActionPolicy

Below the grain of a transaction: every statement that waits for a lock is a step.
`ChooseVersion` picks the effective row when the statement starts; `LockVersion`
finds it superseded when it had to wait, and `v_current` is NULL from then on.
`Stale` keeps the code's comparison with NULL, which is not true.

### RhythmRun

Deliveries of the scheduler claim an occurrence under a token and a lease,
build the brief and complete or fail the run. `configure_rhythm` may run at any
moment.

### ArtifactRetention

`rows` and `objects` are the two stores. `reserve_artifact`, `put` and
`finalize_artifact` save a file; `Ask`, then `KeepFile` or `Remove` and
`DeleteFile`, are the owner's request; a job locks what is due, removes objects
one at a time, and marks all rows when it commits or none.

### NativeSession

Sessions with the hashes of their current and previous token, refreshes with lost
replies, the two UPDATEs of revoke-all, and validations that lock the owner before they
count (034).

### MobilePlace, PlaceVisits

`MobilePlace`: the statements of `submit_mobile_location_update` between which other
sessions commit. `PlaceVisits`: the visits to one country (countries do not touch each
other) as `add_place_visit` merges them, `correct_mobile_location_visit` replays them
under another class, and time takes them out of the year that counts. `call` is the
transaction of each call, statement by statement: `Read`, `Find` and `Delete` (a DELETE
finds its rows and then waits for them), `Insert`, `Count`, `Test`, `Promote`; `Select` is the
order of a replay, which does this for each event. What a call has changed is its own
(`gone`, `added`, `preference`, `View`) and locked (`Free`, `PreferenceFree`) until `Commit`,
and nothing after `Fail`. `set_most_visited_preference` is one statement, which may come between
any two of them. The reference is `qualifying_visit_count` and `promoted_countries` of
`location_settings.py`, which no production code calls: the SQL and the Python state
one rule twice.

### ProfileStore, ProfileRepository, PhotoIntake

`ProfileStore`: one object whose generation is the length of its history; `Read`,
`NotFound` and `Verify` are a read, `Send` and `Arrive` a write that may land late or
never. `ProfileRepository` is what the service is written against, the `Repository` of
`profile_state.py` ("atomically compare current revision and replace"): a revision and a
photo, no generations, a request that is open and then answered, a save that is judged by
its revision at one moment. `Contract` in `MCRepetition` is the instance under the mapping
`AsRequest`, `AsSave`: the reads that let a request go on are steps of the store alone.
The contract also says what the conditional object does not promise: a save that was given
up may still take place, and an object that exists may be told to be absent. It keeps no
history, so that nothing is overwritten unseen because a save replaces the revision it
names and no other.

`PhotoIntake`: each request's handler, the timer that cancels it, the shutdown that cancels
it again, and the worker process from its spawning to its reaping. A cancellation strikes
at any await, except where `_cleanup_without_interruption` shields.
The worker is not trusted: it may produce a photo, fail, or stay silent. A write to the
store is answered and done, answered and not done, or neither (`sent`): it is given up with
503 (`profile_state.py:109`), and may have landed or `Land` later (`gcs_object_store.py:187`);
the client has to read before it repeats (`profile_state.py:18`). Only that answer leaves it
open: what was refused or cancelled is never stored (`CancelledStoresNothing`).

### ProviderTrial

`journal` is the file, appended before a call and synced; `run` the processes started for
the batch, of which the second is started while the first runs or after it stopped;
`bill` what the provider charged. The application inside the container may go on after
a refusal by the budget; the run stops on the first.

### MC modules

TLC explores several small components in one run: `MCProgress` (turn, intent, files,
policy, upload), `MCPrivacy` (conversation, visits), `MCRecords` (memory, place),
`MCRepetition` (profile, session, trial, provider, rhythm). `focus`, chosen at the start,
is the one component of a behaviour; the others do not exist in it, so nothing is
multiplied. The components share the variables `v1`, `v2`, ... by `INSTANCE ... WITH`, and
every property reads "while `focus` is this component, its property". Where two
components have a property of one kind, or two properties are about one thing, the MC
module joins them:

| here | is |
|---|---|
| `SingleExecution` | `ActionIntent`: `SingleExecution`, `ApprovalComesFirst` |
| `OutcomeIsTrue` | `ActionIntent`: `OutcomeIsTrue`, `ToldIsFinal` |
| `ReviewedAgainstPredecessor` | `ActionPolicy`: `ReviewedAgainstPredecessor`, `DecidedOnce` |
| `StoredIsMeant` | `PhotoIntake`: `StoredIsWhole`, `CancelledStoresNothing` |
| `RemovedForAReason` | `ArtifactRetention`: `RemovedThenMarked`, `Removal`, `Finality` |
| `EverythingEnds` | `Settles`, `DueIsSettled`, `CallsEnd`, `SlotReturns`, `TurnEnds` |
| `TripsAgree` | `PlaceVisits`: `TripsAgree`, `PromotionAgrees` |
| `PromotedOnce` | `MemoryStore`: `PromotedOnce`, `HistoryIsTrue` |
| `SpendingIsCovered` | `ProviderTrial`: `SpendingIsCovered`, `OneTrial` |
| `BriefMatchesRun` | `RhythmRun`: `BriefMatchesRun`, `ToldIsStored` |
| `BlameHasCause` | `NativeSession`: `Accusation`; `ProfileStore`: `Conflict` |
| `ContractIsKept` | `ProfileRepository!Spec`, of which `ProfileStore` is an implementation |
| `AnswersAreTrue` | `ProfileStore`: `AnswersAreTrue`; `ProviderActions`: `CompletedIsTrue` |

Assumptions on constants are definitions of the components (`VersionsAssumption`, ...)
and assumed in the MC modules, where TLC evaluates them and the proofs use them.

## 3. What TLC checks

Two processes are enough for most races here, because the rows serialise them; where a
third one matters the run has it.

| run | instance | shows |
|---|---|---|
| `turn_races` | 3 claims, 3 attempts, no deletion | `OneEffectfulAttempt`, `RepeatIsSafe`, `ReplayReportsEffects`, `CompletionsAgree`: three requests are one that is superseded, one that supersedes it and one that replays or supersedes again |
| `turn_deleted` | 2 claims, 2 attempts, deletion, fairness | `OneConversation`, the refinement `KeepsPromise`, and `Unstuck`: a turn whose request died does not stay in progress while its client retries |
| `progress` | turn: 3 specialists, 2 of them at a time; intent: 3 decisions; files: 2 files, 2 requests, 2 jobs, 1 interruption; policy: 2 sessions, 2 proposals, 3 versions; upload: 2 uploads; fairness | `EvidenceHolds`, `CreditIsEarned`, `ProposalsAreFounded`; `SingleExecution`, `OutcomeIsTrue`; `RemovedForAReason`; `OneChain`, `ReviewedAgainstPredecessor`; `WorkerHasOwner`, `StoredIsMeant`; and `EverythingEnds` of all five |
| `privacy` | conversation: 1 specialist, 3 turns, 2 at a time, a window of 2 rows; visits: 3 visits of one night in 5 days, of which 2 back count as recent, written by one call at a time | `PrivateStaysWithLi`, `RecipientsAreKept`; `TripsAgree` |
| `records` | memory: 2 values, 2 spellings, 3 records, 1 proposal, 2 reviews; place: 1 device, 3 observations, 2 calls, 4 ticks, limit 2 | `PrivacyIsKept`, `OwnerDecides`, `PromotedOnce`; `ObservationsAdvance`, `UpdatesAreBounded` |
| `repetition` | profile: 2 tabs, 3 writes; session: 2 sessions, 2 calls, 4 tokens, limits 1; trial: 2 runs of 2 cases; provider: 3 calls, 2 contents; rhythm: 3 deliveries, 2 occurrences, 3 claims | `AnswersAreTrue`, the refinement `ContractIsKept`; `SingleUse`, `BlameHasCause`, `RevocationHolds`, `RateIsBounded`; `SpendingIsCovered`; `OneEvent`; `BriefMatchesRun` |
| `turn_saved_reply`, `place_correction_lost`, `deleted_with_object`, `memory_correction`, `memory_sensitivity`, `provider_draft` | smallest that show it | six statements that the code breaks (section 6) |

The passing runs of `ChatTurn.cfg` and the MC modules also check the type invariants,
which hold the CHECK constraints of the tables. Every property has a mutant in
`PROJECT.json`: a definition changed the way a plausible bug would change it
(`SafeToRepeat_IgnoresEffect`, `LockVersion_None`, ...). These faulty forms stand
beside the definitions they replace and are used nowhere else.

Bounds, all named as constants or in a guard:

* `MaxClaims`, `AttemptLimit`: claims that are accepted, and the CHECK on
  `attempt_count`, 20 in the code. A claim beyond the limit raises and changes
  nothing, so the two may coincide. The proofs hold for any values.
* `MaxSpecialists` 2 (3 in the code) of three specialists: routing leaves one out, and two
  consultations can disagree in outcome. The three are those whose rules differ.
* `MaxInterruptions`: job executions that fail; one interruption is enough to
  lose marks but not deletions, and liveness needs it to be finite.
* `MaxVersions` 3: one approval and one rollback, or two approvals, on the baseline.
* `MaxOverlap` 2, `WindowLimit` 2: a turn reads while another writes; a row leaves the
  window and comes back as a fragment. Private text passes through at most as
  many derivations as there are turns; three make an answer's answer. One specialist is
  enough, since who may read a text is decided for each specialist by itself; the proof
  has any number.
* `LastDay` 4, `Year` 2, `MaxEvents` 3, `Spans` {1}: ranges that touch, bridge two others,
  are stated twice, and grow old while the table keeps them. Nights that touch make the
  longer ranges, and the proof has ranges of any length.
* `MaxRecords` 3, `MaxProposals` 1, `MaxCandidates` 1: a statement, its replacement and the
  repetition of the first; two reviews of one proposal.
* `MaxTime` 4 with `Day` 2 and `Hour` 1: a correction, an observation that is too
  early, too late and neither; a rate window that ends. Another device has rows, locks and
  limits of its own, so one suffices.
* `MaxTokens` 4 for two sessions: each may rotate, and one may rotate twice or be
  bootstrapped during revoke-all.
* `MaxWrites` 3: a write, its competitor, and one that lands after both.
* `MaxCalls` 2, `MaxTurns` 2, `MaxMicroUsd` 2: each of the trial's limits is reached.
* `MaxInput` 2 and `MaxChunks` 1, in chunks: an upload that is too long and one that has too
  many pieces.

`SYMMETRY` permutes constants that nothing tells apart, in runs without liveness only.
`Undisturbed` in `privacy` is a constraint: `TripsAgree` says nothing of a behaviour in which
calls that write visits overlapped, or a correction began while the table had a visit made
of the owner's and of a device's statements ("entangled"). Both can lose a visit (section 6),
and then the table and what was recorded differ for good. A correction beside visits of the
owner that no device's statement is part of is no exception, nor is anything that
the owner does to the preference at any point of a call: of these a removal that comes between
`Test` and `Promote` is told apart (`choice` is "late"), and the only one that may be
overwritten. Since nothing is stated of calls that overlap, `Calls` is one call in this run; that
the types and the preference hold of overlapping calls too (`VisitsTyped`, `Obedient`) is proved.

Deadlock: the turn of `LiTurn`, the policy, the rhythm and the places are checked for it
(each MC module's `Rest` names the components that really come to an end: an intent is
resolved, files are gone, uploads are answered, writes, tokens or calls are used up).
`ChatTurn` and `MCPrivacy` end too, and are not checked for it.

### Fairness

* `ChatTurn!FairSpec`: a server that does not crash goes on with its request
  (`Request`), time passes (`LeaseRunsOut`), and the page repeats a turn that is in
  progress or failed (`workspace.js` keeps the turn's identity for that). Nothing
  is assumed of a model or provider but that the call ends.
* `LiTurn!FairSpec`: the request goes on; calls to models and providers have timeouts.
* `ActionIntent!FairSpec`: 24 hours pass and the retention job runs daily. It assumes
  nothing of the executor, which may die: expiry alone settles an intent.
* `ActionPolicy!FairSpec`: PostgreSQL grants a row lock to each of its waiters
  (strong fairness of the lock steps) and runs statements that wait for nothing.
* `ArtifactRetention!FairSpec`: each scheduled execution of the job goes on.
* `PhotoIntake!FairSpec`: the handler goes on when it can, the timer fires, and the
  operating system ends a process that is killed and starts or refuses one that is
  asked for. Nothing is assumed of a client or of a worker that was not killed.

`MCProgress` states the same for the component in `focus`. `EverythingEnds` is one formula
because TLC pays for each temporal property over the whole graph; it speaks of one file,
one session and one upload, since the others are no different.

## 4. What is proved

| module | theorems | from |
|---|---|---|
| `ChatTurnProofs` | `TypeCorrect`, `EffectsAreExclusive`, `RepetitionIsSafe`, `ReplayIsHonest`, `CompletionIsUnique`, `DoubtIsJustified`, `FinalityHolds` | `BoundsAssumption`: `MaxClaims`, `AttemptLimit` in Nat \ {0}, `OwnerDeletes` Boolean |
| `ChatTurnConversation` | `MessagesShareConversation`: `OneConversation` | the same |
| `ChatTurnRefines` | `Implementation`: `KeepsPromise`, every step of the protocol is a step of `TurnPromise` or a stutter | the same |
| `ProgressProofs` | `TypesHold`: `TypeOK`; `EvidenceIsThere`: `EvidenceHolds`; `CreditsAreEarned`: `CreditIsEarned`; `ProposalsHaveGround`: `ProposalsAreFounded`; `IntentExecutesOnce`: `SingleExecution`; `IntentOutcomeHolds`: `OutcomeIsTrue`; `PolicyIsOneChain`: `OneChain`; `ApprovalMeetsPredecessor`: `ReviewedAgainstPredecessor`; `WorkersHaveOwners`: `WorkerHasOwner`; `PhotosAreMeant`: `StoredIsMeant`; `RemovalsHaveReason`: `RemovedForAReason` (action property) | `MCProgress!Assumptions`: the registry is finite and has Nora, James and Oliver; bounds in Nat, those of specialists and of versions positive; "free" is no session, "baseline" and "rollback" are no proposals |
| `RecordsProofs` | `TypesHold`: `TypeOK`; `PrivacyHolds`: `PrivacyIsKept`; `OwnerHolds`: `OwnerDecides`; `PromotionHolds`: `PromotedOnce`; `RateHolds`: `UpdatesAreBounded`; `AcceptanceAdvances`: `ObservationsAdvance` (action property) | `MCRecords!Assumptions`: bounds and times in Nat, the limit and the last time positive; finitely many observations; what a row says instead of a call or of a device names none |
| `RepetitionProofs` | `TypesHold`: `TypeOK`; `AnswersHold`: `AnswersAreTrue`; `ContractHolds`: `ContractIsKept`, every step of the profile is a step of `ProfileRepository` or a stutter, and `Contract!Spec` for the behaviours of the profile; `NothingIsLost`: `NoLostUpdate`, which no run checks since `ContractIsKept` says more; `TokensAreSingleUse`: `SingleUse`; `RatesHold`: `RateIsBounded`; `SpendingHolds`: `SpendingIsCovered`; `EventsAreUnique`: `OneEvent`; `BriefsMatch`: `BriefMatchesRun`; `BlameIsJust`: `BlameHasCause` and `RevocationIsFinal`: `RevocationHolds` (action properties) | `MCRepetition!Assumptions`: bounds and amounts in Nat, windows and claims positive; finitely many sessions; `Free` is no call |
| `DisclosureProofs` | `PrivateStays`: `PrivateStaysWithLi`; `RecipientsKept`: `RecipientsAreKept`; `ConversationIsTyped`, the conversation's half of `TypeOK`, which `VisitsProofs` completes | `DisclosureAssumption`: who may read each domain; the window and the overlap in Nat \ {0} |
| `VisitsProofs` | `TypesHold`: `TypeOK`; `TripsAreCounted`: `TripsAgree` | the same, and `DaysAssumption`: the last day, the year and the number of events in Nat; any set of calls |

The last five speak of components as their MC module instantiates them, for any value of
the constants: the variables `v1`, `v2`, ... stand for the component's own, and a lemma
reduces a step of `Next` to a step of the component in `focus`. Every safety invariant, every
action property and both refinements that the passing runs check are among these theorems.
Each component has one inductive invariant, shown to hold at `Init`, to be kept by each
action in a lemma of its own, and to imply the component's properties.

**Chat turns.** None of the invariants is inductive alone: that no second attempt writes
depends on what the row said before the first one did. `IInv` adds the missing parts:
`RowIsLastClaim` (only the last claimant holds the row), `UnclaimedIsIdle`,
`WriteIsMarked` and `EffectIsMarked` (a write, before and after it happens, is the
last claim's and its row carries "dispatched" or "completed" while it is accepted),
`EffectIsPossible` and `NoEarlyEffect` (a request that had an effect knows that it
may have had one, and so never reports "failed"), `FearHasCause`,
`AnswerIsHolders`, and `SeenIsFinal`. The claim needs a failed row or an unmarked one,
so it never takes the turn from an attempt that may have written. One lemma per action
shows that `IInv` is preserved, conjunct by conjunct; lemmas on the row's updates are
stated once and cited. `DoubtIsJustified` (a turn is uncertain only after a draft was
requested or a memory write fenced) and `FinalityHolds` (uncertain, expired and
completed turns stay so until their conversation is deleted) are proved beside the
properties of the runs.

`ChatTurnConversation` adds `Binding` to `IInv`: a message stored is in the conversation
the row is bound to (`Placed`), a row that says that a message is stored has one
(`StageIsTrue`), and a request past its start knows the row's conversation or was
superseded (`StartIsTrue`, `NameIsKept`, `UnclaimedIsSilent`). The second is what
makes a late `bind` harmless, which checks no token.

**Orchestration (`TurnInv`).** That an answer's evidence is there depends on the order of the
phases: a specialist whose information has to be current is either consulted or told
the limit (`ResultHolds`: the limit is given only to one that is required and unverified),
and nobody who is required is without a result once results are recorded (`Heard`).
Credit and proposals follow from the draft's own record (`DraftHolds`): what a draft used is
among the consulted, and a repaired draft or one not of the model uses nothing and
proposes nothing.

**Intents.** `OneStarts` says that a request that started (checked, called or reported) is
the only one: it started by taking the row out of "proposed", and no transition
enters that state again (`NobodyBefore`). `StepsAreTrue` ties each executor's place in
the code to what it and the provider did, `FailureIsTrue` and `SuccessIsTrue` the row to
the provider, `ApprovalIsLogged` the start to the event log. An expiry during the call
makes the row "uncertain" and not "failed", which is why `FailureIsTrue` survives it.

**Files (`FilesInv`).** A row that a job has locked stays due until the job ends, since whoever
changes rows waits for the lock (`JobHolds`); a row whose object is still to be put is
neither due nor locked nor finalized, and one request saves it (`StepHolds`, `OneSaves`). So a
step that takes an object out of the bucket is the owner's request or finds a row that is
due, and of a row marked deleted the object is gone (`RowHolds`).

**Policy (`ChainInv`, `Bounded`).** `OnLast` is the heart: whoever is about to apply a chosen
version holds its lock, and that version is the last. The proof that locking preserves
it is PostgreSQL's re-evaluation: a waiter for a superseded row gets none. `Held` and
`CallsFit` say what each session holds and why it waits, `Founded` what an approved
proposal was written against; `Bounded` is for the types alone.

**Upload (`UploadInv`).** `Intake` relates a request, its worker, the adapter's lock and the
stored photo: a worker runs only while its request is between spawning it and cleaning
up, and that request holds the lock; a photo is stored, or under way to the store, only by
a request that ended with its body whole and unexpired, its worker gone with a photo and
an answer that is "stored" or "unavailable". A cancellation may come at any of these steps,
and a write may land at any time after its own, which is where each conjunct is needed.

**Memory (`MemoryInv`).** The store is sound (`Sound`: a record drawn from a private source is
private, and the history leads to outdated, remembered records). `CaptureInv` says that a
capture from a private conversation proposes nothing, so nothing proposed is drawn from
a private source (`ProposalsInv`) and a promotion, which copies no privacy, loses none.
`ReviewsInv` says that a review that has looked for a duplicate holds its proposal's row alone
and finds it still pending, and `PromotionInv` that an inference is the result of exactly one
approved proposal: two reviews of one proposal cannot both promote it.

**Place (`PlaceInv`).** A submission that has passed the checks holds its device's row, and what
the checks found is still so (`HoldingInv`): the device's last observation is older, and
fewer than the limit were accepted since the hour before the call began. The rate is
bounded at every time t, past or present (`RateInv`), since the clock may move between the
check and the write. `AcceptedInv` makes order an invariant: nothing accepted is newer
than what the device's row says.

**Profile.** Each request about to be sent (`SendsAreFounded`) and each write on its way
(`WritesAreFounded`) names a generation together with the revision the object had at it.
Histories only grow (`AppendKeepsFounded`), so a write that the store accepts, at the current
generation, names the current revision. The answers need to know when a call began
(`TruthInv`): a generation that a caller compared is not older than its request, unless
the request expected another revision than the object had at its beginning (`Late`);
and a revision is drawn for one write, which is on its way, has landed or is lost
(`RevisionsAreFresh`). A refused write whose revision is not in the object's history was
not made, however late its answer comes. `ViewsInv` bounds what the tabs are told.

The refinement (`ContractHolds`) has to explain why the store, which compares generations,
judges as the contract, which compares revisions. A write names a generation and its
revision (`WritesAreFounded`), and no two versions have the same revision
(`VersionsDiffer`, kept because a write on its way has a revision that no version has); so
the generation is current exactly if the revision is (`GenerationIsRevision`). Without
the second a write could be refused although the revision it names is current. Since pending
writes differ in their revisions, one that is judged or lost leaves all others
(`SaveLeaves`).

**Sessions (`SessionInv`).** Tokens are drawn in order, so the tokens issued are 1..`Drawn` and a
fresh one is nobody's; a token replaced is not current, and no two sessions share one
(`Tokens`). `Devices` describes the device that lost nothing: it has one refresh at a time,
with the session's current token, so a reuse that revokes a session has a lost reply or
two refreshes at once of its device as its cause. `Rates` says that one validation at a
time is past the owner's lock and that the counts it has read are so until it decides.
The owner's count is the cardinality of a set of units (`OwnerCount`), so that one more
request is one more element, and no induction over the sessions is needed.

**Trial (`TrialInv`).** At most one process opened the journal, whoever crashed. While its
budget is not stopped, what the journal covers (`Covered`) is what the process has
counted (`Charged`), and of the call under way there is the reservation alone; what was
charged is never more than the journal covers. A crash between two writes leaves a
reservation that counts in full. Sums, too, are cardinalities of sets of units
(`ProviderTrial!Total`): `TotalGrows` and `TotalMoves` say what an append does to one.

**Providers (`ProviderInv`).** Every event in the calendar has its own id (`EventsAreKeyed`), and
whatever the provider answered to be done is done (`Answered`), also by a conflict, which the
caller meets only on its own id.

**Rhythms (`RhythmInv`).** A run that can still be claimed has no brief, so what a delivery was
told outlives every later delivery of the same occurrence; a claimed or generated run has
drawn a token, so a delivery whose claim was superseded completes nothing.

**Disclosure.** The labels are sound wherever a text is kept (`Sound`): a message that draws
on private words is labelled private, its recipients are among those the text may
go to, remembered text is private if it draws on private words, and proposed text
never does. `Kept` says the same of the packets. The hard step is the answer, which draws on
messages, fragments and memories at once (`AnswerIsLabelled`). `Settled` adds the
types of a turn that has ended, for `ConversationIsTyped`.

**Visits (`VisitsInv`).** The table merges ranges as they arrive; the reference sorts all
that was recorded and walks through it. What both compute is said of the days away, a set,
whose maximal runs are the trips. The overnight rows are these runs (`Covers`: they are
recorded throughout, what is recorded is in one of them, and the day before and the day
after are not), which merging keeps in any order of arrival and a replay rebuilds. That a
replay may delete the device's rows and keep the owner's is `From`: each overnight row was made
of one of the owner's or one of a device's statements, as its source says, and without an
entanglement of both none of them loses anything by it. The
reference's trips are the same runs (`Apart`, for a sequence in order; `InOrder` is what
sorting by counting predecessors yields). Both are as many as the last days of the runs that
are recent (`Ends`), by bijections. The walk and the replay are recursive functions of a
number; `Induction` and `Recursion` state the two principles over sets and functions,
from the least number (`LeastNumber`), as the library's have an operator as a parameter.
`VisitsInv` has three parts. `VisitsTyped` and `Obedient` hold of every behaviour, overlapping
calls included: the preference is what the owner chose last (`Obeys`), and a call that holds
its row or is about to write it has passed the test for a removal, which any later one
either waits for or is late to (`Keeps`). `VisitsRight` holds while nothing is disturbed, so
that one call at most is under way: the committed rows cover what is stated, and the call
(`Proceeds`) has rows that cover the stays it has stored so far, which with those still to be
stored are all that will be stated once it commits (`Holds`). Each statement moves one step
from the former to the latter; `Commit` makes them the table, and `Fail` leaves the table as
it was. `Promoted` says that the preference is there when, without a choice of the owner, the
trips are enough: the last stay stored has seen all rows.

Only model-checked: the two liveness properties (`Unstuck`, `EverythingEnds`), which fairness
and ENABLED put beyond the prover. The runs that expect a violation refute their property, and so prove nothing.

## 5. What is left out

### Of the modelled components

* Chat turns: the untokened `finish_chat_turn` and the fallback for schemas before 039;
  the content of messages, prompts and answers. The message and the artifact written after
  `response_ready` carry no fence (`main.py:1905`): a request that outlives its lease there
  writes beside its successor, which sees the stage.
* Orchestration: what words trigger which specialist, the prompts, the ranking of evidence.
* Disclosure: limits on length and the ranking of context (any row of the window may be
  sent); the domain limits of memories and what an email's outcome says, which answers'
  labels do not preserve; `location_context`, which goes to every routed specialist.
* Memory: titles, confidence, dates. A promoted record is taken to be current.
* Intents: hashing and canonical form of the payload (a check that holds or fails). A
  governed intent that the owner confirmed and the existing executor carried out is
  never completed (038:181): it ends as "expired without attempt". The policy is read
  after the claim (`action_intents.py:165`), so a policy approved in between counts.
* Rhythms: quiet hours and `stood_down_until` (no function writes them), `next_run`
  (read before the claim, displayed only, `main.py:857`), the ranking of a brief's items.
  Claim and completion lock the rhythm and the run in opposite orders (031:179); PostgreSQL
  aborts one of two that deadlock, which is a refused call here. The scheduler retries
  nothing (`provision-proactivity.ps1:1`), so an occurrence whose delivery is lost has no
  brief.
* Artifacts: the length of the retention period (the 30 days of 017:126 are never
  reached, since the reservation has set an expiry), downloads, lists. An object that cannot be
  deleted stops its batch (`retention_job.py:38`): `DueIsSettled` holds as interruptions are
  finite.
* Native sessions: expiry by time, the bootstrap limit, access tokens, Google identity. The
  gateway validates and then calls the backend (`native-gateway/app/main.py:75`): a request
  validated before a revocation is carried out after it.
* Place: device clocks are taken to be right. The order of observations is that of one
  installation (033:101); two devices of one owner are not ordered.
* Visits: the coarse place of a visit.
* Profile: identity. The bucket client's blob object is used by one request at a time
  (`gcs_object_store.py:139`), and the test that the adapter's lock is free and its
  taking are one step of the event loop (`asgi_adapter.py:126`).
* Trial: what the cases observe of the application, one condition; live mode only; one
  call of the application in flight at a time.

### Not modelled

Open loops and suppressions, agent analytics and governance, governed systems and the
model registry, and the portfolio are one-statement changes of one row: their races
are those of the last writer, and a model would restate the statement. Search and the
recognition of requests are inputs of `LiTurn` and `ProviderActions`. Authentication,
configuration, the transport and the front end's proxy keep no state; the schema is
declarations, whose constraints appear in the modules that rely on them. The native
clients are foundations without a protocol of their own, and deployment is scripts.

## 6. Where code and statements differ

Six have a run that shows the counterexample:

1. `turn_saved_reply`: when storing the owner's message fails, the later stages are
   marked as if it had been stored. A retry of such a turn resumes after the message
   and completes without a warning; the page says "Reply received and saved."
   (039:63, `main.py:1737`, `workspace.js:262`).
2. `place_correction_lost`: a correction that commits after a submission read the
   place is overwritten by that submission, against
   `MOBILE_LOCATION_ARCHITECTURE.md:35` (033:100-104).
3. `deleted_with_object`: a file whose finalization failed after `put` expires as
   a row without an object, and is marked deleted while its bytes stay, against
   `README.md:135` (`main.py:272`).
4. `memory_correction`: the unique index covers historical records too, so a statement
   that was corrected, made again and corrected again is refused and stays current, against
   `database.py:395` (007:28).
5. `memory_sensitivity`: stating again what Theo approved as sensitive makes it ordinary,
   against the comment 007:257 (007:264).
6. `provider_draft`: a draft is looked for and then created, so repeated, late or
   unlucky calls create it twice, against the comment `action_intents.py:185`
   (`google_gmail.py:245`).

Others came up while modelling. Their behaviours are in the models, but no run states them.

Turns and disclosure:

* The owner's message and the mark `message_saved` are two transactions; a retry
  between them stores the message twice, against
  `docs/PERSONAL_V1_DEVICE_ACCEPTANCE.md:81` (`main.py:1730-1736`; `AppendOwner`, `MarkSaved`).
* The gate for the evidence that the message's domains require acts only if nobody is routed
  (`li_runtime.py:576`, against `docs/LI_OS_PHASE_2_HANDOVER.md:163`; `due`).
* Nora's requirement of evidence without a request for research stays "pending" and blocks
  nothing (`li_runtime.py:682`, 874; `EvidenceHolds` makes the exception).
* A message's list of recipients is not kept in what is captured from it as memory
  (`memory_capture.py:519`, against `docs/LI_OS_PHASE_2_HANDOVER.md:115`; `Remembered`).
* The message itself goes to every routed specialist when its list is empty; `sent` holds the
  message only for specialists that its list names.

Memory:

* Racing reviews of equal statements that are not explicit insert two records: no unique
  index covers them (005:609; `LookForDuplicate`).
* A domain in another spelling passes the review's duplicate test and breaks the unique
  index; the approval fails every time, and the queue's head is retried for ever (005:622).
* A review may merge an approved proposal into an outdated record (`Duplicates`).

Actions and rhythms:

* A provider that says it is unavailable leaves an intent uncertain, although the
  comment at `action_intents.py:211` calls that a definite failure (`VerdictOf`).
* A completion whose attribution raises because the conversation was deleted is
  rolled back, and a known outcome is lost (038:163, against `main.py:1316`;
  `Attributable`).
* An event that the owner deleted keeps its id: the repetition gets 409, reads the deleted
  event, and says that it was created. A draft that was sent or deleted is created
  again, and an idempotency key used for other content is answered with "completed".
* A rhythm disabled between claim and completion still delivers its brief, and gets
  its `next_run` back (031:182, against `governed-proactivity.md:13`;
  `complete_rhythm_run`).

Files:

* A retention job that is interrupted after deleting objects rolls their rows
  back to expiring; a keep then keeps a file without bytes (`retention_job.py:41`,
  against `README.md:131`; `Interrupt`).
* A keep that finds the row deleted is answered with success: RETURN NEXT returns a row
  of NULLs (017:155, against `main.py:347`; `KeepFile`).

Places:

* A repeated observation that passed the identifier check before the first one
  committed is refused as out of order (033:97, against
  `MOBILE_LOCATION_ARCHITECTURE.md:34`; `LockInstallation`).
* An update checked before a revocation and committed after it is accepted, and
  marks the revoked installation as granted (033:91 and 103, against
  `MOBILE_LOCATION_ARCHITECTURE.md:36`; `WriteUpdate`).
* A correction deletes or keeps as a whole a visit that was made of nights of the owner and
  of a device's, and overlapping `add_place_visit` calls lose visits, since each deletes what
  it read and merged (033:119, 032:98-102, against `MOBILE_LOCATION_ARCHITECTURE.md:37`;
  `disturbed`).
* Whether the owner has removed the country is tested in one statement (032:107) and the
  preference upserted in the next (032:108), which spares "pinned" only: a removal that commits
  in between becomes "automatic", and the country is shown again. The reference never promotes
  what is suppressed (`location_settings.py:261`; `backend/tests/test_place_settings.py:49`, against
  `MOBILE_LOCATION_ARCHITECTURE.md:37`; `Test`, `Promote`, the choice "late"). It is the only
  way in which a removed country comes back (`PromotionAgrees`).

Profile:

* Not-found is verified by a second call: a bucket that comes back between the two
  makes a stored photo absent (`gcs_object_store.py:126`, against
  `profile_state.py:66`; `NotFound`, `Verify`).
* `TimeoutError` is an `OSError`, so an upload that takes too long is answered 422 as if the
  transport had failed (`PhotoIntake`: "refused").

## 7. Plan

In this order; further results extend the existing proof modules.

1. A promise like `TurnPromise` for the intent: one execution at most, and an
   outcome that, once told, stays.
2. A composition of `ChatTurn` with `MemoryStore`: a repeated turn stores a memory once.
3. Action properties of the sort of `RemovedForAReason` for the rhythm's runs (a final
   status stays) and the policy's versions (a version is superseded once).
4. Open loops, when they get a protocol of several steps.
