---------------------------- MODULE PhotoIntake -----------------------------
(* One instance of the profile service takes a photo in: the upload of its   *)
(* adapter, bounded in size and time, and the decoder, a process of its own  *)
(* that is started, fed, awaited and killed while the request may be given   *)
(* up at every await. What the store makes of a normalized photo, and of     *)
(* several, is the business of ProfileStore: here it takes it, refuses it,   *)
(* or does not say, and may then take it later or never.                     *)
EXTENDS Integers

CONSTANTS
    Requests,      \* PUT requests that the instance receives
    MaxInput,      \* MAX_INPUT_BYTES, in units of a chunk
    MaxChunks      \* MAX_CHUNKS

LimitsAssumption == MaxInput \in Nat /\ MaxChunks \in Nat

VARIABLES
    request,       \* the handler of each request
    _upload_lock,  \* the requests that hold the adapter's lock
    _busy,         \* the flag of the decoder
    worker,        \* the decoder process started for each request
    stored,        \* the requests whose photo was stored
    sent           \* those whose write was sent, and not confirmed so far

vars == <<request, _upload_lock, _busy, worker, stored, sent>>

NoLength == -1
Running == {"spawning", "running", "killed"}
Ended == {"failed", "gone"}

(* total: what the client sends; declared: the length it declares; got and   *)
(* count: what has arrived; result: how the decoding ended; by: who has      *)
(* cancelled the handler.                                                    *)
Type(r) ==
    /\ request[r].pc \in {"new", "intake", "spawning", "decoding", "cleanup", "done"}
    /\ request[r].total \in 0..MaxInput + 1
    /\ request[r].declared \in 1..MaxInput \cup {NoLength}
    /\ request[r].got \in 0..MaxInput /\ request[r].count \in 0..MaxChunks
    /\ request[r].result \in {"none", "photo", "refused", "unavailable"}
    /\ request[r].by \in {"none", "timer", "server"}
    /\ request[r].answer \in {"none", "stored", "refused", "unavailable"}
    /\ worker[r].pc \in {"none"} \cup Running \cup Ended
    /\ worker[r].exit \in {"none", "photo", "malformed", "refused", "broken"}

(* Type invariant: the lock has one holder at most, and the decoder is busy  *)
(* when a handler is inside normalize.                                       *)
TypeOK ==
    /\ \A r \in Requests : Type(r)
    /\ stored \subseteq Requests /\ sent \subseteq Requests
    /\ \A r \in Requests : _upload_lock \in {{}, {r}} \/ r \notin _upload_lock
    /\ _busy <=> \E r \in Requests : request[r].pc \in {"spawning", "decoding", "cleanup"}

NewRequest == [pc |-> "new", total |-> 0, declared |-> NoLength, got |-> 0, count |-> 0,
               result |-> "none", by |-> "none", answer |-> "none"]

Init ==
    /\ request = [r \in Requests |-> NewRequest]
    /\ _upload_lock = {} /\ _busy = FALSE
    /\ worker = [r \in Requests |-> [pc |-> "none", exit |-> "none"]]
    /\ stored = {} /\ sent = {}

To(r, new) == request' = [request EXCEPT ![r] = new]

(* The handler returns: the lock is released and the answer sent.            *)
Return(r, answer) ==
    /\ To(r, [request[r] EXCEPT !.pc = "done", !.answer = answer])
    /\ _upload_lock' = _upload_lock \ {r}

-----------------------------------------------------------------------------
(* The upload.                                                               *)

(* What is judged before the body is read: headers and route; the identity   *)
(* of the caller; the revision, for which the store is asked.                *)
InvalidTransport(r) == Return(r, "refused")
IdentityFails(r) == Return(r, "refused")
PreflightFails(r) == \E answer \in {"refused", "unavailable"} : Return(r, answer)

collect_upload(r) ==
    /\ _upload_lock' = {r}
    /\ \E total \in 0..MaxInput + 1, declared \in 1..MaxInput \cup {NoLength} :
        To(r, [request[r] EXCEPT !.pc = "intake", !.total = total, !.declared = declared])

(* A second upload is turned away, whoever sends it.                         *)
Replace(r) ==
    /\ request[r].pc = "new"
    /\ \/ InvalidTransport(r)
       \/ _upload_lock # {} /\ Return(r, "unavailable")
       \/ _upload_lock = {} /\ (IdentityFails(r) \/ PreflightFails(r) \/ collect_upload(r))
    /\ UNCHANGED <<_busy, worker, stored, sent>>

Fits(r, size) ==
    /\ size <= MaxInput /\ request[r].count < MaxChunks
    /\ request[r].declared # NoLength => size <= request[r].declared

Chunk(r) ==
    /\ request[r].pc = "intake"
    /\ \E n \in 1..request[r].total - request[r].got :
        LET size == request[r].got + n IN
        IF Fits(r, size)
        THEN /\ To(r, [request[r] EXCEPT !.got = size, !.count = @ + 1])
             /\ UNCHANGED _upload_lock
        ELSE Return(r, "refused")
    /\ UNCHANGED <<_busy, worker, stored, sent>>

Complete(r) ==
    /\ request[r].got > 0
    /\ request[r].declared \in {NoLength, request[r].got}

(* Nothing, too little, or another signature than the declared type's.       *)
InvalidUpload(r) == Return(r, "refused") /\ UNCHANGED <<_busy, worker>>

(* The stream has ended: normalize starts the worker unless it is busy.      *)
normalize(r) ==
    \/ InvalidUpload(r)
    \/ /\ Complete(r)
       /\ IF _busy
          THEN Return(r, "unavailable") /\ UNCHANGED <<_busy, worker>>
          ELSE /\ _busy' = TRUE
               /\ To(r, [request[r] EXCEPT !.pc = "spawning", !.count = 0])
               /\ worker' = [worker EXCEPT ![r].pc = "spawning"]
               /\ UNCHANGED _upload_lock

EndOfBody(r) ==
    /\ request[r].pc = "intake" /\ request[r].got = request[r].total
    /\ normalize(r) /\ UNCHANGED <<stored, sent>>

\* Faulty: the client's disconnection is taken for the end of the body.
Disconnect_Ends(r) == request[r].pc = "intake" /\ normalize(r) /\ UNCHANGED <<stored, sent>>

(* Nobody is left to be answered.                                            *)
Disconnect(r) ==
    /\ request[r].pc = "intake"
    /\ Return(r, "none")
    /\ UNCHANGED <<_busy, worker, stored, sent>>

UploadTimeout(r) ==
    /\ request[r].pc = "intake"
    /\ Return(r, "refused")
    /\ UNCHANGED <<_busy, worker, stored, sent>>

-----------------------------------------------------------------------------
(* The worker, a process that nobody trusts: it may take for ever, crash at  *)
(* any point, or exit with 0 and something that is no photo.                 *)

Spawn(r) ==
    /\ worker[r].pc = "spawning"
    /\ \E pc \in {"running", "failed"} : worker' = [worker EXCEPT ![r].pc = pc]
    /\ UNCHANGED <<request, _upload_lock, _busy, stored, sent>>

(* How it ends: with a normalized photo; with 0 and anything else; with 65,  *)
(* for an image that it cannot take; otherwise.                              *)
Exits == {"photo", "malformed", "refused", "broken"}

Exit(r) ==
    /\ worker[r].pc = "running"
    /\ \E exit \in Exits :
        worker' = [worker EXCEPT ![r] = [pc |-> "gone", exit |-> exit]]
    /\ UNCHANGED <<request, _upload_lock, _busy, stored, sent>>

Die(r) ==
    /\ worker[r].pc = "killed"
    /\ worker' = [worker EXCEPT ![r] = [pc |-> "gone", exit |-> "broken"]]
    /\ UNCHANGED <<request, _upload_lock, _busy, stored, sent>>

-----------------------------------------------------------------------------
(* The handler awaits the spawn, then the worker's output and exit.          *)

Leave(r, result) ==
    /\ To(r, [request[r] EXCEPT !.pc = "cleanup", !.result = result])
    /\ UNCHANGED <<_upload_lock, _busy, worker, stored, sent>>

Started(r) ==
    /\ request[r].pc = "spawning"
    /\ \/ worker[r].pc = "failed" /\ Leave(r, "unavailable")
       \/ /\ worker[r].pc \in {"running", "gone"}
          /\ To(r, [request[r] EXCEPT !.pc = "decoding"])
          /\ UNCHANGED <<_upload_lock, _busy, worker, stored, sent>>

Decoded(exit) == IF exit \in {"photo", "refused"} THEN exit ELSE "unavailable"

Collect(r) ==
    /\ request[r].pc = "decoding" /\ worker[r].pc = "gone"
    /\ Leave(r, Decoded(worker[r].exit))

(* More output than a photo may have; the worker may still be at it.         *)
Overflow(r) ==
    /\ request[r].pc = "decoding"
    /\ worker[r].pc = "running" \/ worker[r].exit \in {"malformed", "broken"}
    /\ Leave(r, "unavailable")

DecodeTimeout(r) ==
    /\ request[r].pc \in {"spawning", "decoding"}
    /\ Leave(r, "unavailable")

-----------------------------------------------------------------------------
(* Cleanup, which no cancellation interrupts.                                *)

\* Faulty: cleanup waits for the worker's own end.
Killable_Never(r) == FALSE

Killable(r) == worker[r].pc = "running"

Kill(r) ==
    /\ request[r].pc = "cleanup" /\ Killable(r)
    /\ worker' = [worker EXCEPT ![r].pc = "killed"]
    /\ UNCHANGED <<request, _upload_lock, _busy, stored, sent>>

\* Faulty: a worker whose start was not awaited is not there to be ended.
CleanedUp_Unstarted(r) == worker[r].pc \in Ended \cup {"spawning"}

CleanedUp(r) == worker[r].pc \in Ended

\* Faulty: a cancellation that cleanup has held back is forgotten.
Cancelled_Forgotten(r) == request[r].by # "none" /\ request[r].result = "none"

Cancelled(r) == request[r].by # "none"

(* The photo is written before anything else is awaited: stored; refused, or *)
(* not even sent; or sent without a confirmation, which is answered like a   *)
(* store that is down. The timer of the request is answered for, the         *)
(* server's cancellation is not.                                             *)
Write(r) ==
    \/ stored' = stored \cup {r} /\ Return(r, "stored") /\ UNCHANGED sent
    \/ \E answer \in {"refused", "unavailable"} :
        Return(r, answer) /\ UNCHANGED <<stored, sent>>
    \/ sent' = sent \cup {r} /\ Return(r, "unavailable") /\ UNCHANGED stored

Finish(r) ==
    /\ request[r].pc = "cleanup" /\ CleanedUp(r)
    /\ _busy' = FALSE
    /\ IF Cancelled(r)
       THEN /\ Return(r, IF request[r].by = "timer" THEN "unavailable" ELSE "none")
            /\ UNCHANGED <<stored, sent>>
       ELSE IF request[r].result # "photo"
       THEN Return(r, request[r].result) /\ UNCHANGED <<stored, sent>>
       ELSE Write(r)
    /\ UNCHANGED worker

(* A write that nobody confirmed takes effect after all.                     *)
Land(r) ==
    /\ r \in sent
    /\ stored' = stored \cup {r} /\ sent' = sent \ {r}
    /\ UNCHANGED <<request, _upload_lock, _busy, worker>>

(* The request's own timer, or the server that shuts down, cancels the       *)
(* handler at the await it is in; during cleanup that is only remembered.    *)
Cancel(r) == \E by \in {"timer", "server"} :
    /\ LET cancelled == [request[r] EXCEPT !.by = IF @ = "server" THEN @ ELSE by] IN
       \/ /\ request[r].pc = "intake"
          /\ To(r, [cancelled EXCEPT !.pc = "done",
                                     !.answer = IF by = "timer" THEN "unavailable" ELSE "none"])
          /\ _upload_lock' = _upload_lock \ {r}
       \/ /\ request[r].pc \in {"spawning", "decoding", "cleanup"}
          /\ To(r, [cancelled EXCEPT !.pc = "cleanup"])
          /\ UNCHANGED _upload_lock
    /\ UNCHANGED <<_busy, worker, stored, sent>>

-----------------------------------------------------------------------------
Handler(r) == Started(r) \/ Collect(r) \/ Kill(r) \/ Finish(r)
Timer(r) == UploadTimeout(r) \/ DecodeTimeout(r)
System(r) == Spawn(r) \/ Die(r)

Next == \E r \in Requests :
    \/ Replace(r) \/ Chunk(r) \/ EndOfBody(r) \/ Disconnect(r) \/ Overflow(r)
    \/ Exit(r) \/ Cancel(r) \/ Handler(r) \/ Timer(r) \/ System(r) \/ Land(r)

Spec == Init /\ [][Next]_vars

(* The event loop goes on, both timers fire in the end, the system starts a  *)
(* process or fails to, and a killed process dies. The client, the worker,   *)
(* the request's timer and a write without a confirmation owe nothing.       *)
FairSpec ==
    /\ Spec
    /\ \A r \in Requests : WF_vars(Handler(r)) /\ WF_vars(Timer(r)) /\ WF_vars(System(r))

-----------------------------------------------------------------------------
(* A worker, even one that is still being started or was just killed, lives  *)
(* only within the request that holds lock and decoder: none outlives its    *)
(* request, and there are never two (DecoderProcess.normalize, its finally). *)
WorkerHasOwner ==
    \A r \in Requests : worker[r].pc \in Running =>
        /\ _upload_lock = {r} /\ _busy
        /\ request[r].pc \in {"spawning", "decoding", "cleanup"}

(* What is stored, or may still come to be, is the whole of what the client  *)
(* sent, made a photo by a worker that ended well (chunks, collect_upload,   *)
(* normalize).                                                               *)
StoredIsWhole == \A r \in stored \cup sent :
    request[r].got = request[r].total /\ worker[r].exit = "photo"

(* A request that was cancelled, also while the decoder was cleaning up,     *)
(* never stores anything. One told that it stored did; one told that it was  *)
(* refused, or told nothing, has not and never will: only "unavailable"      *)
(* leaves it open (_cleanup_without_interruption, ProfileApplication.replace,*)
(* ProfileState._write).                                                     *)
CancelledStoresNothing == \A r \in Requests :
    /\ r \in stored \cup sent => /\ request[r].by = "none"
                                /\ request[r].answer \in {"stored", "unavailable"}
    /\ request[r].answer = "stored" => r \in stored

Uploading(r) == _upload_lock = {r}

(* Whatever client, worker and requester do, the instance takes uploads      *)
(* again (DecoderProcess.normalize, asyncio.timeout).                        *)
SlotReturns == \A r \in Requests : Uploading(r) ~> ~Uploading(r)
=============================================================================
