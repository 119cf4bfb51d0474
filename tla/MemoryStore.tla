---------------------------- MODULE MemoryStore -----------------------------
(* Canonical memory: the functions of schema li_api that store, correct and  *)
(* forget a record, propose, review and confirm one; the clients of database.py, *)
(* each a transaction that may fail, be refused or commit with its answer    *)
(* lost; automatic capture from a chat turn, Theo's reviews, which overlap,  *)
(* and the owner. Of a domain only the spelling matters: two that differ in  *)
(* case are one to the unique index and two to the review.                   *)
EXTENDS Naturals, Sequences, FiniteSets

CONSTANTS
    Values,          \* statements
    Spellings,       \* spellings of the domain
    Reviews,         \* reviews in progress: process-next calls and manual ones
    MaxRecords, MaxProposals,   \* bounds
    MaxCandidates    \* statements captured from one message

BoundsAssumption == MaxRecords \in Nat /\ MaxProposals \in Nat /\ MaxCandidates \in Nat

VARIABLES
    records,    \* memory_records, in order of creation
    links,      \* supersedes: <<newer, older>>
    proposals,  \* memory_write_proposals
    capture,    \* apply_memory_capture of the chat turn
    review,     \* Theo's reviews
    refused     \* the last correction that was in order was refused

vars == <<records, links, proposals, capture, review, refused>>

None == 0
Tombstone == "[forgotten by user]"
Ids == 1..MaxRecords

(* drawn: the statement was captured from a private source.                  *)
Records == [class : {"explicit", "inference"}, domain : Spellings, value : Values \cup {Tombstone},
            temporal : {"current", "historical"},
            truth : {"confirmed", "inferred", "outdated"}, sensitive : BOOLEAN,
            private_to_li : BOOLEAN, drawn : BOOLEAN, deleted : BOOLEAN]

(* awaited: Theo asked for the owner, who has not confirmed since.           *)
Proposals == [class : {"explicit", "inference"}, domain : Spellings, value : Values,
              sensitive : BOOLEAN, drawn : BOOLEAN, awaited : BOOLEAN, result : Ids \cup {None},
              status : {"pending", "needs_user_confirmation", "approved", "merged", "rejected"}]

Idle == [pc |-> "idle", proposal |-> None, found |-> None]

TypeOK ==
    /\ Len(records) <= MaxRecords /\ \A i \in DOMAIN records : records[i] \in Records
    /\ links \subseteq (DOMAIN records) \X (DOMAIN records)
    /\ Len(proposals) <= MaxProposals /\ \A p \in DOMAIN proposals : proposals[p] \in Proposals
    /\ capture \in [pc : {"idle", "applying", "told", "failed"}, private : BOOLEAN,
                    proposes : BOOLEAN, left : 0..MaxCandidates, target : Ids \cup {None}]
    /\ review \in [Reviews -> [pc : {"idle", "decided", "looked"},
                               proposal : 0..MaxProposals, found : Ids \cup {None}]]
    /\ refused \in BOOLEAN

Init ==
    /\ records = <<>> /\ links = {} /\ proposals = <<>>
    /\ capture = [pc |-> "idle", private |-> FALSE, proposes |-> FALSE, left |-> 0, target |-> None]
    /\ review = [r \in Reviews |-> Idle]
    /\ refused = FALSE

-----------------------------------------------------------------------------
(* The database's functions. Each gives the stores that it may commit, none  *)
(* if it raises an exception.                                                *)

Live(rs) == {i \in DOMAIN rs : ~rs[i].deleted}
Explicit(rs) == {i \in Live(rs) : rs[i].class = "explicit"}

(* The partial unique index on explicit memory.                              *)
uq_memory_records_active_explicit_value(rs) ==
    \A i, j \in Explicit(rs) :
        rs[i].value = rs[j].value /\ rs[i].temporal = rs[j].temporal => i = j

Store == [records |-> records, links |-> links]
Committed(store) == IF uq_memory_records_active_explicit_value(store.records)
                    THEN {store} ELSE {}

Stated(v, d, private) ==
    [class |-> "explicit", domain |-> d, value |-> v, temporal |-> "current",
     truth |-> "confirmed", sensitive |-> FALSE, private_to_li |-> private,
     drawn |-> private, deleted |-> FALSE]

Current(v) == {i \in Explicit(records) : records[i].value = v /\ records[i].temporal = "current"}

\* Faulty: a statement that is known keeps its privacy.
Stored_Reused(v, d, private) ==
    {IF Current(v) = {} THEN [Store EXCEPT !.records = Append(@, Stated(v, d, private))]
     ELSE [Store EXCEPT !.records[i].drawn = @ \/ private]
     : i \in IF Current(v) = {} THEN {None} ELSE Current(v)}

(* A statement that is known reuses its record; privacy may increase. Its    *)
(* sensitivity becomes low or personal, whatever it was.                     *)
Stored(v, d, private) ==
    IF Current(v) = {}
    THEN {[Store EXCEPT !.records = Append(@, Stated(v, d, private))]}
    ELSE {[Store EXCEPT !.records[i].sensitive = FALSE,
                        !.records[i].private_to_li = @ \/ private,
                        !.records[i].drawn = @ \/ private] : i \in Current(v)}

(* Direct change is for explicit, low-risk memory that is still current.     *)
Correctable(i) ==
    /\ i \in Explicit(records) /\ ~records[i].sensitive
    /\ records[i].temporal = "current" /\ records[i].truth # "outdated"

Retired(store, i, by) ==
    [records |-> [store.records EXCEPT ![i].truth = "outdated", ![i].temporal = "historical"],
     links |-> store.links \cup {<<by, i>>}]

Known(i, v) == {j \in Current(v) \ {i} : records[j].truth # "outdated"}

(* No rule forbids the correction.                                           *)
InOrder(i, v) == Correctable(i) /\ \A j \in Known(i, v) : ~records[j].sensitive

(* The replacement has the old record's class, sensitivity and privacy; if   *)
(* the new statement is known already, its record takes them over. Then the  *)
(* old record becomes historical. Saying the same again confirms it.         *)
Corrected(i, v, d, private) ==
    LET old == records[i]
        new == [Stated(v, d, private \/ old.private_to_li) EXCEPT !.drawn = private \/ old.drawn]
        store == [Store EXCEPT !.records = Append(@, new)]
    IN IF ~InOrder(i, v) THEN {}
       ELSE IF old.value = v
       THEN {[Store EXCEPT !.records[i].truth = "confirmed",
                           !.records[i].private_to_li = @ \/ private,
                           !.records[i].drawn = @ \/ private]}
       ELSE IF Known(i, v) # {}
       THEN UNION {Committed(Retired(
                        [Store EXCEPT !.records[j].truth = "confirmed",
                            !.records[j].private_to_li = @ \/ old.private_to_li \/ private,
                            !.records[j].drawn = @ \/ old.drawn \/ private], i, j)) : j \in Known(i, v)}
       ELSE Committed(Retired(store, i, Len(store.records)))

\* Faulty: forgetting leaves the history that leads to the record.
Forgotten_Linked(i) ==
    IF records[i].sensitive THEN {}
    ELSE {[Store EXCEPT !.records[i].deleted = TRUE, !.records[i].truth = "outdated",
                        !.records[i].temporal = "historical", !.records[i].private_to_li = TRUE]}

(* A forgotten record is a tombstone that nothing refers to.                 *)
Forgotten(i) ==
    IF records[i].sensitive THEN {}
    ELSE {[records |-> [records EXCEPT ![i].deleted = TRUE, ![i].value = Tombstone,
                            ![i].truth = "outdated", ![i].temporal = "historical",
                            ![i].private_to_li = TRUE, ![i].drawn = FALSE],
           links |-> {l \in links : i \notin {l[1], l[2]}}]}

(* The review's test for a duplicate: not forgotten, same class, the domain  *)
(* as it is spelled, the value as the index compares it, the newest first;   *)
(* whether it is current does not matter.                                    *)
Duplicates(p) ==
    {i \in Live(records) : /\ records[i].class = p.class /\ records[i].domain = p.domain
                           /\ records[i].value = p.value}
Newest(ids) == IF ids = {} THEN None ELSE CHOOSE i \in ids : \A j \in ids : j <= i

Promoted(p, truth) ==
    [class |-> p.class, domain |-> p.domain, value |-> p.value, temporal |-> "current",
     truth |-> truth, sensitive |-> p.sensitive, private_to_li |-> FALSE, drawn |-> p.drawn,
     deleted |-> FALSE]

-----------------------------------------------------------------------------
(* A client's call: it commits and answers, it commits and the answer is     *)
(* lost, or it is refused or fails.                                          *)

Commit(store) == records' = store.records /\ links' = store.links

Room == Len(records) < MaxRecords

-----------------------------------------------------------------------------
(* Automatic capture: the statements found in a message, one after another,  *)
(* until one fails. A private source with a proposal among them is refused   *)
(* before any write.                                                         *)

Admitted(private, proposes) == ~(private /\ proposes)

apply_memory_capture ==
    /\ capture.pc \in {"idle", "told", "failed"}
    /\ \E private, proposes \in BOOLEAN, n \in 1..MaxCandidates :
        capture' = [pc |-> IF Admitted(private, proposes) THEN "applying" ELSE "failed",
                    private |-> private, proposes |-> proposes,
                    left |-> IF Admitted(private, proposes) THEN n ELSE 0, target |-> None]
    /\ UNCHANGED <<records, links, proposals, review>> /\ refused' = FALSE

Applied == capture' = [capture EXCEPT !.left = @ - 1, !.target = None,
                                      !.pc = IF capture.left = 1 THEN "told" ELSE "applying"]
Failed == capture' = [capture EXCEPT !.pc = "failed", !.left = 0, !.target = None]

Writing == capture.pc = "applying" /\ capture.target = None

(* What recall finds: neither forgotten nor outdated.                        *)
recall_memory(v) ==
    {i \in Live(records) : records[i].value = v /\ records[i].truth # "outdated"}

(* A change needs exactly one match, explicit and not sensitive.             *)
_resolve_memory_target ==
    /\ Writing
    /\ \E v \in Values :
        \/ /\ Cardinality(recall_memory(v)) = 1
           /\ \E i \in recall_memory(v) :
                /\ i \in Explicit(records) /\ ~records[i].sensitive
                /\ capture' = [capture EXCEPT !.target = i]
        \/ Failed
    /\ UNCHANGED <<records, links, proposals, review>> /\ refused' = FALSE

correct_explicit_memory ==
    /\ capture.pc = "applying" /\ capture.target # None /\ Room
    /\ \E v \in Values, d \in Spellings :
        LET stores == Corrected(capture.target, v, d, capture.private) IN
        /\ refused' = (stores = {} /\ InOrder(capture.target, v))
        /\ \/ \E s \in stores : Commit(s) /\ (Applied \/ Failed)
           \/ Failed /\ UNCHANGED <<records, links>>
    /\ UNCHANGED <<proposals, review>>

forget_memory ==
    /\ capture.pc = "applying" /\ capture.target # None
    /\ \/ \E s \in Forgotten(capture.target) : Commit(s) /\ (Applied \/ Failed)
       \/ Failed /\ UNCHANGED <<records, links>>
    /\ UNCHANGED <<proposals, review>> /\ refused' = FALSE

store_explicit_memory ==
    /\ Writing /\ Room
    /\ \E v \in Values, d \in Spellings :
        \/ \E s \in Stored(v, d, capture.private) : Commit(s) /\ (Applied \/ Failed)
        \/ Failed /\ UNCHANGED <<records, links>>
    /\ UNCHANGED <<proposals, review>> /\ refused' = FALSE

Proposed(class, v, d, sensitive, drawn) ==
    Append(proposals, [class |-> class, domain |-> d, value |-> v, sensitive |-> sensitive,
                       drawn |-> drawn, awaited |-> FALSE, result |-> None, status |-> "pending"])

propose_memory ==
    /\ Writing /\ capture.proposes /\ Len(proposals) < MaxProposals
    /\ \E class \in {"explicit", "inference"}, v \in Values, d \in Spellings, sensitive \in BOOLEAN :
        \/ proposals' = Proposed(class, v, d, sensitive, capture.private) /\ (Applied \/ Failed)
        \/ Failed /\ UNCHANGED proposals
    /\ UNCHANGED <<records, links, review>> /\ refused' = FALSE

(* The memory endpoints: the same two calls without a chat turn.             *)
explicit_memory_endpoint ==
    /\ Room
    /\ \E v \in Values, d \in Spellings, private \in BOOLEAN :
        \E s \in Stored(v, d, private) : Commit(s)
    /\ UNCHANGED <<proposals, capture, review>> /\ refused' = FALSE

create_memory_proposal_endpoint ==
    /\ Len(proposals) < MaxProposals
    /\ \E class \in {"explicit", "inference"}, v \in Values, d \in Spellings, sensitive \in BOOLEAN :
        proposals' = Proposed(class, v, d, sensitive, FALSE)
    /\ UNCHANGED <<records, links, capture, review>> /\ refused' = FALSE

-----------------------------------------------------------------------------
(* Theo's review. process-next takes the oldest pending proposal, decides    *)
(* without a transaction and then applies the decision; a manual review      *)
(* names its proposal. Any decision is possible, so it is chosen when it is  *)
(* applied; by then the proposal may have changed.                           *)

get_pending_memory_proposals == {p \in DOMAIN proposals : proposals[p].status = "pending"}

Decided(r, p) == review' = [review EXCEPT ![r] = [Idle EXCEPT !.pc = "decided", !.proposal = p]]

(* A proposal that the model cannot judge, or an inference that it would     *)
(* call a fact, is left.                                                     *)
process_next_memory_proposal(r) ==
    /\ review[r].pc = "idle"
    /\ \E p \in get_pending_memory_proposals :
        (\A q \in get_pending_memory_proposals : p <= q) /\ Decided(r, p)
    /\ UNCHANGED <<records, links, proposals, capture>> /\ refused' = FALSE

review_memory_proposal_endpoint(r) ==
    /\ review[r].pc = "idle"
    /\ \E p \in DOMAIN proposals : Decided(r, p)
    /\ UNCHANGED <<records, links, proposals, capture>> /\ refused' = FALSE

Open(p) == proposals[p].status \in {"pending", "needs_user_confirmation"}

\* Faulty: Theo may approve what the owner has not confirmed.
Approvable_Open(p) == Open(p)

Approvable(p) == proposals[p].status = "pending"

\* Faulty: the proposal's row is read without a lock.
Locked_Never(p) == FALSE

(* The proposal's row is locked from here to the commit.                     *)
Locked(p) == \E r \in Reviews : review[r].pc = "looked" /\ review[r].proposal = p

Done(r) == review' = [review EXCEPT ![r] = Idle]

Decline(r) ==
    LET p == review[r].proposal IN
    /\ review[r].pc = "decided" /\ ~Locked(p)
    /\ Open(p)
    /\ \E status \in {"rejected", "needs_user_confirmation"} :
        proposals' = [proposals EXCEPT ![p].status = status,
                                       ![p].awaited = status = "needs_user_confirmation"]
    /\ Done(r)
    /\ UNCHANGED <<records, links, capture>> /\ refused' = FALSE

(* The call fails, or the review is refused because the proposal is decided  *)
(* or awaits the owner.                                                      *)
ReviewFails(r) ==
    /\ review[r].pc \in {"decided", "looked"}
    /\ Done(r)
    /\ UNCHANGED <<records, links, proposals, capture>> /\ refused' = FALSE

(* The transaction looks for a duplicate and inserts the record afterwards:  *)
(* others commit in between.                                                 *)
LookForDuplicate(r) ==
    LET p == review[r].proposal IN
    /\ review[r].pc = "decided" /\ ~Locked(p)
    /\ Approvable(p)
    /\ review' = [review EXCEPT ![r].pc = "looked",
                                ![r].found = Newest(Duplicates(proposals[p]))]
    /\ UNCHANGED <<records, links, proposals, capture>> /\ refused' = FALSE

(* Merged into the record that was found, or promoted to a record of its own *)
(* unless the index refuses it. An inference stays one.                      *)
review_memory_proposal(r) ==
    LET p == review[r].proposal
        truth == IF proposals[p].class = "inference" THEN "inferred" ELSE "confirmed"
    IN
    /\ review[r].pc = "looked"
    /\ \/ /\ review[r].found # None
          /\ proposals' = [proposals EXCEPT ![p].status = "merged",
                                            ![p].result = review[r].found]
          /\ UNCHANGED <<records, links>>
       \/ /\ review[r].found = None /\ Room
          /\ \E s \in Committed([Store EXCEPT !.records = Append(@, Promoted(proposals[p], truth))]) :
                Commit(s)
          /\ proposals' = [proposals EXCEPT ![p].status = "approved",
                                            ![p].result = Len(records) + 1]
    /\ Done(r)
    /\ UNCHANGED capture /\ refused' = FALSE

(* The owner answers a proposal that Theo asked about; a confirmation sends  *)
(* it back to Theo's queue.                                                  *)
confirm_memory_proposal ==
    /\ \E p \in DOMAIN proposals :
        /\ proposals[p].status = "needs_user_confirmation" /\ ~Locked(p)
        /\ \E status \in {"pending", "rejected"} :
            proposals' = [proposals EXCEPT ![p].status = status, ![p].awaited = FALSE]
    /\ UNCHANGED <<records, links, capture, review>> /\ refused' = FALSE

Next ==
    \/ apply_memory_capture \/ _resolve_memory_target \/ correct_explicit_memory
    \/ forget_memory \/ store_explicit_memory \/ propose_memory
    \/ explicit_memory_endpoint \/ create_memory_proposal_endpoint
    \/ \E r \in Reviews :
        \/ process_next_memory_proposal(r) \/ review_memory_proposal_endpoint(r)
        \/ Decline(r) \/ LookForDuplicate(r) \/ review_memory_proposal(r) \/ ReviewFails(r)
    \/ confirm_memory_proposal

Spec == Init /\ [][Next]_vars

-----------------------------------------------------------------------------
(* What was captured from a private source is private in every record that   *)
(* holds it: reuse, correction and proposals never lose it                   *)
(* (apply_memory_capture, correct_explicit_memory).                          *)
PrivacyIsKept == \A i \in Live(records) : records[i].drawn => records[i].private_to_li

(* A proposal on which Theo asked for the owner becomes memory only after    *)
(* the owner has confirmed it, whatever reviews were decided before          *)
(* (review_memory_proposal, confirm_memory_proposal).                        *)
OwnerDecides == \A p \in DOMAIN proposals :
    proposals[p].status \in {"approved", "merged"} => ~proposals[p].awaited

(* Superseded records stay outdated, and nothing refers to a forgotten one   *)
(* (correct_explicit_memory, forget_memory).                                 *)
HistoryIsTrue == \A l \in links :
    /\ records[l[2]].truth = "outdated"
    /\ {l[1], l[2]} \subseteq Live(records)

(* An inference in memory is the result of exactly one approved proposal,    *)
(* though several reviews may have decided on it                             *)
(* (process_next_memory_proposal, review_memory_proposal).                   *)
PromotedOnce == \A i \in DOMAIN records : records[i].class = "inference" =>
    Cardinality({p \in DOMAIN proposals : /\ proposals[p].status = "approved"
                                          /\ proposals[p].result = i}) = 1

(* A correction of explicit, current, low-risk memory makes the new          *)
(* statement the current one, as correct_explicit_memory says. The code      *)
(* refuses it if the old statement has been corrected once before: its       *)
(* second historical record breaks the unique index.                         *)
CorrectionTakesEffect == ~refused

(* A record that Theo approved as sensitive stays so: privacy may increase,  *)
(* never decrease. The code lowers it when the owner says the same again.    *)
SensitivityHolds == \A p \in DOMAIN proposals :
    proposals[p].status = "approved" /\ proposals[p].sensitive
        => records[proposals[p].result].sensitive
=============================================================================
