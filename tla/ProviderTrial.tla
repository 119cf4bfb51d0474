--------------------------- MODULE ProviderTrial ----------------------------
(* The synthetic provider trial: an owner-authorized batch of chat turns     *)
(* against the real provider, paid for once. Its journal is written ahead of *)
(* every call and can be created only once; a run that stops or crashes is   *)
(* reconciled from it and never restarted. The owner may start the batch     *)
(* again, also while it runs.                                                *)
EXTENDS Integers, Sequences, SequencesExt, FiniteSets

CONSTANTS
    Runs,            \* processes that the owner starts for the batch
    Cases,           \* the number of its cases, each a turn of its own
    Amounts,         \* bounds on the price of a request, in micro-dollars
    MaxCalls, MaxTurns, MaxMicroUsd

BudgetAssumption ==
    /\ Amounts \subseteq Nat
    /\ Cases \in Nat /\ MaxCalls \in Nat /\ MaxTurns \in Nat /\ MaxMicroUsd \in Nat

VARIABLES
    exists,      \* the batch's journal file is there
    journal,     \* its events
    container,   \* the runs whose container, of one fixed name, is there
    run,         \* the processes
    bill         \* what the provider has charged each run

vars == <<exists, journal, container, run, bill>>

Event(kind, call, amount) == [event |-> kind, call |-> call, bound_micro_usd |-> amount]
Note(kind) == Event(kind, 0, 0)

(* at: cases begun; seen: what the application's calls have shown in the     *)
(* present one; cost: what the provider charged for the call in flight.      *)
NotStarted == [pc |-> "idle", owned |-> FALSE, at |-> 0, seen |-> {}, cost |-> 0,
               calls |-> <<>>, stopped |-> FALSE, replaying |-> FALSE]

(* Type invariant: one journal, one container of its name, and no process    *)
(* past the limits of calls and turns.                                       *)
TypeOK ==
    /\ exists \in BOOLEAN /\ (journal # <<>> => exists)
    /\ \A i \in DOMAIN journal :
        /\ journal[i].event \in {"created", "turn", "reserved", "usage", "stopped", "checkpoint"}
        /\ journal[i].call \in 0..MaxCalls /\ journal[i].bound_micro_usd \in 0..MaxMicroUsd
    /\ container \subseteq Runs /\ Cardinality(container) <= 1
    /\ \A r \in Runs :
        /\ run[r].pc \in {"idle", "checked", "open", "up", "turn", "reserved", "answered",
                          "failing", "cleanup", "ended", "crashed"}
        /\ run[r].at \in 0..MaxTurns /\ Len(run[r].calls) <= MaxCalls
        /\ run[r].seen \subseteq {"response", "failure"}
    /\ bill \in [Runs -> Nat]

Init ==
    /\ exists = FALSE /\ journal = <<>> /\ container = {}
    /\ run = [r \in Runs |-> NotStarted]
    /\ bill = [r \in Runs |-> 0]

-----------------------------------------------------------------------------
(* The exception of a failure. What the application makes of it is not the   *)
(* budget's to know: the present turn may go on to other calls, or the run   *)
(* ends; outside a turn it ends.                                             *)

To(r, new) == run' = [run EXCEPT ![r] = new]
Ends(r) == To(r, [run[r] EXCEPT !.pc = "cleanup"])

Raise(r, stops) == \E pc \in {"cleanup", "turn"} :
    /\ pc = "turn" => run[r].at > 0
    /\ To(r, [run[r] EXCEPT !.pc = pc, !.seen = @ \cup {"failure"}, !.stopped = @ \/ stops])

(* A failed append stops the budget; its line may have reached the file.     *)
_append(r, event, new) ==
    \/ journal' = Append(journal, event) /\ To(r, new)
    \/ journal' \in {journal, Append(journal, event)} /\ Raise(r, TRUE)

-----------------------------------------------------------------------------
(* Starting. Neither journal nor container may be there; both are tested     *)
(* before they are created.                                                  *)

trial_journal(r) ==
    /\ run[r].pc = "idle"
    /\ To(r, [run[r] EXCEPT !.pc = IF exists \/ container # {} THEN "ended" ELSE "checked"])
    /\ UNCHANGED <<exists, journal, container, bill>>

\* Faulty: the journal is opened for appending.
MayCreate_Append == TRUE

MayCreate == ~exists

TrialBudget(r) ==
    /\ run[r].pc = "checked"
    /\ \/ /\ MayCreate /\ exists' = TRUE
          /\ \/ journal' = Append(journal, Note("created")) /\ To(r, [run[r] EXCEPT !.pc = "open"])
             \/ /\ journal' \in {journal, Append(journal, Note("created"))}
                /\ To(r, [run[r] EXCEPT !.pc = "ended"])
       \/ ~MayCreate /\ To(r, [run[r] EXCEPT !.pc = "ended"]) /\ UNCHANGED <<exists, journal>>
    /\ UNCHANGED <<container, bill>>

(* The name is unique. If the command fails the container's identity is not  *)
(* known, whether it is there or not.                                        *)
StartContainer(r) ==
    /\ run[r].pc = "open"
    /\ \/ container = {} /\ container' = {r} /\ To(r, [run[r] EXCEPT !.pc = "up", !.owned = TRUE])
       \/ container = {} /\ container' \in {{}, {r}} /\ Ends(r)
       \/ container # {} /\ Ends(r) /\ UNCHANGED container
    /\ UNCHANGED <<exists, journal, bill>>

(* The database or the provider's key is not to be had; or all cases are done. *)
LeaveCases(r) ==
    /\ run[r].pc = "up" /\ run[r].at \in {0, Cases}
    /\ Ends(r)
    /\ UNCHANGED <<exists, journal, container, bill>>

-----------------------------------------------------------------------------
(* The cases.                                                                *)

turn(r) ==
    /\ run[r].pc = "up" /\ run[r].at < Cases
    /\ IF run[r].stopped \/ run[r].at >= MaxTurns
       THEN Ends(r) /\ UNCHANGED journal
       ELSE \/ /\ journal' = Append(journal, Note("turn"))
               /\ To(r, [run[r] EXCEPT !.pc = "turn", !.at = @ + 1, !.seen = {},
                                       !.replaying = FALSE])
            \/ journal' \in {journal, Append(journal, Note("turn"))} /\ Ends(r)
    /\ UNCHANGED <<exists, container, bill>>

(* Between the application's calls what was observed of it is noted, here    *)
(* once a call; an observation that does not hold ends the run.              *)
checkpoint(r, new) == _append(r, Note("checkpoint"), new)

Observe(r) ==
    /\ run[r].pc = "turn" /\ ~run[r].replaying
    /\ journal # <<>> /\ Last(journal).event = "usage"
    /\ checkpoint(r, run[r])
    /\ UNCHANGED <<exists, container, bill>>

require(r) ==
    /\ run[r].pc = "turn"
    /\ Ends(r)
    /\ UNCHANGED <<exists, journal, container, bill>>

(* The sum of a function's values: the micro-dollars of each are counted.    *)
Total(f) == Cardinality(UNION {{x} \X (1..f[x]) : x \in DOMAIN f})

charged_bound(r) == Total([i \in DOMAIN run[r].calls |-> run[r].calls[i].bound])

\* Faulty: the limit is compared with what was spent before the call.
Affordable_Before(r, amount) == charged_bound(r) < MaxMicroUsd

Affordable(r, amount) == charged_bound(r) + amount <= MaxMicroUsd

(* The reservation is on disk before the call may go out.                    *)
reserve(r) ==
    /\ run[r].pc = "turn"
    /\ \/ \* the coverage has expired, or the request is not of the allowed form
          (\E stops \in BOOLEAN : Raise(r, stops)) /\ UNCHANGED journal
       \/ /\ run[r].stopped \/ run[r].replaying \/ Len(run[r].calls) >= MaxCalls
          /\ Raise(r, FALSE) /\ UNCHANGED journal
       \/ /\ ~run[r].stopped /\ ~run[r].replaying /\ Len(run[r].calls) < MaxCalls
          /\ \E amount \in Amounts :
                \/ ~Affordable(r, amount) /\ Raise(r, TRUE) /\ UNCHANGED journal
                \/ /\ Affordable(r, amount)
                   /\ _append(r, Event("reserved", Len(run[r].calls) + 1, amount),
                        [run[r] EXCEPT !.pc = "reserved",
                                       !.calls = Append(@, [bound |-> amount, settled |-> FALSE])])
    /\ UNCHANGED <<exists, container, bill>>

(* The provider charges at most the bound, whether its answer arrives or not. *)
create(r) ==
    /\ run[r].pc = "reserved"
    /\ \E cost \in 0..Last(run[r].calls).bound, pc \in {"answered", "failing"} :
        /\ bill' = [bill EXCEPT ![r] = @ + cost]
        /\ To(r, [run[r] EXCEPT !.pc = pc, !.cost = cost])
    /\ UNCHANGED <<exists, journal, container>>

(* The usage that the answer reports replaces the bound, if it is within the *)
(* reservation and once it is on disk.                                       *)
settle(r) ==
    LET ticket == Len(run[r].calls)
        usage == Event("usage", ticket, run[r].cost) IN
    /\ run[r].pc = "answered"
    /\ \/ /\ journal' = Append(journal, usage)
          /\ To(r, [run[r] EXCEPT !.pc = "turn", !.seen = @ \cup {"response"}, !.cost = 0,
                                  !.calls[ticket] = [bound |-> run[r].cost, settled |-> TRUE]])
       \/ /\ journal' \in {journal, Append(journal, usage)}
          /\ To(r, [run[r] EXCEPT !.pc = "failing", !.stopped = TRUE])
    /\ UNCHANGED <<exists, container, bill>>

(* No answer, or one that does not explain itself: the batch is stopped and  *)
(* the reservation stands.                                                   *)
fail(r) ==
    /\ run[r].pc = "failing"
    /\ journal' \in {journal, Append(journal, Note("stopped"))}
    /\ Raise(r, TRUE)
    /\ UNCHANGED <<exists, container, bill>>

(* The case is shown: the same request is sent again, which must make no     *)
(* call and change no memory; then the evidence is noted.                    *)
Replay(r) ==
    /\ run[r].pc = "turn" /\ run[r].seen = {"response"} /\ ~run[r].replaying
    /\ To(r, [run[r] EXCEPT !.replaying = TRUE])
    /\ UNCHANGED <<exists, journal, container, bill>>

Evidence(r) ==
    /\ run[r].pc = "turn" /\ run[r].seen = {"response"} /\ run[r].replaying
    /\ checkpoint(r, [run[r] EXCEPT !.pc = "up"])
    /\ UNCHANGED <<exists, container, bill>>

-----------------------------------------------------------------------------
(* The end of a run: only its own container is removed. A crash leaves it.   *)
Cleanup(r) ==
    /\ run[r].pc = "cleanup"
    /\ container' = IF run[r].owned THEN container \ {r} ELSE container
    /\ To(r, [run[r] EXCEPT !.pc = "ended"])
    /\ UNCHANGED <<exists, journal, bill>>

Crash(r) ==
    /\ run[r].pc \notin {"idle", "ended", "crashed"}
    /\ To(r, [run[r] EXCEPT !.pc = "crashed"])
    /\ UNCHANGED <<exists, journal, container, bill>>

Next == \E r \in Runs :
    \/ trial_journal(r) \/ TrialBudget(r) \/ StartContainer(r) \/ LeaveCases(r)
    \/ turn(r) \/ Observe(r) \/ require(r) \/ reserve(r) \/ create(r) \/ settle(r)
    \/ fail(r) \/ Replay(r) \/ Evidence(r) \/ Cleanup(r) \/ Crash(r)

Spec == Init /\ [][Next]_vars

-----------------------------------------------------------------------------
(* Properties.                                                               *)

(* What the journal, read on its own, says that the batch has cost at most:  *)
(* the reported usage of a call, else its reservation.                       *)
Reconciled ==
    LET counts(i) == \/ journal[i].event = "usage"
                     \/ /\ journal[i].event = "reserved"
                        /\ \A j \in DOMAIN journal :
                              journal[j].event = "usage" => journal[j].call # journal[i].call
    IN Total([i \in {i \in DOMAIN journal : counts(i)} |-> journal[i].bound_micro_usd])

(* Whenever the run stops, crashes or loses an append or an answer, the      *)
(* journal on disk covers everything that the provider has charged for the   *)
(* batch, and stays within the owner's limit.                                *)
SpendingIsCovered ==
    /\ Total(bill) <= Reconciled
    /\ Reconciled <= MaxMicroUsd

(* Of all the processes that are ever started for the batch, at most one     *)
(* calls the provider: a journal opened once never starts another trial.     *)
OneTrial == Cardinality({r \in Runs : run[r].calls # <<>>}) <= 1
=============================================================================
