-------------------------- MODULE ProviderActions ---------------------------
(* The boundary at which approved actions reach their providers: Google      *)
(* Calendar, Gmail and the table of tasks. Calls for the same request        *)
(* overlap and are repeated, since a request that was not answered may have  *)
(* been carried out, or be carried out later.                                *)
EXTENDS Integers

CONSTANTS
    Calls,      \* calls of the executors
    Contents    \* what is asked for: one event, draft or task each, with its
                \* details and, for a draft or a task, its idempotency key

VARIABLES
    call,       \* the calls
    flight,     \* the calls whose write is on its way to the provider
    events,     \* the calendar: events with their ids
    drafts,     \* the mailbox: how many drafts there are of each content
    tasks       \* the status of the task of each content

vars == <<call, flight, events, drafts, tasks>>

Writes == {"calendar.create", "email.create_draft", "task.create", "task.complete", "task.cancel"}
Actions == Writes \cup {"read"}

(* Type invariant: only the write of a call that sent one is on its way.     *)
TypeOK ==
    /\ \A c \in Calls :
        /\ call[c].pc \in {"new", "reading", "looking", "sent", "reconciling", "done"}
        /\ call[c].action \in Actions \cup {"none"}
        /\ call[c].reply \in {"none", "ok", "conflict", "error"}
        /\ call[c].outcome \in {"none", "completed", "approval_required", "failed"}
        /\ c \in flight => call[c].reply = "none" /\ call[c].action \in Writes
    /\ flight \subseteq Calls
    /\ \A event \in events : event.what \in Contents
    /\ drafts \in [Contents -> Nat]
    /\ tasks \in [Contents -> {"none", "open", "completed", "cancelled"}]

Init ==
    /\ call = [c \in Calls |-> [pc |-> "new", action |-> "none", what |-> "none",
                                reply |-> "none", outcome |-> "none"]]
    /\ flight = {} /\ events = {}
    /\ drafts = [what \in Contents |-> 0]
    /\ tasks = [what \in Contents |-> "none"]

To(c, new) == call' = [call EXCEPT ![c] = new]
Outcome(c, outcome) == To(c, [call[c] EXCEPT !.pc = "done", !.outcome = outcome])

-----------------------------------------------------------------------------
(* The executors. A write needs the approval of its envelope; that of a      *)
(* draft is preceded by a look for it.                                       *)

Entry(action) == CASE action = "read" -> "reading"
                   [] action = "email.create_draft" -> "looking"
                   [] OTHER -> "sent"

execute(c) ==
    /\ call[c].pc = "new"
    /\ \E action \in Actions, what \in Contents, approved \in BOOLEAN :
        LET asked == [call[c] EXCEPT !.action = action, !.what = what] IN
        IF action \in Writes /\ ~approved
        THEN To(c, [asked EXCEPT !.pc = "done", !.outcome = "approval_required"]) /\ UNCHANGED flight
        ELSE /\ To(c, [asked EXCEPT !.pc = Entry(action)])
             /\ flight' = IF Entry(action) = "sent" THEN flight \cup {c} ELSE flight
    /\ UNCHANGED <<events, drafts, tasks>>

(* Malformed items are left out; a reading fails if nothing else is left.    *)
Read(c) ==
    /\ call[c].pc = "reading"
    /\ \E outcome \in {"completed", "failed"} : Outcome(c, outcome)
    /\ UNCHANGED <<flight, events, drafts, tasks>>

(* The token is refused, a request times out, an answer cannot be read or is *)
(* not of its form: the caller is told that success was not confirmed.       *)
Fail(c) ==
    /\ call[c].pc \in {"looking", "sent", "reconciling"}
    /\ Outcome(c, "failed")
    /\ UNCHANGED <<flight, events, drafts, tasks>>

(* A draft with the message id of the key is there and can be read; it       *)
(* counts as none if its own reading fails.                                  *)
create_draft(c) ==
    /\ call[c].pc = "looking"
    /\ \/ drafts[call[c].what] > 0 /\ Outcome(c, "completed") /\ UNCHANGED flight
       \/ To(c, [call[c] EXCEPT !.pc = "sent"]) /\ flight' = flight \cup {c}
    /\ UNCHANGED <<events, drafts, tasks>>

(* A conflict of the calendar means that the event of this id is there: it   *)
(* is fetched.                                                               *)
Receive(c) ==
    /\ call[c].pc = "sent" /\ call[c].reply # "none"
    /\ CASE call[c].reply = "ok" -> Outcome(c, "completed")
         [] call[c].reply = "conflict" -> To(c, [call[c] EXCEPT !.pc = "reconciling"])
         [] call[c].reply = "error" -> Outcome(c, "failed")
    /\ UNCHANGED <<flight, events, drafts, tasks>>

Reconcile(c) ==
    /\ call[c].pc = "reconciling"
    /\ Outcome(c, "completed")
    /\ UNCHANGED <<flight, events, drafts, tasks>>

-----------------------------------------------------------------------------
(* The providers, each handling one write at a time. Whoever sent it may     *)
(* have given up waiting.                                                    *)

Reply(c, reply) == call' = [call EXCEPT ![c].reply = reply]

\* Faulty: every insertion has an id of its own.
_event_id_Fresh(c) == c

_event_id(c) == call[c].what

InsertEvent(c) ==
    /\ call[c].action = "calendar.create"
    /\ IF \E event \in events : event.id = _event_id(c)
       THEN Reply(c, "conflict") /\ UNCHANGED events
       ELSE events' = events \cup {[id |-> _event_id(c), what |-> call[c].what]} /\ Reply(c, "ok")
    /\ UNCHANGED <<drafts, tasks>>

InsertDraft(c) ==
    /\ call[c].action = "email.create_draft"
    /\ drafts' = [drafts EXCEPT ![call[c].what] = @ + 1]
    /\ Reply(c, "ok")
    /\ UNCHANGED <<events, tasks>>

create_task(c) ==
    /\ call[c].action = "task.create"
    /\ tasks' = [tasks EXCEPT ![call[c].what] = IF @ = "none" THEN "open" ELSE @]
    /\ Reply(c, "ok")
    /\ UNCHANGED <<events, drafts>>

Requested(action) == IF action = "task.complete" THEN "completed" ELSE "cancelled"

\* Faulty: a closed task may be closed otherwise.
MayClose_Again(status) == status # "none"

MayClose(status) == status = "open"

set_task_status(c) ==
    LET previous == tasks[call[c].what]
        status == Requested(call[c].action) IN
    /\ call[c].action \in {"task.complete", "task.cancel"}
    /\ IF previous = status
       THEN Reply(c, "ok") /\ UNCHANGED tasks
       ELSE IF MayClose(previous)
       THEN Reply(c, "ok") /\ tasks' = [tasks EXCEPT ![call[c].what] = status]
       ELSE Reply(c, "error") /\ UNCHANGED tasks
    /\ UNCHANGED <<events, drafts>>

Land(c) ==
    /\ c \in flight /\ flight' = flight \ {c}
    /\ InsertEvent(c) \/ InsertDraft(c) \/ create_task(c) \/ set_task_status(c)

(* The write never arrives.                                                  *)
Lose(c) ==
    /\ c \in flight /\ flight' = flight \ {c}
    /\ UNCHANGED <<call, events, drafts, tasks>>

-----------------------------------------------------------------------------
Next == \E c \in Calls :
    \/ execute(c) \/ Read(c) \/ Fail(c) \/ create_draft(c) \/ Receive(c) \/ Reconcile(c)
    \/ Land(c) \/ Lose(c)

Spec == Init /\ [][Next]_vars

-----------------------------------------------------------------------------
(* However often and by however many calls an event is asked for, it is in   *)
(* the calendar once (_event_id, create_event).                              *)
OneEvent == \A event, other \in events : event.what = other.what => event = other

(* The same of drafts, as "every supported write is idempotent at its        *)
(* provider boundary" has it (action_intents.py:185).                        *)
OneDraft == \A what \in Contents : drafts[what] <= 1

(* What a caller was told to be completed is so, and stays so whatever other *)
(* calls do (execute_calendar_action, execute_email_action,                  *)
(* execute_task_action, set_task_status).                                    *)
CompletedIsTrue == \A c \in Calls :
    LET what == call[c].what IN
    call[c].outcome = "completed" =>
        CASE call[c].action = "calendar.create" -> \E event \in events : event.what = what
          [] call[c].action = "email.create_draft" -> drafts[what] > 0
          [] call[c].action = "task.create" -> tasks[what] # "none"
          [] call[c].action = "task.complete" -> tasks[what] = "completed"
          [] call[c].action = "task.cancel" -> tasks[what] = "cancelled"
          [] call[c].action = "read" -> TRUE
=============================================================================
