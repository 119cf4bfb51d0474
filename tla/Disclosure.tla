----------------------------- MODULE Disclosure -----------------------------
(* Who may read what the owner tells Li. A message is labelled private, or   *)
(* with the specialists it may go to; the label travels with the row in the  *)
(* conversation, through what a later turn reads, sends to specialists,      *)
(* answers and remembers. Several turns of one conversation may overlap.     *)
(* Of a text the model keeps what the labels are meant to say of it.         *)
EXTENDS Naturals, Sequences, FiniteSets

CONSTANTS
    Specialists,
    Turns,           \* requests of the conversation
    Domains,         \* domains of memory, one value of each
    Readers,         \* specialists whose contract admits the domain
    WindowLimit,     \* rows of the conversation that a turn reads
    MaxOverlap       \* bound: requests in progress at a time

DisclosureAssumption ==
    /\ Readers \in [Domains -> SUBSET Specialists]
    /\ {WindowLimit, MaxOverlap} \subseteq Nat \ {0}

VARIABLES
    rows,      \* saved messages of the conversation
    memory,    \* current memory of each domain, if any
    proposed,  \* proposals that await Theo's review
    turn,      \* the requests
    sent       \* context of the packets of this step, beside the message itself

vars == <<rows, memory, proposed, turn, sent>>

(* A text draws on private words or not, and may go to these specialists by  *)
(* the labels of the messages it draws on.                                   *)
Texts == [private : BOOLEAN, may : SUBSET Specialists]

Messages == [text : Texts, private_to_li : BOOLEAN, allowed : SUBSET Specialists]
Memories == [text : Texts, private_to_li : BOOLEAN]
Proposals == [domain : Domains, text : Texts]

NoMessage == [text |-> [private |-> FALSE, may |-> {}],
              private_to_li |-> FALSE, allowed |-> {}]
NoTurn == [pc |-> "idle", current |-> NoMessage, workspace |-> {}, seen |-> {},
           history |-> {}, capturing |-> FALSE, answer |-> NoMessage]

TypeOK ==
    /\ \A i \in DOMAIN rows : rows[i] \in Messages
    /\ \A d \in Domains : memory[d] \subseteq Memories /\ \A m, n \in memory[d] : m = n
    /\ proposed \subseteq Proposals
    /\ \A t \in Turns :
        /\ turn[t].pc \in {"idle", "asked", "answered", "done"}
        /\ turn[t].current \in Messages /\ turn[t].answer \in Messages
        /\ turn[t].workspace \subseteq turn[t].current.allowed
        /\ turn[t].seen \subseteq Messages /\ turn[t].history \subseteq Texts
        /\ turn[t].capturing \in BOOLEAN
    /\ sent \in [Specialists -> SUBSET Texts]

(* What a text says that is written from others.                             *)
Drawn(texts) == [private |-> \E x \in texts : x.private,
                 may |-> {k \in Specialists : \A x \in texts : k \in x.may}]

(* A row whose metadata is malformed is read as private; nothing is known of *)
(* its content, so it may be.                                                *)
conversation_context_message(text) ==
    [text |-> text, private_to_li |-> TRUE, allowed |-> {}]

Unreadable == [private |-> TRUE, may |-> {}]

Init ==
    /\ rows \in {<<>>, <<conversation_context_message(Unreadable)>>}
    /\ memory = [d \in Domains |-> {}]
    /\ proposed = {}
    /\ turn = [t \in Turns |-> NoTurn]
    /\ sent = [k \in Specialists |-> {}]

-----------------------------------------------------------------------------
(* The request arrives. A privacy flag that is no Boolean counts as private. *)
(* The workspace's specialist is a recipient. The recent rows are read, and  *)
(* on request fragments of older ones, before the message is saved; that it  *)
(* cannot be saved does not end the turn.                                    *)

Labelled(flag, disclosed, workspace) ==
    LET private == flag # "shared"
        allowed == IF private THEN {} ELSE disclosed \cup workspace
    IN [text |-> [private |-> private, may |-> allowed],
        private_to_li |-> private, allowed |-> allowed]

get_recent_conversation_messages ==
    {rows[i] : i \in {j \in DOMAIN rows : j > Len(rows) - WindowLimit}}

(* Fragments carry no label of the row that they are from.                   *)
search_conversation_history == {{}} \cup {{rows[i].text} : i \in DOMAIN rows}

Quiet == sent' = [k \in Specialists |-> {}]

InProgress == {t \in Turns : turn[t].pc \in {"asked", "answered"}}

Ask(t) ==
    /\ turn[t].pc = "idle" /\ Cardinality(InProgress) < MaxOverlap
    /\ \E flag \in {"shared", "private", "malformed"}, disclosed \in SUBSET Specialists,
         workspace \in {{}} \cup {{k} : k \in Specialists},
         snippets \in search_conversation_history, saved \in BOOLEAN :
        LET message == Labelled(flag, disclosed, workspace) IN
        /\ turn' = [turn EXCEPT ![t] =
                    [NoTurn EXCEPT !.pc = "asked", !.current = message,
                                   !.workspace = workspace \cap message.allowed,
                                   !.seen = get_recent_conversation_messages,
                                   !.history = snippets]]
        /\ rows' = IF saved THEN Append(rows, message) ELSE rows
    /\ Quiet
    /\ UNCHANGED <<memory, proposed>>

-----------------------------------------------------------------------------
(* Capture. What the analysis proposes is written from the message and the   *)
(* context; it is private if anything of them is.                            *)

Sources(t) == {turn[t].current} \cup turn[t].seen
Captured(t) == Drawn({m.text : m \in Sources(t)} \cup turn[t].history)

CapturePrivate(t) ==
    \/ \E m \in Sources(t) : m.private_to_li
    \/ turn[t].history # {}

(* A correction copies the old record's label and can only add to it.        *)
correct_explicit_memory(d, text, private) ==
    {[text |-> [text EXCEPT !.private = text.private \/ m.text.private],
      private_to_li |-> private \/ m.private_to_li] : m \in memory[d]}

(* A value that is stored already keeps its record.                          *)
store_explicit_memory(d, text, private) ==
    IF memory[d] = {} THEN {[text |-> text, private_to_li |-> private]}
    ELSE {[text |-> Drawn({text, m.text}), private_to_li |-> private \/ m.private_to_li]
          : m \in memory[d]}

Remembered(t, text) == [text EXCEPT !.may = Specialists]

(* Corrections and requests to forget are applied before the answer; another *)
(* kind of change, or a failure, leaves the memory as it is.                 *)
Changes(t) ==
    LET text == Remembered(t, Captured(t)) IN
    {memory} \cup {[memory EXCEPT ![d] = new] : d \in Domains, new \in {{}}}
             \cup {[memory EXCEPT ![d] = correct_explicit_memory(d, text, CapturePrivate(t))]
                   : d \in Domains}

-----------------------------------------------------------------------------
(* The answer.                                                               *)

(* A private message goes to no specialist, one with a list of recipients to *)
(* no other; the workspace's specialist is consulted alone.                  *)
Routes(t) ==
    LET current == turn[t].current IN
    IF current.private_to_li THEN {{}}
    ELSE IF turn[t].workspace # {} THEN {turn[t].workspace}
    ELSE IF current.allowed # {} THEN SUBSET current.allowed
    ELSE SUBSET Specialists

specialist_conversation_context(t, k) ==
    {m.text : m \in {n \in turn[t].seen : ~n.private_to_li /\ k \in n.allowed}}

memory_allowed_for_specialist(now, recalled, k) ==
    {m.text : m \in UNION {{n \in now[d] : ~n.private_to_li} : d \in {e \in recalled : k \in Readers[e]}}}

Packets(t, routed, now, recalled) ==
    [k \in Specialists |->
        IF k \notin routed THEN {}
        ELSE specialist_conversation_context(t, k)
             \cup memory_allowed_for_specialist(now, recalled, k)
             \cup IF k \in turn[t].current.allowed THEN {turn[t].current.text} ELSE {}]

ResponsePrivate(t, read) ==
    \/ CapturePrivate(t)
    \/ \E m \in read : m.private_to_li

\* Faulty: an answer may go to every specialist that it credits.
ResponseAllowed_Used(t, used) == used

ResponseAllowed(t, used) == {k \in used : \A m \in Sources(t) : k \in m.allowed}

_response_disclosure(t, read, used) ==
    LET private == ResponsePrivate(t, read) IN
    [text |-> Drawn({m.text : m \in Sources(t) \cup read} \cup turn[t].history),
     private_to_li |-> private,
     allowed |-> IF private THEN {} ELSE ResponseAllowed(t, used)]

(* The turn changes memory, recalls it, consults and answers, crediting some *)
(* of those it consulted; or it fails after the change. If the analysis or   *)
(* the change fails, nothing is captured. A file is attached.                *)
Talk(t) ==
    /\ turn[t].pc = "asked"
    /\ \E capturing \in BOOLEAN :
       \E now \in IF capturing THEN Changes(t) ELSE {memory} :
       \E routed \in Routes(t), recalled \in SUBSET {d \in Domains : now[d] # {}} :
        /\ memory' = now
        /\ sent' = Packets(t, routed, now, recalled)
        /\ \/ turn' = [turn EXCEPT ![t] = [NoTurn EXCEPT !.pc = "done"]]
           \/ \E used \in SUBSET routed :
                turn' = [turn EXCEPT ![t] =
                    [@ EXCEPT !.pc = "answered", !.capturing = capturing,
                              !.answer = _response_disclosure(t, UNION {now[d] : d \in recalled}, used)]]
    /\ UNCHANGED <<rows, proposed>>

(* New memories and proposals come after the answer. A proposal cannot say   *)
(* that it is private, so a private turn makes none.                         *)
\* Faulty: private turns propose too.
propose_memory_Any(t) == {[domain |-> d, text |-> Remembered(t, Captured(t))] : d \in Domains}

propose_memory(t) ==
    IF CapturePrivate(t) THEN {}
    ELSE {[domain |-> d, text |-> Remembered(t, Captured(t))] : d \in Domains}

Finish(t) ==
    /\ turn[t].pc = "answered"
    /\ \/ UNCHANGED <<memory, proposed>>
       \/ /\ turn[t].capturing
          /\ \E d \in Domains :
                memory' = [memory EXCEPT ![d] =
                    store_explicit_memory(d, Remembered(t, Captured(t)), CapturePrivate(t))]
          /\ UNCHANGED proposed
       \/ /\ turn[t].capturing
          /\ \E p \in propose_memory(t) : proposed' = proposed \cup {p}
          /\ UNCHANGED memory
    /\ \E saved \in BOOLEAN : rows' = IF saved THEN Append(rows, turn[t].answer) ELSE rows
    /\ turn' = [turn EXCEPT ![t] = [NoTurn EXCEPT !.pc = "done"]]
    /\ Quiet

(* An approved proposal becomes a record without a privacy flag, or is       *)
(* merged into the record that says the same; a rejected one becomes none.   *)
Review(p) ==
    /\ proposed' = proposed \ {p}
    /\ \/ memory' = [memory EXCEPT ![p.domain] =
                        IF @ = {} THEN {[text |-> p.text, private_to_li |-> FALSE]} ELSE @]
       \/ UNCHANGED memory
    /\ Quiet
    /\ UNCHANGED <<rows, turn>>

Next ==
    \/ \E t \in Turns : Ask(t) \/ Talk(t) \/ Finish(t)
    \/ \E p \in proposed : Review(p)

Spec == Init /\ [][Next]_vars

-----------------------------------------------------------------------------
(* Private words stay with Li: no specialist is sent a text that draws on a  *)
(* message the owner marked private, through however many answers, older     *)
(* fragments, memories, corrections and proposals it came                    *)
(* (_response_disclosure, specialist_conversation_context).                  *)
PrivateStaysWithLi == \A k \in Specialists : \A x \in sent[k] : ~x.private

(* A specialist is sent rows and files of the conversation only if every     *)
(* message that they draw on, directly or through answers, names it as a     *)
(* recipient (_response_disclosure, allowed_specialists).                    *)
RecipientsAreKept == \A k \in Specialists : \A x \in sent[k] : k \in x.may
=============================================================================
