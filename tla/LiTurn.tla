------------------------------- MODULE LiTurn -------------------------------
(* One reply of Li, talk_to_li_with_outcome: the message is routed to        *)
(* specialists, the evidence that their policies require is retrieved and    *)
(* validated, they are consulted in parallel, Nora may ask for research once,*)
(* and the model writes the answer, which is checked, repaired or replaced.  *)
(* Texts are kinds: of a message what routing and the policies see in it, of *)
(* a model's output whether it keeps the contract it was asked for.          *)
EXTENDS Naturals, FiniteSets

CONSTANTS
    Specialists,     \* the permanent registry
    Nora,            \* the one specialist that may ask for research
    James, Oliver,   \* whose provider depends on the query and the jurisdiction
    MaxSpecialists   \* advisers of one request

RegistryAssumption ==
    /\ IsFiniteSet(Specialists) /\ {Nora, James, Oliver} \subseteq Specialists
    /\ MaxSpecialists \in Nat \ {0}

VARIABLES
    pc,           \* where the turn is
    routed,       \* specialists that the message goes to
    needs,        \* those of them whose policy requires current evidence
    due,          \* specialists of the message's domains whose policy requires it
    web,          \* a research provider is configured
    fresh,        \* freshness_status of each specialist
    result,       \* what each consultation came to
    unavailable,  \* specialists whose output was rejected
    rows,         \* status of the recorded interactions
    ids,          \* specialists whose interaction the turn knows
    draft,        \* the answer before it is attributed
    credit,       \* used_in_final of the recorded interactions
    answer        \* what the owner is told

vars == <<pc, routed, needs, due, web, fresh, result, unavailable, rows, ids,
          draft, credit, answer>>

evidence == <<needs, due, web>>
recorded == <<rows, ids, credit>>

(* Model text, a fixed safe text, or nothing yet; the specialists it names   *)
(* as used; whether it proposes actions; whether it was repaired.            *)
Drafts == [text : {"none", "model", "safe"}, used : SUBSET Specialists,
           intents : BOOLEAN, repaired : BOOLEAN]
NoDraft == [text |-> "none", used |-> {}, intents |-> FALSE, repaired |-> FALSE]
SafeFailure == [NoDraft EXCEPT !.text = "safe"]

TypeOK ==
    /\ pc \in {"idle", "packets", "start", "consult", "refine", "require", "record",
               "synthesis", "repair", "attribute", "answered", "failed"}
    /\ routed \subseteq Specialists /\ Cardinality(routed) <= MaxSpecialists
    /\ needs \subseteq routed /\ due \subseteq Specialists /\ web \in BOOLEAN
    /\ fresh \in [Specialists -> {"none", "stable", "pending", "verified", "unverified"}]
    /\ result \in [Specialists -> {"none", "advice", "request", "limit"}]
    /\ unavailable \subseteq routed /\ ids \subseteq routed
    /\ \A k \in unavailable : result[k] = "none"
    /\ rows \in [Specialists -> {"none", "active", "completed", "failed"}]
    /\ draft \in Drafts
    /\ credit \in [Specialists -> {"unknown", "used", "unused"}]
    /\ answer \in Drafts

Init ==
    /\ pc = "idle" /\ routed = {} /\ needs = {} /\ due = {} /\ web = FALSE
    /\ fresh = [k \in Specialists |-> "none"]
    /\ result = [k \in Specialists |-> "none"]
    /\ unavailable = {} /\ ids = {}
    /\ rows = [k \in Specialists |-> "none"]
    /\ credit = [k \in Specialists |-> "unknown"]
    /\ draft = NoDraft /\ answer = NoDraft

-----------------------------------------------------------------------------
(* Routing.                                                                  *)

Few(S) == {s \in SUBSET S : s # {} /\ Cardinality(s) <= MaxSpecialists}

(* The owner names specialists and asks for them; or refers to the one that  *)
(* a recent answer mentions.                                                 *)
NamedRoutes == Few(Specialists)
ReferencedRoutes == {{k} : k \in Specialists}

(* The highest scores among the domains of the message that the owner did    *)
(* not exclude. A simple question stays with Li unless a policy of these     *)
(* domains requires evidence.                                                *)
RankedRoutes(matched, requiring) ==
    UNION {LET ranked == matched \ excluded
               few == IF decision THEN {s \in Few(ranked) : \/ s = ranked
                                                            \/ Cardinality(s) = MaxSpecialists}
                      ELSE {{k} : k \in ranked}
           IN IF ranked = {} \/ (simple /\ ~decision /\ ranked \cap requiring = {})
              THEN {{}} ELSE few
           : excluded \in SUBSET Specialists, simple \in BOOLEAN, decision \in BOOLEAN}

route_specialists(matched, requiring) ==
    NamedRoutes \cup ReferencedRoutes \cup RankedRoutes(matched, requiring)

(* A private message goes to nobody, one with a list of recipients to no one *)
(* else. A message of a specialist's workspace goes to that specialist, who  *)
(* is among its recipients.                                                  *)
Disclosed(selected, privateToLi, allowed) ==
    IF privateToLi THEN {}
    ELSE IF allowed # {} THEN selected \cap allowed ELSE selected

(* Evidence of the message's domains is due whatever the owner excluded.     *)
evidence_relevant_specialists(matched, requiring) == matched \cap requiring

(* The message arrives and canonical memory is read, which may fail. Without *)
(* a specialist to consult, evidence that its domains require ends the turn. *)
Receive ==
    /\ pc = "idle"
    /\ \E matched, requiring, allowed \in SUBSET Specialists,
         privateToLi \in BOOLEAN, configured \in BOOLEAN :
        /\ privateToLi => allowed = {}
        /\ due' = evidence_relevant_specialists(matched, requiring)
        /\ web' = configured
        /\ \E selected \in route_specialists(matched, requiring)
                             \cup {{k} : k \in allowed} :
            /\ routed' = Disclosed(selected, privateToLi, allowed)
            /\ needs' = requiring \cap routed'
            /\ \/ /\ routed' # {} /\ pc' = "packets"
                  /\ UNCHANGED answer
               \/ /\ routed' = {} /\ due' = {} /\ pc' = "synthesis"
                  /\ UNCHANGED answer
               \/ /\ routed' = {} /\ due' # {} /\ pc' = "answered"
                  /\ answer' = SafeFailure
    /\ UNCHANGED <<fresh, result, unavailable, recorded, draft>>

MemoryUnreadable ==
    /\ pc = "idle" /\ pc' = "failed"
    /\ UNCHANGED <<routed, evidence, fresh, result, unavailable, recorded, draft, answer>>

-----------------------------------------------------------------------------
(* Evidence.                                                                 *)

(* The domain in which a provider is needed; James wants a market quote or   *)
(* a macro figure.                                                           *)
requirement_for(k, quote) ==
    CASE k = James  -> IF quote THEN "finance_market" ELSE "finance_macro"
      [] k = Oliver -> "legal"
      [] OTHER      -> "web"

(* Domains of the configured providers: no market adapter is configured.     *)
provider_registry == IF web THEN {"web", "finance_macro", "legal"} ELSE {}

select_providers(k, quote, jurisdiction) ==
    /\ k = Oliver => jurisdiction
    /\ requirement_for(k, quote) \in provider_registry

(* What survives of a search: records that are well formed, free of          *)
(* instructions, fresh and about the query, by their source. A search that   *)
(* fails yields none.                                                        *)
Evidence == [primary : 0..2, other : 0..1]

\* Nora and Oliver ask for one source, James for two, all for a primary one.
MinimumSources(k) == IF k = James THEN 2 ELSE 1

validate_evidence_contract(k, found) ==
    /\ found.primary + found.other >= MinimumSources(k)
    /\ found.primary > 0

(* Each routed specialist whose policy requires evidence, Nora excepted, has *)
(* it searched for before its packet is complete.                            *)
Prepare ==
    /\ pc = "packets" /\ pc' = "start"
    /\ \E quote, jurisdiction \in BOOLEAN,
         found \in [needs \ {Nora} -> Evidence] :
        fresh' = [k \in Specialists |->
            IF k \notin routed THEN "none"
            ELSE IF k \notin needs THEN "stable"
            ELSE IF k = Nora THEN "pending"
            ELSE IF /\ select_providers(k, quote, jurisdiction)
                    /\ validate_evidence_contract(k, found[k])
                 THEN "verified" ELSE "unverified"]
    /\ UNCHANGED <<routed, evidence, result, unavailable, recorded, draft, answer>>

(* Interactions are recorded where that is possible; the turn does without   *)
(* those whose call fails, though it may have committed.                     *)
start_interaction ==
    /\ pc = "start" /\ pc' = "consult"
    /\ \E begun \in SUBSET routed :
        /\ rows' = [k \in Specialists |-> IF k \in begun THEN "active" ELSE "none"]
        /\ ids' \in SUBSET begun
    /\ UNCHANGED <<routed, evidence, fresh, result, unavailable, credit, draft, answer>>

-----------------------------------------------------------------------------
(* Consultation.                                                             *)

Verifiable == {k \in routed : fresh[k] # "unverified"}

(* A specialist's output is rejected when it is not of the contract, claims  *)
(* a verification without evidence, or asks for research it may not have.    *)
Accepts(k, output) ==
    \/ output = "advice"
    \/ output = "verified_claim" /\ fresh[k] = "verified"
    \/ output = "request" /\ k = Nora

delegate_to_specialist(k) ==
    /\ pc = "consult" /\ k \in Verifiable \ unavailable /\ result[k] = "none"
    /\ \E output \in {"advice", "verified_claim", "request", "invalid"} :
        IF Accepts(k, output)
        THEN /\ result' = [result EXCEPT ![k] = IF output = "request" THEN "request"
                                                ELSE "advice"]
             /\ UNCHANGED unavailable
        ELSE /\ unavailable' = unavailable \cup {k}
             /\ UNCHANGED result
    /\ UNCHANGED <<pc, routed, evidence, fresh, recorded, draft, answer>>

Limited(S) == [k \in Specialists |-> IF k \in S THEN "limit" ELSE result[k]]

\* Faulty: waits for a result of those that have none.
consult_specialists_Waiting ==
    /\ pc = "consult" /\ pc' = "refine"
    /\ \A k \in routed : result[k] # "none"
    /\ UNCHANGED <<routed, evidence, fresh, result, unavailable, recorded, draft, answer>>

(* When every consultation is over, those without evidence are given the     *)
(* limit as their result.                                                    *)
consult_specialists ==
    /\ pc = "consult" /\ pc' = "refine"
    /\ \A k \in Verifiable : k \in unavailable \/ result[k] # "none"
    /\ result' = Limited(routed \ Verifiable)
    /\ UNCHANGED <<routed, evidence, fresh, unavailable, recorded, draft, answer>>

(* Nora's request is executed once. With evidence she is asked again, and    *)
(* loses her result if that output is rejected or asks for more; without it  *)
(* her advice stays, with the limitation.                                    *)
Research ==
    \/ /\ result[Nora] # "request"
       /\ UNCHANGED <<fresh, result, unavailable>>
    \/ /\ result[Nora] = "request"
       /\ \E found \in Evidence :
            \/ /\ ~(web /\ validate_evidence_contract(Nora, found))
               /\ fresh' = [fresh EXCEPT ![Nora] = "unverified"]
               /\ result' = [result EXCEPT ![Nora] = "advice"]
               /\ UNCHANGED unavailable
            \/ /\ web /\ validate_evidence_contract(Nora, found)
               /\ fresh' = [fresh EXCEPT ![Nora] = "verified"]
               /\ \/ /\ result' = [result EXCEPT ![Nora] = "advice"]
                     /\ UNCHANGED unavailable
                  \/ /\ result' = [result EXCEPT ![Nora] = "none"]
                     /\ unavailable' = unavailable \cup {Nora}

Refine ==
    /\ pc = "refine" /\ pc' = "require" /\ Research
    /\ UNCHANGED <<routed, evidence, recorded, draft, answer>>

\* Faulty: required evidence is not looked at again.
Require_Skipped ==
    /\ pc = "require" /\ pc' = "record"
    /\ UNCHANGED <<routed, evidence, fresh, result, unavailable, recorded, draft, answer>>

\* Faulty: the limit is given and the specialist stays unavailable.
Require_Kept ==
    /\ pc = "require" /\ pc' = "record"
    /\ LET unheard == {k \in needs : result[k] = "none"} IN
        /\ fresh' = [k \in Specialists |-> IF k \in unheard THEN "unverified" ELSE fresh[k]]
        /\ result' = Limited(unheard)
    /\ UNCHANGED <<routed, evidence, unavailable, recorded, draft, answer>>

(* A specialist whose evidence was required and that has no result after all *)
(* is given the limit, so that the answer cannot do without it.              *)
Require ==
    /\ pc = "require" /\ pc' = "record"
    /\ LET unheard == {k \in needs : result[k] = "none"} IN
        /\ fresh' = [k \in Specialists |-> IF k \in unheard THEN "unverified" ELSE fresh[k]]
        /\ result' = Limited(unheard)
        /\ unavailable' = unavailable \ unheard
    /\ UNCHANGED <<routed, evidence, recorded, draft, answer>>

(* The outcome of each known interaction is stored, or not if the call fails.*)
finish_interaction ==
    /\ pc = "record" /\ pc' = "synthesis"
    /\ \E stored \in SUBSET ids :
        rows' = [k \in Specialists |->
                   IF k \notin stored THEN rows[k]
                   ELSE IF result[k] = "none" THEN "failed" ELSE "completed"]
    /\ UNCHANGED <<routed, evidence, fresh, result, unavailable, ids, credit, draft, answer>>

-----------------------------------------------------------------------------
(* The answer.                                                               *)

Consulted == {k \in Specialists : result[k] # "none"}

Blocked == \E k \in needs : fresh[k] = "unverified"

(* Without a result to synthesise the model answers directly. Output that    *)
(* looks structured but is not, names a specialist or claims to have used    *)
(* one is replaced. This answer is told as it is.                            *)
AnswerDirectly ==
    /\ pc = "synthesis" /\ Consulted = {} /\ pc' = "answered"
    /\ \/ \E intents \in BOOLEAN :
            answer' = [NoDraft EXCEPT !.text = "model", !.intents = intents]
       \/ answer' = SafeFailure
    /\ UNCHANGED <<routed, evidence, fresh, result, unavailable, recorded, draft>>

(* A synthesis keeps the contract and uses only what was consulted, or is    *)
(* repaired.                                                                 *)
Synthesize ==
    /\ pc = "synthesis" /\ Consulted # {}
    /\ \/ \E used \in SUBSET Specialists, intents \in BOOLEAN :
            /\ used \subseteq Consulted
            /\ draft' = [text |-> "model", used |-> used, intents |-> intents,
                         repaired |-> FALSE]
            /\ pc' = "attribute"
       \/ pc' = "repair" /\ UNCHANGED draft
    /\ UNCHANGED <<routed, evidence, fresh, result, unavailable, recorded, answer>>

(* The repair is asked for prose without specialists and actions, of which   *)
(* only the text is taken.                                                   *)
Repair ==
    /\ pc = "repair" /\ pc' = "attribute"
    /\ \E text \in {"model", "safe"} :
        draft' = [text |-> text, used |-> {}, intents |-> FALSE, repaired |-> TRUE]
    /\ UNCHANGED <<routed, evidence, fresh, result, unavailable, recorded, answer>>

(* The provider fails: the turn has no answer.                               *)
GenerationFails ==
    /\ pc \in {"synthesis", "repair"} /\ pc' = "failed"
    /\ UNCHANGED <<routed, evidence, fresh, result, unavailable, recorded, draft, answer>>

\* Faulty: the synthesis is told although evidence is missing.
Final_Synthesis == draft

\* Faulty: the text is replaced, the proposals are kept.
Final_Uncredited ==
    IF Blocked THEN [draft EXCEPT !.text = "safe", !.used = {}] ELSE draft

(* Evidence that was required and is missing replaces the answer.            *)
Final == IF Blocked THEN [SafeFailure EXCEPT !.repaired = draft.repaired] ELSE draft

Measured == ids \cap Consulted

(* The database accepts an attribution if each interaction it measures is    *)
(* completed. When the call fails the answer credits nobody, although the    *)
(* attribution may have been stored.                                         *)
Attribute ==
    /\ pc = "attribute" /\ pc' = "answered"
    /\ LET used == Final.used \cap ids
           stored == [k \in Specialists |-> IF k \notin Measured THEN credit[k]
                                            ELSE IF k \in used THEN "used" ELSE "unused"]
       IN \/ /\ Measured = {}
             /\ answer' = [Final EXCEPT !.used = used]
             /\ UNCHANGED credit
          \/ /\ Measured # {} /\ \A k \in Measured : rows[k] = "completed"
             /\ credit' = stored
             /\ \/ answer' = [Final EXCEPT !.used = used]
                \/ answer' = [Final EXCEPT !.used = {}]
          \/ /\ Measured # {}
             /\ answer' = [Final EXCEPT !.used = {}]
             /\ UNCHANGED credit
    /\ UNCHANGED <<routed, evidence, fresh, result, unavailable, rows, ids, draft>>

Done == pc \in {"answered", "failed"} /\ UNCHANGED vars

Next ==
    \/ Receive \/ MemoryUnreadable \/ Prepare \/ start_interaction
    \/ \E k \in Specialists : delegate_to_specialist(k)
    \/ consult_specialists \/ Refine \/ Require \/ finish_interaction
    \/ AnswerDirectly \/ Synthesize \/ Repair \/ GenerationFails \/ Attribute
    \/ Done

Spec == Init /\ [][Next]_vars

(* A server that does not crash goes on, and every call ends.                *)
FairSpec == Spec /\ WF_vars(Next)

-----------------------------------------------------------------------------
(* Text of the model reaches the owner only if the evidence that a routed    *)
(* specialist's policy required was validated and then evaluated by that     *)
(* specialist, or, for Nora, if she found no research necessary. Rejected    *)
(* consultations, the direct answer without results and the repair are the   *)
(* ways around it.                                                           *)
EvidenceHolds ==
    pc = "answered" /\ answer.text = "model" =>
        \A k \in needs : /\ result[k] = "advice"
                         /\ fresh[k] = "verified" \/ (k = Nora /\ fresh[k] = "pending")

(* Whoever is credited gave advice that was stored as completed and is part  *)
(* of the model's own answer; the owner is told of no specialist that the    *)
(* records do not credit; rejected or blocked output credits nobody.         *)
CreditIsEarned ==
    /\ \A k \in Specialists : credit[k] = "used" =>
          /\ rows[k] = "completed" /\ result[k] = "advice"
          /\ answer.text = "model" /\ ~answer.repaired
    /\ \A k \in answer.used : credit[k] = "used"

(* Actions are proposed by an answer that kept its contract at the first     *)
(* attempt and whose evidence holds, and never by one that was replaced.     *)
ProposalsAreFounded ==
    answer.intents => /\ answer.text = "model" /\ ~answer.repaired
                      /\ ~Blocked

Started == pc = "packets"
Ended == pc \in {"answered", "failed"}

(* Every turn ends with an answer or a failure.                              *)
TurnEnds == Started ~> Ended
=============================================================================
