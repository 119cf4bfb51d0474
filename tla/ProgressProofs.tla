--------------------------- MODULE ProgressProofs ---------------------------
(* Proofs about the components of MCProgress: that their safety properties   *)
(* hold for any specialists, requests, files, jobs, sessions, proposals and  *)
(* uploads, and any limits. Each component has its section: what its         *)
(* invariant adds to the properties, how it begins and that every step keeps *)
(* it. The theorems of the specification are in the last one.                *)
EXTENDS MCProgress, FiniteSets, FiniteSetTheorems, TLAPS

-----------------------------------------------------------------------------
(* LiTurn. Its pc, routed, needs, due, web, fresh, result, unavailable,      *)
(* rows, ids, draft, credit and answer are v1 to v13. Whoever was given the  *)
(* limit as a result was required and is unverified; nobody who was required *)
(* is without a result when the turn is recorded: so what the model writes   *)
(* from the results has evidence unless it is blocked.                       *)

FreshHolds ==
    v1 \notin {"idle", "packets", "failed"} =>
        \A k \in v3 : v6[k] \in {"verified", "unverified"} \/ (k = Nora /\ v6[k] = "pending")

ResultHolds(k) ==
    /\ v7[k] # "none" => k \in v2
    /\ v7[k] = "limit" => k \in v3 /\ v6[k] = "unverified"
    /\ v7[k] = "request" => k = Nora /\ v1 \in {"consult", "refine"}
    /\ v1 \in {"idle", "packets", "start"} => v7[k] = "none" /\ k \notin v8
    /\ v1 \in {"start", "consult"} /\ v6[k] = "unverified" => k \in v3 /\ k \notin v8

Heard ==
    v1 \in {"record", "synthesis", "repair", "attribute"} => \A k \in v3 : v7[k] # "none"

DraftHolds ==
    v11.used # {} \/ v11.intents =>
        /\ v1 \in {"attribute", "answered"} /\ v11.used \subseteq L!Consulted
        /\ v11.text = "model" /\ ~v11.repaired

Untold == v13 = L!NoDraft /\ \A k \in Specialists : v12[k] = "unknown"

TurnInv ==
    /\ L!TypeOK /\ FreshHolds /\ Heard /\ DraftHolds
    /\ \A k \in Specialists : ResultHolds(k)
    /\ v1 = "idle" => v10 = {}
    /\ v1 # "answered" => Untold
    /\ L!EvidenceHolds /\ L!CreditIsEarned /\ L!ProposalsAreFounded

(* The instance has its own copy of FiniteSets.                              *)
LEMMA TurnCardinality ==
    ASSUME NEW X
    PROVE  L!Cardinality(X) = Cardinality(X) /\ L!IsFiniteSet(X) = IsFiniteSet(X)
BY DEF L!Cardinality, Cardinality, L!IsFiniteSet, IsFiniteSet

(* What was not told yet is no credit and proposes nothing.                  *)
LEMMA UntoldIsSafe ==
    ASSUME Untold, v1 # "answered"
    PROVE  L!EvidenceHolds /\ L!CreditIsEarned /\ L!ProposalsAreFounded
BY DEF Untold, L!EvidenceHolds, L!CreditIsEarned, L!ProposalsAreFounded,
   L!NoDraft

(* The specialists of a request are few.                                     *)
LEMMA RoutesAreFew ==
    ASSUME NEW matched \in SUBSET Specialists, NEW requiring \in SUBSET Specialists,
           NEW allowed \in SUBSET Specialists, NEW private \in BOOLEAN,
           NEW selected \in L!route_specialists(matched, requiring) \cup {{k} : k \in allowed}
    PROVE  /\ L!Disclosed(selected, private, allowed) \subseteq Specialists
           /\ L!Cardinality(L!Disclosed(selected, private, allowed)) <= MaxSpecialists
<1>1. IsFiniteSet(Specialists) /\ MaxSpecialists \in Nat \ {0}
  BY Assumptions, TurnCardinality DEF L!RegistryAssumption
<1>2. ASSUME NEW k \in Specialists
      PROVE  {k} \subseteq Specialists /\ Cardinality({k}) <= MaxSpecialists
  BY <1>1, FS_Singleton
<1>3. ASSUME NEW s \in L!Few(Specialists)
      PROVE  s \subseteq Specialists /\ Cardinality(s) <= MaxSpecialists
  BY TurnCardinality DEF L!Few
<1>4. {} \subseteq Specialists /\ Cardinality({}) <= MaxSpecialists
  BY <1>1, FS_EmptySet
<1>5. ASSUME NEW s \in L!RankedRoutes(matched, requiring)
      PROVE  s \subseteq Specialists /\ Cardinality(s) <= MaxSpecialists
  <2> DEFINE Ranked(excluded) == matched \ excluded
             Chosen(excluded, simple, decision) ==
                 IF \/ Ranked(excluded) = {}
                    \/ simple /\ ~decision /\ Ranked(excluded) \cap requiring = {}
                 THEN {{}}
                 ELSE IF decision
                      THEN {t \in L!Few(Ranked(excluded)) :
                              t = Ranked(excluded) \/ L!Cardinality(t) = MaxSpecialists}
                      ELSE {{k} : k \in Ranked(excluded)}
  <2>1. L!RankedRoutes(matched, requiring) =
            UNION {Chosen(excluded, simple, decision) :
                   excluded \in SUBSET Specialists, simple \in BOOLEAN, decision \in BOOLEAN}
    BY DEF L!RankedRoutes
  <2> HIDE DEF Chosen
  <2>2. PICK excluded \in SUBSET Specialists, simple \in BOOLEAN, decision \in BOOLEAN :
            s \in Chosen(excluded, simple, decision)
    BY <2>1
  <2>3. \/ s = {} \/ s \in L!Few(matched \ excluded)
        \/ \E k \in matched \ excluded : s = {k}
    BY <2>2 DEF Chosen
  <2>4. CASE s \in L!Few(matched \ excluded)
    BY <2>4, TurnCardinality DEF L!Few
  <2> QED
    BY <1>2, <1>4, <2>3, <2>4
<1>6. selected \subseteq Specialists /\ Cardinality(selected) <= MaxSpecialists
  BY <1>2, <1>3, <1>5
     DEF L!route_specialists, L!NamedRoutes, L!ReferencedRoutes
<1>7. Cardinality(selected \cap allowed) <= MaxSpecialists
  <2>1. IsFiniteSet(selected)
    BY <1>1, <1>6, FS_Subset
  <2>2. /\ selected \cap allowed \subseteq selected
    OBVIOUS
  <2>3. /\ Cardinality(selected \cap allowed) <= Cardinality(selected)
        /\ Cardinality(selected \cap allowed) \in Nat /\ Cardinality(selected) \in Nat
    BY <2>1, <2>2, FS_Subset, FS_CardinalityType
  <2> QED
    BY <1>1, <1>6, <2>3
<1> QED
  BY <1>4, <1>6, <1>7, TurnCardinality DEF L!Disclosed

(* The initial state: nothing was asked.                                     *)
LEMMA TurnBegins == ASSUME L!Init PROVE TurnInv
<1>1. L!NoDraft \in L!Drafts
  BY DEF L!NoDraft, L!Drafts
<1>2. Cardinality({}) <= MaxSpecialists
  BY Assumptions, FS_EmptySet DEF L!RegistryAssumption
<1>3. L!TypeOK
  BY <1>1, <1>2, TurnCardinality DEF L!Init, L!TypeOK
<1>4. Untold
  BY DEF L!Init, Untold
<1>5. FreshHolds /\ Heard /\ DraftHolds
  BY DEF L!Init, FreshHolds, Heard, DraftHolds, L!NoDraft
<1>6. \A k \in Specialists : ResultHolds(k)
  BY DEF L!Init, ResultHolds
<1>7. v1 # "answered" /\ v10 = {}
  BY DEF L!Init
<1> QED
  BY <1>3, <1>4, <1>5, <1>6, <1>7, UntoldIsSafe DEF TurnInv

(* A step before the answer.                                                 *)
LEMMA GoesOn ==
    ASSUME TurnInv, v1 # "answered", v1' # "answered", UNCHANGED <<v12, v13>>,
           L!TypeOK', FreshHolds', Heard', DraftHolds',
           \A k \in Specialists : ResultHolds(k)', v1' # "idle"
    PROVE  TurnInv'
<1>1. Untold /\ Untold'
  BY DEF TurnInv, Untold
<1>2. L!EvidenceHolds'
  BY DEF L!EvidenceHolds
<1>3. L!CreditIsEarned' /\ L!ProposalsAreFounded'
  BY <1>1 DEF Untold, L!CreditIsEarned, L!ProposalsAreFounded, L!NoDraft
<1> QED
  BY <1>1, <1>2, <1>3 DEF TurnInv

(* A message is routed; without specialists it ends with a safe text if      *)
(* evidence is due.                                                          *)
LEMMA ReceiveKeeps == ASSUME TurnInv, L!Receive PROVE TurnInv'
<1>1. /\ v1 = "idle" /\ v1' \in {"packets", "synthesis", "answered"}
      /\ UNCHANGED <<v6, v7, v8, v9, v10, v11, v12>>
      /\ v4' \subseteq Specialists /\ v5' \in BOOLEAN
      /\ v2' \subseteq Specialists /\ L!Cardinality(v2') <= MaxSpecialists
      /\ v3' \subseteq v2' /\ (v1' # "packets" => v3' = {})
      /\ IF v1' = "answered" THEN v13' = L!SafeFailure ELSE v13' = v13
  <2>1. PICK matched \in SUBSET Specialists, requiring \in SUBSET Specialists,
             allowed \in SUBSET Specialists, private \in BOOLEAN, configured \in BOOLEAN :
          /\ v4' = L!evidence_relevant_specialists(matched, requiring)
          /\ v5' = configured
          /\ \E selected \in L!route_specialists(matched, requiring)
                               \cup {{k} : k \in allowed} :
              /\ v2' = L!Disclosed(selected, private, allowed)
              /\ v3' = requiring \cap v2'
              /\ \/ /\ v2' # {} /\ v1' = "packets"
                    /\ UNCHANGED v13
                 \/ /\ v2' = {} /\ v4' = {} /\ v1' = "synthesis"
                    /\ UNCHANGED v13
                 \/ /\ v2' = {} /\ v4' # {} /\ v1' = "answered"
                    /\ v13' = L!SafeFailure
    BY ZenonT(60) DEF L!Receive
  <2>2. PICK selected \in L!route_specialists(matched, requiring)
                            \cup {{k} : k \in allowed} :
              /\ v2' = L!Disclosed(selected, private, allowed)
              /\ v3' = requiring \cap v2'
              /\ \/ /\ v2' # {} /\ v1' = "packets"
                    /\ UNCHANGED v13
                 \/ /\ v2' = {} /\ v4' = {} /\ v1' = "synthesis"
                    /\ UNCHANGED v13
                 \/ /\ v2' = {} /\ v4' # {} /\ v1' = "answered"
                    /\ v13' = L!SafeFailure
    BY <2>1
  <2>3. v2' \subseteq Specialists /\ L!Cardinality(v2') <= MaxSpecialists
    BY <2>2, RoutesAreFew
  <2>4. v4' \subseteq Specialists /\ v5' \in BOOLEAN
    BY <2>1 DEF L!evidence_relevant_specialists
  <2> QED
    BY <2>2, <2>3, <2>4 DEF L!Receive, L!recorded
<1>2. Untold /\ \A k \in Specialists : ResultHolds(k)
  BY <1>1 DEF TurnInv
<1>3. \A k \in Specialists : v7[k] = "none" /\ k \notin v8
  BY <1>1, <1>2 DEF ResultHolds
<1>4. v10 = {} /\ v8 = {}
  BY <1>1, <1>3 DEF TurnInv, L!TypeOK
<1>5. FreshHolds' /\ Heard'
  BY <1>1 DEF FreshHolds, Heard
<1>6. v11.used = {} /\ ~v11.intents
  BY <1>1 DEF TurnInv, DraftHolds, L!TypeOK, L!Drafts
<1>7. v13' \in L!Drafts /\ v13'.used = {} /\ ~v13'.intents /\ v13'.text # "model"
  <2>1. v13' = L!SafeFailure \/ v13' = L!NoDraft
    BY <1>1, <1>2 DEF Untold
  <2>2. /\ L!NoDraft \in L!Drafts /\ L!NoDraft.used = {} /\ ~L!NoDraft.intents
        /\ L!NoDraft.text # "model"
    BY DEF L!NoDraft, L!Drafts
  <2>3. /\ L!SafeFailure \in L!Drafts /\ L!SafeFailure.used = {} /\ ~L!SafeFailure.intents
        /\ L!SafeFailure.text # "model"
    BY DEF L!NoDraft, L!SafeFailure, L!Drafts
  <2> QED
    BY <2>1, <2>2, <2>3
<1>8. L!TypeOK'
  BY <1>1, <1>4, <1>7 DEF TurnInv, L!TypeOK
<1>9. DraftHolds'
  BY <1>1, <1>6 DEF DraftHolds
<1>10. \A k \in Specialists : ResultHolds(k)'
  BY <1>1, <1>3 DEF ResultHolds
<1>11. L!EvidenceHolds' /\ L!CreditIsEarned' /\ L!ProposalsAreFounded'
  BY <1>1, <1>2, <1>7
     DEF Untold, L!EvidenceHolds, L!CreditIsEarned, L!ProposalsAreFounded
<1>12. v1' # "answered" => Untold'
  BY <1>1, <1>2 DEF Untold
<1> QED
  BY <1>1, <1>5, <1>8, <1>9, <1>10, <1>11, <1>12 DEF TurnInv

(* A turn fails without an answer.                                           *)
LEMMA TurnFails ==
    ASSUME TurnInv, v1' = "failed",
           UNCHANGED <<v2, v3, v4, v5, v6, v7, v8, v9, v10, v11, v12, v13>>,
           v1 \in {"idle", "synthesis", "repair"}
    PROVE  TurnInv'
<1>1. L!TypeOK'
  BY DEF TurnInv, L!TypeOK
<1>2. FreshHolds'
  BY DEF FreshHolds
<1>3. Heard' /\ DraftHolds'
  BY DEF TurnInv, Heard, DraftHolds
<1>4. \A k \in Specialists : ResultHolds(k)'
  BY DEF TurnInv, ResultHolds
<1> QED
  BY <1>1, <1>2, <1>3, <1>4, GoesOn

(* Evidence is searched for, whatever is found.                              *)
LEMMA PrepareKeeps == ASSUME TurnInv, L!Prepare PROVE TurnInv'
<1>1. /\ v1 = "packets" /\ v1' = "start"
      /\ UNCHANGED <<v2, v3, v4, v5, v7, v8, v9, v10, v11, v12, v13>>
  BY DEF L!Prepare, L!evidence, L!recorded
<1>2. /\ v6' \in [Specialists -> {"none", "stable", "pending", "verified", "unverified"}]
      /\ \A k \in Specialists :
           /\ v6'[k] = "unverified" => k \in v3
           /\ k \in v3 => v6'[k] \in {"verified", "unverified"} \/ (k = Nora /\ v6'[k] = "pending")
  <2>1. PICK quote \in BOOLEAN, jurisdiction \in BOOLEAN, found \in [v3 \ {Nora} -> L!Evidence] :
          v6' = [k \in Specialists |->
            IF k \notin v2 THEN "none"
            ELSE IF k \notin v3 THEN "stable"
            ELSE IF k = Nora THEN "pending"
            ELSE IF /\ L!select_providers(k, quote, jurisdiction)
                    /\ L!validate_evidence_contract(k, found[k])
                 THEN "verified" ELSE "unverified"]
    BY DEF L!Prepare
  <2>2. v3 \subseteq v2
    BY DEF TurnInv, L!TypeOK
  <2> QED
    BY <2>1, <2>2
<1>3. L!TypeOK'
  BY <1>1, <1>2 DEF TurnInv, L!TypeOK
<1>4. v3 \subseteq Specialists
  BY DEF TurnInv, L!TypeOK
<1>5. FreshHolds'
  BY <1>1, <1>2, <1>4 DEF FreshHolds
<1>6. Heard' /\ DraftHolds'
  BY <1>1 DEF TurnInv, Heard, DraftHolds
<1>7. \A k \in Specialists : ResultHolds(k)'
  BY <1>1, <1>2 DEF TurnInv, ResultHolds
<1> QED
  BY <1>1, <1>3, <1>5, <1>6, <1>7, GoesOn

(* The interactions begin, as far as they can be recorded.                   *)
LEMMA StartKeeps == ASSUME TurnInv, L!start_interaction PROVE TurnInv'
<1>1. /\ v1 = "start" /\ v1' = "consult"
      /\ UNCHANGED <<v2, v3, v4, v5, v6, v7, v8, v11, v12, v13>>
  BY DEF L!start_interaction, L!evidence
<1>2. /\ v9' \in [Specialists -> {"none", "active", "completed", "failed"}]
      /\ v10' \subseteq v2
  BY DEF L!start_interaction
<1>3. L!TypeOK'
  BY <1>1, <1>2 DEF TurnInv, L!TypeOK
<1>4. FreshHolds' /\ Heard' /\ DraftHolds'
  BY <1>1 DEF TurnInv, FreshHolds, Heard, DraftHolds
<1>5. \A k \in Specialists : ResultHolds(k)'
  BY <1>1 DEF TurnInv, ResultHolds
<1> QED
  BY <1>1, <1>3, <1>4, <1>5, GoesOn

(* A specialist answers, and is accepted or rejected.                        *)
LEMMA DelegateKeeps ==
    ASSUME TurnInv, NEW k \in Specialists, L!delegate_to_specialist(k)
    PROVE  TurnInv'
<1>1. /\ v1 = "consult" /\ k \in v2 /\ v6[k] # "unverified" /\ k \notin v8 /\ v7[k] = "none"
      /\ UNCHANGED <<v1, v2, v3, v4, v5, v6, v9, v10, v11, v12, v13>>
  BY DEF L!delegate_to_specialist, L!Verifiable, L!evidence, L!recorded
<1>2. \/ \E x \in {"advice", "request"} :
            v7' = [v7 EXCEPT ![k] = x] /\ v8' = v8 /\ (x = "request" => k = Nora)
      \/ v8' = v8 \cup {k} /\ v7' = v7
  BY DEF L!delegate_to_specialist, L!Accepts
<1>3. L!TypeOK /\ v7 \in [Specialists -> {"none", "advice", "request", "limit"}]
  BY DEF TurnInv, L!TypeOK
<1>4. /\ v7' \in [Specialists -> {"none", "advice", "request", "limit"}] /\ v8' \subseteq v2
      /\ \A q \in v8' : v7'[q] = "none"
      /\ \A q \in Specialists \ {k} : v7'[q] = v7[q] /\ (q \in v8' <=> q \in v8)
      /\ v7'[k] \in {"none", "advice", "request"} /\ (v7'[k] = "request" => k = Nora)
  BY <1>1, <1>2, <1>3 DEF L!TypeOK
<1>5. L!TypeOK'
  BY <1>1, <1>3, <1>4 DEF L!TypeOK
<1>6. FreshHolds' /\ Heard'
  BY <1>1 DEF TurnInv, FreshHolds, Heard
<1>7. v11.used = {} /\ ~v11.intents
  BY <1>1 DEF TurnInv, DraftHolds, L!TypeOK, L!Drafts
<1>8. DraftHolds'
  BY <1>1, <1>7 DEF DraftHolds
<1>9. ASSUME NEW q \in Specialists PROVE ResultHolds(q)'
  BY <1>1, <1>4 DEF TurnInv, ResultHolds
<1> QED
  BY <1>1, <1>5, <1>6, <1>8, <1>9, GoesOn

(* Every consultation is over.                                               *)
LEMMA ConsultKeeps == ASSUME TurnInv, L!consult_specialists PROVE TurnInv'
<1>1. /\ v1 = "consult" /\ v1' = "refine"
      /\ v7' = [k \in Specialists |-> IF k \in v2 /\ v6[k] = "unverified" THEN "limit" ELSE v7[k]]
      /\ UNCHANGED <<v2, v3, v4, v5, v6, v8, v9, v10, v11, v12, v13>>
  BY DEF L!consult_specialists, L!Verifiable, L!Limited, L!evidence,
     L!recorded, TurnInv, L!TypeOK
<1>2. L!TypeOK /\ \A k \in Specialists : ResultHolds(k)
  BY DEF TurnInv
<1>3. \A k \in v8 : k \in Specialists /\ v6[k] # "unverified"
  BY <1>1, <1>2 DEF L!TypeOK, ResultHolds
<1>4. L!TypeOK'
  BY <1>1, <1>2, <1>3 DEF L!TypeOK
<1>5. FreshHolds' /\ Heard'
  BY <1>1 DEF TurnInv, FreshHolds, Heard
<1>6. v11.used = {} /\ ~v11.intents
  BY <1>1 DEF TurnInv, DraftHolds, L!TypeOK, L!Drafts
<1>7. DraftHolds'
  BY <1>1, <1>6 DEF DraftHolds
<1>8. ASSUME NEW k \in Specialists PROVE ResultHolds(k)'
  BY <1>1, <1>2 DEF ResultHolds
<1> QED
  BY <1>1, <1>4, <1>5, <1>7, <1>8, GoesOn

(* Nora's research, if she asked for it.                                     *)
LEMMA RefineKeeps == ASSUME TurnInv, L!Refine PROVE TurnInv'
<1>1. /\ v1 = "refine" /\ v1' = "require"
      /\ UNCHANGED <<v2, v3, v4, v5, v9, v10, v11, v12, v13>>
  BY DEF L!Refine, L!evidence, L!recorded
<1>2. L!TypeOK /\ (\A k \in Specialists : ResultHolds(k)) /\ Nora \in Specialists
  BY Assumptions DEF TurnInv, L!RegistryAssumption
<1>3. /\ \A k \in Specialists \ {Nora} :
           v6'[k] = v6[k] /\ v7'[k] = v7[k] /\ (k \in v8' <=> k \in v8)
      /\ v6' \in [Specialists -> {"none", "stable", "pending", "verified", "unverified"}]
      /\ v7' \in [Specialists -> {"none", "advice", "request", "limit"}]
      /\ v8' \subseteq v8 \cup {Nora}
      /\ \/ v7[Nora] # "request" /\ UNCHANGED <<v6, v7, v8>>
         \/ /\ v7[Nora] = "request" /\ v6'[Nora] \in {"verified", "unverified"}
            /\ v7'[Nora] \in {"advice", "none"} /\ (Nora \in v8' => v7'[Nora] = "none" \/ Nora \in v8)
  <2>1. CASE v7[Nora] # "request"
    BY <1>2, <2>1 DEF L!Refine, L!Research, L!TypeOK
  <2>2. CASE v7[Nora] = "request"
    <3>1. PICK f \in {"verified", "unverified"}, x \in {"advice", "none"} :
            /\ v6' = [v6 EXCEPT ![Nora] = f] /\ v7' = [v7 EXCEPT ![Nora] = x]
            /\ v8' = v8 \/ (v8' = v8 \cup {Nora} /\ x = "none")
      BY <2>2 DEF L!Refine, L!Research
    <3> QED
      BY <1>2, <2>2, <3>1 DEF L!TypeOK
  <2> QED
    BY <2>1, <2>2
<1>4. v7[Nora] = "request" => Nora \in v2 /\ Nora \notin v8
  BY <1>2 DEF L!TypeOK, ResultHolds
<1>5. v8' \subseteq v2 /\ \A k \in v8' : v7'[k] = "none"
  BY <1>2, <1>3, <1>4 DEF L!TypeOK
<1>6. L!TypeOK'
  BY <1>1, <1>2, <1>3, <1>5 DEF L!TypeOK
<1>7. Heard'
  BY <1>1 DEF Heard
<1>8. FreshHolds'
  <2>1. FreshHolds /\ v3 \subseteq Specialists
    BY DEF TurnInv, L!TypeOK
  <2> QED
    BY <1>1, <1>3, <2>1 DEF FreshHolds
<1>9. v11.used = {} /\ ~v11.intents
  BY <1>1 DEF TurnInv, DraftHolds, L!TypeOK, L!Drafts
<1>10. DraftHolds'
  BY <1>1, <1>9 DEF DraftHolds
<1>11. ASSUME NEW k \in Specialists PROVE ResultHolds(k)'
  <2>1. ResultHolds(k)
    BY <1>2
  <2>2. CASE k # Nora
    BY <1>1, <1>3, <2>1, <2>2 DEF ResultHolds
  <2>3. CASE k = Nora
    BY <1>1, <1>3, <1>4, <2>1, <2>3 DEF ResultHolds
  <2> QED
    BY <2>2, <2>3
<1> QED
  BY <1>1, <1>6, <1>7, <1>8, <1>10, <1>11, GoesOn

(* Whoever was required and has no result is given the limit.                *)
LEMMA RequireKeeps == ASSUME TurnInv, L!Require PROVE TurnInv'
<1> DEFINE unheard == {k \in v3 : v7[k] = "none"}
<1>1. /\ v1 = "require" /\ v1' = "record"
      /\ v6' = [k \in Specialists |-> IF k \in unheard THEN "unverified" ELSE v6[k]]
      /\ v7' = [k \in Specialists |-> IF k \in unheard THEN "limit" ELSE v7[k]]
      /\ v8' = v8 \ unheard
      /\ UNCHANGED <<v2, v3, v4, v5, v9, v10, v11, v12, v13>>
  BY DEF L!Require, L!Limited, L!evidence, L!recorded
<1>2. L!TypeOK /\ (\A k \in Specialists : ResultHolds(k)) /\ FreshHolds
  BY DEF TurnInv
<1>3. L!TypeOK'
  BY <1>1, <1>2 DEF L!TypeOK
<1>4. v3 \subseteq Specialists /\ v3 \subseteq v2
  BY <1>2 DEF L!TypeOK
<1>5. Heard'
  BY <1>1, <1>4 DEF Heard
<1>6. FreshHolds'
  BY <1>1, <1>2, <1>4 DEF FreshHolds
<1>7. v11.used = {} /\ ~v11.intents
  BY <1>1 DEF TurnInv, DraftHolds, L!TypeOK, L!Drafts
<1>8. DraftHolds'
  BY <1>1, <1>7 DEF DraftHolds
<1>9. ASSUME NEW k \in Specialists PROVE ResultHolds(k)'
  BY <1>1, <1>2, <1>4 DEF ResultHolds
<1> QED
  BY <1>1, <1>3, <1>5, <1>6, <1>8, <1>9, GoesOn

(* The outcomes are recorded.                                                *)
LEMMA RecordKeeps == ASSUME TurnInv, L!finish_interaction PROVE TurnInv'
<1>1. /\ v1 = "record" /\ v1' = "synthesis"
      /\ UNCHANGED <<v2, v3, v4, v5, v6, v7, v8, v10, v11, v12, v13>>
  BY DEF L!finish_interaction, L!evidence
<1>2. v9' \in [Specialists -> {"none", "active", "completed", "failed"}]
  BY DEF L!finish_interaction, TurnInv, L!TypeOK
<1>3. L!TypeOK'
  BY <1>1, <1>2 DEF TurnInv, L!TypeOK
<1>4. FreshHolds' /\ Heard' /\ DraftHolds'
  BY <1>1 DEF TurnInv, FreshHolds, Heard, DraftHolds
<1>5. \A k \in Specialists : ResultHolds(k)'
  BY <1>1 DEF TurnInv, ResultHolds
<1> QED
  BY <1>1, <1>3, <1>4, <1>5, GoesOn

(* The model writes from the results, or is asked again.                     *)
LEMMA SynthesizeKeeps == ASSUME TurnInv, L!Synthesize \/ L!Repair PROVE TurnInv'
<1>1. /\ v1 \in {"synthesis", "repair"} /\ v1' \in {"attribute", "repair"}
      /\ UNCHANGED <<v2, v3, v4, v5, v6, v7, v8, v9, v10, v12, v13>>
  BY DEF L!Synthesize, L!Repair, L!evidence, L!recorded
<1>2. /\ v11' \in L!Drafts
      /\ v11'.used # {} \/ v11'.intents =>
           /\ v1' = "attribute" /\ v11'.used \subseteq L!Consulted
           /\ v11'.text = "model" /\ ~v11'.repaired
  <2>1. v11 \in L!Drafts /\ v11.used = {} /\ ~v11.intents
    BY <1>1 DEF TurnInv, DraftHolds, L!TypeOK, L!Drafts
  <2>2. CASE v1' = "repair" /\ UNCHANGED v11
    BY <2>1, <2>2
  <2>3. CASE L!Repair
    BY <2>3 DEF L!Repair, L!Drafts
  <2>4. ASSUME NEW used \in SUBSET Specialists, NEW intents \in BOOLEAN,
               used \subseteq L!Consulted, v1' = "attribute",
               v11' = [text |-> "model", used |-> used, intents |-> intents, repaired |-> FALSE]
        PROVE  /\ v11' \in L!Drafts /\ v11'.used \subseteq L!Consulted
               /\ v11'.text = "model" /\ ~v11'.repaired
    BY <2>4 DEF L!Drafts
  <2> QED
    BY <2>2, <2>3, <2>4 DEF L!Synthesize
<1>3. L!TypeOK'
  BY <1>1, <1>2 DEF TurnInv, L!TypeOK
<1>4. L!Consulted' = L!Consulted
  BY <1>1 DEF L!Consulted
<1>5. FreshHolds' /\ Heard'
  BY <1>1 DEF TurnInv, FreshHolds, Heard
<1>6. DraftHolds'
  BY <1>1, <1>2, <1>4 DEF DraftHolds
<1>7. \A k \in Specialists : ResultHolds(k)'
  BY <1>1 DEF TurnInv, ResultHolds
<1> QED
  BY <1>1, <1>3, <1>5, <1>6, <1>7, GoesOn

(* Without a result nothing was required, and the model answers by itself.   *)
LEMMA DirectKeeps == ASSUME TurnInv, L!AnswerDirectly PROVE TurnInv'
<1>1. /\ v1 = "synthesis" /\ v1' = "answered" /\ L!Consulted = {}
      /\ UNCHANGED <<v2, v3, v4, v5, v6, v7, v8, v9, v10, v11, v12>>
  BY DEF L!AnswerDirectly, L!evidence, L!recorded
<1>2. /\ v13' \in L!Drafts /\ v13'.used = {}
      /\ v13'.intents => v13'.text = "model" /\ ~v13'.repaired
  BY DEF L!AnswerDirectly, L!NoDraft, L!SafeFailure, L!Drafts
<1>3. v3 = {}
  BY <1>1 DEF TurnInv, L!TypeOK, Heard, L!Consulted
<1>4. L!TypeOK'
  BY <1>1, <1>2 DEF TurnInv, L!TypeOK
<1>5. FreshHolds' /\ Heard' /\ ~L!Blocked'
  BY <1>1, <1>3 DEF FreshHolds, Heard, L!Blocked
<1>6. v11.used = {} /\ ~v11.intents
  BY <1>1 DEF TurnInv, DraftHolds, L!TypeOK, L!Drafts
<1>7. DraftHolds'
  BY <1>1, <1>6 DEF DraftHolds
<1>8. \A k \in Specialists : ResultHolds(k)'
  BY <1>1 DEF TurnInv, ResultHolds
<1>9. L!EvidenceHolds' /\ L!ProposalsAreFounded'
  BY <1>1, <1>2, <1>3, <1>5 DEF L!EvidenceHolds, L!ProposalsAreFounded
<1>10. L!CreditIsEarned'
  BY <1>1, <1>2 DEF TurnInv, Untold, L!CreditIsEarned
<1> QED
  BY <1>1, <1>4, <1>5, <1>7, <1>8, <1>9, <1>10 DEF TurnInv

(* The answer is attributed: unless it is blocked, whoever was required      *)
(* advised on evidence, and whoever it names has advised.                    *)
LEMMA AttributeKeeps == ASSUME TurnInv, L!Attribute PROVE TurnInv'
<1>1. /\ v1 = "attribute" /\ v1' = "answered"
      /\ UNCHANGED <<v2, v3, v4, v5, v6, v7, v8, v9, v10, v11>>
  BY DEF L!Attribute, L!evidence
<1>2. L!TypeOK /\ (\A k \in Specialists : ResultHolds(k)) /\ FreshHolds /\ Heard /\ DraftHolds
      /\ Untold
  BY <1>1 DEF TurnInv
<1>3. L!Final \in L!Drafts /\ v11 \in L!Drafts
  BY <1>2 DEF L!TypeOK, L!Final, L!SafeFailure, L!NoDraft, L!Drafts
<1>4. /\ L!Final.used # {} \/ L!Final.intents =>
           L!Final = v11 /\ ~L!Blocked /\ L!Final.text = "model" /\ ~L!Final.repaired
      /\ L!Final.text = "model" => ~L!Blocked
      /\ L!Final.used \subseteq L!Consulted
  BY <1>2, <1>3 DEF DraftHolds, L!Final, L!SafeFailure, L!NoDraft, L!Drafts
<1>5. ASSUME ~L!Blocked, NEW k \in Specialists, v7[k] # "none" PROVE v7[k] = "advice"
  <2>1. v7[k] # "request" /\ v7[k] # "limit"
    BY <1>1, <1>2, <1>5 DEF ResultHolds, L!Blocked
  <2> QED
    BY <1>2, <1>5, <2>1 DEF L!TypeOK
<1>6. ~L!Blocked => \A k \in v3 : /\ v7[k] = "advice"
                                  /\ v6[k] = "verified" \/ (k = Nora /\ v6[k] = "pending")
  BY <1>1, <1>2, <1>5 DEF Heard, FreshHolds, L!Blocked, L!TypeOK
<1> DEFINE used == L!Final.used \cap v10
<1>7. /\ \/ v13' = [L!Final EXCEPT !.used = used]
         \/ v13' = [L!Final EXCEPT !.used = {}]
      /\ \/ v12' = v12 /\ (L!Measured = {} \/ v13' = [L!Final EXCEPT !.used = {}])
         \/ /\ \A k \in L!Measured : v9[k] = "completed"
            /\ v12' = [k \in Specialists |-> IF k \notin L!Measured THEN v12[k]
                                             ELSE IF k \in used THEN "used" ELSE "unused"]
  BY DEF L!Attribute
<1>8. /\ v13' \in L!Drafts /\ v13'.text = L!Final.text /\ v13'.intents = L!Final.intents
      /\ v13'.repaired = L!Final.repaired
      /\ v13'.used = used \/ v13'.used = {}
  BY <1>3, <1>7 DEF L!Drafts
<1>9. used \subseteq L!Measured /\ L!Measured \subseteq Specialists /\ used \subseteq L!Final.used
  BY <1>4 DEF L!Measured, L!Consulted
<1>10. v12' \in [Specialists -> {"unknown", "used", "unused"}]
  BY <1>2, <1>7 DEF L!TypeOK
<1>11. L!TypeOK'
  BY <1>1, <1>2, <1>8, <1>10 DEF L!TypeOK
<1>12. L!Consulted' = L!Consulted /\ (L!Blocked' <=> L!Blocked)
  BY <1>1 DEF L!Consulted, L!Blocked
<1>13. FreshHolds' /\ Heard' /\ DraftHolds'
  BY <1>1, <1>2, <1>12 DEF FreshHolds, Heard, DraftHolds
<1>14. \A k \in Specialists : ResultHolds(k)'
  BY <1>1, <1>2 DEF ResultHolds
<1>15. L!EvidenceHolds'
  BY <1>1, <1>4, <1>6, <1>8 DEF L!EvidenceHolds
<1>16. L!ProposalsAreFounded'
  BY <1>4, <1>8, <1>12 DEF L!ProposalsAreFounded
<1>17. L!CreditIsEarned'
  <2>1. ASSUME NEW k \in Specialists, v12'[k] = "used"
        PROVE  /\ v9[k] = "completed" /\ v7[k] = "advice"
               /\ v13'.text = "model" /\ ~v13'.repaired
    <3>1. k \in L!Measured /\ k \in used /\ v9[k] = "completed"
      BY <1>2, <1>7, <2>1 DEF Untold
    <3>2. k \in L!Final.used /\ k \in L!Consulted
      BY <1>4, <1>9, <3>1
    <3>3. ~L!Blocked /\ L!Final.text = "model" /\ ~L!Final.repaired
      BY <1>4, <3>2
    <3> QED
      BY <1>5, <1>8, <3>1, <3>2, <3>3 DEF L!Consulted
  <2>2. ASSUME NEW k \in v13'.used PROVE v12'[k] = "used"
    <3>1. k \in used /\ L!Measured # {} /\ k \in L!Measured /\ k \in Specialists
      BY <1>8, <1>9, <2>2
    <3>2. v13' # [L!Final EXCEPT !.used = {}]
      BY <1>3, <2>2 DEF L!Drafts
    <3> QED
      BY <1>7, <3>1, <3>2
  <2> QED
    BY <1>1, <2>1, <2>2 DEF L!CreditIsEarned
<1> QED
  BY <1>1, <1>11, <1>13, <1>14, <1>15, <1>16, <1>17 DEF TurnInv

(* Every step of the turn keeps the invariant.                               *)
LEMMA TurnKeeps == ASSUME TurnInv, [L!Next]_(L!vars) PROVE TurnInv'
<1>1. CASE UNCHANGED L!vars
  <2>1. UNCHANGED <<v1, v2, v3, v4, v5, v6, v7, v8, v9, v10, v11, v12, v13>>
    BY <1>1 DEF L!vars
  <2>2. L!TypeOK' /\ FreshHolds' /\ Heard'
    BY <2>1 DEF TurnInv, L!TypeOK, FreshHolds, Heard
  <2>3. DraftHolds' /\ (v1' # "answered" => Untold') /\ \A k \in Specialists : ResultHolds(k)'
    BY <2>1 DEF TurnInv, DraftHolds, L!Consulted, Untold, ResultHolds
  <2>4. L!EvidenceHolds' /\ L!CreditIsEarned' /\ L!ProposalsAreFounded'
    BY <2>1
       DEF TurnInv, L!EvidenceHolds, L!CreditIsEarned, L!ProposalsAreFounded, L!Blocked
  <2> QED
    BY <2>1, <2>2, <2>3, <2>4 DEF TurnInv
<1>2. CASE L!MemoryUnreadable \/ L!GenerationFails
  BY <1>2, TurnFails
     DEF L!MemoryUnreadable, L!GenerationFails, L!evidence, L!recorded
<1> QED
  BY <1>1, <1>2, ReceiveKeeps, PrepareKeeps, StartKeeps, DelegateKeeps,
     ConsultKeeps,
     RefineKeeps, RequireKeeps, RecordKeeps, SynthesizeKeeps, DirectKeeps, AttributeKeeps
     DEF L!Next, L!Done

-----------------------------------------------------------------------------
(* ActionIntent, for any number of decisions, retried, crossing each other   *)
(* and the retention job. The row, log, overdue, linked, steps, verdicts,    *)
(* answers and told states are v1 to v8. A request starts when its approval  *)
(* takes the row out of "proposed", which it never enters again: so there is *)
(* one that starts, and what it knows of the provider is what the row will   *)
(* say.                                                                      *)

Started(d) == v5[d] \in {"check", "execute", "report"} \/ v6[d] # "none" \/ v7[d] # "none"

OneStarts == \A d, e \in Requests : Started(d) /\ Started(e) => d = e

Untouched == {"absent", "proposed", "owner_confirmation_required", "denied", "expired"}

NobodyBefore == v1.state \in Untouched => \A d \in Requests : ~Started(d)

StepsAreTrue == \A d \in Requests :
    /\ v5[d] = "idle" => ~Started(d)
    /\ v5[d] \in {"check", "execute"} => v6[d] = "none" /\ v7[d] = "none"
    /\ v5[d] = "report" => v6[d] # "none"
    /\ v6[d] = "failed" => v7[d] = "none"
    /\ v6[d] = "succeeded" => v7[d] = "confirmed"

FailureIsTrue == v1.state = "failed" =>
    \A d \in Requests : v7[d] = "none" /\ v5[d] \notin {"check", "execute"}

SuccessIsTrue == v1.state = "succeeded" => \E d \in Requests : v7[d] = "confirmed"

Claimed == {"executing", "succeeded", "failed", "uncertain"}

Approved == I!Event("owner", "proposed", "executing")

ApprovalIsLogged ==
    /\ v1.state \in Claimed \cup {"proposed"} => ~v1.governed
    /\ v1.state \in Claimed => \E i \in 1..Len(v2) : v2[i] = Approved

Sound ==
    /\ OneStarts /\ NobodyBefore /\ StepsAreTrue /\ FailureIsTrue /\ SuccessIsTrue
    /\ ApprovalIsLogged /\ I!ToldIsFinal

IntentInv == I!TypeOK /\ Sound

-----------------------------------------------------------------------------
(* What the operators do.                                                    *)

(* A move changes the state alone, and logs it.                              *)
LEMMA MoveIs ==
    ASSUME I!TypeOK, NEW actor \in I!Actors, NEW to \in I!IntentStates, I!Move(actor, to)
    PROVE  /\ v1' \in [state : I!IntentStates, governed : BOOLEAN, measured : BOOLEAN]
           /\ v1'.state = to /\ v1'.governed = v1.governed
           /\ v2' \in Seq([actor : I!Actors, from : I!IntentStates, to : I!IntentStates])
           /\ \A i \in 1..Len(v2) : i \in 1..Len(v2') /\ v2'[i] = v2[i]
           /\ \E i \in 1..Len(v2') : v2'[i] = I!Event(actor, v1.state, to)
<1> DEFINE event == I!Event(actor, v1.state, to)
           Events == [actor : I!Actors, from : I!IntentStates, to : I!IntentStates]
<1>1. v1 \in [state : I!IntentStates, governed : BOOLEAN, measured : BOOLEAN]
      /\ v1' = [v1 EXCEPT !.state = to] /\ v2' = Append(v2, event)
  BY DEF I!TypeOK, I!Move
<1>2. v1.state \in I!IntentStates
  BY <1>1
<1>3. event \in Events /\ v2 \in Seq(Events)
  BY <1>2 DEF I!Event, I!TypeOK
<1> HIDE DEF event, Events
<1>4. /\ v2' \in Seq(Events) /\ Len(v2') = Len(v2) + 1 /\ Len(v2) \in Nat
      /\ v2'[Len(v2) + 1] = event /\ \A i \in 1..Len(v2) : v2'[i] = v2[i]
  BY <1>1, <1>3
<1>5. (\A i \in 1..Len(v2) : i \in 1..Len(v2')) /\ Len(v2) + 1 \in 1..Len(v2')
  BY <1>4
<1>6. \E i \in 1..Len(v2') : v2'[i] = event
  BY <1>4, <1>5
<1>7. /\ v1' \in [state : I!IntentStates, governed : BOOLEAN, measured : BOOLEAN]
      /\ v1'.state = to /\ v1'.governed = v1.governed
  BY <1>1
<1> QED
  BY <1>4, <1>5, <1>6, <1>7 DEF event, Events

(* An answer ends a request, or lets it check; it tells what the row says.   *)
LEMMA AnswerIs ==
    ASSUME I!TypeOK, NEW d \in Requests, NEW step \in {"check", "told"},
           v1'.state \in I!IntentStates, I!Answered(d, step)
    PROVE  /\ \/ v5' = [v5 EXCEPT ![d] = step] \/ v5' = [v5 EXCEPT ![d] = "unreachable"]
           /\ v8' \in [Requests -> I!IntentStates \cup {"none"}]
           /\ \A e \in Requests : v8'[e] = v8[e] \/ v8'[e] = v1'.state
  BY DEF I!TypeOK, I!Answered, I!Unset

Steps == {"idle", "check", "execute", "report", "told", "rejected", "unreachable", "dead"}

(* Requests end, and are told the state of the row if they are told.         *)
Ends(d) == v5'[d] = v5[d] \/ v5'[d] \in {"told", "rejected", "unreachable", "dead"}

Tells ==
    /\ v8' \in [Requests -> I!IntentStates \cup {"none"}]
    /\ \A d \in Requests : v8'[d] = v8[d] \/ v8'[d] = v1'.state

(* The row stays as it is.                                                   *)
LEMMA StillKeeps ==
    ASSUME IntentInv, UNCHANGED <<v1, v2, v6, v7>>, v3' \in BOOLEAN, v4' \in BOOLEAN,
           v5' \in [Requests -> Steps], \A d \in Requests : Ends(d), Tells
    PROVE  IntentInv'
<1>1. I!TypeOK'
  BY DEF IntentInv, I!TypeOK, Tells, Steps, I!Unset
<1>2. \A d \in Requests : (Started(d)' => Started(d))
        /\ (v5'[d] \in {"idle", "check", "execute", "report"} => v5'[d] = v5[d])
  BY DEF Ends, Started
<1>3. OneStarts' /\ NobodyBefore'
  BY <1>2 DEF IntentInv, Sound, OneStarts, NobodyBefore
<1>4. StepsAreTrue'
  BY <1>2 DEF IntentInv, Sound, StepsAreTrue
<1>5. FailureIsTrue' /\ SuccessIsTrue' /\ ApprovalIsLogged'
  BY <1>2 DEF IntentInv, Sound, FailureIsTrue, SuccessIsTrue, ApprovalIsLogged
<1>6. I!ToldIsFinal'
  BY DEF IntentInv, Sound, I!ToldIsFinal, Tells
<1> QED
  BY <1>1, <1>3, <1>4, <1>5, <1>6 DEF IntentInv, Sound

Open == I!Pending \cup {"executing"}

(* A row that is not final moves: to "executing" by the approval of d, to    *)
(* what d reports, or to what needs no request.                              *)
LEMMA MoveKeeps ==
    ASSUME IntentInv, NEW d, NEW actor \in I!Actors, NEW to \in I!IntentStates,
           I!Move(actor, to), v1.state \in Open,
           UNCHANGED <<v6, v7>>, v3' \in BOOLEAN, v4' \in BOOLEAN,
           v5' \in [Requests -> Steps], \A e \in Requests \ {d} : Ends(e), Tells,
           \/ /\ d \in Requests /\ v5'[d] \in {"check", "unreachable"}
              /\ v1.state = "proposed" /\ actor = "owner" /\ to = "executing"
           \/ /\ \A e \in Requests : Ends(e)
              /\ \/ v1.state \in I!Pending /\ to \in {"denied", "expired"}
                 \/ v1.state = "owner_confirmation_required" /\ to = v1.state
                 \/ v1.state = "executing" /\ to = "uncertain"
           \/ /\ d \in Requests /\ v5[d] = "report" /\ v5'[d] \in {"told", "unreachable"}
              /\ v1.state = "executing" /\ to = v6[d]
    PROVE  IntentInv'
<1>t. /\ v1' \in [state : I!IntentStates, governed : BOOLEAN, measured : BOOLEAN]
      /\ v1'.state = to /\ v1'.governed = v1.governed
      /\ v2' \in Seq([actor : I!Actors, from : I!IntentStates, to : I!IntentStates])
      /\ \A i \in 1..Len(v2) : i \in 1..Len(v2') /\ v2'[i] = v2[i]
      /\ \E i \in 1..Len(v2') : v2'[i] = I!Event(actor, v1.state, to)
  BY MoveIs DEF IntentInv
<1>1. I!TypeOK'
  BY <1>t DEF IntentInv, I!TypeOK, Tells, Steps, I!Unset
<1>f. d \in Requests => v6[d] \in {"succeeded", "failed", "uncertain", "none"}
  BY DEF IntentInv, I!TypeOK, I!Unset
<1> USE DEF Open, I!Pending, Untouched
<1>2. \A e \in Requests \ {d} : (Started(e)' => Started(e))
        /\ (v5'[e] \in {"idle", "check", "execute", "report"} => v5'[e] = v5[e])
  BY DEF Ends, Started
<1>3. v1.state \in Untouched => \A e \in Requests : ~Started(e)
  BY DEF IntentInv, Sound, NobodyBefore
<1>4. OneStarts' /\ NobodyBefore'
  <2>1. CASE v1.state = "proposed" /\ to = "executing"
    <3>1. \A e \in Requests \ {d} : ~Started(e)'
      BY <1>2, <1>3, <2>1
    <3>2. v1'.state \notin Untouched
      BY <1>t, <2>1
    <3> QED
      BY <3>1, <3>2 DEF OneStarts, NobodyBefore
  <2>2. CASE ~(v1.state = "proposed" /\ to = "executing")
    <3>0. \/ \A e \in Requests : Ends(e)
          \/ d \in Requests /\ v5[d] = "report" /\ v5'[d] \in {"told", "unreachable"}
      BY <2>2
    <3>1. \A e \in Requests : Started(e)' => Started(e)
      BY <1>2, <3>0 DEF Ends, Started
    <3>2. to \in Untouched => v1.state \in Untouched
      <4>1. d \in Requests /\ to = v6[d] /\ v5[d] = "report" => to \notin Untouched
        BY <1>f DEF IntentInv, Sound, StepsAreTrue
      <4> QED
        BY <2>2, <4>1
    <3> QED
      BY <1>3, <1>t, <3>1, <3>2 DEF IntentInv, Sound, OneStarts, NobodyBefore
  <2> QED
    BY <2>1, <2>2
<1>5. StepsAreTrue'
  <2> SUFFICES ASSUME NEW e \in Requests
               PROVE  /\ v5'[e] = "idle" => ~Started(e)'
                      /\ v5'[e] \in {"check", "execute"} => v6[e] = "none" /\ v7[e] = "none"
                      /\ v5'[e] = "report" => v6[e] # "none"
                      /\ v6[e] = "failed" => v7[e] = "none"
                      /\ v6[e] = "succeeded" => v7[e] = "confirmed"
    BY DEF StepsAreTrue
  <2>1. CASE v5'[e] = v5[e]
    BY <2>1 DEF IntentInv, Sound, StepsAreTrue, Started
  <2>2. CASE v5'[e] # v5[e] /\ v5'[e] # "check"
    <3>1. v5'[e] \in {"told", "rejected", "unreachable", "dead"}
      BY <2>2 DEF Ends
    <3> QED
      BY <3>1 DEF IntentInv, Sound, StepsAreTrue, Started
  <2>3. CASE v5'[e] = "check" /\ v5'[e] # v5[e]
    <3>1. ~Started(e)
      BY <1>3, <2>3 DEF Ends
    <3> QED
      BY <2>3, <3>1 DEF Started
  <2> QED
    BY <2>1, <2>2, <2>3
<1>6. FailureIsTrue' /\ SuccessIsTrue'
  <2> SUFFICES ASSUME to \in {"failed", "succeeded"}
               PROVE  FailureIsTrue' /\ SuccessIsTrue'
    BY <1>t DEF FailureIsTrue, SuccessIsTrue
  <2>1. /\ d \in Requests /\ to = v6[d]
        /\ v5[d] = "report" /\ v5'[d] \in {"told", "unreachable"}
    OBVIOUS
  <2>2. \A e \in Requests \ {d} : ~Started(e)
    BY <2>1 DEF IntentInv, Sound, OneStarts, Started
  <2> QED
    BY <1>2, <1>t, <2>1, <2>2
    DEF IntentInv, Sound, StepsAreTrue, FailureIsTrue, SuccessIsTrue, Started
<1>7. ApprovalIsLogged'
  <2>1. CASE v1.state = "proposed" /\ to = "executing" /\ actor = "owner"
    BY <1>t, <2>1 DEF IntentInv, Sound, ApprovalIsLogged, Approved
  <2>2. CASE v1.state = "executing"
    BY <1>t, <2>2 DEF IntentInv, Sound, ApprovalIsLogged, Claimed
  <2>3. CASE to \in {"denied", "expired", "owner_confirmation_required"}
    BY <1>t, <2>3 DEF ApprovalIsLogged, Claimed
  <2> QED
    BY <2>1, <2>2, <2>3
<1>8. I!ToldIsFinal'
  <2>1. \A e \in Requests : v8[e] \notin I!Terminal
    BY DEF IntentInv, Sound, I!ToldIsFinal, I!Terminal
  <2> QED
    BY <1>t, <2>1 DEF I!ToldIsFinal, Tells
<1> QED
  BY <1>1, <1>4, <1>5, <1>6, <1>7, <1>8 DEF IntentInv, Sound

-----------------------------------------------------------------------------
(* The actions.                                                              *)

(* A request that was answered "told" ends.                                  *)
LEMMA ToldEnds ==
    ASSUME I!TypeOK, NEW d \in Requests, v1'.state \in I!IntentStates, I!Answered(d, "told")
    PROVE  /\ v5' \in [Requests -> Steps] /\ Tells /\ \A e \in Requests : Ends(e)
           /\ v5'[d] \in {"told", "unreachable"}
<1>1. /\ \/ v5' = [v5 EXCEPT ![d] = "told"] \/ v5' = [v5 EXCEPT ![d] = "unreachable"]
      /\ v8' \in [Requests -> I!IntentStates \cup {"none"}]
      /\ \A e \in Requests : v8'[e] = v8[e] \/ v8'[e] = v1'.state
  BY AnswerIs
<1> QED
  BY <1>1 DEF I!TypeOK, Steps, Tells, Ends

(* So does one that was rejected or not reached, and it changes no row.      *)
LEMMA RefusedKeeps ==
    ASSUME IntentInv, NEW d \in Requests, I!Rejected(d) \/ I!Unreachable(d),
           UNCHANGED <<v3, v4, v6, v7>>
    PROVE  IntentInv'
<1>1. /\ UNCHANGED <<v1, v2, v8>>
      /\ \/ v5' = [v5 EXCEPT ![d] = "rejected"] \/ v5' = [v5 EXCEPT ![d] = "unreachable"]
  BY DEF I!Rejected, I!Unreachable, I!Keep
<1>2. Tells
  BY <1>1 DEF Tells, IntentInv, I!TypeOK, I!Unset
<1>3. v5' \in [Requests -> Steps] /\ \A e \in Requests : Ends(e)
  BY <1>1 DEF Ends, Steps, IntentInv, I!TypeOK
<1>4. v3' \in BOOLEAN /\ v4' \in BOOLEAN
  BY DEF IntentInv, I!TypeOK
<1> QED
  BY <1>1, <1>2, <1>3, <1>4, StillKeeps

(* And one that is answered without a change.                                *)
LEMMA KeptAnswerKeeps ==
    ASSUME IntentInv, NEW d \in Requests, I!Keep, I!Answered(d, "told"),
           UNCHANGED <<v3, v4, v6, v7>>
    PROVE  IntentInv'
<1>1. UNCHANGED <<v1, v2>> /\ v1'.state \in I!IntentStates
  BY DEF I!Keep, IntentInv, I!TypeOK
<1>2. v5' \in [Requests -> Steps] /\ Tells /\ \A e \in Requests : Ends(e)
  BY <1>1, ToldEnds DEF IntentInv
<1>3. v3' \in BOOLEAN /\ v4' \in BOOLEAN
  BY DEF IntentInv, I!TypeOK
<1> QED
  BY <1>1, <1>2, <1>3, StillKeeps

(* And one whose move is answered.                                           *)
LEMMA MovedAnswerKeeps ==
    ASSUME IntentInv, NEW d \in Requests, NEW actor \in I!Actors, NEW to \in I!IntentStates,
           I!Move(actor, to), I!Answered(d, "told"), UNCHANGED <<v3, v4, v6, v7>>,
           \/ v1.state \in I!Pending /\ to \in {"denied", "expired"}
           \/ v1.state = "owner_confirmation_required" /\ to = v1.state
           \/ v1.state = "executing" /\ to = "uncertain"
           \/ v1.state = "executing" /\ v5[d] = "report" /\ to = v6[d]
    PROVE  IntentInv'
<1>1. v1'.state = to
  BY MoveIs DEF IntentInv
<1>2. /\ v5' \in [Requests -> Steps] /\ Tells /\ \A e \in Requests : Ends(e)
      /\ v5'[d] \in {"told", "unreachable"}
  BY <1>1, ToldEnds DEF IntentInv
<1>3. v3' \in BOOLEAN /\ v4' \in BOOLEAN
  BY DEF IntentInv, I!TypeOK
<1>4. v1.state \in Open
  BY DEF Open, I!Pending
<1> QED
  BY <1>2, <1>3, <1>4, MoveKeeps

(* A decision, whatever the row says (resolve_action_intent).                *)
LEMMA DecideKeeps ==
    ASSUME IntentInv, NEW d \in Requests, NEW decision \in I!Decisions, I!Decide(d, decision)
    PROVE  IntentInv'
<1>1. v5[d] = "idle" /\ v1.state # "absent" /\ UNCHANGED <<v3, v4, v6, v7>>
  BY DEF I!Decide
<1>2. v1.state \in I!IntentStates /\ v3 \in BOOLEAN /\ v4 \in BOOLEAN
  BY DEF IntentInv, I!TypeOK
<1>a. {"owner", "system"} \subseteq I!Actors
  BY DEF I!Actors
<1>3. CASE v1.state \in I!Terminal /\ I!Keep /\ I!Answered(d, "told")
  BY <1>1, <1>3, KeptAnswerKeeps
<1>4. CASE v1.state \notin I!Terminal /\ I!Expire /\ I!Answered(d, "told")
  <2>1. I!Move("system", I!Lapsed(v1.state)) /\ I!Lapsed(v1.state) \in I!IntentStates
    BY <1>4 DEF I!Expire, I!Lapsed, I!IntentStates, I!Terminal
  <2>2. \/ v1.state \in I!Pending /\ I!Lapsed(v1.state) = "expired"
        \/ v1.state = "executing" /\ I!Lapsed(v1.state) = "uncertain"
    BY <1>1, <1>2, <1>4 DEF I!Lapsed, I!IntentStates, I!Pending
  <2> QED
    BY <1>1, <1>4, <1>a, <2>1, <2>2, MovedAnswerKeeps
<1>5. CASE I!Approve(d)
  <2>1. v1.state = "proposed" /\ I!Move("owner", "executing") /\ I!Answered(d, "check")
    BY <1>5 DEF I!Approve
  <2>2. "executing" \in I!IntentStates /\ v1.state \in Open
    BY <2>1 DEF I!IntentStates, Open, I!Pending
  <2>3. v1'.state = "executing"
    BY <1>a, <2>1, <2>2, MoveIs DEF IntentInv
  <2>4. /\ \/ v5' = [v5 EXCEPT ![d] = "check"] \/ v5' = [v5 EXCEPT ![d] = "unreachable"]
        /\ v8' \in [Requests -> I!IntentStates \cup {"none"}]
        /\ \A e \in Requests : v8'[e] = v8[e] \/ v8'[e] = v1'.state
    BY <2>1, <2>2, <2>3, AnswerIs DEF IntentInv
  <2>5. /\ v5' \in [Requests -> Steps] /\ Tells /\ v5'[d] \in {"check", "unreachable"}
        /\ \A e \in Requests \ {d} : Ends(e)
    BY <2>4 DEF IntentInv, I!TypeOK, Steps, Tells, Ends
  <2> QED
    BY <1>1, <1>2, <1>a, <2>1, <2>2, <2>5, MoveKeeps
<1>6. CASE I!ApproveGoverned(d, decision = "confirm")
  <2>1. /\ v1.state = "owner_confirmation_required" /\ I!Answered(d, "told")
        /\ I!Move("owner", v1.state) \/ I!Keep
    BY <1>6 DEF I!ApproveGoverned
  <2>2. CASE I!Move("owner", v1.state)
    BY <1>1, <1>2, <1>a, <2>1, <2>2, MovedAnswerKeeps
  <2> QED
    BY <1>1, <2>1, <2>2, KeptAnswerKeeps
<1>7. CASE I!Deny(d)
  <2>1. /\ v1.state \in I!Pending /\ I!Answered(d, "told") /\ I!Move("owner", "denied")
        /\ "denied" \in I!IntentStates
    BY <1>7 DEF I!Deny, I!IntentStates, I!Terminal
  <2> QED
    BY <1>1, <1>a, <2>1, MovedAnswerKeeps
<1>8. CASE I!Rejected(d) \/ I!Unreachable(d)
  BY <1>1, <1>8, RefusedKeeps
<1> QED
  BY <1>3, <1>4, <1>5, <1>6, <1>7, <1>8 DEF I!Decide

(* The request that executes.                                                *)
LEMMA CheckStoredKeeps ==
    ASSUME IntentInv, NEW d \in Requests, I!CheckStored(d)
    PROVE  IntentInv'
<1>1. /\ v5[d] = "check" /\ UNCHANGED <<v1, v2, v3, v4, v7, v8>>
      /\ \/ v5' = [v5 EXCEPT ![d] = "execute"] /\ v6' = v6
         \/ v5' = [v5 EXCEPT ![d] = "report"] /\ v6' = [v6 EXCEPT ![d] = "failed"]
  BY DEF I!CheckStored
<1>2. v7[d] = "none" /\ v1.state # "failed"
  BY <1>1 DEF IntentInv, Sound, StepsAreTrue, FailureIsTrue
<1>3. I!TypeOK'
  BY <1>1 DEF IntentInv, I!TypeOK
<1>4. \A e \in Requests : Started(e)' => Started(e)
  BY <1>1 DEF IntentInv, I!TypeOK, Started
<1>5. OneStarts' /\ NobodyBefore'
  BY <1>1, <1>4 DEF IntentInv, Sound, OneStarts, NobodyBefore
<1>6. StepsAreTrue'
  BY <1>1, <1>2, <1>4 DEF IntentInv, I!TypeOK, Sound, StepsAreTrue, Started
<1>7. FailureIsTrue' /\ SuccessIsTrue' /\ ApprovalIsLogged' /\ I!ToldIsFinal'
  BY <1>1, <1>2
  DEF IntentInv, Sound, FailureIsTrue, SuccessIsTrue, ApprovalIsLogged, I!ToldIsFinal
<1> QED
  BY <1>3, <1>5, <1>6, <1>7 DEF IntentInv, Sound

(* The call of the provider, which only the request that started makes.      *)
LEMMA CallProviderKeeps ==
    ASSUME IntentInv, NEW d \in Requests, I!CallProvider(d)
    PROVE  IntentInv'
<1> PICK reply \in I!ProviderAnswers :
        /\ v5[d] = "execute" /\ UNCHANGED <<v1, v2, v3, v4, v8>>
        /\ v7' = [v7 EXCEPT ![d] = reply]
        /\ v6' = [v6 EXCEPT ![d] = I!VerdictOf(reply)]
        /\ v5' = [v5 EXCEPT ![d] = "report"]
  BY DEF I!CallProvider
<1>1. /\ I!VerdictOf(reply) \in {"succeeded", "uncertain"}
      /\ I!VerdictOf(reply) = "succeeded" => reply = "confirmed"
  BY DEF I!VerdictOf
<1>2. v7[d] = "none" /\ v1.state # "failed"
  BY DEF IntentInv, Sound, StepsAreTrue, FailureIsTrue
<1>3. I!TypeOK'
  BY <1>1 DEF IntentInv, I!TypeOK, I!Unset
<1>4. \A e \in Requests : Started(e)' => Started(e)
  BY DEF IntentInv, I!TypeOK, Started
<1>5. OneStarts' /\ NobodyBefore'
  BY <1>4 DEF IntentInv, Sound, OneStarts, NobodyBefore
<1>6. StepsAreTrue'
  BY <1>1, <1>4 DEF IntentInv, I!TypeOK, Sound, StepsAreTrue, Started
<1>7. SuccessIsTrue'
  BY <1>2 DEF IntentInv, I!TypeOK, Sound, SuccessIsTrue
<1>8. FailureIsTrue' /\ ApprovalIsLogged' /\ I!ToldIsFinal'
  BY <1>2 DEF IntentInv, Sound, FailureIsTrue, ApprovalIsLogged, I!ToldIsFinal
<1> QED
  BY <1>3, <1>5, <1>6, <1>7, <1>8 DEF IntentInv, Sound

(* The report: the row says what its request knows, unless it is final.      *)
LEMMA ReportKeeps ==
    ASSUME IntentInv, NEW d \in Requests, I!Report(d)
    PROVE  IntentInv'
<1>1. v5[d] = "report" /\ UNCHANGED <<v3, v4, v6, v7>>
  BY DEF I!Report
<1>2. v6[d] \in I!IntentStates /\ "provider" \in I!Actors
  BY <1>1
     DEF IntentInv, Sound, StepsAreTrue, I!TypeOK, I!Unset, I!IntentStates,
     I!Terminal,
              I!Actors
<1>3. CASE I!Keep /\ I!Answered(d, "told")
  BY <1>1, <1>3, KeptAnswerKeeps
<1>4. CASE v1.state = "executing" /\ I!Move("provider", v6[d]) /\ I!Answered(d, "told")
  BY <1>1, <1>2, <1>4, MovedAnswerKeeps
<1>5. CASE I!Rejected(d) \/ I!Unreachable(d)
  BY <1>1, <1>5, RefusedKeeps
<1> QED
  BY <1>3, <1>4, <1>5 DEF I!Report

(* A request that dies knows and does no more.                               *)
LEMMA CrashKeeps ==
    ASSUME IntentInv, NEW d \in Requests, I!Crash(d)
    PROVE  IntentInv'
<1>1. v5' = [v5 EXCEPT ![d] = "dead"] /\ UNCHANGED <<v1, v2, v3, v4, v6, v7, v8>>
  BY DEF I!Crash
<1>2. Tells /\ v3' \in BOOLEAN /\ v4' \in BOOLEAN
  BY <1>1 DEF Tells, IntentInv, I!TypeOK, I!Unset
<1>3. v5' \in [Requests -> Steps] /\ \A e \in Requests : Ends(e)
  BY <1>1 DEF Ends, Steps, IntentInv, I!TypeOK
<1> QED
  BY <1>1, <1>2, <1>3, StillKeeps

(* The environment: no request moves.                                        *)
LEMMA OthersKeep ==
    ASSUME IntentInv,
           I!create_action_intent \/ I!expire_action_intents \/ I!DayPasses
               \/ I!delete_private_conversation
    PROVE  IntentInv'
<1>1. UNCHANGED <<v5, v6, v7, v8>>
  BY DEF I!create_action_intent, I!expire_action_intents, I!DayPasses,
         I!delete_private_conversation
<1>2. /\ Tells /\ v5' \in [Requests -> Steps] /\ \A e \in Requests : Ends(e)
      /\ v1.state \in I!IntentStates
  BY <1>1 DEF Tells, Ends, Steps, IntentInv, I!TypeOK, I!Unset
<1>3. CASE I!create_action_intent
  <2> PICK governed \in BOOLEAN, measured \in BOOLEAN :
          LET first == IF governed THEN "owner_confirmation_required" ELSE "proposed" IN
          /\ v1.state = "absent"
          /\ v1' = [state |-> first, governed |-> governed, measured |-> measured]
          /\ v2' = <<I!Event("li", "absent", first)>>
          /\ v4' = measured /\ v3' = v3
    BY <1>3 DEF I!create_action_intent
  <2>1. v1'.state \in I!Pending /\ v1'.governed = governed
        /\ (v1'.state = "proposed" => ~governed)
    BY DEF I!Pending
  <2>2. I!TypeOK'
    BY <1>1
       DEF IntentInv, I!TypeOK, I!Event, I!IntentStates, I!Pending, I!Actors
  <2>3. \A e \in Requests : ~Started(e)
    BY DEF IntentInv, Sound, NobodyBefore, Untouched
  <2>4. \A e \in Requests : ~Started(e)'
    BY <1>1, <2>3 DEF Started
  <2>5. OneStarts' /\ NobodyBefore'
    BY <2>4 DEF OneStarts, NobodyBefore
  <2>6. StepsAreTrue'
    BY <1>1 DEF IntentInv, Sound, StepsAreTrue, Started
  <2>7. FailureIsTrue' /\ SuccessIsTrue' /\ ApprovalIsLogged'
    BY <2>1
       DEF FailureIsTrue, SuccessIsTrue, ApprovalIsLogged, Claimed, I!Pending
  <2>8. I!ToldIsFinal'
    BY <1>1 DEF IntentInv, Sound, I!ToldIsFinal, I!Terminal
  <2> QED
    BY <2>2, <2>5, <2>6, <2>7, <2>8 DEF IntentInv, Sound
<1>4. CASE I!expire_action_intents
  <2>1. /\ v1.state \in Open /\ I!Move("system", I!Lapsed(v1.state)) /\ UNCHANGED <<v3, v4>>
        /\ I!Lapsed(v1.state) \in I!IntentStates /\ "system" \in I!Actors
    BY <1>4
       DEF I!expire_action_intents, I!Expire, I!Lapsed, I!IntentStates,
       I!Terminal,
                I!Actors, Open
  <2>2. \/ v1.state \in I!Pending /\ I!Lapsed(v1.state) = "expired"
        \/ v1.state = "executing" /\ I!Lapsed(v1.state) = "uncertain"
    BY <2>1 DEF I!Lapsed, Open, I!Pending
  <2>3. v3' \in BOOLEAN /\ v4' \in BOOLEAN
    BY <2>1 DEF IntentInv, I!TypeOK
  <2> QED
    BY <1>1, <1>2, <2>1, <2>2, <2>3, MoveKeeps
<1>5. CASE I!DayPasses \/ I!delete_private_conversation
  <2>1. UNCHANGED <<v1, v2>> /\ v3' \in BOOLEAN /\ v4' \in BOOLEAN
    BY <1>5 DEF I!DayPasses, I!delete_private_conversation, IntentInv, I!TypeOK
  <2> QED
    BY <1>1, <1>2, <2>1, StillKeeps
<1> QED
  BY <1>3, <1>4, <1>5

(* At first nobody has started.                                              *)
LEMMA IntentBegins == ASSUME I!Init PROVE IntentInv
<1>2. v1 = [state |-> "absent", governed |-> FALSE, measured |-> FALSE] /\ v2 = <<>>
      /\ v3 = FALSE /\ v4 = FALSE
  BY DEF I!Init, I!NoIntent
<1>3. /\ v5 = [d \in Requests |-> "idle"] /\ v6 = [d \in Requests |-> "none"]
      /\ v7 = [d \in Requests |-> "none"] /\ v8 = [d \in Requests |-> "none"]
  BY DEF I!Init, I!Unset
<1>4. I!TypeOK
  <2>1. v1 \in [state : I!IntentStates, governed : BOOLEAN, measured : BOOLEAN]
    BY <1>2 DEF I!IntentStates
  <2>2. v2 \in Seq([actor : I!Actors, from : I!IntentStates, to : I!IntentStates])
    BY <1>2
  <2> QED
    BY <1>2, <1>3, <2>1, <2>2 DEF I!TypeOK, I!Unset
<1>5. Sound
  BY <1>2, <1>3
  DEF Sound, OneStarts, NobodyBefore, StepsAreTrue, FailureIsTrue, SuccessIsTrue,
      ApprovalIsLogged, I!ToldIsFinal, Started, Claimed, I!Terminal
<1> QED
  BY <1>4, <1>5 DEF IntentInv

(* Every step keeps the invariant.                                           *)
LEMMA IntentKeeps == ASSUME IntentInv, [I!Next]_(I!vars) PROVE IntentInv'
<1>1. CASE I!Next
  BY <1>1, DecideKeeps, CheckStoredKeeps, CallProviderKeeps, ReportKeeps,
     CrashKeeps,
     OthersKeep DEF I!Next, I!Request
<1>2. CASE UNCHANGED I!vars
  <2>1. UNCHANGED <<v1, v2, v3, v4, v5, v6, v7, v8>>
    BY <1>2 DEF I!vars
  <2>2. /\ Tells /\ v5' \in [Requests -> Steps] /\ \A e \in Requests : Ends(e)
        /\ v3' \in BOOLEAN /\ v4' \in BOOLEAN
    BY <2>1 DEF Tells, Ends, Steps, IntentInv, I!TypeOK, I!Unset
  <2> QED
    BY <2>1, <2>2, StillKeeps
<1> QED
  BY <1>1, <1>2

(* What the invariant says of the state.                                     *)
LEMMA IntentSafe ==
    ASSUME IntentInv
    PROVE  /\ I!TypeOK /\ I!SingleExecution /\ I!ApprovalComesFirst
           /\ I!OutcomeIsTrue /\ I!ToldIsFinal
<1>1. I!SingleExecution
  BY DEF IntentInv, Sound, OneStarts, Started, I!SingleExecution, I!Executors,
     I!Unset
<1>2. I!ApprovalComesFirst
  BY DEF IntentInv, Sound, ApprovalIsLogged, Approved, Claimed,
     I!ApprovalComesFirst
<1>3. v1.state = "succeeded" => I!Affected
  BY DEF IntentInv, Sound, SuccessIsTrue, I!Affected
<1>4. v1.state \in {"failed", "denied", "expired"} =>
          \A d \in Requests : v7[d] = "none" /\ v5[d] \notin {"check", "execute"}
  BY DEF IntentInv, Sound, FailureIsTrue, NobodyBefore, Untouched, Started
<1>5. I!OutcomeIsTrue
  BY <1>3, <1>4 DEF I!OutcomeIsTrue, I!Affected
<1> QED
  BY <1>1, <1>2, <1>5 DEF IntentInv, Sound

-----------------------------------------------------------------------------
(* ArtifactRetention. Its rows, objects, pc, locked, marked, interruptions   *)
(* and asked are v1 to v7. A row that a job has locked stays due until the   *)
(* job ends, since whoever changes rows waits for the lock; a row whose      *)
(* object is still to be put is neither due nor locked nor finalized.        *)

FileRow == [state : {"absent", "expiring", "kept", "deleted"},
            source : {"none", "upload", "li_generated"},
            stored : BOOLEAN, expires : {"never", "later", "due"}]

RowHolds(a) ==
    /\ v1[a] \in FileRow
    /\ v1[a].state = "absent" => ~v1[a].stored
    /\ v1[a].state = "kept" => v1[a].expires = "never"
    /\ v1[a].expires # "never" => v1[a].source = "li_generated"
    /\ v1[a].state = "deleted" /\ v1[a].stored => a \notin v2

Saves(step) == step.at \in {"put", "finalize"}

StepHolds(step) ==
    /\ step.at \in {"idle", "put", "finalize", "remove", "keep", "delete"}
    /\ step.at # "idle" => step.id \in Files
    /\ Saves(step) => /\ v1[step.id].state = "expiring" /\ ~v1[step.id].stored
                      /\ v1[step.id].expires # "due"
    /\ step.at \in {"remove", "keep", "delete"} => v1[step.id].stored
    /\ step.at \in {"remove", "delete"} => step.id \in v7
    /\ step.at = "delete" => step.id \notin v2

JobHolds(j) ==
    /\ v4[j] \subseteq Files /\ v5[j] \subseteq v4[j]
    /\ \A a \in v4[j] : F!Expired(a)
    /\ \A a \in v5[j] : v1[a].stored => a \notin v2

OneSaves == \A r, q \in FileRequests :
    Saves(v3[r]) /\ Saves(v3[q]) /\ v3[r].id = v3[q].id => r = q

OneLocks == \A j, k \in Jobs : v4[j] \cap v4[k] # {} => j = k

FilesInv ==
    /\ v1 = [a \in Files |-> v1[a]] /\ \A a \in Files : RowHolds(a)
    /\ v2 \subseteq Files /\ v7 \subseteq Files
    /\ v3 = [r \in FileRequests |-> v3[r]] /\ \A r \in FileRequests : StepHolds(v3[r])
    /\ OneSaves
    /\ v4 = [j \in Jobs |-> v4[j]] /\ v5 = [j \in Jobs |-> v5[j]]
    /\ \A j \in Jobs : JobHolds(j)
    /\ OneLocks
    /\ v6 \in 0..MaxInterruptions

(* What the invariant says of the state.                                     *)
LEMMA FilesSafe ==
    ASSUME FilesInv
    PROVE  F!TypeOK /\ F!RemovedThenMarked
<1>1. v1 \in [Files -> FileRow]
  BY DEF FilesInv, RowHolds
<1>2. \A a \in Files : v1[a].state = "kept" => v1[a].expires = "never"
  BY DEF FilesInv, RowHolds
<1>3. \A r \in FileRequests : v3[r].at \in
            {"idle", "put", "finalize", "discard", "remove", "keep", "delete"}
  BY DEF FilesInv, StepHolds
<1>4. v4 \in [Jobs -> SUBSET Files] /\ \A j \in Jobs : v5[j] \subseteq v4[j]
  BY DEF FilesInv, JobHolds
<1>5. F!TypeOK
  BY <1>1, <1>2, <1>3, <1>4 DEF F!TypeOK, FilesInv, FileRow
<1>6. F!RemovedThenMarked
  BY DEF FilesInv, RowHolds, F!RemovedThenMarked
<1> QED
  BY <1>5, <1>6

(* The initial state: nothing is saved.                                      *)
LEMMA FilesBegin == ASSUME F!Init PROVE FilesInv
<1>1. F!NoRow \in FileRow
  BY DEF F!NoRow, FileRow
<1>2. \A a \in Files : v1[a] = F!NoRow
  BY DEF F!Init
<1>3. \A a \in Files : RowHolds(a)
  BY <1>1, <1>2 DEF RowHolds, F!NoRow
<1>4. \A r \in FileRequests : StepHolds(v3[r]) /\ v3[r].at = "idle"
  BY DEF F!Init, F!Idle, StepHolds, Saves
<1>5. \A j \in Jobs : JobHolds(j) /\ v4[j] = {}
  BY DEF F!Init, JobHolds
<1>6. v6 \in 0..MaxInterruptions
  BY Assumptions DEF F!Init, F!InterruptionsAssumption
<1>7. OneSaves /\ OneLocks
  BY <1>4, <1>5 DEF OneSaves, Saves, OneLocks
<1> QED
  BY <1>3, <1>4, <1>5, <1>6, <1>7 DEF F!Init, FilesInv

(* A request steps while the jobs wait: it changes no row that is locked or  *)
(* that another request saves, and puts no object for a row that names one.  *)
LEMMA RequestMoves ==
    ASSUME FilesInv, NEW r \in FileRequests, NEW step,
           v3' = [v3 EXCEPT ![r] = step], StepHolds(step)', UNCHANGED <<v4, v5, v6>>,
           v1' = [a \in Files |-> v1'[a]], \A a \in Files : RowHolds(a)',
           v2' \subseteq Files, v7' \subseteq Files, v7 \subseteq v7',
           \A a \in Files : v1[a].stored => v1'[a].stored,
           \A q \in FileRequests \ {r} : Saves(v3[q]) => v1'[v3[q].id] = v1[v3[q].id],
           \A j \in Jobs : \A a \in v4[j] : v1'[a] = v1[a],
           \A a \in v2' \ v2 : ~v1[a].stored,
           Saves(step) => \/ Saves(v3[r]) /\ v3[r].id = step.id
                          \/ v1[step.id].state = "absent"
    PROVE  FilesInv'
<1>1. /\ v3' = [q \in FileRequests |-> v3'[q]] /\ v3'[r] = step
      /\ \A q \in FileRequests \ {r} : v3'[q] = v3[q]
  BY DEF FilesInv
<1>2. ASSUME NEW q \in FileRequests \ {r} PROVE StepHolds(v3[q])'
  <2>1. StepHolds(v3[q])
    BY DEF FilesInv
  <2>2. v3[q].at \in {"remove", "keep", "delete"} => v1'[v3[q].id].stored
    BY <2>1 DEF StepHolds
  <2>3. v3[q].at = "delete" => v3[q].id \notin v2'
    BY <2>1 DEF StepHolds
  <2> QED
    BY <1>1, <2>1, <2>2, <2>3 DEF StepHolds, Saves
<1>3. \A q \in FileRequests : StepHolds(v3[q])'
  BY <1>1, <1>2
<1>4. OneSaves'
  <2>1. ASSUME NEW q \in FileRequests \ {r}, Saves(v3[q]), Saves(step)
        PROVE  v3[q].id # step.id
    <3>1. v1[v3[q].id].state = "expiring"
      BY <2>1 DEF FilesInv, StepHolds
    <3> QED
      BY <2>1, <3>1 DEF FilesInv, OneSaves
  <2> QED
    BY <1>1, <2>1 DEF FilesInv, OneSaves, Saves
<1>5. ASSUME NEW j \in Jobs PROVE JobHolds(j)'
  <2>1. JobHolds(j)
    BY DEF FilesInv
  <2>2. \A a \in v5[j] : v1'[a].stored => a \notin v2'
    BY <2>1 DEF JobHolds
  <2> QED
    BY <2>1, <2>2 DEF JobHolds, F!Expired
<1> QED
  BY <1>1, <1>3, <1>4, <1>5 DEF FilesInv, OneLocks

(* A job steps while the requests wait: what it locks was free, and what it  *)
(* changes of the rows is the state of those it had locked.                  *)
JobStep(j, l, m) ==
    /\ v4' = [v4 EXCEPT ![j] = l] /\ v5' = [v5 EXCEPT ![j] = m]
    /\ UNCHANGED <<v3, v7>> /\ v6' \in 0..MaxInterruptions /\ v2' \subseteq v2
    /\ JobHolds(j)'
    /\ \A k \in Jobs \ {j} : \A a \in l : a \notin v4[k]
    /\ v1' = [a \in Files |-> v1'[a]] /\ \A a \in Files : RowHolds(a)'
    /\ \A a \in Files : v1'[a] # v1[a] => a \in v4[j] /\ v1'[a].stored = v1[a].stored

(* A step of one job leaves the requests and the other jobs as they are.     *)
LEMMA JobMoves ==
    ASSUME FilesInv, NEW j \in Jobs, NEW l, NEW m, JobStep(j, l, m)
    PROVE  FilesInv'
<1> USE DEF JobStep
<1>1. /\ v4' = [k \in Jobs |-> v4'[k]] /\ v5' = [k \in Jobs |-> v5'[k]]
      /\ v4'[j] = l /\ v5'[j] = m
      /\ \A k \in Jobs \ {j} : v4'[k] = v4[k] /\ v5'[k] = v5[k]
  BY DEF FilesInv
<1>2. ASSUME NEW k \in Jobs \ {j} PROVE JobHolds(k)'
  <2>1. JobHolds(k)
    BY DEF FilesInv
  <2>2. \A a \in v4[k] : a \in Files /\ a \notin v4[j] /\ v1'[a] = v1[a]
    BY <2>1 DEF FilesInv, OneLocks, JobHolds
  <2> QED
    BY <1>1, <2>1, <2>2 DEF JobHolds, F!Expired
<1>3. ASSUME NEW r \in FileRequests PROVE StepHolds(v3[r])'
  <2>1. StepHolds(v3[r])
    BY DEF FilesInv
  <2>2. Saves(v3[r]) => v1'[v3[r].id] = v1[v3[r].id]
    BY <2>1 DEF StepHolds, Saves, FilesInv, JobHolds, F!Expired
  <2>3. v3[r].at # "idle" => v1'[v3[r].id].stored = v1[v3[r].id].stored
    BY <2>1 DEF StepHolds
  <2> QED
    BY <2>1, <2>2, <2>3 DEF StepHolds, Saves
<1>4. OneLocks'
  BY <1>1 DEF FilesInv, OneLocks
<1> QED
  BY <1>1, <1>2, <1>3, <1>4 DEF FilesInv, OneSaves

Explained == F!Removal /\ F!Finality

(* A row whose object is still to be put is locked by no job, and saved by   *)
(* one request.                                                              *)
LEMMA SavedIsFree ==
    ASSUME FilesInv, NEW r \in FileRequests, Saves(v3[r])
    PROVE  /\ v3[r].id \in Files /\ v1[v3[r].id].state = "expiring" /\ ~v1[v3[r].id].stored
           /\ v1[v3[r].id].expires # "due"
           /\ \A j \in Jobs : v3[r].id \notin v4[j]
           /\ \A q \in FileRequests \ {r} : Saves(v3[q]) => v3[q].id # v3[r].id
<1>1. StepHolds(v3[r])
  BY DEF FilesInv
<1>2. v3[r].id \in Files /\ v1[v3[r].id].expires # "due"
  BY <1>1 DEF StepHolds, Saves
<1>3. \A j \in Jobs : v3[r].id \notin v4[j]
  BY <1>2 DEF FilesInv, JobHolds, F!Expired
<1>4. \A q \in FileRequests \ {r} : Saves(v3[q]) => v3[q].id # v3[r].id
  BY DEF FilesInv, OneSaves
<1> QED
  BY <1>1, <1>2, <1>3, <1>4 DEF StepHolds

(* A request reserves a row that is not there.                               *)
LEMMA ReserveKeeps ==
    ASSUME FilesInv, NEW r \in FileRequests, NEW a \in Files,
           NEW s \in {"upload", "li_generated"}, F!reserve_artifact(r, a, s)
    PROVE  FilesInv' /\ Explained
<1> PICK row : row = [state |-> "expiring", source |-> s, stored |-> FALSE,
                      expires |-> IF s = "li_generated" THEN "later" ELSE "never"]
  OBVIOUS
<1> PICK step : step = [at |-> "put", id |-> a]
  OBVIOUS
<1>1. /\ v1[a].state = "absent" /\ v1' = [v1 EXCEPT ![a] = row]
      /\ v3' = [v3 EXCEPT ![r] = step] /\ UNCHANGED <<v2, v4, v5, v6, v7>>
  BY DEF F!reserve_artifact, F!Goto, F!jobs
<1>2. /\ v1' = [b \in Files |-> v1'[b]] /\ v1'[a] = row
      /\ \A b \in Files \ {a} : v1'[b] = v1[b]
  BY <1>1 DEF FilesInv
<1>3. row \in FileRow
  BY DEF FileRow
<1>4. RowHolds(a) /\ ~v1[a].stored
  BY <1>1 DEF FilesInv, RowHolds
<1>5. ASSUME NEW b \in Files PROVE RowHolds(b)'
  BY <1>1, <1>2, <1>3 DEF FilesInv, RowHolds
<1>6. StepHolds(step)'
  BY <1>2 DEF StepHolds, Saves
<1>7. \A q \in FileRequests \ {r} : Saves(v3[q]) => v3[q].id \in Files \ {a}
  BY <1>1, SavedIsFree
<1>8. \A j \in Jobs : \A b \in v4[j] : b \in Files \ {a}
  BY <1>1 DEF FilesInv, JobHolds, F!Expired
<1>9. FilesInv'
  BY <1>1, <1>2, <1>4, <1>5, <1>6, <1>7, <1>8, RequestMoves DEF FilesInv
<1>10. Explained
  BY <1>1, <1>2 DEF Explained, F!Removal, F!Finality
<1> QED
  BY <1>9, <1>10

(* A request steps with the rows as they are; only what the owner asked to   *)
(* delete is removed, and an object is put while its row is saved.           *)
LEMMA RowsStay ==
    ASSUME FilesInv, NEW r \in FileRequests, NEW step,
           v3' = [v3 EXCEPT ![r] = step], StepHolds(step)', UNCHANGED <<v1, v4, v5, v6>>,
           v2' \subseteq Files, v7' \subseteq Files, v7 \subseteq v7',
           \A a \in v2 \ v2' : a \in v7, \A a \in v2' \ v2 : ~v1[a].stored,
           Saves(step) => Saves(v3[r]) /\ v3[r].id = step.id
    PROVE  FilesInv' /\ Explained
<1>1. v1' = [a \in Files |-> v1'[a]]
  BY DEF FilesInv
<1>2. ASSUME NEW a \in Files PROVE RowHolds(a)'
  BY DEF FilesInv, RowHolds
<1>3. FilesInv'
  BY <1>1, <1>2, RequestMoves
<1>4. Explained
  BY DEF Explained, F!Removal, F!Finality
<1> QED
  BY <1>3, <1>4

(* The object is put; a request asks, removes the object or is given up.     *)
LEMMA StillRows ==
    ASSUME FilesInv, NEW r \in FileRequests,
           \/ F!put(r) \/ F!Remove(r) \/ F!GiveUp(r)
           \/ \E a \in Files, action \in {"keep", "delete"} : F!Ask(r, a, action)
    PROVE  FilesInv' /\ Explained
<1>1. StepHolds(v3[r]) /\ v2 \subseteq Files /\ v7 \subseteq Files
  BY DEF FilesInv
<1>2. CASE F!put(r)
  <2> PICK step : step = [at |-> "finalize", id |-> v3[r].id]
    OBVIOUS
  <2>1. /\ v3[r].at = "put" /\ v2' = v2 \cup {v3[r].id} /\ v3' = [v3 EXCEPT ![r] = step]
        /\ UNCHANGED <<v1, v4, v5, v6, v7>>
    BY <1>2 DEF F!put, F!At, F!Goto, F!jobs
  <2>2. Saves(v3[r])
    BY <2>1 DEF Saves
  <2>3. StepHolds(step)'
    BY <2>1, <2>2, SavedIsFree DEF StepHolds, Saves
  <2> QED
    BY <1>1, <2>1, <2>2, <2>3, SavedIsFree, RowsStay
<1>3. CASE F!Remove(r)
  <2> PICK step : step = [at |-> "delete", id |-> v3[r].id]
    OBVIOUS
  <2>1. v3[r].at = "remove"
    BY <1>1, <1>3 DEF F!Remove, StepHolds
  <2>2. /\ v2' = v2 \ {v3[r].id} /\ v3' = [v3 EXCEPT ![r] = step]
        /\ UNCHANGED <<v1, v4, v5, v6, v7>>
    BY <1>3, <2>1 DEF F!Remove, F!At, F!Goto, F!jobs
  <2>3. v3[r].id \in v7 /\ v3[r].id \in Files /\ v1[v3[r].id].stored
    BY <1>1, <2>1 DEF StepHolds
  <2>4. StepHolds(step)' /\ ~Saves(step)
    BY <2>2, <2>3 DEF StepHolds, Saves
  <2> QED
    BY <1>1, <2>2, <2>3, <2>4, RowsStay
<1>4. CASE F!GiveUp(r)
  <2>1. v3' = [v3 EXCEPT ![r] = F!Idle] /\ UNCHANGED <<v1, v2, v4, v5, v6, v7>>
    BY <1>4 DEF F!GiveUp, F!Finish, F!jobs
  <2>2. StepHolds(F!Idle)' /\ ~Saves(F!Idle)
    BY DEF StepHolds, Saves, F!Idle
  <2> QED
    BY <1>1, <2>1, <2>2, RowsStay
<1>5. CASE \E a \in Files, action \in {"keep", "delete"} : F!Ask(r, a, action)
  <2> PICK a \in Files : \E action \in {"keep", "delete"} : F!Ask(r, a, action)
    BY <1>5
  <2> PICK action \in {"keep", "delete"} : F!Ask(r, a, action)
    OBVIOUS
  <2> PICK step : step = [at |-> IF action = "delete" THEN "remove" ELSE "keep", id |-> a]
    OBVIOUS
  <2>1. /\ v1[a].stored /\ v3' = [v3 EXCEPT ![r] = step] /\ UNCHANGED <<v1, v2, v4, v5, v6>>
        /\ v7' = IF action = "delete" THEN v7 \cup {a} ELSE v7
    BY DEF F!Ask, F!Goto, F!jobs
  <2>2. StepHolds(step)' /\ ~Saves(step)
    BY <2>1 DEF StepHolds, Saves
  <2> QED
    BY <1>1, <2>1, <2>2, RowsStay
<1> QED
  BY <1>2, <1>3, <1>4, <1>5

(* The row is finalized: it was reserved by this request, and is not locked. *)
LEMMA FinalizeKeeps ==
    ASSUME FilesInv, NEW r \in FileRequests, F!finalize_artifact(r)
    PROVE  FilesInv' /\ Explained
<1> PICK a : a = v3[r].id
  OBVIOUS
<1>1. v3[r].at = "finalize"
  BY DEF F!finalize_artifact, F!At
<1>2. /\ a \in Files /\ v1[a].state = "expiring" /\ ~v1[a].stored
      /\ \A j \in Jobs : a \notin v4[j]
      /\ \A q \in FileRequests \ {r} : Saves(v3[q]) => v3[q].id # a
  BY <1>1, SavedIsFree DEF Saves
<1> PICK row : row = F!Finalized(v1[a])
  OBVIOUS
<1>3. /\ v1' = [v1 EXCEPT ![a] = row] /\ v3' = [v3 EXCEPT ![r] = F!Idle]
      /\ UNCHANGED <<v2, v4, v5, v6, v7>>
  BY <1>2 DEF F!finalize_artifact, F!Finish, F!jobs
<1>4. /\ v1' = [b \in Files |-> v1'[b]] /\ v1'[a] = row
      /\ \A b \in Files \ {a} : v1'[b] = v1[b]
  BY <1>2, <1>3 DEF FilesInv
<1>5. RowHolds(a)
  BY <1>2 DEF FilesInv
<1>6. /\ row \in FileRow /\ row.stored /\ row.state \in {"kept", "expiring"}
      /\ row.source = v1[a].source
      /\ row.state = "kept" => row.expires = "never"
      /\ row.expires \in {v1[a].expires, "never"}
  BY <1>5 DEF RowHolds, FileRow, F!Finalized
<1>7. ASSUME NEW b \in Files PROVE RowHolds(b)'
  BY <1>3, <1>4, <1>5, <1>6 DEF FilesInv, RowHolds
<1>8. StepHolds(F!Idle)' /\ ~Saves(F!Idle)
  BY DEF StepHolds, Saves, F!Idle
<1>9. \A q \in FileRequests \ {r} : Saves(v3[q]) => v3[q].id \in Files \ {a}
  BY <1>2, SavedIsFree
<1>10. \A j \in Jobs : \A b \in v4[j] : b \in Files \ {a}
  BY <1>2 DEF FilesInv, JobHolds
<1>11. FilesInv'
  BY <1>2, <1>3, <1>4, <1>6, <1>7, <1>8, <1>9, <1>10, RequestMoves DEF FilesInv
<1>12. Explained
  BY <1>2, <1>3, <1>4 DEF Explained, F!Removal, F!Finality
<1> QED
  BY <1>11, <1>12

(* A row that no job has locked and that names an object is kept or deleted. *)
LEMMA AskedKeeps ==
    ASSUME FilesInv, NEW r \in FileRequests, F!KeepFile(r) \/ F!DeleteFile(r)
    PROVE  FilesInv' /\ Explained
<1> PICK a : a = v3[r].id
  OBVIOUS
<1>1. /\ v3[r].at \in {"keep", "delete"} /\ v3' = [v3 EXCEPT ![r] = F!Idle]
      /\ \A j \in Jobs : a \notin v4[j]
      /\ UNCHANGED <<v2, v4, v5, v6, v7>>
  BY DEF F!KeepFile, F!DeleteFile, F!At, F!Finish, F!jobs, F!Unlocked
<1>2. /\ a \in Files /\ v1[a].stored
      /\ v3[r].at = "delete" => a \notin v2
  BY <1>1 DEF FilesInv, StepHolds
<1>3. RowHolds(a) /\ v1[a].state # "absent"
  BY <1>2 DEF FilesInv, RowHolds
<1>4. PICK row : /\ v1' = [v1 EXCEPT ![a] = row]
                 /\ row \in FileRow /\ row.stored /\ row.source = v1[a].source
                 /\ v1[a].state = "deleted" => row = v1[a]
                 /\ \/ row = v1[a]
                    \/ row.state = "kept" /\ row.expires = "never"
                    \/ row.state = "deleted" /\ row.expires = v1[a].expires /\ a \notin v2
  <2>1. CASE F!KeepFile(r) /\ v1[a].state = "deleted"
    <3> PICK row : row = v1[a]
      OBVIOUS
    <3>1. v1' = [v1 EXCEPT ![a] = row]
      BY <2>1 DEF F!KeepFile, F!Keep, FilesInv
    <3> QED
      BY <1>2, <1>3, <3>1 DEF RowHolds
  <2>2. CASE F!KeepFile(r) /\ v1[a].state # "deleted"
    <3> PICK row : row = F!Kept(v1[a])
      OBVIOUS
    <3>1. v1' = [v1 EXCEPT ![a] = row]
      BY <2>2 DEF F!KeepFile, F!Keep
    <3>2. /\ row \in FileRow /\ row.stored /\ row.source = v1[a].source
          /\ row.state = "kept" /\ row.expires = "never"
      BY <1>2, <1>3 DEF RowHolds, FileRow, F!Kept
    <3> QED
      BY <2>2, <3>1, <3>2
  <2>3. CASE F!DeleteFile(r)
    <3> PICK row : row = [v1[a] EXCEPT !.state = "deleted"]
      OBVIOUS
    <3>1. v1' = [v1 EXCEPT ![a] = row] /\ v3[r].at = "delete"
      BY <1>2, <2>3 DEF F!DeleteFile, F!At, FilesInv
    <3>2. /\ row \in FileRow /\ row.stored /\ row.source = v1[a].source
          /\ row.state = "deleted" /\ row.expires = v1[a].expires
          /\ v1[a].state = "deleted" => row = v1[a]
      BY <1>2, <1>3 DEF RowHolds, FileRow
    <3> QED
      BY <1>2, <3>1, <3>2
  <2> QED
    BY <2>1, <2>2, <2>3
<1>5. /\ v1' = [b \in Files |-> v1'[b]] /\ v1'[a] = row
      /\ \A b \in Files \ {a} : v1'[b] = v1[b]
  BY <1>2, <1>4 DEF FilesInv
<1>6. ASSUME NEW b \in Files PROVE RowHolds(b)'
  BY <1>1, <1>3, <1>4, <1>5 DEF FilesInv, RowHolds
<1>7. StepHolds(F!Idle)' /\ ~Saves(F!Idle)
  BY DEF StepHolds, Saves, F!Idle
<1>8. \A q \in FileRequests \ {r} : Saves(v3[q]) => v3[q].id \in Files \ {a}
  BY <1>2, SavedIsFree
<1>9. \A j \in Jobs : \A b \in v4[j] : b \in Files \ {a}
  BY <1>1 DEF FilesInv, JobHolds
<1>10. \A b \in Files : v1[b].stored => v1'[b].stored
  BY <1>4, <1>5
<1>11. FilesInv'
  BY <1>1, <1>5, <1>6, <1>7, <1>8, <1>9, <1>10, RequestMoves DEF FilesInv
<1>12. Explained
  BY <1>1, <1>4, <1>5 DEF Explained, F!Removal, F!Finality
<1> QED
  BY <1>11, <1>12

(* A file falls due: nobody saves it, and no job has locked it yet.          *)
LEMMA FallDueKeeps ==
    ASSUME FilesInv, NEW a \in Files, F!FallDue(a)
    PROVE  FilesInv' /\ Explained
<1> PICK row : row = [v1[a] EXCEPT !.expires = "due"]
  OBVIOUS
<1>1. /\ v1[a].state = "expiring" /\ v1[a].expires = "later" /\ ~F!Saving(a)
      /\ v1' = [v1 EXCEPT ![a] = row] /\ UNCHANGED <<v2, v3, v4, v5, v6, v7>>
  BY DEF F!FallDue, F!jobs, FilesInv
<1>2. /\ v1' = [b \in Files |-> v1'[b]] /\ v1'[a] = row
      /\ \A b \in Files \ {a} : v1'[b] = v1[b]
  BY <1>1 DEF FilesInv
<1>3. RowHolds(a)
  BY DEF FilesInv
<1>4. /\ row \in FileRow /\ row.state = "expiring" /\ row.source = v1[a].source
      /\ row.stored = v1[a].stored
  BY <1>1, <1>3 DEF RowHolds, FileRow
<1>5. ASSUME NEW b \in Files PROVE RowHolds(b)'
  BY <1>1, <1>2, <1>3, <1>4 DEF FilesInv, RowHolds
<1>6. ASSUME NEW r \in FileRequests PROVE StepHolds(v3[r])'
  <2>1. StepHolds(v3[r]) /\ (Saves(v3[r]) => v3[r].id # a)
    BY <1>1 DEF FilesInv, F!Saving, Saves
  <2> QED
    BY <1>1, <1>2, <1>4, <2>1 DEF StepHolds, Saves
<1>7. ASSUME NEW j \in Jobs PROVE JobHolds(j)'
  <2>1. JobHolds(j)
    BY DEF FilesInv
  <2>2. \A b \in v4[j] : b \in Files \ {a}
    BY <1>1, <2>1 DEF JobHolds, F!Expired
  <2> QED
    BY <1>1, <1>2, <2>1, <2>2 DEF JobHolds, F!Expired
<1>8. FilesInv'
  BY <1>1, <1>2, <1>5, <1>6, <1>7 DEF FilesInv, OneSaves, OneLocks, Saves
<1>9. Explained
  BY <1>1, <1>2 DEF Explained, F!Removal, F!Finality
<1> QED
  BY <1>8, <1>9

(* A job locks what is due and not locked, or is interrupted.                *)
LEMMA JobBegins ==
    ASSUME FilesInv, NEW j \in Jobs, F!list_expired_artifacts(j) \/ F!Interrupt(j)
    PROVE  FilesInv' /\ Explained
<1>1. /\ v1' = [a \in Files |-> v1'[a]] /\ UNCHANGED <<v1, v2, v3, v7>>
  BY DEF FilesInv, F!list_expired_artifacts, F!Interrupt
<1>2. ASSUME NEW a \in Files PROVE RowHolds(a)'
  BY <1>1 DEF FilesInv, RowHolds
<1>3. Explained
  BY <1>1 DEF Explained, F!Removal, F!Finality
<1>4. JobHolds(j) /\ v5 = [k \in Jobs |-> v5[k]] /\ v4 = [k \in Jobs |-> v4[k]]
  BY DEF FilesInv
<1>5. /\ v2' \subseteq v2 /\ UNCHANGED <<v3, v7>> /\ v1' = [a \in Files |-> v1'[a]]
      /\ \A a \in Files : v1'[a] # v1[a] => a \in v4[j] /\ v1'[a].stored = v1[a].stored
  BY <1>1
<1>6. CASE F!list_expired_artifacts(j)
  <2> PICK batch : batch = {a \in Files : F!Expired(a) /\ F!Unlocked(a)}
    OBVIOUS
  <2>1. v4[j] = {} /\ v4' = [v4 EXCEPT ![j] = batch] /\ UNCHANGED v6
    BY <1>6 DEF F!list_expired_artifacts
  <2>2. v5[j] = {} /\ v5' = [v5 EXCEPT ![j] = {}]
    BY <1>4, <1>6, <2>1 DEF JobHolds, F!list_expired_artifacts
  <2>3. JobHolds(j)'
    BY <1>1, <1>4, <2>1, <2>2 DEF JobHolds, F!Expired
  <2>4. \A k \in Jobs \ {j} : \A a \in batch : a \notin v4[k]
    BY DEF F!Unlocked
  <2>5. v6' \in 0..MaxInterruptions
    BY <2>1 DEF FilesInv
  <2>6. v4' = [v4 EXCEPT ![j] = batch]
    BY <2>1
  <2>7. JobStep(j, batch, {})
    BY <1>2, <1>5, <2>2, <2>3, <2>4, <2>5, <2>6 DEF JobStep
  <2> QED
    BY <1>3, <2>7, JobMoves
<1>7. CASE F!Interrupt(j)
  <2>1. /\ v4' = [v4 EXCEPT ![j] = {}] /\ v5' = [v5 EXCEPT ![j] = {}]
        /\ v6 < MaxInterruptions /\ v6' = v6 + 1
    BY <1>7 DEF F!Interrupt, F!Release
  <2>2. JobHolds(j)'
    BY <1>4, <2>1 DEF JobHolds
  <2>3. v6' \in 0..MaxInterruptions
    BY <2>1, Assumptions DEF FilesInv, F!InterruptionsAssumption
  <2>4. JobStep(j, {}, {})
    BY <1>2, <1>5, <2>1, <2>2, <2>3 DEF JobStep
  <2> QED
    BY <1>3, <2>4, JobMoves
<1> QED
  BY <1>6, <1>7

(* A job removes an object that is due and marks its row.                    *)
LEMMA RemoveExpiredKeeps ==
    ASSUME FilesInv, NEW j \in Jobs, NEW a \in Files, F!RemoveExpired(j, a)
    PROVE  FilesInv' /\ Explained
<1> PICK m : m = v5[j] \cup {a}
  OBVIOUS
<1>1. /\ a \in v4[j] /\ v5' = [v5 EXCEPT ![j] = m] /\ UNCHANGED <<v1, v3, v6, v7>>
      /\ v2' = IF v1[a].stored THEN v2 \ {a} ELSE v2
  BY DEF F!RemoveExpired
<1>2. JobHolds(j) /\ v5 = [k \in Jobs |-> v5[k]] /\ v4 = [k \in Jobs |-> v4[k]]
  BY DEF FilesInv
<1>3. F!Expired(a) /\ RowHolds(a)
  BY <1>1, <1>2 DEF JobHolds, FilesInv
<1>4. JobHolds(j)'
  BY <1>1, <1>2 DEF JobHolds, F!Expired, F!RemoveExpired
<1>5. PICK l : l = v4[j]
  OBVIOUS
<1>6. v4' = [v4 EXCEPT ![j] = l] /\ \A k \in Jobs \ {j} : \A b \in l : b \notin v4[k]
  BY <1>2, <1>5 DEF FilesInv, OneLocks, F!RemoveExpired
<1>7. ASSUME NEW b \in Files PROVE RowHolds(b)'
  BY <1>1 DEF FilesInv, RowHolds
<1>8. v1' = [b \in Files |-> v1'[b]] /\ v6' \in 0..MaxInterruptions
  BY <1>1 DEF FilesInv
<1>9. /\ v5' = [v5 EXCEPT ![j] = m] /\ v2' \subseteq v2 /\ UNCHANGED <<v3, v7>>
       /\ \A b \in Files : v1'[b] # v1[b] => b \in v4[j] /\ v1'[b].stored = v1[b].stored
  BY <1>1
<1>10. JobStep(j, l, m)
  BY <1>4, <1>6, <1>7, <1>8, <1>9 DEF JobStep
<1>11. Explained
  BY <1>1, <1>3 DEF Explained, F!Removal, F!Finality, F!Expired, RowHolds
<1> QED
  BY <1>10, <1>11, JobMoves

(* A job commits: what it marked is deleted, and its object is gone.         *)
LEMMA CommitKeeps ==
    ASSUME FilesInv, NEW j \in Jobs, F!Commit(j)
    PROVE  FilesInv' /\ Explained
<1>1. /\ v5[j] = v4[j] /\ v4' = [v4 EXCEPT ![j] = {}] /\ v5' = [v5 EXCEPT ![j] = {}]
      /\ UNCHANGED <<v2, v3, v6, v7>>
      /\ v1' = [a \in Files |->
                  IF a \in v5[j] THEN [v1[a] EXCEPT !.state = "deleted"] ELSE v1[a]]
  BY DEF F!Commit, F!Release
<1>2. JobHolds(j) /\ v5 = [k \in Jobs |-> v5[k]] /\ v4 = [k \in Jobs |-> v4[k]]
  BY DEF FilesInv
<1>3. v1' = [a \in Files |-> v1'[a]]
  BY <1>1
<1>4. ASSUME NEW a \in Files, a \in v5[j]
      PROVE  /\ RowHolds(a)' /\ v1'[a].stored = v1[a].stored /\ v1[a].state = "expiring"
  <2>1. RowHolds(a) /\ v1'[a] = [v1[a] EXCEPT !.state = "deleted"]
    BY <1>1, <1>4 DEF FilesInv
  <2>2. /\ v1'[a] \in FileRow /\ v1'[a].state = "deleted" /\ v1'[a].stored = v1[a].stored
        /\ v1'[a].source = v1[a].source /\ v1'[a].expires = v1[a].expires
    BY <2>1 DEF RowHolds, FileRow
  <2>3. (v1[a].stored => a \notin v2) /\ v1[a].state = "expiring"
    BY <1>1, <1>2, <1>4 DEF JobHolds, F!Expired
  <2> QED
    BY <1>1, <2>1, <2>2, <2>3 DEF RowHolds
<1>5. ASSUME NEW a \in Files, a \notin v5[j] PROVE RowHolds(a)' /\ v1'[a] = v1[a]
  <2>1. v1'[a] = v1[a]
    BY <1>1, <1>5
  <2> QED
    BY <1>1, <2>1 DEF RowHolds, FilesInv
<1>6. JobHolds(j)'
  BY <1>1, <1>2 DEF JobHolds
<1>7. v6' \in 0..MaxInterruptions
  BY <1>1 DEF FilesInv
<1>8. \A a \in Files : v1'[a] # v1[a] => a \in v4[j] /\ v1'[a].stored = v1[a].stored
  BY <1>1, <1>4, <1>5
<1>9. JobStep(j, {}, {})
  BY <1>1, <1>3, <1>4, <1>5, <1>6, <1>7, <1>8 DEF JobStep
<1>10. Explained
  BY <1>1, <1>4, <1>5 DEF Explained, F!Removal, F!Finality
<1> QED
  BY <1>9, <1>10, JobMoves

(* Every step keeps the invariant, removes for a reason and leaves what is   *)
(* deleted alone.                                                            *)
LEMMA FilesKeep ==
    ASSUME FilesInv, [F!Next]_(F!vars)
    PROVE  FilesInv' /\ F!Removal /\ F!Finality
<1>1. CASE UNCHANGED F!vars
  <2>1. UNCHANGED <<v1, v2, v3, v4, v5, v6, v7>>
    BY <1>1 DEF F!vars, F!jobs
  <2>2. FilesInv'
    BY <2>1
       DEF FilesInv, RowHolds, StepHolds, Saves, JobHolds, F!Expired, OneSaves, OneLocks
  <2> QED
    BY <2>1, <2>2 DEF F!Removal, F!Finality
<1>2. CASE F!Next
  <2>1. FilesInv' /\ Explained
    BY <1>2, ReserveKeeps, StillRows, FinalizeKeeps, AskedKeeps, FallDueKeeps,
       JobBegins,
       RemoveExpiredKeeps, CommitKeeps
       DEF F!Next, F!Request, F!Job
  <2> QED
    BY <2>1 DEF Explained
<1> QED
  BY <1>1, <1>2

-----------------------------------------------------------------------------
(* ActionPolicy, for any number of sessions, proposals and versions. The     *)
(* versions, proposals, the sessions' statements, calls and chosen versions, *)
(* and the two locks are v1 to v7.                                           *)

Version == [version : Nat, policy : Proposals \cup {"baseline"}, names : Nat,
            source : Proposals \cup {"baseline", "rollback"}, effective : BOOLEAN]

Row == [state : {"absent", "proposed", "approved", "rejected", "stale"}, base : Nat]

Drafting == [kind : {"propose"}, id : Proposals, base : Nat]
Decision == [kind : {"approve", "reject"}, id : Proposals]
Rollback == [kind : {"rollback"}, target : Nat]

Work == {"choose_version", "lock_version", "apply"}

Typed ==
    /\ v1 \in Seq(Version) /\ Len(v1) > 0
    /\ v2 \in [Proposals -> Row]
    /\ v3 \in [Sessions -> {"idle", "insert", "lock_proposal"} \cup Work]
    /\ v4 \in [Sessions -> {P!NoCall} \cup Drafting \cup Decision \cup Rollback]
    /\ v5 \in [Sessions -> Nat]
    /\ v6 \in [Proposals -> Sessions \cup {"free"}]
    /\ v7 \in Sessions \cup {"free"}

(* A session is at a statement of the function that it calls.                *)
CallsFit == \A s \in Sessions :
    /\ v3[s] = "insert" <=> v4[s] \in Drafting
    /\ v3[s] = "lock_proposal" => v4[s] \in Decision
    /\ v3[s] \in Work => v4[s] \in Decision \cup Rollback
    /\ v4[s] \in Rollback => v4[s].target \in 1..Len(v1)

(* A proposal is inserted by one session, before there is a row.             *)
Drafted == \A s \in Sessions : v4[s] \in Drafting =>
    /\ v2[v4[s].id].state = "absent"
    /\ \A t \in Sessions : v4[t] \in Drafting /\ v4[t].id = v4[s].id => t = s

(* Whoever decides about a proposal holds its lock, and it is undecided.     *)
Held == \A s \in Sessions : v3[s] \in Work /\ v4[s] \in Decision =>
    v6[v4[s].id] = s /\ v2[v4[s].id].state = "proposed"

(* A version that a session applies its call to is the last one, under lock. *)
OnLast == \A s \in Sessions :
    /\ v3[s] = "lock_version" => v5[s] \in 1..Len(v1)
    /\ v3[s] = "apply" /\ v5[s] # 0 => v7 = s /\ v5[s] = Len(v1)

Chain == \A n \in 1..Len(v1) :
    /\ v1[n].effective <=> n = Len(v1)
    /\ v1[n].version = n /\ v1[n].names = n

Founded ==
    /\ \A n \in 1..Len(v1) : v1[n].source \in Proposals =>
           /\ v2[v1[n].source].state = "approved"
           /\ v2[v1[n].source].base = n - 1
    /\ \A p \in Proposals : v2[p].state = "approved" =>
           \E n \in 1..Len(v1) : v1[n].source = p

ChainInv == Typed /\ CallsFit /\ Drafted /\ Held /\ OnLast /\ Chain /\ Founded

-----------------------------------------------------------------------------
(* What the operators do.                                                    *)

(* The kinds of calls are told apart.                                        *)
LEMMA KindsDiffer ==
    /\ \A c \in Drafting : c.kind = "propose" /\ c \notin Decision /\ c \notin Rollback
    /\ \A c \in Decision : c.kind \in {"approve", "reject"} /\ c \notin Rollback
    /\ \A c \in Rollback : c.kind = "rollback"
    /\ P!NoCall.kind = "none" /\ P!NoCall \notin Drafting \cup Decision \cup Rollback
BY DEF Drafting, Decision, Rollback, P!NoCall

(* The version in force is the last one.                                     *)
LEMMA EffectiveIsLast ==
    ASSUME Typed, Chain
    PROVE  P!Effective = Len(v1) /\ Len(v1) \in 1..Len(v1)
<1>1. Len(v1) \in 1..Len(v1) /\ DOMAIN v1 = 1..Len(v1)
  BY DEF Typed
<1>2. \A n \in DOMAIN v1 : v1[n].effective <=> n = Len(v1)
  BY <1>1 DEF Chain
<1> QED
  BY <1>1, <1>2 DEF P!Effective

(* What the end of a transaction does.                                       *)
LEMMA FinishIs ==
    ASSUME Typed, NEW s \in Sessions, P!Finish(s)
    PROVE  /\ v3' = [v3 EXCEPT ![s] = "idle"] /\ v4' = [v4 EXCEPT ![s] = P!NoCall]
           /\ v5' = [v5 EXCEPT ![s] = 0]
           /\ v6' \in [Proposals -> Sessions \cup {"free"}]
           /\ \A p \in Proposals : v6[p] # s => v6'[p] = v6[p]
           /\ v7' \in Sessions \cup {"free"} /\ (v7 # s => v7' = v7)
BY DEF P!Finish, P!Goto, P!Null, P!Free, Typed

(* What a transaction that ends changes about the sessions is in order; the  *)
(* rows it leaves are for those who call this lemma to look at.              *)
LEMMA ConcludeKeeps ==
    ASSUME ChainInv, NEW s \in Sessions, P!Finish(s),
           v1' \in Seq(Version), v2' \in [Proposals -> Row], Len(v1') \in Nat,
           Len(v1') = Len(v1) \/ (Len(v1') > Len(v1) /\ v7 = s),
           \A p \in Proposals : v2'[p] = v2[p]
               \/ (v6[p] = s /\ v2[p].state = "proposed" /\ v2'[p].state # "absent")
               \/ (v4[s] \in Drafting /\ v4[s].id = p /\ v2'[p].state # "absent")
    PROVE  Typed' /\ CallsFit' /\ Drafted' /\ Held' /\ OnLast'
<1>1. /\ v3' = [v3 EXCEPT ![s] = "idle"] /\ v4' = [v4 EXCEPT ![s] = P!NoCall]
      /\ v5' = [v5 EXCEPT ![s] = 0]
      /\ v6' \in [Proposals -> Sessions \cup {"free"}]
      /\ \A p \in Proposals : v6[p] # s => v6'[p] = v6[p]
      /\ v7' \in Sessions \cup {"free"} /\ (v7 # s => v7' = v7)
  BY FinishIs DEF ChainInv
<1>2. Len(v1) \in Nat /\ Len(v1) > 0
  BY DEF ChainInv, Typed
<1>3. Typed'
  BY <1>1, <1>2 DEF ChainInv, Typed
<1>4. /\ v3'[s] = "idle" /\ v4'[s] = P!NoCall
      /\ \A t \in Sessions \ {s} : v3'[t] = v3[t] /\ v4'[t] = v4[t] /\ v5'[t] = v5[t]
  BY <1>1 DEF ChainInv, Typed
<1>5. CallsFit'
  <2> SUFFICES ASSUME NEW t \in Sessions
               PROVE  /\ v3'[t] = "insert" <=> v4'[t] \in Drafting
                      /\ v3'[t] = "lock_proposal" => v4'[t] \in Decision
                      /\ v3'[t] \in Work => v4'[t] \in Decision \cup Rollback
                      /\ v4'[t] \in Rollback => v4'[t].target \in 1..Len(v1')
    BY DEF CallsFit
  <2>1. CASE t = s
    BY <1>4, <2>1, KindsDiffer DEF Work
  <2>2. CASE t # s
    BY <1>2, <1>4, <2>2 DEF ChainInv, CallsFit, Typed, Rollback
  <2> QED
    BY <2>1, <2>2
<1>6. Drafted'
  <2> SUFFICES ASSUME NEW t \in Sessions, v4'[t] \in Drafting
               PROVE  /\ v2'[v4'[t].id].state = "absent"
                      /\ \A u \in Sessions : v4'[u] \in Drafting /\ v4'[u].id = v4'[t].id => u = t
    BY DEF Drafted
  <2>1. t # s /\ v4'[t] = v4[t]
    BY <1>4, KindsDiffer
  <2>2. \A u \in Sessions : v4'[u] \in Drafting => v4[u] \in Drafting /\ v4'[u] = v4[u]
    BY <1>4, KindsDiffer
  <2>3. v4[t].id \in Proposals /\ v2[v4[t].id].state = "absent"
    BY <2>1 DEF Drafting, ChainInv, Drafted
  <2>4. ~(v4[s] \in Drafting /\ v4[s].id = v4[t].id)
    BY <2>1 DEF ChainInv, Drafted
  <2>5. v2'[v4[t].id] = v2[v4[t].id]
    BY <2>3, <2>4
  <2> QED
    BY <2>1, <2>2, <2>3, <2>5 DEF ChainInv, Drafted
<1>7. Held'
  <2> SUFFICES ASSUME NEW t \in Sessions, v3'[t] \in Work, v4'[t] \in Decision
               PROVE  v6'[v4'[t].id] = t /\ v2'[v4'[t].id].state = "proposed"
    BY DEF Held
  <2>1. t # s /\ v4'[t] = v4[t] /\ v3'[t] = v3[t]
    BY <1>4, KindsDiffer
  <2>2. v4[t].id \in Proposals /\ v6[v4[t].id] = t /\ v2[v4[t].id].state = "proposed"
    BY <2>1 DEF Decision, ChainInv, Held
  <2>3. ~(v4[s] \in Drafting /\ v4[s].id = v4[t].id)
    BY <2>2 DEF ChainInv, Drafted
  <2>4. v2'[v4[t].id] = v2[v4[t].id]
    BY <2>1, <2>2, <2>3
  <2> QED
    BY <1>1, <2>1, <2>2, <2>4
<1>8. OnLast'
  <2> SUFFICES ASSUME NEW t \in Sessions
               PROVE  /\ v3'[t] = "lock_version" => v5'[t] \in 1..Len(v1')
                      /\ v3'[t] = "apply" /\ v5'[t] # 0 => v7' = t /\ v5'[t] = Len(v1')
    BY DEF OnLast
  <2>1. CASE t = s
    BY <1>4, <2>1
  <2>2. CASE t # s
    BY <1>1, <1>2, <1>4, <2>2 DEF ChainInv, OnLast, Typed
  <2> QED
    BY <2>1, <2>2
<1> QED
  BY <1>3, <1>5, <1>6, <1>7, <1>8

(* So is what a transaction that aborts does.                                *)
LEMMA AbortKeeps ==
    ASSUME ChainInv, NEW s \in Sessions, P!Abort(s)
    PROVE  ChainInv'
<1>1. P!Finish(s) /\ v1' = v1 /\ v2' = v2
  BY DEF P!Abort
<1>2. v1' \in Seq(Version) /\ v2' \in [Proposals -> Row] /\ Len(v1') \in Nat
  BY <1>1 DEF ChainInv, Typed
<1>3. Typed' /\ CallsFit' /\ Drafted' /\ Held' /\ OnLast'
  BY <1>1, <1>2, ConcludeKeeps
<1>4. Chain' /\ Founded'
  BY <1>1 DEF ChainInv, Chain, Founded
<1> QED
  BY <1>3, <1>4 DEF ChainInv

(* The version in force is superseded, and its successor is the last one.    *)
LEMMA ReplaceIs ==
    ASSUME Typed, NEW s \in Sessions, v5[s] = Len(v1), Chain,
           NEW content \in Proposals \cup {"baseline"},
           NEW source \in Proposals \cup {"baseline", "rollback"},
           P!Replace(s, content, Len(v1) + 1, source)
    PROVE  /\ v1' \in Seq(Version) /\ Len(v1') = Len(v1) + 1 /\ Len(v1) \in Nat
           /\ \A n \in 1..Len(v1) : v1'[n].source = v1[n].source
           /\ v1'[Len(v1) + 1].source = source
           /\ Chain'
<1> DEFINE added == [version |-> Len(v1) + 1, policy |-> content, names |-> Len(v1) + 1,
                    source |-> source, effective |-> TRUE]
<1>1. v1' = Append(P!Superseded, added)
  BY DEF P!Replace
<1>2. Len(v1) \in Nat /\ DOMAIN v1 = 1..Len(v1) /\ \A n \in 1..Len(v1) : v1[n] \in Version
  BY DEF Typed
<1>3. P!Superseded = [n \in 1..Len(v1) |-> [v1[n] EXCEPT !.effective = FALSE]]
  BY <1>2 DEF P!Superseded
<1>4. \A n \in 1..Len(v1) : /\ P!Superseded[n] \in Version
        /\ P!Superseded[n].source = v1[n].source /\ P!Superseded[n].effective = FALSE
        /\ P!Superseded[n].version = v1[n].version /\ P!Superseded[n].names = v1[n].names
  BY <1>2, <1>3 DEF Version
<1>5. P!Superseded \in Seq(Version) /\ Len(P!Superseded) = Len(v1)
  BY <1>2, <1>3, <1>4
<1>6. added \in Version
  BY <1>2 DEF Version
<1>7. /\ added.source = source /\ added.effective = TRUE
      /\ added.version = Len(v1) + 1 /\ added.names = Len(v1) + 1
  OBVIOUS
<1> HIDE DEF added
<1>8. /\ v1' \in Seq(Version) /\ Len(v1') = Len(v1) + 1 /\ v1'[Len(v1) + 1] = added
      /\ \A n \in 1..Len(v1) : v1'[n] = P!Superseded[n]
  BY <1>1, <1>2, <1>5, <1>6
<1>9. Chain'
  <2> SUFFICES ASSUME NEW n \in 1..Len(v1')
               PROVE  /\ v1'[n].effective <=> n = Len(v1')
                      /\ v1'[n].version = n /\ v1'[n].names = n
    BY DEF Chain
  <2>1. CASE n \in 1..Len(v1)
    <3>1. v1'[n].effective = FALSE /\ n # Len(v1')
      BY <1>2, <1>4, <1>8, <2>1
    <3>2. v1'[n].version = n /\ v1'[n].names = n
      BY <1>4, <1>8, <2>1 DEF Chain
    <3> QED
      BY <3>1, <3>2
  <2>2. CASE n = Len(v1) + 1
    BY <1>7, <1>8, <2>2
  <2> QED
    BY <1>2, <1>8, <2>1, <2>2
<1> QED
  BY <1>2, <1>4, <1>7, <1>8, <1>9

-----------------------------------------------------------------------------
(* The actions.                                                              *)

(* A session begins a call: a draft that nobody else inserts, a decision, or *)
(* a rollback to a version that there is.                                    *)
LEMMA BeginKeeps ==
    ASSUME ChainInv, NEW s \in Sessions, NEW request, NEW step,
           P!Begin(s, request), P!Goto(s, step),
           \/ /\ request \in Drafting /\ step = "insert"
              /\ v2[request.id].state = "absent"
              /\ \A t \in Sessions : v4[t] \in Drafting => v4[t].id # request.id
           \/ request \in Decision /\ step = "lock_proposal"
           \/ request \in Rollback /\ step = "choose_version" /\ request.target \in 1..Len(v1)
    PROVE  ChainInv'
<1>1. /\ v3' = [v3 EXCEPT ![s] = step] /\ v4' = [v4 EXCEPT ![s] = request]
      /\ UNCHANGED <<v1, v2, v5, v6, v7>>
  BY DEF P!Begin, P!Goto, P!locks
<1>2. /\ v3'[s] = step /\ v4'[s] = request
      /\ \A t \in Sessions \ {s} : v3'[t] = v3[t] /\ v4'[t] = v4[t]
  BY <1>1 DEF ChainInv, Typed
<1>3. Typed'
  BY <1>1 DEF ChainInv, Typed, Work
<1>4. CallsFit'
  <2> SUFFICES ASSUME NEW t \in Sessions
               PROVE  /\ v3'[t] = "insert" <=> v4'[t] \in Drafting
                      /\ v3'[t] = "lock_proposal" => v4'[t] \in Decision
                      /\ v3'[t] \in Work => v4'[t] \in Decision \cup Rollback
                      /\ v4'[t] \in Rollback => v4'[t].target \in 1..Len(v1')
    BY DEF CallsFit
  <2>1. CASE t = s
    BY <1>1, <1>2, <2>1, KindsDiffer DEF Work
  <2>2. CASE t # s
    BY <1>1, <1>2, <2>2 DEF ChainInv, CallsFit
  <2> QED
    BY <2>1, <2>2
<1>5. Drafted'
  <2> SUFFICES ASSUME NEW t \in Sessions, v4'[t] \in Drafting
               PROVE  /\ v2'[v4'[t].id].state = "absent"
                      /\ \A u \in Sessions : v4'[u] \in Drafting /\ v4'[u].id = v4'[t].id => u = t
    BY DEF Drafted
  <2>1. CASE t = s
    BY <1>1, <1>2, <2>1, KindsDiffer
  <2>2. CASE t # s
    BY <1>1, <1>2, <2>2, KindsDiffer DEF ChainInv, Drafted
  <2> QED
    BY <2>1, <2>2
<1>6. Held'
  BY <1>1, <1>2, KindsDiffer DEF ChainInv, Held, Work
<1>7. OnLast'
  BY <1>1, <1>2 DEF ChainInv, OnLast
<1>8. Chain' /\ Founded'
  BY <1>1 DEF ChainInv, Chain, Founded
<1> QED
  BY <1>3, <1>4, <1>5, <1>6, <1>7, <1>8 DEF ChainInv

(* A proposal, a decision and a rollback begin.                              *)
LEMMA CallsBegin ==
    ASSUME ChainInv, NEW s \in Sessions,
           \/ \E p \in Proposals : P!Propose(s, p)
           \/ \E p \in Proposals, d \in {"approve", "reject"} : P!Decide(s, p, d)
           \/ \E n \in 1..MaxVersions : P!RollBack(s, n)
    PROVE  ChainInv'
<1>1. ASSUME NEW p \in Proposals, P!Propose(s, p) PROVE ChainInv'
  <2> DEFINE request == [kind |-> "propose", id |-> p, base |-> P!Effective]
  <2>1. /\ v2[p].state = "absent" /\ P!Begin(s, request) /\ P!Goto(s, "insert")
        /\ \A t \in Sessions : v4[t].kind = "propose" => v4[t].id # p
    BY <1>1 DEF P!Propose
  <2>2. P!Effective \in Nat
    BY EffectiveIsLast DEF ChainInv, Typed
  <2>3. request \in Drafting /\ request.id = p
    BY <2>2 DEF Drafting
  <2>4. \A t \in Sessions : v4[t] \in Drafting => v4[t].id # p
    BY <2>1, KindsDiffer
  <2> HIDE DEF request
  <2> QED
    BY <2>1, <2>3, <2>4, BeginKeeps
<1>2. ASSUME NEW p \in Proposals, NEW d \in {"approve", "reject"}, P!Decide(s, p, d)
      PROVE  ChainInv'
  <2> DEFINE request == [kind |-> d, id |-> p]
  <2>1. P!Begin(s, request) /\ P!Goto(s, "lock_proposal")
    BY <1>2 DEF P!Decide
  <2>2. request \in Decision
    BY DEF Decision
  <2> HIDE DEF request
  <2> QED
    BY <2>1, <2>2, BeginKeeps
<1>3. ASSUME NEW n \in 1..MaxVersions, P!RollBack(s, n) PROVE ChainInv'
  <2> DEFINE request == [kind |-> "rollback", target |-> n]
  <2>1. P!Begin(s, request) /\ P!Goto(s, "choose_version") /\ n \in DOMAIN v1
    BY <1>3 DEF P!RollBack
  <2>2. n \in 1..Len(v1) /\ n \in Nat
    BY <2>1 DEF ChainInv, Typed
  <2>3. request \in Rollback /\ request.target = n
    BY <2>2 DEF Rollback
  <2> HIDE DEF request
  <2> QED
    BY <2>1, <2>2, <2>3, BeginKeeps
<1> QED
  BY <1>1, <1>2, <1>3

(* The row of a proposal is new, and nobody decides about it yet.            *)
LEMMA InsertKeeps ==
    ASSUME ChainInv, NEW s \in Sessions, P!InsertProposal(s)
    PROVE  ChainInv'
<1> DEFINE p == v4[s].id
           row == [state |-> "proposed", base |-> v4[s].base]
<1>1. v3[s] = "insert" /\ v2' = [v2 EXCEPT ![p] = row] /\ P!Finish(s) /\ v1' = v1
  BY DEF P!InsertProposal
<1>2. v4[s] \in Drafting
  BY <1>1 DEF ChainInv, CallsFit
<1>3. p \in Proposals /\ row \in Row /\ row.state = "proposed" /\ v2[p].state = "absent"
  BY <1>2 DEF Drafting, Row, ChainInv, Drafted
<1> HIDE DEF row
<1>4. v2' \in [Proposals -> Row] /\ v2'[p] = row /\ \A q \in Proposals \ {p} : v2'[q] = v2[q]
  BY <1>1, <1>3 DEF ChainInv, Typed
<1>5. v1' \in Seq(Version) /\ Len(v1') = Len(v1) /\ Len(v1') \in Nat
  BY <1>1 DEF ChainInv, Typed
<1>6. \A q \in Proposals : v2'[q] = v2[q]
          \/ (v4[s] \in Drafting /\ v4[s].id = q /\ v2'[q].state # "absent")
  BY <1>2, <1>3, <1>4
<1>7. Typed' /\ CallsFit' /\ Drafted' /\ Held' /\ OnLast'
  BY <1>1, <1>4, <1>5, <1>6, ConcludeKeeps
<1>8. Chain'
  BY <1>1 DEF ChainInv, Chain
<1>9. Founded'
  <2>1. \A q \in Proposals : v2[q].state = "approved" => v2'[q] = v2[q]
    BY <1>3, <1>4
  <2>2. \A q \in Proposals : v2'[q].state = "approved" => v2[q].state = "approved"
    BY <1>3, <1>4
  <2> QED
    BY <1>1, <2>1, <2>2 DEF ChainInv, Founded
<1> QED
  BY <1>7, <1>8, <1>9 DEF ChainInv

(* A decision holds the lock of a proposal that is still undecided.          *)
LEMMA LockProposalKeeps ==
    ASSUME ChainInv, NEW s \in Sessions, P!LockProposal(s)
    PROVE  ChainInv'
<1> DEFINE p == v4[s].id
<1>1. v3[s] = "lock_proposal" /\ v6[p] = "free"
  BY DEF P!LockProposal, P!Free
<1>2. v4[s] \in Decision /\ p \in Proposals
  BY <1>1 DEF ChainInv, CallsFit, Decision
<1>3. CASE P!Abort(s)
  BY <1>3, AbortKeeps
<1>4. CASE /\ v2[p].state = "proposed" /\ v6' = [v6 EXCEPT ![p] = s]
           /\ P!Goto(s, "choose_version") /\ UNCHANGED <<v1, v2, v4, v5, v7>>
  <2>1. v3' = [v3 EXCEPT ![s] = "choose_version"]
    BY <1>4 DEF P!Goto
  <2>2. /\ v3'[s] = "choose_version" /\ \A t \in Sessions \ {s} : v3'[t] = v3[t]
        /\ v6'[p] = s /\ \A q \in Proposals \ {p} : v6'[q] = v6[q]
    BY <1>2, <1>4, <2>1 DEF ChainInv, Typed
  <2>3. Typed'
    BY <1>2, <1>4, <2>1 DEF ChainInv, Typed, Work
  <2>4. CallsFit'
    BY <1>2, <1>4, <2>2, KindsDiffer DEF ChainInv, CallsFit, Work
  <2>5. Drafted'
    BY <1>4 DEF ChainInv, Drafted
  <2>6. Held'
    <3> SUFFICES ASSUME NEW t \in Sessions, v3'[t] \in Work, v4[t] \in Decision
                 PROVE  v6'[v4[t].id] = t /\ v2[v4[t].id].state = "proposed"
      BY <1>4 DEF Held
    <3>1. CASE t = s
      BY <1>4, <2>2, <3>1
    <3>2. CASE t # s
      <4>1. v6[v4[t].id] = t /\ v2[v4[t].id].state = "proposed" /\ v4[t].id \in Proposals
        BY <2>2, <3>2 DEF ChainInv, Held, Decision
      <4>2. v4[t].id # p
        BY <1>1, <4>1, Assumptions DEF P!NamesAssumption
      <4> QED
        BY <2>2, <4>1, <4>2
    <3> QED
      BY <3>1, <3>2
  <2>7. OnLast'
    BY <1>4, <2>2 DEF ChainInv, OnLast
  <2>8. Chain' /\ Founded'
    BY <1>4 DEF ChainInv, Chain, Founded
  <2> QED
    BY <2>3, <2>4, <2>5, <2>6, <2>7, <2>8 DEF ChainInv
<1> QED
  BY <1>3, <1>4 DEF P!LockProposal, P!StillProposed

(* A version is chosen, or its lock is granted: a session that finds it      *)
(* superseded goes on without one.                                           *)
LEMMA VersionStepKeeps ==
    ASSUME ChainInv, NEW s \in Sessions, P!ChooseVersion(s) \/ P!LockVersion(s)
    PROVE  ChainInv'
<1> DEFINE step == IF v3[s] = "choose_version" THEN "lock_version" ELSE "apply"
<1>1. /\ v3[s] \in {"choose_version", "lock_version"} /\ v3' = [v3 EXCEPT ![s] = step]
      /\ UNCHANGED <<v1, v2, v4, v6>>
  BY DEF P!ChooseVersion, P!LockVersion, P!Goto, P!locks
<1>2. /\ v3'[s] = step /\ \A t \in Sessions \ {s} : v3'[t] = v3[t]
      /\ v3[s] \in Work /\ step \in Work
  BY <1>1 DEF ChainInv, Typed, Work
<1>3. Len(v1) \in 1..Len(v1) /\ 1..Len(v1) \subseteq Nat
  BY EffectiveIsLast DEF ChainInv
<1>4. /\ v5' \in [Sessions -> Nat] /\ \A t \in Sessions \ {s} : v5'[t] = v5[t]
      /\ v7' \in Sessions \cup {"free"} /\ (v7 # "free" => v7' = v7)
      /\ step = "lock_version" => v5'[s] \in 1..Len(v1)
      /\ step = "apply" /\ v5'[s] # 0 => v7' = s /\ v5'[s] = Len(v1)
  <2>1. CASE P!ChooseVersion(s)
    <3>1. v3[s] = "choose_version" /\ v5' = [v5 EXCEPT ![s] = P!Effective] /\ v7' = v7
      BY <2>1 DEF P!ChooseVersion, P!locks
    <3>2. P!Effective = Len(v1)
      BY EffectiveIsLast DEF ChainInv
    <3> QED
      BY <1>3, <3>1, <3>2 DEF ChainInv, Typed
  <2>2. CASE P!LockVersion(s)
    <3>1. /\ v3[s] = "lock_version" /\ v7 = "free"
          /\ \/ v1[v5[s]].effective /\ v7' = s /\ v5' = v5
             \/ v5' = [v5 EXCEPT ![s] = 0] /\ v7' = v7
      BY <2>2 DEF P!LockVersion, P!Free, P!Null
    <3>2. v5[s] \in 1..Len(v1)
      BY <3>1 DEF ChainInv, OnLast
    <3>3. v1[v5[s]].effective => v5[s] = Len(v1)
      BY <3>2 DEF ChainInv, Chain
    <3> QED
      BY <1>3, <3>1, <3>3 DEF ChainInv, Typed
  <2> QED
    BY <2>1, <2>2
<1> HIDE DEF step
<1>5. Typed'
  BY <1>1, <1>2, <1>4 DEF ChainInv, Typed
<1>6. CallsFit'
  BY <1>1, <1>2 DEF ChainInv, CallsFit, Work
<1>7. Drafted' /\ Held'
  BY <1>1, <1>2 DEF ChainInv, Drafted, Held
<1>8. OnLast'
  <2> SUFFICES ASSUME NEW t \in Sessions
               PROVE  /\ v3'[t] = "lock_version" => v5'[t] \in 1..Len(v1)
                      /\ v3'[t] = "apply" /\ v5'[t] # 0 => v7' = t /\ v5'[t] = Len(v1)
    BY <1>1 DEF OnLast
  <2>1. CASE t = s
    BY <1>2, <1>4, <2>1
  <2>2. CASE t # s
    BY <1>2, <1>4, <2>2, Assumptions DEF ChainInv, OnLast, P!NamesAssumption
  <2> QED
    BY <2>1, <2>2
<1>9. Chain' /\ Founded'
  BY <1>1 DEF ChainInv, Chain, Founded
<1> QED
  BY <1>5, <1>6, <1>7, <1>8, <1>9 DEF ChainInv

(* A decision is stale, rejects, or makes the next version of a proposal     *)
(* written against the last one.                                             *)
LEMMA DecisionKeeps ==
    ASSUME ChainInv, NEW s \in Sessions, P!ApplyDecision(s)
    PROVE  ChainInv'
<1> DEFINE p == v4[s].id
<1>1. v3[s] = "apply" /\ v4[s].kind \in {"approve", "reject"} /\ P!Finish(s)
  BY DEF P!ApplyDecision
<1>2. v4[s] \in Decision /\ p \in Proposals
  BY <1>1, KindsDiffer DEF ChainInv, CallsFit, Work, Decision
<1>3. v6[p] = s /\ v2[p].state = "proposed" /\ v2[p] \in Row
  BY <1>1, <1>2 DEF ChainInv, Held, Work, Typed
<1>4. Len(v1) \in Nat /\ Len(v1) > 0
  BY DEF ChainInv, Typed
<1>5. CASE v1' = v1 /\ \E state \in {"stale", "rejected"} : P!Resolve(p, state)
  <2> PICK state \in {"stale", "rejected"} : v2' = [v2 EXCEPT ![p].state = state]
    BY <1>5 DEF P!Resolve
  <2>1. /\ v2' \in [Proposals -> Row] /\ v2'[p].state = state
        /\ \A q \in Proposals \ {p} : v2'[q] = v2[q]
    BY <1>2, <1>3 DEF ChainInv, Typed, Row
  <2>2. \A q \in Proposals : v2'[q] = v2[q]
            \/ (v6[q] = s /\ v2[q].state = "proposed" /\ v2'[q].state # "absent")
    BY <1>2, <1>3, <2>1
  <2>3. v1' \in Seq(Version) /\ Len(v1') = Len(v1) /\ Len(v1') \in Nat
    BY <1>5 DEF ChainInv, Typed
  <2>4. Typed' /\ CallsFit' /\ Drafted' /\ Held' /\ OnLast'
    BY <1>1, <2>1, <2>2, <2>3, ConcludeKeeps
  <2>5. Chain'
    BY <1>5 DEF ChainInv, Chain
  <2>6. Founded'
    <3>1. \A q \in Proposals : v2[q].state = "approved" => v2'[q] = v2[q]
      BY <1>3, <2>1
    <3>2. \A q \in Proposals : v2'[q].state = "approved" => v2[q].state = "approved"
      BY <1>3, <2>1
    <3>3. v1' = v1 /\ Founded
      BY <1>5 DEF ChainInv
    <3>4. ASSUME NEW n \in 1..Len(v1), v1[n].source \in Proposals
          PROVE  v2'[v1[n].source].state = "approved" /\ v2'[v1[n].source].base = n - 1
      BY <3>1, <3>3, <3>4 DEF Founded
    <3>5. \A q \in Proposals : v2'[q].state = "approved" => \E n \in 1..Len(v1) : v1[n].source = q
      BY <3>2, <3>3 DEF Founded
    <3> QED
      BY <3>3, <3>4, <3>5 DEF Founded
  <2> QED
    BY <2>4, <2>5, <2>6 DEF ChainInv
<1>6. CASE ~P!Stale(s, p) /\ P!Resolve(p, "approved") /\ P!Replace(s, p, v2[p].base + 1, p)
  <2>1. v5[s] # 0
    BY <1>6 DEF P!Replace, P!Null
  <2>2. v7 = s /\ v5[s] = Len(v1)
    BY <1>1, <2>1 DEF ChainInv, OnLast
  <2>3. v2[p].base = Len(v1)
    BY <1>6, <2>1, <2>2 DEF P!Stale, P!Null
  <2>4. /\ v1' \in Seq(Version) /\ Len(v1') = Len(v1) + 1
        /\ \A n \in 1..Len(v1) : v1'[n].source = v1[n].source
        /\ v1'[Len(v1) + 1].source = p /\ Chain'
    BY <1>2, <1>6, <2>2, <2>3, ReplaceIs DEF ChainInv
  <2>5. v2' = [v2 EXCEPT ![p].state = "approved"]
    BY <1>6 DEF P!Resolve
  <2>6. /\ v2' \in [Proposals -> Row] /\ v2'[p].state = "approved" /\ v2'[p].base = Len(v1)
        /\ \A q \in Proposals \ {p} : v2'[q] = v2[q]
    BY <1>2, <1>3, <2>3, <2>5 DEF ChainInv, Typed, Row
  <2>7. \A q \in Proposals : v2'[q] = v2[q]
            \/ (v6[q] = s /\ v2[q].state = "proposed" /\ v2'[q].state # "absent")
    BY <1>2, <1>3, <2>6
  <2>8. Len(v1') \in Nat /\ Len(v1') > Len(v1)
    BY <1>4, <2>4
  <2>9. Typed' /\ CallsFit' /\ Drafted' /\ Held' /\ OnLast'
    BY <1>1, <2>2, <2>4, <2>6, <2>7, <2>8, ConcludeKeeps
  <2>10. Founded'
    <3>1. \A n \in 1..Len(v1') : n \in 1..Len(v1) \/ n = Len(v1) + 1
      BY <1>4, <2>4
    <3>2. ASSUME NEW n \in 1..Len(v1'), v1'[n].source \in Proposals
          PROVE  /\ v2'[v1'[n].source].state = "approved"
                 /\ v2'[v1'[n].source].base = n - 1
      <4>1. CASE n \in 1..Len(v1)
        <5>1. /\ v1'[n].source = v1[n].source
              /\ v2[v1[n].source].state = "approved" /\ v2[v1[n].source].base = n - 1
          BY <2>4, <3>2, <4>1 DEF ChainInv, Founded
        <5> QED
          BY <1>3, <2>6, <3>2, <5>1
      <4>2. CASE n = Len(v1) + 1
        BY <1>4, <2>4, <2>6, <4>2
      <4> QED
        BY <3>1, <4>1, <4>2
    <3>3. ASSUME NEW q \in Proposals, v2'[q].state = "approved"
          PROVE  \E n \in 1..Len(v1') : v1'[n].source = q
      <4>1. CASE q = p
        <5>1. Len(v1) + 1 \in 1..Len(v1')
          BY <1>4, <2>4
        <5> QED
          BY <2>4, <4>1, <5>1
      <4>2. CASE q # p
        <5>1. PICK n \in 1..Len(v1) : v1[n].source = q
          BY <2>6, <3>3, <4>2 DEF ChainInv, Founded
        <5>2. n \in 1..Len(v1')
          BY <1>4, <2>4
        <5> QED
          BY <2>4, <5>1, <5>2
      <4> QED
        BY <4>1, <4>2
    <3> QED
      BY <3>2, <3>3 DEF Founded
  <2> QED
    BY <2>4, <2>9, <2>10 DEF ChainInv
<1> QED
  BY <1>5, <1>6 DEF P!ApplyDecision

(* A rollback makes the next version of an older policy.                     *)
LEMMA RollbackKeeps ==
    ASSUME ChainInv, NEW s \in Sessions, P!ApplyRollback(s)
    PROVE  ChainInv'
<1> DEFINE content == v1[v4[s].target].policy
<1>1. /\ v3[s] = "apply" /\ v4[s].kind = "rollback" /\ P!Finish(s) /\ v2' = v2
      /\ P!Replace(s, content, v5[s] + 1, "rollback")
  BY DEF P!ApplyRollback
<1>2. v4[s] \in Rollback
  BY <1>1, KindsDiffer DEF ChainInv, CallsFit, Work
<1>3. v4[s].target \in 1..Len(v1)
  BY <1>2 DEF ChainInv, CallsFit
<1>4. content \in Proposals \cup {"baseline"}
  <2>1. v1[v4[s].target] \in Version
    BY <1>3 DEF ChainInv, Typed
  <2> QED
    BY <2>1 DEF Version
<1> HIDE DEF content
<1>5. v7 = s /\ v5[s] = Len(v1)
  BY <1>1 DEF P!Replace, P!Null, ChainInv, OnLast
<1>6. /\ v1' \in Seq(Version) /\ Len(v1') = Len(v1) + 1 /\ Len(v1) \in Nat
      /\ \A n \in 1..Len(v1) : v1'[n].source = v1[n].source
      /\ v1'[Len(v1) + 1].source = "rollback" /\ Chain'
  BY <1>1, <1>4, <1>5, ReplaceIs DEF ChainInv
<1>7. Len(v1') \in Nat /\ Len(v1') > Len(v1) /\ v2' \in [Proposals -> Row]
  BY <1>1, <1>6 DEF ChainInv, Typed
<1>8. Typed' /\ CallsFit' /\ Drafted' /\ Held' /\ OnLast'
  BY <1>1, <1>5, <1>6, <1>7, ConcludeKeeps
<1>9. Founded'
  <2>1. \A n \in 1..Len(v1') : n \in 1..Len(v1) \/ n = Len(v1) + 1
    BY <1>6
  <2>2. 1..Len(v1) \subseteq 1..Len(v1')
    BY <1>6
  <2>3. "rollback" \notin Proposals
    BY Assumptions DEF P!NamesAssumption
  <2>4. \A n \in 1..Len(v1') : v1'[n].source \in Proposals =>
            n \in 1..Len(v1) /\ v1'[n].source = v1[n].source
    BY <1>6, <2>1, <2>3
  <2>5. \A q \in Proposals : v2[q].state = "approved" =>
            \E n \in 1..Len(v1') : v1'[n].source = q
    BY <1>6, <2>2 DEF ChainInv, Founded
  <2> QED
    BY <1>1, <2>4, <2>5 DEF ChainInv, Founded
<1> QED
  BY <1>6, <1>8, <1>9 DEF ChainInv

(* The bounds of the versions that there are, and that are spoken of.        *)
Bounded ==
    /\ Len(v1) <= MaxVersions
    /\ \A s \in Sessions : v5[s] <= Len(v1)
    /\ \A s \in Sessions : v4[s] \in Drafting => v4[s].base <= Len(v1)
    /\ \A p \in Proposals : v2[p].base <= Len(v1)

PolicyInv == ChainInv /\ Bounded

(* Whatever grows the versions may speak of all that there are.              *)
LEMMA BoundsStay ==
    ASSUME ChainInv, ChainInv', Bounded,
           Len(v1) <= Len(v1'), Len(v1') <= MaxVersions,
           \A s \in Sessions : v5'[s] = v5[s] \/ v5'[s] <= Len(v1),
           \A s \in Sessions : v4'[s] = v4[s] \/ v4'[s] \notin Drafting \/ v4'[s].base <= Len(v1),
           \A p \in Proposals : v2'[p].base = v2[p].base \/ v2'[p].base <= Len(v1)
    PROVE  Bounded'
<1>1. Len(v1) \in Nat /\ Len(v1') \in Nat /\ MaxVersions \in Nat
  BY Assumptions DEF ChainInv, Typed, P!VersionsAssumption
<1>2. \A s \in Sessions : v5[s] \in Nat /\ v5'[s] \in Nat
  BY DEF ChainInv, Typed
<1>3. \A s \in Sessions : v5'[s] <= Len(v1')
  BY <1>1, <1>2 DEF Bounded
<1>4. \A s \in Sessions : v4'[s] \in Drafting => v4'[s].base <= Len(v1')
  <2> SUFFICES ASSUME NEW s \in Sessions, v4'[s] \in Drafting
               PROVE  v4'[s].base <= Len(v1')
    OBVIOUS
  <2>1. v4'[s].base \in Nat
    BY DEF Drafting
  <2>2. v4'[s].base <= Len(v1)
    BY DEF Bounded
  <2> QED
    BY <1>1, <2>1, <2>2
<1>5. \A p \in Proposals : v2'[p].base <= Len(v1')
  <2> SUFFICES ASSUME NEW p \in Proposals PROVE v2'[p].base <= Len(v1')
    OBVIOUS
  <2>1. v2'[p].base \in Nat
    BY DEF ChainInv, Typed, Row
  <2>2. v2'[p].base <= Len(v1)
    BY DEF Bounded
  <2> QED
    BY <1>1, <2>1, <2>2
<1> QED
  BY <1>3, <1>4, <1>5 DEF Bounded

(* Every step stays within the bounds.                                       *)
LEMMA BoundsKeep ==
    ASSUME ChainInv, ChainInv', Bounded, P!Next
    PROVE  Bounded'
<1>1. Len(v1) \in Nat /\ Len(v1) <= MaxVersions /\ Len(v1) <= Len(v1) /\ P!Effective = Len(v1)
  BY EffectiveIsLast DEF ChainInv, Typed, Bounded
<1>2. PICK s \in Sessions :
        \/ \E p \in Proposals : P!Propose(s, p)
        \/ \E p \in Proposals, d \in {"approve", "reject"} : P!Decide(s, p, d)
        \/ \E n \in 1..MaxVersions : P!RollBack(s, n)
        \/ P!Step(s) \/ P!Fail(s)
  BY DEF P!Next
<1>3. CASE \E request : /\ P!Begin(s, request)
                       /\ (request \notin Drafting \/ request.base = P!Effective)
  <2> PICK request : /\ P!Begin(s, request)
                     /\ (request \notin Drafting \/ request.base = P!Effective)
    BY <1>3
  <2>1. v4' = [v4 EXCEPT ![s] = request] /\ v1' = v1 /\ v2' = v2 /\ v5' = v5
    BY DEF P!Begin
  <2>2. \A t \in Sessions : v4'[t] = v4[t] \/ v4'[t] = request
    BY <2>1 DEF ChainInv, Typed
  <2>3. \A t \in Sessions : v4'[t] = v4[t] \/ v4'[t] \notin Drafting \/ v4'[t].base <= Len(v1)
    BY <1>1, <2>2
  <2> QED
    BY <1>1, <2>1, <2>3, BoundsStay
<1>4. CASE \/ \E p \in Proposals : P!Propose(s, p)
           \/ \E p \in Proposals, d \in {"approve", "reject"} : P!Decide(s, p, d)
           \/ \E n \in 1..MaxVersions : P!RollBack(s, n)
  <2>1. ASSUME NEW p \in Proposals, P!Propose(s, p) PROVE Bounded'
    <3>1. PICK request : /\ request = [kind |-> "propose", id |-> p, base |-> P!Effective]
                         /\ P!Begin(s, request)
      BY <2>1 DEF P!Propose
    <3>2. request.base = P!Effective
      BY <3>1
    <3> QED
      BY <1>3, <3>1, <3>2
  <2>2. ASSUME NEW p \in Proposals, NEW d \in {"approve", "reject"}, P!Decide(s, p, d)
        PROVE  Bounded'
    <3>1. PICK request : request = [kind |-> d, id |-> p] /\ P!Begin(s, request)
      BY <2>2 DEF P!Decide
    <3>2. request \notin Drafting
      BY <3>1 DEF Drafting
    <3> QED
      BY <1>3, <3>1, <3>2
  <2>3. ASSUME NEW n \in 1..MaxVersions, P!RollBack(s, n) PROVE Bounded'
    <3>1. PICK request : /\ request = [kind |-> "rollback", target |-> n]
                         /\ P!Begin(s, request)
      BY <2>3 DEF P!RollBack
    <3>2. request \notin Drafting
      BY <3>1 DEF Drafting
    <3> QED
      BY <1>3, <3>1, <3>2
  <2> QED
    BY <1>4, <2>1, <2>2, <2>3
<1>5. ASSUME P!Finish(s), Len(v1) <= Len(v1'), Len(v1') <= MaxVersions,
             \A p \in Proposals : v2'[p].base = v2[p].base \/ v2'[p].base <= Len(v1)
      PROVE  Bounded'
  <2>1. v4' = [v4 EXCEPT ![s] = P!NoCall] /\ v5' = [v5 EXCEPT ![s] = 0]
    BY <1>5 DEF P!Finish, P!Null
  <2>2. \A t \in Sessions : v4'[t] = v4[t] \/ v4'[t] \notin Drafting
    BY <2>1, KindsDiffer DEF ChainInv, Typed
  <2>3. \A t \in Sessions : v5'[t] = v5[t] \/ v5'[t] <= Len(v1)
    BY <1>1, <2>1 DEF ChainInv, Typed
  <2> QED
    BY <1>5, <2>2, <2>3, BoundsStay
<1>6. CASE P!Abort(s)
  BY <1>1, <1>5, <1>6 DEF P!Abort
<1>7. CASE P!InsertProposal(s)
  <2>1. /\ v3[s] = "insert" /\ P!Finish(s) /\ v1' = v1
        /\ v2' = [v2 EXCEPT ![v4[s].id] = [state |-> "proposed", base |-> v4[s].base]]
    BY <1>7 DEF P!InsertProposal
  <2>2. v4[s] \in Drafting
    BY <2>1 DEF ChainInv, CallsFit
  <2>3. v4[s].base <= Len(v1)
    BY <2>2 DEF Bounded
  <2>4. \A p \in Proposals : v2'[p].base = v2[p].base \/ v2'[p].base <= Len(v1)
    BY <2>1, <2>3 DEF ChainInv, Typed
  <2> QED
    BY <1>1, <1>5, <2>1, <2>4
<1>8. CASE P!LockProposal(s) \/ P!ChooseVersion(s) \/ P!LockVersion(s)
  <2>1. CASE P!Abort(s)
    BY <1>6, <2>1
  <2>2. CASE UNCHANGED <<v1, v2, v4, v5>>
    BY <1>1, <2>2, BoundsStay
  <2>3. CASE UNCHANGED <<v1, v2, v4>> /\ v5' = [v5 EXCEPT ![s] = Len(v1)]
    <3>1. \A t \in Sessions : v5'[t] = v5[t] \/ v5'[t] <= Len(v1)
      BY <1>1, <2>3 DEF ChainInv, Typed
    <3> QED
      BY <1>1, <2>3, <3>1, BoundsStay
  <2>4. CASE UNCHANGED <<v1, v2, v4>> /\ v5' = [v5 EXCEPT ![s] = 0]
    <3>1. \A t \in Sessions : v5'[t] = v5[t] \/ v5'[t] <= Len(v1)
      BY <1>1, <2>4 DEF ChainInv, Typed
    <3> QED
      BY <1>1, <2>4, <3>1, BoundsStay
  <2> QED
    BY <1>1, <1>8, <2>1, <2>2, <2>3, <2>4
       DEF P!LockProposal, P!ChooseVersion, P!LockVersion, P!Null
<1>9. CASE P!ApplyDecision(s) \/ P!ApplyRollback(s)
  <2>1. P!Finish(s)
    BY <1>9 DEF P!ApplyDecision, P!ApplyRollback
  <2>2. v2' = v2 \/ \E state : v2' = [v2 EXCEPT ![v4[s].id].state = state]
    BY <1>9 DEF P!ApplyDecision, P!ApplyRollback, P!Resolve
  <2>3. ASSUME NEW p \in Proposals PROVE v2'[p].base = v2[p].base
    <3>1. v2 \in [Proposals -> Row] /\ v2[p] \in Row
      BY DEF ChainInv, Typed
    <3>2. ASSUME NEW q, NEW state, v2' = [v2 EXCEPT ![q].state = state]
          PROVE  v2'[p].base = v2[p].base
      <4>1. v2'[p] = v2[p] \/ v2'[p] = [v2[p] EXCEPT !.state = state]
        BY <3>1, <3>2
      <4> QED
        BY <3>1, <4>1 DEF Row
    <3> QED
      BY <2>2, <3>2
  <2>4. v1' = v1 \/ (Len(v1) < MaxVersions /\ \E x : v1' = Append(P!Superseded, x))
    BY <1>9 DEF P!ApplyDecision, P!ApplyRollback, P!Replace
  <2>5. Len(v1') = Len(v1) \/ (Len(v1) < MaxVersions /\ Len(v1') = Len(v1) + 1)
    <3>1. P!Superseded \in Seq(Version) /\ Len(P!Superseded) = Len(v1)
      <4>1. v1 \in Seq(Version) /\ DOMAIN v1 = 1..Len(v1)
        BY DEF ChainInv, Typed
      <4>2. ASSUME NEW n \in 1..Len(v1)
            PROVE  [v1[n] EXCEPT !.effective = FALSE] \in Version
        <5>1. v1[n] \in Version
          BY <4>1
        <5> QED
          BY <5>1 DEF Version
      <4> QED
        BY <4>1, <4>2 DEF P!Superseded
    <3>2. ASSUME NEW x, v1' = Append(P!Superseded, x) PROVE Len(v1') = Len(v1) + 1
      BY <3>1, <3>2
    <3> QED
      BY <2>4, <3>2
  <2>6. Len(v1) <= Len(v1') /\ Len(v1') <= MaxVersions
    BY <1>1, <2>5, Assumptions DEF P!VersionsAssumption
  <2> QED
    BY <1>5, <2>1, <2>3, <2>6
<1> QED
  BY <1>2, <1>4, <1>6, <1>7, <1>8, <1>9 DEF P!Step, P!Fail

(* The baseline is a chain.                                                  *)
LEMMA PolicyBegins == ASSUME P!Init PROVE PolicyInv
<1>1. /\ v1 = <<P!Baseline>> /\ v2 = [p \in Proposals |-> P!NoProposal]
      /\ v3 = [s \in Sessions |-> "idle"] /\ v4 = [s \in Sessions |-> P!NoCall]
      /\ v5 = [s \in Sessions |-> 0] /\ v6 = [p \in Proposals |-> "free"] /\ v7 = "free"
  BY DEF P!Init, P!Null, P!Free
<1>2. /\ P!Baseline \in Version /\ P!Baseline.source = "baseline" /\ P!Baseline.effective
      /\ P!Baseline.version = 1 /\ P!Baseline.names = 1
  BY DEF P!Baseline, Version
<1>3. P!NoProposal \in Row /\ P!NoProposal.state = "absent" /\ P!NoProposal.base = 0
  BY DEF P!NoProposal, Row, P!Null
<1>4. v1 \in Seq(Version) /\ Len(v1) = 1 /\ v1[1] = P!Baseline
  BY <1>1, <1>2
<1>5. Typed
  BY <1>1, <1>3, <1>4 DEF Typed
<1>6. CallsFit /\ Drafted /\ Held /\ OnLast
  BY <1>1, KindsDiffer DEF CallsFit, Drafted, Held, OnLast, Work
<1>7. \A n \in 1..Len(v1) : n = 1
  BY <1>4
<1>8. Chain
  BY <1>2, <1>4, <1>7 DEF Chain
<1>9. Founded
  BY <1>1, <1>2, <1>3, <1>4, <1>7, Assumptions DEF Founded, P!NamesAssumption
<1>10. Bounded
  <2>1. MaxVersions \in Nat /\ MaxVersions >= 1
    BY Assumptions DEF P!VersionsAssumption
  <2> QED
    BY <1>1, <1>3, <1>4, <2>1, KindsDiffer DEF Bounded
<1> QED
  BY <1>5, <1>6, <1>8, <1>9, <1>10 DEF PolicyInv, ChainInv

(* Every step keeps the invariant.                                           *)
LEMMA PolicyKeeps == ASSUME PolicyInv, [P!Next]_(P!vars) PROVE PolicyInv'
<1>1. CASE P!Next
  <2>1. ChainInv'
    BY <1>1, CallsBegin, InsertKeeps, LockProposalKeeps, VersionStepKeeps,
       DecisionKeeps,
       RollbackKeeps, AbortKeeps DEF P!Next, P!Step, P!Fail, PolicyInv
  <2> QED
    BY <1>1, <2>1, BoundsKeep DEF PolicyInv
<1>2. CASE UNCHANGED P!vars
  <2>1. UNCHANGED <<v1, v2, v3, v4, v5, v6, v7>>
    BY <1>2 DEF P!vars
  <2> QED
    BY <2>1
       DEF PolicyInv, Bounded, ChainInv, Typed, CallsFit, Drafted, Held,
       OnLast, Chain, Founded
<1> QED
  BY <1>1, <1>2

(* What the invariant says of the state.                                     *)
LEMMA PolicySafe ==
    ASSUME PolicyInv
    PROVE  P!TypeOK /\ P!OneChain /\ P!ReviewedAgainstPredecessor /\ P!DecidedOnce
<1>1. DOMAIN v1 = 1..Len(v1) /\ Len(v1) \in Nat /\ MaxVersions \in Nat
  BY Assumptions DEF PolicyInv, ChainInv, Typed, P!VersionsAssumption
<1>2. P!OneChain
  BY <1>1 DEF PolicyInv, ChainInv, Typed, Chain, P!OneChain
<1>3. P!ReviewedAgainstPredecessor
  BY <1>1 DEF PolicyInv, ChainInv, Founded, P!ReviewedAgainstPredecessor
<1>4. \A p \in Proposals : v2[p].state = "approved" <=> P!VersionsOf(p) # {}
  BY <1>1 DEF PolicyInv, ChainInv, Founded, P!VersionsOf
<1>5. ASSUME NEW p \in Proposals, NEW m \in P!VersionsOf(p), NEW n \in P!VersionsOf(p)
      PROVE  m = n
  <2>1. /\ m \in 1..Len(v1) /\ v1[m].source = p /\ n \in 1..Len(v1) /\ v1[n].source = p
    BY <1>1 DEF P!VersionsOf
  <2>2. v2[p].base = m - 1 /\ v2[p].base = n - 1
    BY <2>1 DEF PolicyInv, ChainInv, Founded
  <2> QED
    BY <2>1, <2>2
<1>6. P!TypeOK
  <2> DEFINE Entry == [version : 1..MaxVersions, policy : Proposals \cup {"baseline"},
                       names : 1..MaxVersions,
                       source : Proposals \cup {"baseline", "rollback"}, effective : BOOLEAN]
  <2>1. v1 \in Seq(Entry)
    <3>1. ASSUME NEW n \in 1..Len(v1) PROVE v1[n] \in Entry
      <4>1. v1[n] \in Version /\ v1[n].version = n /\ v1[n].names = n
        BY DEF PolicyInv, ChainInv, Typed, Chain
      <4>2. n \in 1..MaxVersions
        BY <1>1 DEF PolicyInv, Bounded
      <4> QED
        BY <4>1, <4>2 DEF Version
    <3>2. v1 = [n \in 1..Len(v1) |-> v1[n]]
      BY DEF PolicyInv, ChainInv, Typed
    <3> HIDE DEF Entry
    <3>3. v1 \in [1..Len(v1) -> Entry]
      BY <3>1, <3>2
    <3> QED
      BY <1>1, <3>3
  <2>2. v2 \in [Proposals -> [state : {"absent", "proposed", "approved", "rejected", "stale"},
                              base : 0..MaxVersions]]
    <3>1. \A p \in Proposals : v2[p] \in Row /\ v2[p].base <= Len(v1) /\ Len(v1) <= MaxVersions
      BY DEF PolicyInv, ChainInv, Typed, Bounded
    <3>2. \A p \in Proposals : v2[p].base \in 0..MaxVersions
      BY <1>1, <3>1 DEF Row
    <3>3. v2 = [p \in Proposals |-> v2[p]]
      BY DEF PolicyInv, ChainInv, Typed
    <3> QED
      BY <3>1, <3>2, <3>3 DEF Row
  <2>3. v5 \in [Sessions -> 0..MaxVersions]
    <3>1. v5 \in [Sessions -> Nat]
          /\ \A s \in Sessions : v5[s] <= Len(v1) /\ Len(v1) <= MaxVersions
      BY DEF PolicyInv, ChainInv, Typed, Bounded
    <3> QED
      BY <1>1, <3>1
  <2>4. \A s \in Sessions :
            v4[s].kind \in {"none", "propose", "approve", "reject", "rollback"}
    BY KindsDiffer DEF PolicyInv, ChainInv, Typed
  <2>5. /\ v3 \in [Sessions -> {"idle", "insert", "lock_proposal", "choose_version",
                                "lock_version", "apply"}]
        /\ v6 \in [Proposals -> Sessions \cup {P!Free}] /\ v7 \in Sessions \cup {P!Free}
    BY DEF PolicyInv, ChainInv, Typed, Work, P!Free
  <2> QED
    BY <2>1, <2>2, <2>3, <2>4, <2>5 DEF P!TypeOK
<1> QED
  BY <1>2, <1>3, <1>4, <1>5, <1>6 DEF P!DecidedOnce

-----------------------------------------------------------------------------
(* PhotoIntake. Its request, lock, flag, worker, stored and sent are v1 to v6. *)

Handling == [pc : {"new", "intake", "spawning", "decoding", "cleanup", "done"},
             total : 0..MaxInput + 1, declared : 1..MaxInput \cup {U!NoLength},
             got : 0..MaxInput, count : 0..MaxChunks,
             result : {"none", "photo", "refused", "unavailable"},
             by : {"none", "timer", "server"},
             answer : {"none", "stored", "refused", "unavailable"}]
Decoder == [pc : {"none"} \cup U!Running \cup U!Ended,
            exit : {"none", "photo", "malformed", "refused", "broken"}]

Inside == {"spawning", "decoding", "cleanup"}

(* What one request and its worker are to each other, and whether it holds   *)
(* the lock, has stored its photo, or has sent it without a confirmation.    *)
Intake(x, w, holds, kept, open) ==
    /\ x \in Handling /\ w \in Decoder
    /\ holds <=> x.pc \in Inside \cup {"intake"}
    /\ w.pc \in U!Running => x.pc \in Inside
    /\ x.pc \in Inside => x.got = x.total
    /\ x.result # "none" => x.pc \in {"cleanup", "done"}
    /\ x.result = "photo" => w = [pc |-> "gone", exit |-> "photo"]
    /\ x.answer # "none" => x.pc = "done"
    /\ kept \/ open =>
        /\ x.pc = "done" /\ x.got = x.total /\ x.by = "none"
        /\ x.answer \in {"stored", "unavailable"}
        /\ w = [pc |-> "gone", exit |-> "photo"]
    /\ x.answer = "stored" => kept

UploadInv ==
    /\ DOMAIN v1 = Uploads /\ DOMAIN v4 = Uploads /\ v5 \subseteq Uploads
    /\ v6 \subseteq Uploads
    /\ v1 = [r \in Uploads |-> v1[r]] /\ v4 = [r \in Uploads |-> v4[r]]
    /\ v2 = {} \/ \E r \in Uploads : v2 = {r}
    /\ v3 \in BOOLEAN /\ (v3 <=> \E r \in v2 : v1[r].pc \in Inside)
    /\ \A r \in Uploads : Intake(v1[r], v4[r], r \in v2, r \in v5, r \in v6)

(* What the invariant says of the state.                                     *)
LEMMA UploadSafe ==
    ASSUME UploadInv
    PROVE  U!TypeOK /\ U!WorkerHasOwner /\ U!StoredIsWhole /\ U!CancelledStoresNothing
<1>1. U!TypeOK
  <2>1. ASSUME NEW r \in Uploads PROVE U!Type(r)
    BY DEF UploadInv, Intake, Handling, Decoder, U!Type
  <2>2. \A r \in Uploads : v2 \in {{}, {r}} \/ r \notin v2
    BY DEF UploadInv
  <2>3. v3 <=> \E r \in Uploads : v1[r].pc \in {"spawning", "decoding", "cleanup"}
    BY DEF UploadInv, Intake, Inside
  <2> QED
    BY <2>1, <2>2, <2>3 DEF U!TypeOK, UploadInv
<1>2. U!WorkerHasOwner
  BY DEF UploadInv, Intake, Inside, U!WorkerHasOwner
<1>3. U!StoredIsWhole
  BY DEF UploadInv, Intake, U!StoredIsWhole
<1>4. U!CancelledStoresNothing
  BY DEF UploadInv, Intake, U!CancelledStoresNothing
<1> QED
  BY <1>1, <1>2, <1>3, <1>4

(* The initial state: nobody has come.                                       *)
LEMMA UploadBegins == ASSUME U!Init PROVE UploadInv
<1>1. U!NewRequest \in Handling
  BY Assumptions DEF U!NewRequest, Handling, U!LimitsAssumption
<1> QED
  BY <1>1
     DEF U!Init, UploadInv, Intake, Inside, Decoder, U!NewRequest, U!Running

(* A request steps with its worker. The lock is its own, as it is in every   *)
(* step but the first and the last, or it takes or returns it.               *)
LEMMA IntakeMoves ==
    ASSUME UploadInv, NEW r \in Uploads, NEW x, NEW w,
           v1' = [v1 EXCEPT ![r] = x], v4' = [v4 EXCEPT ![r] = w],
           v2' \in {v2, v2 \ {r}, {r}}, v2' = {r} => v2 \in {{}, {r}},
           v5' \in {v5, v5 \cup {r}}, v6' \in {v6, v6 \cup {r}, v6 \ {r}},
           Intake(x, w, r \in v2', r \in v5', r \in v6'),
           v3' \in BOOLEAN,
           \/ v3' = v3 /\ (x.pc \in Inside <=> v1[r].pc \in Inside)
           \/ (v3' <=> x.pc \in Inside) /\ r \in v2
    PROVE  UploadInv'
<1>1. /\ v1' = [q \in Uploads |-> v1'[q]] /\ v4' = [q \in Uploads |-> v4'[q]]
      /\ DOMAIN v1' = Uploads /\ DOMAIN v4' = Uploads
      /\ v1'[r] = x /\ v4'[r] = w
      /\ \A q \in Uploads \ {r} : v1'[q] = v1[q] /\ v4'[q] = v4[q]
  BY DEF UploadInv
<1>2. v5' \subseteq Uploads /\ v6' \subseteq Uploads /\ (v2' = {} \/ \E q \in Uploads : v2' = {q})
  BY DEF UploadInv
<1>3. \A q \in Uploads \ {r} :
        (q \in v2' <=> q \in v2) /\ (q \in v5' <=> q \in v5) /\ (q \in v6' <=> q \in v6)
  BY DEF UploadInv
<1>4. \A q \in Uploads : Intake(v1'[q], v4'[q], q \in v2', q \in v5', q \in v6')
  BY <1>1, <1>3 DEF UploadInv
<1>5. v3' <=> \E q \in v2' : v1'[q].pc \in Inside
  <2>1. x.pc \in Inside => r \in v2'
    BY DEF Intake
  <2>2. v1[r].pc \in Inside => r \in v2
    BY DEF UploadInv, Intake
  <2> QED
    BY <1>1, <1>2, <1>3, <2>1, <2>2 DEF UploadInv
<1> QED
  BY <1>1, <1>2, <1>4, <1>5 DEF UploadInv

(* The worker does not change.                                               *)
LEMMA HandlerMoves ==
    ASSUME UploadInv, NEW r \in Uploads, NEW x,
           v1' = [v1 EXCEPT ![r] = x], v4' = v4,
           v2' \in {v2, v2 \ {r}, {r}}, v2' = {r} => v2 \in {{}, {r}},
           v5' \in {v5, v5 \cup {r}}, v6' \in {v6, v6 \cup {r}, v6 \ {r}},
           Intake(x, v4[r], r \in v2', r \in v5', r \in v6'),
           v3' \in BOOLEAN,
           \/ v3' = v3 /\ (x.pc \in Inside <=> v1[r].pc \in Inside)
           \/ (v3' <=> x.pc \in Inside) /\ r \in v2
    PROVE  UploadInv'
<1>1. PICK w : w = v4[r]
  OBVIOUS
<1>2. v4' = [v4 EXCEPT ![r] = w]
  BY <1>1 DEF UploadInv
<1>3. Intake(x, w, r \in v2', r \in v5', r \in v6')
  BY <1>1
<1> QED
  BY <1>2, <1>3, IntakeMoves

(* Only the worker changes.                                                  *)
LEMMA WorkerMoves ==
    ASSUME UploadInv, NEW r \in Uploads, NEW w,
           v4' = [v4 EXCEPT ![r] = w], UNCHANGED <<v1, v2, v3, v5, v6>>,
           Intake(v1[r], w, r \in v2, r \in v5, r \in v6)
    PROVE  UploadInv'
<1>1. PICK x : x = v1[r]
  OBVIOUS
<1>2. v1' = [v1 EXCEPT ![r] = x]
  BY <1>1 DEF UploadInv
<1>3. Intake(x, w, r \in v2', r \in v5', r \in v6') /\ v3' \in BOOLEAN
  BY <1>1 DEF UploadInv
<1> QED
  BY <1>1, <1>2, <1>3, IntakeMoves

(* A handler returns without having stored anything.                         *)
LEMMA ReturnKeeps ==
    ASSUME UploadInv, NEW r \in Uploads, NEW a \in {"none", "refused", "unavailable"},
           U!Return(r, a), v4[r].pc \notin U!Running, v1[r].pc # "done",
           UNCHANGED <<v4, v5, v6>>,
           \/ v3' = v3 /\ v1[r].pc \notin Inside
           \/ v3' = FALSE /\ r \in v2
    PROVE  UploadInv'
<1> PICK x : x = [v1[r] EXCEPT !.pc = "done", !.answer = a]
  OBVIOUS
<1>1. v1' = [v1 EXCEPT ![r] = x] /\ v2' = v2 \ {r}
  BY DEF U!Return, U!To
<1>2. Intake(v1[r], v4[r], r \in v2, r \in v5, r \in v6)
  BY DEF UploadInv
<1>3. /\ x \in Handling /\ x.pc = "done" /\ x.answer = a /\ x.result = v1[r].result
  BY <1>2 DEF Intake, Handling
<1>4. r \notin v5 \cup v6
  BY <1>2 DEF Intake
<1>5. Intake(x, v4[r], r \in v2', r \in v5', r \in v6')
  BY <1>1, <1>2, <1>3, <1>4 DEF Intake, Inside
<1>6. x.pc \notin Inside /\ v3' \in BOOLEAN
  BY <1>3 DEF Inside, UploadInv
<1>7. v2' # {r}
  BY <1>1
<1> QED
  BY <1>1, <1>5, <1>6, <1>7, HandlerMoves

(* A request arrives, and its body is turned away or awaited.                *)
LEMMA ReplaceKeeps ==
    ASSUME UploadInv, NEW r \in Uploads, U!Replace(r)
    PROVE  UploadInv'
<1>1. v1[r].pc = "new" /\ UNCHANGED <<v3, v4, v5, v6>>
  BY DEF U!Replace
<1>2. Intake(v1[r], v4[r], r \in v2, r \in v5, r \in v6)
  BY DEF UploadInv
<1>3. v4[r].pc \notin U!Running /\ v1[r].pc \notin Inside
  BY <1>1, <1>2 DEF Intake, Inside
<1>4. CASE \E a \in {"refused", "unavailable"} : U!Return(r, a)
  BY <1>1, <1>3, <1>4, ReturnKeeps
<1>5. CASE v2 = {} /\ U!collect_upload(r)
  <2>1. PICK total \in 0..MaxInput + 1, declared \in 1..MaxInput \cup {U!NoLength} :
            U!To(r, [v1[r] EXCEPT !.pc = "intake", !.total = total, !.declared = declared])
    BY <1>5 DEF U!collect_upload
  <2> PICK x : x = [v1[r] EXCEPT !.pc = "intake", !.total = total, !.declared = declared]
    OBVIOUS
  <2>2. v1' = [v1 EXCEPT ![r] = x] /\ v2' = {r}
    BY <1>5, <2>1 DEF U!To, U!collect_upload
  <2>3. /\ x \in Handling /\ x.pc = "intake" /\ x.answer = v1[r].answer
        /\ x.result = v1[r].result
    BY <1>2 DEF Intake, Handling
  <2>4. Intake(x, v4[r], r \in v2', r \in v5', r \in v6')
    BY <1>1, <1>2, <1>3, <2>2, <2>3 DEF Intake, Inside
  <2>5. v3' \in BOOLEAN /\ x.pc \notin Inside
    BY <1>1, <2>3 DEF UploadInv, Inside
  <2> QED
    BY <1>1, <1>3, <1>5, <2>2, <2>4, <2>5, HandlerMoves
<1> QED
  BY <1>4, <1>5
     DEF U!Replace, U!InvalidTransport, U!IdentityFails, U!PreflightFails

(* A chunk arrives, and fits or not.                                         *)
LEMMA ChunkKeeps ==
    ASSUME UploadInv, NEW r \in Uploads, U!Chunk(r)
    PROVE  UploadInv'
<1>1. v1[r].pc = "intake" /\ UNCHANGED <<v3, v4, v5, v6>>
  BY DEF U!Chunk
<1>2. Intake(v1[r], v4[r], r \in v2, r \in v5, r \in v6)
  BY DEF UploadInv
<1>3. v4[r].pc \notin U!Running /\ v1[r].pc \notin Inside
  BY <1>1, <1>2 DEF Intake, Inside
<1>4. PICK n \in 1..v1[r].total - v1[r].got :
        \/ /\ U!Fits(r, v1[r].got + n)
           /\ U!To(r, [v1[r] EXCEPT !.got = v1[r].got + n, !.count = @ + 1])
           /\ UNCHANGED v2
        \/ U!Return(r, "refused")
  BY DEF U!Chunk
<1>5. CASE U!Return(r, "refused")
  BY <1>1, <1>3, <1>5, ReturnKeeps
<1>6. CASE /\ U!Fits(r, v1[r].got + n)
           /\ U!To(r, [v1[r] EXCEPT !.got = v1[r].got + n, !.count = @ + 1])
           /\ UNCHANGED v2
  <2> PICK x : x = [v1[r] EXCEPT !.got = v1[r].got + n, !.count = @ + 1]
    OBVIOUS
  <2>1. v1' = [v1 EXCEPT ![r] = x]
    BY <1>6 DEF U!To
  <2>2. v1[r].got + n \in 0..MaxInput /\ v1[r].count + 1 \in 0..MaxChunks
    BY <1>2, <1>6, Assumptions DEF Intake, Handling, U!Fits, U!LimitsAssumption
  <2>3. /\ x \in Handling /\ x.pc = "intake" /\ x.answer = v1[r].answer
        /\ x.result = v1[r].result
    BY <1>1, <1>2, <2>2 DEF Intake, Handling
  <2>4. Intake(x, v4[r], r \in v2', r \in v5', r \in v6')
    BY <1>1, <1>2, <1>3, <1>6, <2>1, <2>3 DEF Intake, Inside
  <2>5. v3' \in BOOLEAN /\ x.pc \notin Inside
    BY <1>1, <2>3 DEF UploadInv, Inside
  <2> QED
    BY <1>1, <1>3, <1>6, <2>1, <2>4, <2>5, HandlerMoves
<1> QED
  BY <1>4, <1>5, <1>6

(* The body has ended: it is refused or the decoder starts.                  *)
LEMMA EndOfBodyKeeps ==
    ASSUME UploadInv, NEW r \in Uploads, U!EndOfBody(r)
    PROVE  UploadInv'
<1>1. v1[r].pc = "intake" /\ v1[r].got = v1[r].total /\ UNCHANGED <<v5, v6>>
  BY DEF U!EndOfBody
<1>2. Intake(v1[r], v4[r], r \in v2, r \in v5, r \in v6)
  BY DEF UploadInv
<1>3. v4[r].pc \notin U!Running /\ v1[r].pc \notin Inside /\ r \in v2
  BY <1>1, <1>2 DEF Intake, Inside
<1>4. CASE (\E a \in {"refused", "unavailable"} : U!Return(r, a)) /\ UNCHANGED <<v3, v4>>
  BY <1>1, <1>3, <1>4, ReturnKeeps
<1>5. CASE /\ v3' = TRUE
           /\ U!To(r, [v1[r] EXCEPT !.pc = "spawning", !.count = 0])
           /\ v4' = [v4 EXCEPT ![r].pc = "spawning"]
           /\ UNCHANGED v2
  <2> PICK x : x = [v1[r] EXCEPT !.pc = "spawning", !.count = 0]
    OBVIOUS
  <2> PICK w : w = [v4[r] EXCEPT !.pc = "spawning"]
    OBVIOUS
  <2>1. v1' = [v1 EXCEPT ![r] = x]
    BY <1>5 DEF U!To
  <2>2. v4' = [v4 EXCEPT ![r] = w]
    BY <1>5 DEF UploadInv
  <2>0. 0 \in 0..MaxChunks
    BY Assumptions DEF U!LimitsAssumption
  <2>3. /\ x \in Handling /\ x.pc = "spawning" /\ x.answer = v1[r].answer
        /\ x.result = v1[r].result /\ x.got = x.total
    BY <1>1, <1>2, <2>0 DEF Intake, Handling
  <2>4. w \in Decoder /\ v1[r].result = "none"
    BY <1>1, <1>2 DEF Intake, Decoder, U!Running, U!Ended, Handling
  <2>5. Intake(x, w, r \in v2', r \in v5', r \in v6')
    BY <1>1, <1>2, <1>3, <1>5, <2>3, <2>4 DEF Intake, Inside
  <2>6. x.pc \in Inside
    BY <2>3 DEF Inside
  <2> QED
    BY <1>1, <1>3, <1>5, <2>1, <2>2, <2>5, <2>6, IntakeMoves
<1> QED
  BY <1>4, <1>5 DEF U!EndOfBody, U!normalize, U!InvalidUpload

(* The client goes, or takes too long.                                       *)
LEMMA IntakeEnds ==
    ASSUME UploadInv, NEW r \in Uploads, U!Disconnect(r) \/ U!UploadTimeout(r)
    PROVE  UploadInv'
<1>1. v1[r].pc = "intake" /\ UNCHANGED <<v3, v4, v5, v6>>
  BY DEF U!Disconnect, U!UploadTimeout
<1>2. v4[r].pc \notin U!Running /\ v1[r].pc \notin Inside
  BY <1>1 DEF UploadInv, Intake, Inside
<1> QED
  BY <1>1, <1>2, ReturnKeeps DEF U!Disconnect, U!UploadTimeout

(* The worker starts or does not, runs to its end, or is killed.             *)
LEMMA WorkerKeeps ==
    ASSUME UploadInv, NEW r \in Uploads,
           U!Spawn(r) \/ U!Exit(r) \/ U!Kill(r) \/ U!Die(r)
    PROVE  UploadInv'
<1>1. Intake(v1[r], v4[r], r \in v2, r \in v5, r \in v6)
  BY DEF UploadInv
<1>2. v4[r].pc \in U!Running /\ UNCHANGED <<v1, v2, v3, v5, v6>>
  BY DEF U!Spawn, U!Exit, U!Kill, U!Killable, U!Die, U!Running
<1>3. v1[r].pc \in Inside /\ v1[r].result # "photo" /\ r \notin v5 \cup v6
  BY <1>1, <1>2 DEF Intake, U!Running, Inside
<1>4. ASSUME NEW w \in Decoder, v4' = [v4 EXCEPT ![r] = w]
      PROVE  UploadInv'
  <2>1. Intake(v1[r], w, r \in v2, r \in v5, r \in v6)
    BY <1>1, <1>3, <1>4 DEF Intake
  <2> QED
    BY <1>2, <1>4, <2>1, WorkerMoves
<1>5. CASE U!Spawn(r) \/ U!Kill(r)
  <2>1. PICK pc \in {"running", "failed", "killed"} : v4' = [v4 EXCEPT ![r].pc = pc]
    BY <1>5 DEF U!Spawn, U!Kill
  <2> PICK w : w = [v4[r] EXCEPT !.pc = pc]
    OBVIOUS
  <2>2. w \in Decoder
    BY <1>1 DEF Intake, Decoder, U!Running, U!Ended
  <2>3. v4' = [v4 EXCEPT ![r] = w]
    BY <2>1 DEF UploadInv
  <2> QED
    BY <1>4, <2>2, <2>3
<1>6. CASE U!Exit(r) \/ U!Die(r)
  <2>1. PICK exit \in U!Exits : v4' = [v4 EXCEPT ![r] = [pc |-> "gone", exit |-> exit]]
    BY <1>6 DEF U!Exit, U!Die, U!Exits
  <2>2. [pc |-> "gone", exit |-> exit] \in Decoder
    BY DEF Decoder, U!Exits, U!Ended
  <2> QED
    BY <1>4, <2>1, <2>2
<1> QED
  BY <1>5, <1>6

(* A handler goes on inside normalize, with another result or cancelled.     *)
LEMMA InsideKeeps ==
    ASSUME UploadInv, NEW r \in Uploads, NEW x \in Handling,
           v1[r].pc \in Inside, x.pc \in Inside,
           v1' = [v1 EXCEPT ![r] = x], UNCHANGED <<v2, v3, v4, v5, v6>>,
           x.got = v1[r].got, x.total = v1[r].total, x.answer = v1[r].answer,
           x.result # "none" => x.pc = "cleanup",
           x.result = "photo" => v4[r] = [pc |-> "gone", exit |-> "photo"]
    PROVE  UploadInv'
<1>1. Intake(v1[r], v4[r], r \in v2, r \in v5, r \in v6)
  BY DEF UploadInv
<1>2. Intake(x, v4[r], r \in v2', r \in v5', r \in v6')
  BY <1>1 DEF Intake, Inside
<1>3. v3' \in BOOLEAN /\ v3' = v3
  BY DEF UploadInv
<1> QED
  BY <1>2, <1>3, HandlerMoves

(* A handler leaves what it awaits, with a result.                           *)
LEMMA LeaveKeeps ==
    ASSUME UploadInv, NEW r \in Uploads, v1[r].pc \in Inside,
           NEW result \in {"photo", "refused", "unavailable"}, U!Leave(r, result),
           result = "photo" => v4[r] = [pc |-> "gone", exit |-> "photo"]
    PROVE  UploadInv'
<1> PICK x : x = [v1[r] EXCEPT !.pc = "cleanup", !.result = result]
  OBVIOUS
<1>1. v1' = [v1 EXCEPT ![r] = x] /\ UNCHANGED <<v2, v3, v4, v5, v6>>
  BY DEF U!Leave, U!To
<1>2. /\ x \in Handling /\ x.pc = "cleanup" /\ x.result = result
      /\ x.got = v1[r].got /\ x.total = v1[r].total /\ x.answer = v1[r].answer
  <2>1. v1[r] \in Handling
    BY DEF UploadInv, Intake
  <2>2. x \in Handling
    BY <2>1 DEF Handling
  <2>3. /\ x.pc = "cleanup" /\ x.result = result
        /\ x.got = v1[r].got /\ x.total = v1[r].total /\ x.answer = v1[r].answer
    BY <2>1 DEF Handling
  <2> QED
    BY <2>2, <2>3
<1> QED
  BY <1>1, <1>2, InsideKeeps DEF Inside

(* What a handler awaits comes, comes wrong, or takes too long.              *)
LEMMA AwaitKeeps ==
    ASSUME UploadInv, NEW r \in Uploads,
           U!Started(r) \/ U!Collect(r) \/ U!Overflow(r) \/ U!DecodeTimeout(r)
    PROVE  UploadInv'
<1>1. Intake(v1[r], v4[r], r \in v2, r \in v5, r \in v6)
  BY DEF UploadInv
<1>2. v1[r].pc \in {"spawning", "decoding"}
  BY DEF U!Started, U!Collect, U!Overflow, U!DecodeTimeout
<1>3. v1[r].pc \in Inside
  BY <1>2 DEF Inside
<1>4. CASE U!Leave(r, "unavailable")
  BY <1>3, <1>4, LeaveKeeps
<1>5. CASE U!Collect(r)
  <2>1. v4[r] \in Decoder /\ v4[r].pc = "gone"
    BY <1>1, <1>5 DEF Intake, U!Collect
  <2>2. v4[r].exit = "photo" => v4[r] = [pc |-> "gone", exit |-> "photo"]
    BY <2>1 DEF Decoder
  <2> PICK result : result = U!Decoded(v4[r].exit)
    OBVIOUS
  <2>3. /\ result \in {"photo", "refused", "unavailable"} /\ U!Leave(r, result)
        /\ result = "photo" => v4[r].exit = "photo"
    BY <1>5 DEF U!Collect, U!Decoded
  <2> QED
    BY <1>3, <2>2, <2>3, LeaveKeeps
<1>6. CASE U!To(r, [v1[r] EXCEPT !.pc = "decoding"]) /\ UNCHANGED <<v2, v3, v4, v5, v6>>
  <2> PICK x : x = [v1[r] EXCEPT !.pc = "decoding"]
    OBVIOUS
  <2>1. /\ x \in Handling /\ x.pc = "decoding" /\ x.result = v1[r].result
        /\ x.got = v1[r].got /\ x.total = v1[r].total /\ x.answer = v1[r].answer
    BY <1>1 DEF Intake, Handling
  <2>2. v1[r].result = "none"
    BY <1>1, <1>2 DEF Intake
  <2> QED
    BY <1>3, <1>6, <2>1, <2>2, InsideKeeps DEF Inside, U!To
<1> QED
  BY <1>4, <1>5, <1>6 DEF U!Started, U!Overflow, U!DecodeTimeout

(* The timer or the server cancels a handler.                                *)
LEMMA CancelKeeps ==
    ASSUME UploadInv, NEW r \in Uploads, U!Cancel(r)
    PROVE  UploadInv'
<1>1. Intake(v1[r], v4[r], r \in v2, r \in v5, r \in v6) /\ UNCHANGED <<v3, v4, v5, v6>>
  BY DEF UploadInv, U!Cancel
<1>2. PICK by \in {"timer", "server"} :
        LET y == IF v1[r].by = "server" THEN v1[r].by ELSE by
            a == IF by = "timer" THEN "unavailable" ELSE "none"
        IN  \/ /\ v1[r].pc = "intake" /\ v2' = v2 \ {r}
               /\ U!To(r, [v1[r] EXCEPT !.by = y, !.pc = "done", !.answer = a])
            \/ /\ v1[r].pc \in Inside /\ UNCHANGED v2
               /\ U!To(r, [v1[r] EXCEPT !.by = y, !.pc = "cleanup"])
  BY DEF U!Cancel, Inside
<1> PICK y : y = IF v1[r].by = "server" THEN v1[r].by ELSE by
  OBVIOUS
<1> PICK a : a = IF by = "timer" THEN "unavailable" ELSE "none"
  OBVIOUS
<1>3. y \in {"timer", "server"} /\ a \in {"unavailable", "none"}
  OBVIOUS
<1>4. CASE /\ v1[r].pc = "intake" /\ v2' = v2 \ {r}
           /\ U!To(r, [v1[r] EXCEPT !.by = y, !.pc = "done", !.answer = a])
  <2> PICK x : x = [v1[r] EXCEPT !.by = y, !.pc = "done", !.answer = a]
    OBVIOUS
  <2>1. x \in Handling /\ x.pc = "done" /\ x.answer = a /\ x.result = v1[r].result
    <3>1. v1[r] \in Handling
      BY <1>1 DEF Intake
    <3>2. y \in {"none", "timer", "server"} /\ a \in {"none", "stored", "refused", "unavailable"}
      BY <1>3
    <3>3. x \in Handling
      BY <3>1, <3>2, ZenonT(60) DEF Handling
    <3>4. x.pc = "done" /\ x.answer = a /\ x.result = v1[r].result
      BY <3>1 DEF Handling
    <3> QED
      BY <3>3, <3>4
  <2>2. v1' = [v1 EXCEPT ![r] = x] /\ v1[r].pc \notin Inside /\ x.pc \notin Inside
    BY <1>4, <2>1 DEF U!To, Inside
  <2>3. Intake(x, v4[r], r \in v2', r \in v5', r \in v6')
    BY <1>1, <1>3, <1>4, <2>1 DEF Intake, Inside
  <2> QED
    BY <1>1, <1>4, <2>2, <2>3, HandlerMoves DEF UploadInv
<1>5. CASE /\ v1[r].pc \in Inside /\ UNCHANGED v2
           /\ U!To(r, [v1[r] EXCEPT !.by = y, !.pc = "cleanup"])
  <2> PICK x : x = [v1[r] EXCEPT !.by = y, !.pc = "cleanup"]
    OBVIOUS
  <2>1. /\ x \in Handling /\ x.pc = "cleanup" /\ x.result = v1[r].result
        /\ x.got = v1[r].got /\ x.total = v1[r].total /\ x.answer = v1[r].answer
    BY <1>1, <1>3 DEF Intake, Handling
  <2>2. x.result = "photo" => v4[r] = [pc |-> "gone", exit |-> "photo"]
    BY <1>1, <2>1 DEF Intake
  <2> QED
    BY <1>1, <1>5, <2>1, <2>2, InsideKeeps DEF Inside, U!To
<1> QED
  BY <1>2, <1>4, <1>5

(* The photo is written: stored, or sent without a confirmation.             *)
LEMMA WriteKeeps ==
    ASSUME UploadInv, NEW r \in Uploads, U!Write(r), UNCHANGED v4, v3' = FALSE,
           v1[r].pc = "cleanup", v1[r].by = "none", v1[r].result = "photo"
    PROVE  UploadInv'
<1>1. Intake(v1[r], v4[r], r \in v2, r \in v5, r \in v6)
  BY DEF UploadInv
<1>2. /\ r \in v2 /\ r \notin v5 \cup v6 /\ v1[r].got = v1[r].total
      /\ v4[r] = [pc |-> "gone", exit |-> "photo"]
  BY <1>1 DEF Intake, Inside
<1>3. CASE /\ \E a \in {"refused", "unavailable"} : U!Return(r, a)
           /\ UNCHANGED <<v5, v6>>
  <2>1. v4[r].pc \notin U!Running /\ UNCHANGED <<v4, v5, v6>>
    BY <1>2, <1>3 DEF U!Running
  <2> QED
    BY <1>2, <1>3, <2>1, ReturnKeeps
<1>4. ASSUME NEW a \in {"stored", "unavailable"}, U!Return(r, a),
             \/ a = "stored" /\ v5' = v5 \cup {r} /\ UNCHANGED v6
             \/ a = "unavailable" /\ v6' = v6 \cup {r} /\ UNCHANGED v5
      PROVE  UploadInv'
  <2> PICK x : x = [v1[r] EXCEPT !.pc = "done", !.answer = a]
    OBVIOUS
  <2>1. v1' = [v1 EXCEPT ![r] = x] /\ v2' = v2 \ {r}
    BY <1>4 DEF U!Return, U!To
  <2>2. /\ x \in Handling /\ x.pc = "done" /\ x.answer = a /\ x.by = "none"
        /\ x.got = v1[r].got /\ x.total = v1[r].total /\ x.result = "photo"
    BY <1>1 DEF Intake, Handling
  <2>3. a = "stored" => r \in v5'
    BY <1>4
  <2>4. Intake(x, v4[r], r \in v2', r \in v5', r \in v6')
    BY <1>1, <1>2, <2>1, <2>2, <2>3 DEF Intake, Inside, U!Running
  <2>5. x.pc \notin Inside /\ v2' # {r}
    BY <2>1, <2>2 DEF Inside
  <2> QED
    BY <1>2, <1>4, <2>1, <2>4, <2>5, HandlerMoves
<1> QED
  BY <1>3, <1>4 DEF U!Write

(* Cleanup is over and the decoder free: the photo is written or not.        *)
LEMMA FinishKeeps ==
    ASSUME UploadInv, NEW r \in Uploads, U!Finish(r)
    PROVE  UploadInv'
<1>1. /\ v1[r].pc = "cleanup" /\ v4[r].pc \in U!Ended /\ v3' = FALSE /\ UNCHANGED v4
  BY DEF U!Finish, U!CleanedUp
<1>2. Intake(v1[r], v4[r], r \in v2, r \in v5, r \in v6)
  BY DEF UploadInv
<1>3. r \in v2 /\ v4[r].pc \notin U!Running /\ v1[r].pc # "done"
  BY <1>1, <1>2 DEF Intake, U!Ended, U!Running, Inside
<1>4. ASSUME NEW a \in {"none", "refused", "unavailable"}, U!Return(r, a),
             UNCHANGED <<v5, v6>>
      PROVE  UploadInv'
  BY <1>1, <1>3, <1>4, ReturnKeeps
<1>5. CASE U!Cancelled(r)
  BY <1>4, <1>5 DEF U!Finish
<1>6. CASE ~U!Cancelled(r) /\ v1[r].result # "photo"
  <2>1. v1[r].result \in {"none", "refused", "unavailable"}
    BY <1>2, <1>6 DEF Intake, Handling
  <2>2. U!Return(r, v1[r].result) /\ UNCHANGED <<v5, v6>>
    BY <1>6 DEF U!Finish
  <2> QED
    BY <1>4, <2>1, <2>2
<1>7. CASE ~U!Cancelled(r) /\ v1[r].result = "photo"
  <2>1. U!Write(r) /\ v1[r].by = "none"
    BY <1>2, <1>7 DEF U!Finish, U!Cancelled, Intake, Handling
  <2> QED
    BY <1>1, <1>7, <2>1, WriteKeeps
<1> QED
  BY <1>5, <1>6, <1>7

(* A write without a confirmation takes effect.                              *)
LEMMA LandKeeps ==
    ASSUME UploadInv, NEW r \in Uploads, U!Land(r)
    PROVE  UploadInv'
<1>1. /\ r \in v6 /\ v5' = v5 \cup {r} /\ v6' = v6 \ {r}
      /\ UNCHANGED <<v1, v2, v3, v4>>
  BY DEF U!Land
<1>2. Intake(v1[r], v4[r], r \in v2, r \in v5, r \in v6)
  BY DEF UploadInv
<1>3. Intake(v1[r], v4[r], r \in v2', r \in v5', r \in v6')
  BY <1>1, <1>2 DEF Intake
<1>4. PICK x : x = v1[r]
  OBVIOUS
<1>5. v1' = [v1 EXCEPT ![r] = x] /\ v3' \in BOOLEAN
  BY <1>1, <1>4 DEF UploadInv
<1>6. Intake(x, v4[r], r \in v2', r \in v5', r \in v6')
  BY <1>3, <1>4
<1> QED
  BY <1>1, <1>4, <1>5, <1>6, HandlerMoves

(* Every step keeps the invariant.                                           *)
LEMMA UploadKeeps ==
    ASSUME UploadInv, [U!Next]_(U!vars)
    PROVE  UploadInv'
<1>1. CASE UNCHANGED U!vars
  BY <1>1 DEF U!vars, UploadInv
<1>2. CASE U!Next
  <2> PICK r \in Uploads :
        \/ U!Replace(r) \/ U!Chunk(r) \/ U!EndOfBody(r) \/ U!Disconnect(r) \/ U!Overflow(r)
        \/ U!Exit(r) \/ U!Cancel(r) \/ U!Handler(r) \/ U!Timer(r) \/ U!System(r)
        \/ U!Land(r)
    BY <1>2 DEF U!Next
  <2> QED
    BY ReplaceKeeps, ChunkKeeps, EndOfBodyKeeps, IntakeEnds, WorkerKeeps,
       AwaitKeeps,
       CancelKeeps, FinishKeeps, LandKeeps
       DEF U!Handler, U!Timer, U!System
<1> QED
  BY <1>1, <1>2

-----------------------------------------------------------------------------
(* The components together: a behaviour is one of one component.             *)

Inv ==
    /\ focus = "turn" => TurnInv
    /\ focus = "intent" => IntentInv
    /\ focus = "files" => FilesInv
    /\ focus = "policy" => PolicyInv
    /\ focus = "upload" => UploadInv

(* A step of a component keeps its invariant, and one of the files removes   *)
(* for a reason; all others pause.                                           *)
LEMMA StepKeeps ==
    ASSUME Inv, [Next]_vars
    PROVE  Inv' /\ (focus = "files" => F!Removal /\ F!Finality)
<1>1. focus' = focus
  BY DEF Next, Turn, Intent, File, Policy, Upload, Rest, vars
<1>2. UNCHANGED vars => UNCHANGED <<L!vars, I!vars, F!vars, P!vars, U!vars>>
  BY DEF vars, turn, last, intent, policy, upload, L!vars, I!vars,
         F!vars, F!jobs, P!vars, U!vars
<1>3. CASE focus = "turn"
  <2>1. [L!Next]_(L!vars)
    BY <1>2, <1>3 DEF Next, Turn, Intent, File, Policy, Upload, Rest
  <2> QED
    BY <1>1, <1>3, <2>1, TurnKeeps DEF Inv
<1>4. CASE focus = "intent"
  <2>1. [I!Next]_(I!vars)
    BY <1>2, <1>4 DEF Next, Turn, Intent, File, Policy, Upload, Rest
  <2> QED
    BY <1>1, <1>4, <2>1, IntentKeeps DEF Inv
<1>5. CASE focus = "files"
  <2>1. [F!Next]_(F!vars)
    BY <1>2, <1>5 DEF Next, Turn, Intent, File, Policy, Upload, Rest
  <2> QED
    BY <1>1, <1>5, <2>1, FilesKeep DEF Inv
<1>6. CASE focus = "policy"
  <2>1. [P!Next]_(P!vars)
    BY <1>2, <1>6 DEF Next, Turn, Intent, File, Policy, Upload, Rest
  <2> QED
    BY <1>1, <1>6, <2>1, PolicyKeeps DEF Inv
<1>7. CASE focus = "upload"
  <2>1. [U!Next]_(U!vars)
    BY <1>2, <1>7 DEF Next, Turn, Intent, File, Policy, Upload, Rest
  <2> QED
    BY <1>1, <1>7, <2>1, UploadKeeps DEF Inv
<1> QED
  BY <1>1, <1>3, <1>4, <1>5, <1>6, <1>7 DEF Inv

(* The invariant holds throughout.                                           *)
LEMMA Invariance == Spec => []Inv
<1>1. Init => Inv
  BY TurnBegins, IntentBegins, FilesBegin, PolicyBegins, UploadBegins
     DEF Init, Inv
<1>2. Inv /\ [Next]_vars => Inv'
  BY StepKeeps
<1> QED
  BY <1>1, <1>2, PTL DEF Spec

(* The variables of the five components have the values of their tables.     *)
THEOREM TypesHold == Spec => []TypeOK
<1>1. Inv => TypeOK
  BY FilesSafe, IntentSafe, PolicySafe, UploadSafe DEF Inv, TypeOK, TurnInv
<1> QED
  BY <1>1, Invariance, PTL

(* The model's text is answered only on the evidence that the policies of    *)
(* the routed specialists require, however many are routed and whoever of    *)
(* them fails (LiRuntime.run).                                               *)
THEOREM EvidenceIsThere == Spec => []EvidenceHolds
<1>1. Inv => EvidenceHolds
  BY DEF Inv, TurnInv, EvidenceHolds
<1> QED
  BY <1>1, Invariance, PTL

(* A specialist is credited only for stored advice that the answer used      *)
(* (LiRuntime.run).                                                          *)
THEOREM CreditsAreEarned == Spec => []CreditIsEarned
<1>1. Inv => CreditIsEarned
  BY DEF Inv, TurnInv, CreditIsEarned
<1> QED
  BY <1>1, Invariance, PTL

(* Actions are proposed only by an answer that kept its contract             *)
(* (LiRuntime.run).                                                          *)
THEOREM ProposalsHaveGround == Spec => []ProposalsAreFounded
<1>1. Inv => ProposalsAreFounded
  BY DEF Inv, TurnInv, ProposalsAreFounded
<1> QED
  BY <1>1, Invariance, PTL

(* One request at most ever takes an intent to its provider, after the owner *)
(* approved it, for any number of requests (decide_intent).                  *)
THEOREM IntentExecutesOnce == Spec => []SingleExecution
<1>1. Inv => SingleExecution
  BY IntentSafe DEF Inv, SingleExecution
<1> QED
  BY <1>1, Invariance, PTL

(* What the row of an intent says happened is what happened at the provider, *)
(* and what its owner was told stays so (resolve_action_intent).             *)
THEOREM IntentOutcomeHolds == Spec => []OutcomeIsTrue
<1>1. Inv => OutcomeIsTrue
  BY IntentSafe DEF Inv, OutcomeIsTrue
<1> QED
  BY <1>1, Invariance, PTL

(* An object is removed at its owner's request or because it is due, before  *)
(* its row is marked, and a marked row is final, whatever jobs overlap and   *)
(* wherever one is interrupted (retention_job).                              *)
THEOREM RemovalsHaveReason == Spec => RemovedForAReason
<1>1. Inv => (focus = "files" => F!RemovedThenMarked)
  BY FilesSafe DEF Inv
<1>2. Inv /\ [Next]_vars => [focus = "files" => F!Removal /\ F!Finality]_vars
  BY StepKeeps
<1> QED
  BY <1>1, <1>2, Invariance, PTL DEF Spec, RemovedForAReason

(* The versions of the policy are one chain, whatever decisions and          *)
(* rollbacks meet (decide_action_policy_change, rollback_action_policy).     *)
THEOREM PolicyIsOneChain == Spec => []OneChain
<1>1. Inv => OneChain
  BY PolicySafe DEF Inv, OneChain
<1> QED
  BY <1>1, Invariance, PTL

(* A version was approved once, against the version before it                *)
(* (decide_action_policy_change).                                            *)
THEOREM ApprovalMeetsPredecessor == Spec => []ReviewedAgainstPredecessor
<1>1. Inv => ReviewedAgainstPredecessor
  BY PolicySafe DEF Inv, ReviewedAgainstPredecessor
<1> QED
  BY <1>1, Invariance, PTL

(* A decoder process lives only within the request that holds lock and       *)
(* decoder, whoever is cancelled, times out or disconnects                   *)
(* (DecoderProcess.normalize).                                               *)
THEOREM WorkersHaveOwners == Spec => []WorkerHasOwner
<1>1. Inv => WorkerHasOwner
  BY UploadSafe DEF Inv, WorkerHasOwner
<1> QED
  BY <1>1, Invariance, PTL

(* A photo is stored only if it is whole, well decoded and wanted to the     *)
(* end; who is told so stored it, who is refused never does (collect_upload, *)
(* ProfileApplication.replace, ProfileState._write).                         *)
THEOREM PhotosAreMeant == Spec => []StoredIsMeant
<1>1. Inv => StoredIsMeant
  BY UploadSafe DEF Inv, StoredIsMeant
<1> QED
  BY <1>1, Invariance, PTL
=============================================================================
