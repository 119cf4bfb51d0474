---------------------------- MODULE RecordsProofs ----------------------------
(* Proofs about MemoryStore and MobilePlace, as MCRecords instantiates them, *)
(* for any number of statements, reviews, captures, devices, observations    *)
(* and calls.                                                                *)
(*                                                                           *)
(* Memory: what makes its properties inductive is that a capture from a      *)
(* private source never proposes, that a review which has looked for a       *)
(* duplicate holds its proposal's row alone until it commits, and that what  *)
(* is approved names the record it became. Here v1 are the records, v2 the   *)
(* links, v3 the proposals, v4 the capture, v5 the reviews, v6 `refused'.    *)
EXTENDS MCRecords, Sequences, FiniteSets, FiniteSetTheorems, WellFoundedInduction, TLAPS

(* The instances of the components have their own copies of FiniteSets.      *)
LEMMA SameCardinality ==
    ASSUME NEW X
    PROVE  /\ S!Cardinality(X) = Cardinality(X) /\ M!Cardinality(X) = Cardinality(X)
           /\ M!IsFiniteSet(X) = IsFiniteSet(X)
<1>1. S!Cardinality(X) = Cardinality(X)
  BY DEF S!Cardinality, Cardinality
<1>2. M!Cardinality(X) = Cardinality(X)
  BY DEF M!Cardinality, Cardinality
<1>3. M!IsFiniteSet(X) = IsFiniteSet(X)
  BY DEF M!IsFiniteSet, IsFiniteSet
<1> QED
  BY <1>1, <1>2, <1>3

PrivateRecord(r) == ~r.deleted /\ r.drawn => r.private_to_li

(* A store whose records hold privately what was drawn from a private        *)
(* source, and whose history leads to outdated, remembered records.          *)
Sound(s) ==
    /\ s.records \in Seq(S!Records) /\ Len(s.records) <= MaxRecords
    /\ \A i \in DOMAIN s.records : PrivateRecord(s.records[i])
    /\ s.links \subseteq (DOMAIN s.records) \X (DOMAIN s.records)
    /\ \A l \in s.links : /\ ~s.records[l[1]].deleted /\ ~s.records[l[2]].deleted
                          /\ s.records[l[2]].truth = "outdated"

(* A store that a client's call may commit over the present one: whatever it *)
(* adds is explicit.                                                         *)
Evolves(s) ==
    /\ Sound(s)
    /\ Len(v1) <= Len(s.records)
    /\ \A i \in DOMAIN v1 : s.records[i].class = v1[i].class
    /\ \A i \in DOMAIN s.records : i > Len(v1) => s.records[i].class = "explicit"

StoreInv == Sound(S!Store)

(* One record of the store is changed, and still says how it may be used.    *)
LEMMA ChangedEvolves ==
    ASSUME StoreInv, NEW i \in DOMAIN v1, NEW r \in S!Records,
           r.class = v1[i].class, PrivateRecord(r), r.deleted = v1[i].deleted,
           v1[i].truth = "outdated" => r.truth = "outdated"
    PROVE  Evolves([records |-> [v1 EXCEPT ![i] = r], links |-> v2])
BY DEF StoreInv, Evolves, Sound, S!Store

(* A new record leaves the store sound if it says how it may be used.        *)
LEMMA AppendedSound ==
    ASSUME StoreInv, NEW r \in S!Records, Len(v1) < MaxRecords, MaxRecords \in Nat,
           PrivateRecord(r)
    PROVE  /\ Sound([records |-> Append(v1, r), links |-> v2])
           /\ r.class = "explicit" => Evolves([records |-> Append(v1, r), links |-> v2])
<1> DEFINE rs == Append(v1, r)
<1>1. v1 \in Seq(S!Records) /\ rs \in Seq(S!Records) /\ Len(rs) = Len(v1) + 1
  BY DEF StoreInv, Sound, S!Store
<1>2. \A i \in DOMAIN v1 : i \in DOMAIN rs /\ rs[i] = v1[i]
  BY <1>1
<1>3. rs[Len(rs)] = r
  BY <1>1
<1>4. \A i \in DOMAIN rs : i \in DOMAIN v1 \/ i = Len(rs)
  BY <1>1
<1>5. v2 \subseteq (DOMAIN v1) \X (DOMAIN v1)
  BY DEF StoreInv, Sound, S!Store
<1> HIDE DEF rs
<1>6. Sound([records |-> rs, links |-> v2])
  BY <1>1, <1>2, <1>3, <1>4, <1>5 DEF StoreInv, Sound, S!Store
<1>7. ASSUME r.class = "explicit"
      PROVE  Evolves([records |-> rs, links |-> v2])
  BY <1>1, <1>2, <1>3, <1>4, <1>6, <1>7 DEF Evolves
<1> QED
  BY <1>6, <1>7 DEF rs

(* A statement that is stored, anew or again.                                *)
LEMMA StoredEvolves ==
    ASSUME StoreInv, NEW v \in Values, NEW d \in Spellings, NEW p \in BOOLEAN,
           Len(v1) < MaxRecords, MaxRecords \in Nat,
           NEW s \in S!Stored(v, d, p)
    PROVE  Evolves(s)
<1>1. CASE S!Current(v) = {}
  <2>1. s = [records |-> Append(v1, S!Stated(v, d, p)), links |-> v2]
    BY <1>1 DEF S!Stored, S!Store
  <2>2. S!Stated(v, d, p) \in S!Records /\ S!Stated(v, d, p).class = "explicit"
        /\ PrivateRecord(S!Stated(v, d, p))
    BY DEF S!Stated, S!Records, PrivateRecord
  <2> QED
    BY <2>1, <2>2, AppendedSound
<1>2. CASE S!Current(v) # {}
  <2>1. PICK i \in S!Current(v) :
            s = [S!Store EXCEPT !.records[i].sensitive = FALSE,
                        !.records[i].private_to_li = @ \/ p,
                        !.records[i].drawn = @ \/ p]
    BY <1>2 DEF S!Stored
  <2>2. i \in DOMAIN v1 /\ v1[i] \in S!Records /\ PrivateRecord(v1[i])
    BY DEF S!Current, S!Explicit, S!Live, StoreInv, Evolves, Sound, S!Store
  <2> DEFINE r == [v1[i] EXCEPT !.sensitive = FALSE, !.private_to_li = @ \/ p, !.drawn = @ \/ p]
  <2>3. s = [records |-> [v1 EXCEPT ![i] = r], links |-> v2]
    BY <2>1, <2>2 DEF S!Store, S!Records
  <2>4. r \in S!Records /\ r.class = v1[i].class /\ PrivateRecord(r)
        /\ r.deleted = v1[i].deleted /\ r.truth = v1[i].truth
    BY <2>2 DEF S!Records, PrivateRecord
  <2> QED
    BY <2>2, <2>3, <2>4, ChangedEvolves
<1> QED
  BY <1>1, <1>2

(* An old record is retired in favour of another that is remembered.         *)
LEMMA RetiredEvolves ==
    ASSUME NEW s, Evolves(s), NEW i \in DOMAIN v1, NEW by \in DOMAIN s.records,
           ~s.records[i].deleted, ~s.records[by].deleted, v1 \in Seq(S!Records)
    PROVE  Evolves(S!Retired(s, i, by))
<1> DEFINE old == s.records[i]
           new == [old EXCEPT !.truth = "outdated", !.temporal = "historical"]
           rs == [s.records EXCEPT ![i] = new]
<1>1. s.records \in Seq(S!Records) /\ Len(v1) <= Len(s.records)
  BY DEF Evolves, Sound
<1>2. i \in DOMAIN s.records /\ old \in S!Records
  <2>1. CASE v1 = <<>>
    BY <2>1
  <2>2. i \in 1..Len(s.records)
    BY <1>1 DEF Evolves, Sound
  <2> QED
    BY <1>1, <2>2
<1>3. S!Retired(s, i, by) = [records |-> rs, links |-> s.links \cup {<<by, i>>}]
  BY <1>2 DEF S!Retired, S!Records
<1>4. new \in S!Records /\ new.class = old.class /\ new.deleted = old.deleted
      /\ new.truth = "outdated" /\ (PrivateRecord(old) => PrivateRecord(new))
  BY <1>2 DEF S!Records, PrivateRecord
<1>5. rs \in Seq(S!Records) /\ Len(rs) = Len(s.records) /\ DOMAIN rs = DOMAIN s.records
  BY <1>1, <1>2, <1>4
<1>6. \A j \in DOMAIN rs : rs[j] = IF j = i THEN new ELSE s.records[j]
  BY <1>2, <1>5
<1> DEFINE ls == s.links \cup {<<by, i>>}
<1>7. ls \subseteq (DOMAIN rs) \X (DOMAIN rs)
  BY <1>2, <1>5 DEF Evolves, Sound
<1>8. \A l \in ls : ~rs[l[1]].deleted /\ ~rs[l[2]].deleted /\ rs[l[2]].truth = "outdated"
  <2> SUFFICES ASSUME NEW l \in ls
               PROVE  ~rs[l[1]].deleted /\ ~rs[l[2]].deleted /\ rs[l[2]].truth = "outdated"
    OBVIOUS
  <2>1. CASE l \in s.links
    <3>1. l[1] \in DOMAIN rs /\ l[2] \in DOMAIN rs
      BY <1>7
    <3>2. ~s.records[l[1]].deleted /\ ~s.records[l[2]].deleted
          /\ s.records[l[2]].truth = "outdated"
      BY <2>1 DEF Evolves, Sound
    <3> HIDE DEF rs, new
    <3> QED
      BY <1>4, <1>6, <3>1, <3>2
  <2>2. CASE l = <<by, i>>
    <3> HIDE DEF rs, new
    <3> QED
      BY <1>2, <1>4, <1>5, <1>6, <2>2
  <2> QED
    BY <2>1, <2>2
<1>9. \A j \in DOMAIN rs : PrivateRecord(rs[j]) /\ rs[j].class = s.records[j].class
  <2> HIDE DEF rs, new
  <2> QED
    BY <1>4, <1>5, <1>6 DEF Evolves, Sound
<1> HIDE DEF rs, ls
<1>10. DOMAIN v1 \subseteq DOMAIN rs
  BY <1>1, <1>5
<1>11. (\A j \in DOMAIN v1 : rs[j].class = v1[j].class)
       /\ (\A j \in DOMAIN rs : j > Len(v1) => rs[j].class = "explicit")
  BY <1>5, <1>9, <1>10 DEF Evolves, Sound
<1>12. Len(v1) <= Len(rs) /\ Len(rs) <= MaxRecords
  BY <1>5 DEF Evolves, Sound
<1> DEFINE t == [records |-> rs, links |-> ls]
<1>13. t.records = rs /\ t.links = ls
  OBVIOUS
<1> HIDE DEF t
<1>14. Evolves(t)
  BY <1>5, <1>7, <1>8, <1>9, <1>11, <1>12, <1>13 DEF Evolves, Sound
<1> QED
  BY <1>3, <1>14 DEF t, ls

(* A statement that is corrected: confirmed, replaced by one that is known,  *)
(* or replaced by a new one.                                                 *)
LEMMA CorrectedEvolves ==
    ASSUME StoreInv, NEW v \in Values, NEW d \in Spellings, NEW p \in BOOLEAN, NEW i,
           Len(v1) < MaxRecords, MaxRecords \in Nat,
           NEW s \in S!Corrected(i, v, d, p)
    PROVE  Evolves(s)
<1> DEFINE old == v1[i]
<1>1. i \in DOMAIN v1 /\ ~v1[i].deleted /\ v1[i].truth # "outdated"
  BY DEF S!Corrected, S!InOrder, S!Correctable, S!Explicit, S!Live
<1>2. v1 \in Seq(S!Records) /\ old \in S!Records /\ PrivateRecord(old)
  BY <1>1 DEF StoreInv, Evolves, Sound, S!Store
<1>3. CASE old.value = v
  <2> DEFINE r == [old EXCEPT !.truth = "confirmed", !.private_to_li = @ \/ p,
                              !.drawn = @ \/ p]
  <2>1. s = [S!Store EXCEPT !.records[i].truth = "confirmed",
                            !.records[i].private_to_li = @ \/ p, !.records[i].drawn = @ \/ p]
    BY <1>3 DEF S!Corrected
  <2>2. s = [records |-> [v1 EXCEPT ![i] = r], links |-> v2]
    BY <1>1, <1>2, <2>1 DEF S!Store, S!Records
  <2>3. r \in S!Records /\ r.class = old.class /\ PrivateRecord(r) /\ r.deleted = old.deleted
    BY <1>2 DEF S!Records, PrivateRecord
  <2> QED
    BY <1>1, <2>2, <2>3, ChangedEvolves
<1>4. CASE old.value # v /\ S!Known(i, v) # {}
  <2>1. PICK j \in S!Known(i, v) : s \in S!Committed(S!Retired(
                 [S!Store EXCEPT !.records[j].truth = "confirmed",
                            !.records[j].private_to_li = @ \/ old.private_to_li \/ p,
                            !.records[j].drawn = @ \/ old.drawn \/ p], i, j))
    BY <1>4 DEF S!Corrected
  <2>3. j \in DOMAIN v1 /\ j # i /\ ~v1[j].deleted /\ v1[j].truth # "outdated"
        /\ v1[j] \in S!Records /\ PrivateRecord(v1[j])
    BY <1>2
       DEF S!Known, S!Current, S!Explicit, S!Live, StoreInv, Evolves, Sound,
       S!Store
  <2> DEFINE a == v1[j].private_to_li \/ old.private_to_li \/ p
             b == v1[j].drawn \/ old.drawn \/ p
             r == [v1[j] EXCEPT !.truth = "confirmed", !.private_to_li = a, !.drawn = b]
         t == [records |-> [v1 EXCEPT ![j] = r], links |-> v2]
  <2>4. s = S!Retired(t, i, j)
    <3>1. t = [S!Store EXCEPT !.records[j].truth = "confirmed",
                            !.records[j].private_to_li = @ \/ old.private_to_li \/ p,
                            !.records[j].drawn = @ \/ old.drawn \/ p]
      <4>1. ASSUME NEW u,
                   u = [S!Store EXCEPT !.records[j].truth = "confirmed",
                            !.records[j].private_to_li = a, !.records[j].drawn = b]
            PROVE  u = t
        <5> HIDE DEF a, b
        <5> QED
          BY <2>3, <4>1 DEF S!Store, S!Records
      <4> HIDE DEF t
      <4> QED
        BY <4>1 DEF S!Store
    <3> QED
      BY <2>1, <3>1 DEF S!Committed
  <2>5. r \in S!Records /\ r.class = v1[j].class /\ PrivateRecord(r) /\ r.deleted = v1[j].deleted
    BY <1>1, <1>2, <2>3 DEF S!Records, PrivateRecord
  <2> HIDE DEF r
  <2>6. Evolves(t)
    BY <2>3, <2>5, ChangedEvolves
  <2>7. ~t.records[i].deleted /\ ~t.records[j].deleted /\ j \in DOMAIN t.records
    BY <1>1, <1>2, <2>3, <2>5
  <2> HIDE DEF t
  <2> QED
    BY <1>1, <1>2, <2>4, <2>6, <2>7, RetiredEvolves
<1>5. CASE old.value # v /\ S!Known(i, v) = {}
  <2> DEFINE r == [S!Stated(v, d, p \/ old.private_to_li) EXCEPT !.drawn = p \/ old.drawn]
             t == [S!Store EXCEPT !.records = Append(@, r)]
  <2>1. s = S!Retired(t, i, Len(t.records))
    BY <1>5 DEF S!Corrected, S!Committed
  <2>2. r \in S!Records /\ r.class = "explicit" /\ PrivateRecord(r) /\ ~r.deleted
    BY <1>1, <1>2 DEF S!Stated, S!Records, PrivateRecord
  <2>3. t = [records |-> Append(v1, r), links |-> v2]
    BY DEF S!Store
  <2> HIDE DEF t, r
  <2>4. Evolves(t)
    BY <2>2, <2>3, AppendedSound
  <2>5. Len(t.records) \in DOMAIN t.records /\ t.records[Len(t.records)] = r
        /\ t.records[i] = v1[i]
    BY <1>1, <1>2, <2>2, <2>3
  <2> QED
    BY <1>1, <1>2, <2>1, <2>2, <2>4, <2>5, RetiredEvolves
<1> QED
  BY <1>3, <1>4, <1>5

(* A record that is forgotten; what led to it is gone too.                   *)
LEMMA ForgottenEvolves ==
    ASSUME StoreInv, NEW i \in DOMAIN v1, NEW s \in S!Forgotten(i)
    PROVE  Evolves(s)
<1> DEFINE r == [v1[i] EXCEPT !.deleted = TRUE, !.value = S!Tombstone,
                            !.truth = "outdated", !.temporal = "historical",
                            !.private_to_li = TRUE, !.drawn = FALSE]
           rs == [v1 EXCEPT ![i] = r]
           ls == {l \in v2 : i \notin {l[1], l[2]}}
<1>1. v1 \in Seq(S!Records) /\ v1[i] \in S!Records
  BY DEF StoreInv, Evolves, Sound, S!Store
<1>2. s = [records |-> rs, links |-> ls]
  BY <1>1 DEF S!Forgotten, S!Records
<1>3. r \in S!Records /\ r.class = v1[i].class /\ PrivateRecord(r)
  BY <1>1 DEF S!Records, PrivateRecord, S!Tombstone
<1>4. rs \in Seq(S!Records) /\ Len(rs) = Len(v1) /\ DOMAIN rs = DOMAIN v1
      /\ \A j \in DOMAIN rs : rs[j] = IF j = i THEN r ELSE v1[j]
  BY <1>1, <1>3
<1>5. \A l \in ls : l \in v2 /\ l[1] # i /\ l[2] # i
  OBVIOUS
<1> HIDE DEF r, rs, ls
<1> QED
  BY <1>2, <1>3, <1>4, <1>5 DEF StoreInv, Evolves, Sound, S!Store

-----------------------------------------------------------------------------
(* A bounded, nonempty set of positions has a greatest: of the sets of what  *)
(* is above each, one is minimal.                                            *)
LEMMA GreatestExists ==
    ASSUME NEW n \in Nat, NEW ids, ids \subseteq 1..n, ids # {}
    PROVE  \E i \in ids : \A j \in ids : j <= i
<1> DEFINE above(i) == {j \in ids : i < j}
           family == {above(i) : i \in ids}
<1>1. IsFiniteSet(ids)
  <2>1. IsFiniteSet(1..n)
    BY FS_Interval
  <2> QED
    BY <2>1, FS_Subset
<1>2. family \subseteq FiniteSubsetsOf(ids)
  BY <1>1, FS_Subset DEF FiniteSubsetsOf
<1>3. family # {}
  OBVIOUS
<1>4. IsWellFoundedOn(StrictSubsetOrdering(ids), FiniteSubsetsOf(ids))
  BY FS_StrictSubsetOrderingWellFounded
<1>5. PICK x \in family : \A y \in family : <<y, x>> \notin StrictSubsetOrdering(ids)
  <2> HIDE DEF family
  <2> QED
    BY <1>2, <1>3, <1>4, WFMin
<1>6. PICK i \in ids : x = above(i)
  BY <1>5
<1>7. ASSUME NEW j \in ids, ~(j <= i) PROVE FALSE
  <2>1. i \in Nat /\ j \in Nat /\ i < j
    BY <1>7
  <2>2. above(j) \subseteq above(i) /\ above(j) # above(i)
    <3>1. j \in above(i) /\ j \notin above(j)
      BY <2>1
    <3>2. \A k \in ids : k \in Nat
      OBVIOUS
    <3>3. \A k \in ids : j < k => i < k
      BY <2>1, <3>2
    <3>4. above(j) \subseteq above(i)
      BY <3>3
    <3> QED
      BY <3>1, <3>4
  <2>3. above(j) \in family /\ above(i) \in SUBSET ids /\ above(j) \in SUBSET ids
    OBVIOUS
  <2>4. <<above(j), x>> \in StrictSubsetOrdering(ids)
    BY <1>6, <2>2, <2>3 DEF StrictSubsetOrdering
  <2> QED
    BY <1>5, <2>3, <2>4
<1> QED
  BY <1>7

(* The newest duplicate is one of the duplicates.                            *)
LEMMA NewestIsOne ==
    ASSUME NEW n \in Nat, NEW ids, ids \subseteq 1..n
    PROVE  S!Newest(ids) \in ids \cup {0}
BY GreatestExists DEF S!Newest, S!None

-----------------------------------------------------------------------------
(* The invariant of the memory store.                                        *)

CaptureInv ==
    /\ v4 \in [pc : {"idle", "applying", "told", "failed"}, private : BOOLEAN,
               proposes : BOOLEAN, left : 0..MaxCandidates, target : S!Ids \cup {S!None}]
    /\ v4.pc = "applying" => v4.left # 0 /\ S!Admitted(v4.private, v4.proposes)
    /\ v4.target # S!None => v4.target \in DOMAIN v1

(* Nothing that was proposed was drawn from a private source, and what Theo  *)
(* asked about and the owner has not confirmed still waits for the owner.    *)
ProposalsInv ==
    /\ v3 \in Seq(S!Proposals) /\ Len(v3) <= MaxProposals
    /\ \A p \in DOMAIN v3 :
        /\ ~v3[p].drawn
        /\ v3[p].awaited => v3[p].status = "needs_user_confirmation"

(* A review that has looked for a duplicate holds its proposal's row alone,  *)
(* and the proposal is as it was.                                            *)
ReviewsInv ==
    /\ v5 \in [Reviews -> [pc : {"idle", "decided", "looked"},
                           proposal : 0..MaxProposals, found : S!Ids \cup {S!None}]]
    /\ \A r \in Reviews : v5[r].pc # "idle" => v5[r].proposal \in DOMAIN v3
    /\ \A r \in Reviews : v5[r].pc = "looked" => v3[v5[r].proposal].status = "pending"
    /\ \A r, q \in Reviews :
        v5[r].pc = "looked" /\ v5[q].pc = "looked" /\ v5[r].proposal = v5[q].proposal => r = q

Approved(p, i) == v3[p].status = "approved" /\ v3[p].result = i

PromotionInv ==
    /\ \A p \in DOMAIN v3 : v3[p].status = "approved" => v3[p].result \in DOMAIN v1
    /\ \A i \in DOMAIN v1 : v1[i].class = "inference" =>
        \E p \in DOMAIN v3 : Approved(p, i) /\ \A q \in DOMAIN v3 : Approved(q, i) => q = p

Bounds == S!BoundsAssumption

MemoryInv ==
    /\ Bounds /\ v6 \in BOOLEAN
    /\ StoreInv /\ CaptureInv /\ ProposalsInv /\ ReviewsInv /\ PromotionInv

(* The empty store.                                                          *)
LEMMA MemoryInitially == Bounds /\ S!Init => MemoryInv
<1> SUFFICES ASSUME Bounds, S!Init PROVE MemoryInv
  OBVIOUS
<1>1. v1 = <<>> /\ v2 = {} /\ v3 = <<>> /\ v6 = FALSE
  BY DEF S!Init
<1>2. StoreInv
  BY <1>1 DEF StoreInv, Evolves, Sound, S!Store, Bounds, S!BoundsAssumption
<1>3. CaptureInv
  BY DEF S!Init, CaptureInv, S!None, Bounds, S!BoundsAssumption
<1>4. ProposalsInv /\ PromotionInv
  BY <1>1 DEF ProposalsInv, PromotionInv, Bounds, S!BoundsAssumption
<1>5. ReviewsInv
  BY DEF S!Init, S!Idle, ReviewsInv, S!None, Bounds, S!BoundsAssumption
<1> QED
  BY <1>1, <1>2, <1>3, <1>4, <1>5 DEF MemoryInv

(* Committing a store keeps what is said of the records.                     *)
LEMMA CommitKeeps ==
    ASSUME MemoryInv, NEW s, Evolves(s), S!Commit(s), UNCHANGED v3
    PROVE  StoreInv' /\ PromotionInv' /\ DOMAIN v1 \subseteq DOMAIN v1'
<1>1. v1' = s.records /\ v2' = s.links
  BY DEF S!Commit
<1>2. v1 \in Seq(S!Records) /\ v1' \in Seq(S!Records) /\ Len(v1) <= Len(v1')
  BY <1>1 DEF MemoryInv, StoreInv, Evolves, Sound, S!Store
<1>3. DOMAIN v1 \subseteq DOMAIN v1'
  BY <1>2
<1>4. StoreInv'
  BY <1>1, <1>2 DEF Evolves, Sound, StoreInv, S!Store, PrivateRecord
<1>5. \A i \in DOMAIN v1' : v1'[i].class = "inference" =>
            i \in DOMAIN v1 /\ v1[i].class = "inference"
  <2> SUFFICES ASSUME NEW i \in DOMAIN v1', v1'[i].class = "inference"
               PROVE  i \in DOMAIN v1 /\ v1[i].class = "inference"
    OBVIOUS
  <2>1. ~(i > Len(v1))
    BY <1>1 DEF Evolves, Sound
  <2>2. i \in DOMAIN v1
    BY <1>2, <2>1
  <2> QED
    BY <1>1, <2>2 DEF Evolves, Sound
<1>6. PromotionInv'
  BY <1>3, <1>5 DEF MemoryInv, PromotionInv, Approved
<1> QED
  BY <1>3, <1>4, <1>6

(* The parts that depend on the stores, the proposals and the reviews.       *)
LEMMA StandsStill ==
    ASSUME MemoryInv, UNCHANGED <<v1, v2, v3, v5>>
    PROVE  StoreInv' /\ PromotionInv' /\ ProposalsInv' /\ ReviewsInv' /\ Bounds'
<1>1. StoreInv'
  BY DEF MemoryInv, StoreInv, Sound, S!Store, PrivateRecord
<1>2. PromotionInv' /\ ProposalsInv' /\ ReviewsInv' /\ Bounds'
  BY DEF MemoryInv, PromotionInv, Approved, ProposalsInv, ReviewsInv, Bounds,
     S!BoundsAssumption
<1> QED
  BY <1>1, <1>2

(* What a capture does with its turn.                                        *)
LEMMA CaptureGoes ==
    ASSUME MemoryInv, v4.pc = "applying", S!Applied \/ S!Failed
    PROVE  CaptureInv'
<1>1. v4.left \in 1..MaxCandidates
  BY DEF MemoryInv, CaptureInv
<1>2. CASE S!Applied
  <2>1. v4.left - 1 \in 0..MaxCandidates /\ (v4.left # 1 => v4.left - 1 # 0)
    BY <1>1 DEF MemoryInv, Bounds, S!BoundsAssumption
  <2> DEFINE k == IF v4.left = 1 THEN "told" ELSE "applying"
  <2>2. v4' = [v4 EXCEPT !.left = v4.left - 1, !.target = S!None, !.pc = k]
    BY <1>2 DEF S!Applied
  <2>3. k \in {"idle", "applying", "told", "failed"} /\ (k = "applying" => v4.left # 1)
    OBVIOUS
  <2> HIDE DEF k
  <2> QED
    BY <2>1, <2>2, <2>3 DEF MemoryInv, CaptureInv, S!None
<1>3. CASE S!Failed
  <2>1. v4' = [v4 EXCEPT !.pc = "failed", !.left = 0, !.target = S!None]
    BY <1>3 DEF S!Failed
  <2>2. 0 \in 0..MaxCandidates
    BY DEF MemoryInv, Bounds, S!BoundsAssumption
  <2> QED
    BY <2>1, <2>2 DEF MemoryInv, CaptureInv, S!None
<1> QED
  BY <1>2, <1>3

(* A turn's write.                                                           *)
LEMMA WriteKeeps ==
    ASSUME MemoryInv, v6' \in BOOLEAN, UNCHANGED <<v3, v5>>,
           \/ UNCHANGED <<v1, v2>>
           \/ \E s : Evolves(s) /\ S!Commit(s),
           \/ v4.pc = "applying" /\ (S!Applied \/ S!Failed)
           \/ UNCHANGED v4
    PROVE  MemoryInv'
<1>1. StoreInv' /\ PromotionInv' /\ DOMAIN v1 \subseteq DOMAIN v1'
  <2>1. CASE UNCHANGED <<v1, v2>>
    BY <2>1, StandsStill
  <2> QED
    BY <2>1, CommitKeeps
<1>2. CaptureInv'
  <2>1. CASE UNCHANGED v4
    <3> USE <2>1 DEF CaptureInv, MemoryInv
    <3>1. v4'.target # S!None => v4'.target \in DOMAIN v1'
      BY <1>1
    <3>2. v4'.pc = "applying" => v4'.left # 0 /\ S!Admitted(v4'.private, v4'.proposes)
      OBVIOUS
    <3> QED
      BY <3>1, <3>2
  <2> QED
    BY <2>1, CaptureGoes
<1>3. ProposalsInv' /\ ReviewsInv' /\ Bounds'
  BY DEF MemoryInv, ProposalsInv, ReviewsInv, Bounds, S!BoundsAssumption
<1> QED
  BY <1>1, <1>2, <1>3 DEF MemoryInv

(* A turn's capture begins.                                                  *)
LEMMA apply_memory_capture_Keeps == MemoryInv /\ S!apply_memory_capture => MemoryInv'
<1> SUFFICES ASSUME MemoryInv, S!apply_memory_capture PROVE MemoryInv'
  OBVIOUS
<1>1. StoreInv' /\ PromotionInv' /\ ProposalsInv' /\ ReviewsInv' /\ Bounds' /\ v6' \in BOOLEAN
  BY StandsStill DEF S!apply_memory_capture
<1>2. CaptureInv'
  BY DEF S!apply_memory_capture, MemoryInv, CaptureInv, S!Admitted, S!None,
     Bounds, S!BoundsAssumption
<1> QED
  BY <1>1, <1>2 DEF MemoryInv

(* A capture finds what it will change.                                      *)
LEMMA _resolve_memory_target_Keeps == MemoryInv /\ S!_resolve_memory_target => MemoryInv'
<1> SUFFICES ASSUME MemoryInv, S!_resolve_memory_target PROVE MemoryInv'
  OBVIOUS
<1>1. v4.pc = "applying" /\ v6' \in BOOLEAN /\ UNCHANGED <<v1, v2, v3, v5>>
  BY DEF S!_resolve_memory_target, S!Writing
<1>2. CASE S!Failed
  BY <1>1, <1>2, WriteKeeps
<1>3. ASSUME NEW i \in S!Explicit(v1), v4' = [v4 EXCEPT !.target = i]
      PROVE  MemoryInv'
  <2>1. i \in DOMAIN v1 /\ i \in S!Ids
    BY DEF S!Explicit, S!Live, S!Ids, MemoryInv, StoreInv, Evolves, Sound,
       S!Store, Bounds, S!BoundsAssumption
  <2>2. CaptureInv'
    BY <1>1, <1>3, <2>1 DEF MemoryInv, CaptureInv, S!Admitted
  <2>3. StoreInv' /\ PromotionInv' /\ ProposalsInv' /\ ReviewsInv' /\ Bounds'
    BY <1>1, StandsStill
  <2> QED
    BY <1>1, <2>2, <2>3 DEF MemoryInv
<1> QED
  BY <1>2, <1>3 DEF S!_resolve_memory_target

(* A capture corrects what it found.                                         *)
LEMMA correct_explicit_memory_Keeps == MemoryInv /\ S!correct_explicit_memory => MemoryInv'
<1> SUFFICES ASSUME MemoryInv, S!correct_explicit_memory PROVE MemoryInv'
  OBVIOUS
<1>1. PICK v \in Values, d \in Spellings :
        LET stores == S!Corrected(v4.target, v, d, v4.private) IN
        /\ v6' = (stores = {} /\ S!InOrder(v4.target, v))
        /\ \/ \E s \in stores : S!Commit(s) /\ (S!Applied \/ S!Failed)
           \/ S!Failed /\ UNCHANGED <<v1, v2>>
  BY DEF S!correct_explicit_memory
<1>2. v6' \in BOOLEAN /\ v4.pc = "applying" /\ UNCHANGED <<v3, v5>> /\ Len(v1) < MaxRecords
  BY <1>1 DEF S!correct_explicit_memory, S!Room
<1>3. v4.private \in BOOLEAN
  BY DEF MemoryInv, CaptureInv
<1>4. \A s \in S!Corrected(v4.target, v, d, v4.private) : Evolves(s)
  BY <1>2, <1>3, CorrectedEvolves DEF MemoryInv, Bounds, S!BoundsAssumption
<1> QED
  BY <1>1, <1>2, <1>4, WriteKeeps

(* A capture forgets what it found.                                          *)
LEMMA forget_memory_Keeps == MemoryInv /\ S!forget_memory => MemoryInv'
<1> SUFFICES ASSUME MemoryInv, S!forget_memory PROVE MemoryInv'
  OBVIOUS
<1>1. v6' \in BOOLEAN /\ v4.pc = "applying" /\ UNCHANGED <<v3, v5>>
      /\ v4.target \in DOMAIN v1
  BY DEF S!forget_memory, MemoryInv, CaptureInv
<1>2. \A s \in S!Forgotten(v4.target) : Evolves(s)
  BY <1>1, ForgottenEvolves DEF MemoryInv
<1>3. \/ \E s \in S!Forgotten(v4.target) : S!Commit(s) /\ (S!Applied \/ S!Failed)
      \/ S!Failed /\ UNCHANGED <<v1, v2>>
  BY DEF S!forget_memory
<1> QED
  BY <1>1, <1>2, <1>3, WriteKeeps

(* A capture or the endpoint stores a statement.                             *)
LEMMA store_explicit_memory_Keeps ==
    MemoryInv /\ (S!store_explicit_memory \/ S!explicit_memory_endpoint) => MemoryInv'
<1> SUFFICES ASSUME MemoryInv, S!store_explicit_memory \/ S!explicit_memory_endpoint
             PROVE  MemoryInv'
  OBVIOUS
<1>1. v6' \in BOOLEAN /\ UNCHANGED <<v3, v5>> /\ Len(v1) < MaxRecords /\ MaxRecords \in Nat
  BY DEF S!store_explicit_memory, S!explicit_memory_endpoint, S!Room,
     MemoryInv, Bounds, S!BoundsAssumption
<1>2. \A v \in Values, d \in Spellings, private \in BOOLEAN :
        \A s \in S!Stored(v, d, private) : Evolves(s)
  BY <1>1, StoredEvolves DEF MemoryInv
<1>3. CASE S!store_explicit_memory
  <2>1. v4.pc = "applying" /\ v4.private \in BOOLEAN
    BY <1>3 DEF S!store_explicit_memory, S!Writing, MemoryInv, CaptureInv
  <2>2. \E v \in Values, d \in Spellings :
        \/ \E s \in S!Stored(v, d, v4.private) : S!Commit(s) /\ (S!Applied \/ S!Failed)
        \/ S!Failed /\ UNCHANGED <<v1, v2>>
    BY <1>3 DEF S!store_explicit_memory
  <2> QED
    BY <1>1, <1>2, <2>1, <2>2, WriteKeeps
<1>4. CASE S!explicit_memory_endpoint
  <2>1. \E v \in Values, d \in Spellings, private \in BOOLEAN :
            \E s \in S!Stored(v, d, private) : S!Commit(s)
    BY <1>4 DEF S!explicit_memory_endpoint
  <2>2. UNCHANGED v4
    BY <1>4 DEF S!explicit_memory_endpoint
  <2> QED
    BY <1>1, <1>2, <2>1, <2>2, WriteKeeps
<1> QED
  BY <1>3, <1>4

(* What a sequence is after an element is added.                             *)
LEMMA Appending ==
    ASSUME NEW T, NEW s \in Seq(T), NEW x \in T, NEW t, t = Append(s, x)
    PROVE  /\ t \in Seq(T) /\ Len(t) = Len(s) + 1 /\ t[Len(t)] = x
           /\ \A p \in DOMAIN s : p \in DOMAIN t /\ t[p] = s[p]
           /\ \A p \in DOMAIN t : p \in DOMAIN s \/ p = Len(t)
<1>1. t \in Seq(T) /\ Len(t) = Len(s) + 1 /\ Len(s) \in Nat
  OBVIOUS
<1>2. DOMAIN s = 1..Len(s) /\ DOMAIN t = 1..Len(t)
  BY <1>1
<1> QED
  BY <1>1, <1>2

(* A proposal is added at the end.                                           *)
LEMMA ProposedKeeps ==
    ASSUME MemoryInv, NEW class \in {"explicit", "inference"}, NEW v \in Values,
           NEW d \in Spellings, NEW sensitive \in BOOLEAN, Len(v3) < MaxProposals,
           v3' = S!Proposed(class, v, d, sensitive, FALSE), UNCHANGED <<v1, v2, v5>>
    PROVE  StoreInv' /\ ProposalsInv' /\ ReviewsInv' /\ PromotionInv' /\ Bounds'
<1> DEFINE new == [class |-> class, domain |-> d, value |-> v, sensitive |-> sensitive,
                   drawn |-> FALSE, awaited |-> FALSE, result |-> S!None, status |-> "pending"]
<1>1. new \in S!Proposals /\ ~new.drawn /\ ~new.awaited /\ new.status = "pending"
  BY DEF S!Proposals, S!None
<1>2. v3 \in Seq(S!Proposals) /\ v3' = Append(v3, new)
  BY DEF MemoryInv, ProposalsInv, S!Proposed
<1> HIDE DEF new
<1>3. v3' \in Seq(S!Proposals) /\ Len(v3') = Len(v3) + 1
      /\ (\A p \in DOMAIN v3 : p \in DOMAIN v3' /\ v3'[p] = v3[p])
      /\ (\A p \in DOMAIN v3' : p \in DOMAIN v3 \/ v3'[p] = new)
  <2>1. v3 \in Seq(S!Proposals) /\ new \in S!Proposals
    BY <1>1, <1>2
  <2> DEFINE t == Append(v3, new)
  <2>2. t \in Seq(S!Proposals) /\ Len(t) = Len(v3) + 1 /\ t[Len(t)] = new
        /\ (\A p \in DOMAIN v3 : p \in DOMAIN t /\ t[p] = v3[p])
        /\ (\A p \in DOMAIN t : p \in DOMAIN v3 \/ p = Len(t))
    BY <2>1, Appending
  <2> HIDE DEF t
  <2>3. v3' = t
    BY <1>2 DEF t
  <2> QED
    BY <2>2, <2>3
<1>4. ProposalsInv'
  <2>1. Len(v3) \in Nat /\ Len(v3') <= MaxProposals
    <3>1. MaxProposals \in Nat
      BY DEF MemoryInv, Bounds, S!BoundsAssumption
    <3>2. Len(v3) \in Nat
      BY <1>2
    <3>3. Len(v3') = Len(v3) + 1
      BY <1>3
    <3>4. Len(v3) + 1 <= MaxProposals
      BY <3>1, <3>2
    <3> QED
      BY <3>2, <3>3, <3>4
  <2>2. \A p \in DOMAIN v3' : ~v3'[p].drawn
            /\ (v3'[p].awaited => v3'[p].status = "needs_user_confirmation")
    BY <1>1, <1>3 DEF MemoryInv, ProposalsInv
  <2> QED
    BY <1>3, <2>1, <2>2 DEF ProposalsInv
<1>5. ReviewsInv'
  BY <1>3 DEF MemoryInv, ReviewsInv
<1>6. \A i : \A p \in DOMAIN v3' : Approved(p, i)' => p \in DOMAIN v3 /\ Approved(p, i)
  BY <1>1, <1>3 DEF Approved
<1>7. PromotionInv'
  <2>1. \A i : \A p \in DOMAIN v3 : Approved(p, i) => Approved(p, i)'
    BY <1>3 DEF Approved
  <2>2. \A p \in DOMAIN v3' : v3'[p].status = "approved" => v3'[p].result \in DOMAIN v1'
    BY <1>1, <1>3 DEF MemoryInv, PromotionInv
  <2>3. ASSUME NEW i \in DOMAIN v1', v1'[i].class = "inference"
        PROVE  \E p \in DOMAIN v3' : Approved(p, i)'
                    /\ \A q \in DOMAIN v3' : Approved(q, i)' => q = p
    BY <1>3, <1>6, <2>1, <2>3 DEF MemoryInv, PromotionInv
  <2> QED
    BY <2>2, <2>3 DEF PromotionInv, Approved
<1> QED
  BY <1>4, <1>5, <1>7
     DEF MemoryInv, StoreInv, Sound, S!Store, PrivateRecord, Bounds,
     S!BoundsAssumption

(* A capture, whose source is not private, or the endpoint proposes.         *)
LEMMA propose_memory_Keeps ==
    MemoryInv /\ (S!propose_memory \/ S!create_memory_proposal_endpoint) => MemoryInv'
<1> SUFFICES ASSUME MemoryInv, S!propose_memory \/ S!create_memory_proposal_endpoint
             PROVE  MemoryInv'
  OBVIOUS
<1>1. UNCHANGED <<v1, v2, v5>> /\ v6' \in BOOLEAN /\ Len(v3) < MaxProposals
  BY DEF S!propose_memory, S!create_memory_proposal_endpoint
<1>2. CASE S!propose_memory
  <2>1. v4.pc = "applying" /\ v4.proposes /\ v4.private = FALSE
    BY <1>2 DEF S!propose_memory, S!Writing, MemoryInv, CaptureInv, S!Admitted
  <2>2. S!Applied \/ S!Failed
    BY <1>2 DEF S!propose_memory
  <2>3. CASE UNCHANGED v3
    BY <1>1, <2>1, <2>2, <2>3, WriteKeeps
  <2>4. ASSUME NEW class \in {"explicit", "inference"}, NEW v \in Values,
               NEW d \in Spellings, NEW sensitive \in BOOLEAN,
               v3' = S!Proposed(class, v, d, sensitive, FALSE)
        PROVE  MemoryInv'
    BY <1>1, <2>1, <2>2, <2>4, ProposedKeeps, CaptureGoes DEF MemoryInv
  <2> QED
    BY <1>2, <2>1, <2>3, <2>4 DEF S!propose_memory
<1>3. CASE S!create_memory_proposal_endpoint
  <2>1. CaptureInv'
    BY <1>3
       DEF S!create_memory_proposal_endpoint, MemoryInv, CaptureInv, S!Admitted
  <2>2. PICK class \in {"explicit", "inference"}, v \in Values, d \in Spellings,
             sensitive \in BOOLEAN : v3' = S!Proposed(class, v, d, sensitive, FALSE)
    BY <1>3 DEF S!create_memory_proposal_endpoint
  <2> QED
    BY <1>1, <2>1, <2>2, ProposedKeeps DEF MemoryInv
<1> QED
  BY <1>2, <1>3

-----------------------------------------------------------------------------
(* The steps of a review.                                                    *)

(* A review that neither writes nor holds a row.                             *)
LEMMA ReviewMoves ==
    ASSUME MemoryInv, NEW r \in Reviews, NEW w, v5' = [v5 EXCEPT ![r] = w],
           w \in [pc : {"idle", "decided"}, proposal : 0..MaxProposals,
                  found : S!Ids \cup {S!None}],
           w.pc = "decided" => w.proposal \in DOMAIN v3,
           v6' \in BOOLEAN, UNCHANGED <<v1, v2, v3, v4>>
    PROVE  MemoryInv'
<1>1. ReviewsInv'
  BY DEF MemoryInv, ReviewsInv
<1>2. CaptureInv' /\ ProposalsInv'
  BY DEF MemoryInv, CaptureInv, ProposalsInv
<1>3. PromotionInv'
  BY DEF MemoryInv, PromotionInv, Approved
<1>4. StoreInv'
  BY DEF MemoryInv, StoreInv, Sound, S!Store, PrivateRecord
<1> QED
  BY <1>1, <1>2, <1>3, <1>4 DEF MemoryInv, Bounds, S!BoundsAssumption

(* The review that is idle.                                                  *)
LEMMA IdleIsReview ==
    ASSUME Bounds
    PROVE  S!Idle \in [pc : {"idle", "decided"}, proposal : 0..MaxProposals,
                       found : S!Ids \cup {S!None}] /\ S!Idle.pc = "idle"
BY DEF S!Idle, S!None, Bounds, S!BoundsAssumption

(* A review that is decided, or that ends without a write.                   *)
LEMMA Decided_Keeps ==
    ASSUME MemoryInv, NEW r \in Reviews,
           \/ S!process_next_memory_proposal(r) \/ S!review_memory_proposal_endpoint(r)
           \/ S!ReviewFails(r)
    PROVE  MemoryInv'
<1>1. v6' \in BOOLEAN /\ UNCHANGED <<v1, v2, v3, v4>>
  BY DEF S!process_next_memory_proposal, S!review_memory_proposal_endpoint,
     S!ReviewFails
<1>2. ASSUME NEW p \in DOMAIN v3, S!Decided(r, p)
      PROVE  MemoryInv'
  <2> DEFINE w == [S!Idle EXCEPT !.pc = "decided", !.proposal = p]
  <2>1. v5' = [v5 EXCEPT ![r] = w]
    BY <1>2 DEF S!Decided
  <2>2. p \in 0..MaxProposals
    BY DEF MemoryInv, ProposalsInv, Bounds, S!BoundsAssumption
  <2>3. w \in [pc : {"idle", "decided"}, proposal : 0..MaxProposals,
               found : S!Ids \cup {S!None}] /\ w.proposal \in DOMAIN v3
    BY <2>2 DEF S!Idle, S!None
  <2> HIDE DEF w
  <2> QED
    BY <1>1, <2>1, <2>3, ReviewMoves
<1>3. CASE S!ReviewFails(r)
  <2>1. v5' = [v5 EXCEPT ![r] = S!Idle]
    BY <1>3 DEF S!ReviewFails, S!Done
  <2>2. Bounds
    BY DEF MemoryInv
  <2> QED
    BY <1>1, <2>1, <2>2, IdleIsReview, ReviewMoves
<1> QED
  BY <1>2, <1>3
     DEF S!process_next_memory_proposal, S!review_memory_proposal_endpoint,
                    S!get_pending_memory_proposals

(* A review takes its proposal's row, which is free, and looks for a         *)
(* duplicate.                                                                *)
LEMMA LookForDuplicate_Keeps ==
    ASSUME MemoryInv, NEW r \in Reviews, S!LookForDuplicate(r)
    PROVE  MemoryInv'
<1> DEFINE p == v5[r].proposal
           f == S!Newest(S!Duplicates(v3[p]))
<1>1. v5[r].pc = "decided" /\ ~S!Locked(p) /\ v3[p].status = "pending" /\ v6' \in BOOLEAN
      /\ v5' = [v5 EXCEPT ![r].pc = "looked", ![r].found = f] /\ UNCHANGED <<v1, v2, v3, v4>>
  BY DEF S!LookForDuplicate, S!Approvable
<1>2. f \in S!Ids \cup {S!None}
  <2>1. Len(v1) \in Nat /\ DOMAIN v1 = 1..Len(v1) /\ Len(v1) <= MaxRecords
    BY DEF MemoryInv, StoreInv, Sound, S!Store
  <2>2. S!Duplicates(v3[p]) \subseteq 1..Len(v1)
    BY <2>1 DEF S!Duplicates, S!Live
  <2>3. f \in S!Duplicates(v3[p]) \cup {0}
    <3> HIDE DEF f
    <3>1. S!Newest(S!Duplicates(v3[p])) \in S!Duplicates(v3[p]) \cup {0}
      BY <2>1, <2>2, NewestIsOne
    <3> QED
      BY <3>1 DEF f
  <2>4. MaxRecords \in Nat
    BY DEF MemoryInv, Bounds, S!BoundsAssumption
  <2> HIDE DEF f
  <2> QED
    BY <2>1, <2>2, <2>3, <2>4 DEF S!Ids, S!None
<1> HIDE DEF f
<1>3. v5' \in [Reviews -> [pc : {"idle", "decided", "looked"}, proposal : 0..MaxProposals,
                          found : S!Ids \cup {S!None}]]
  BY <1>1, <1>2 DEF MemoryInv, ReviewsInv
<1>4. \A q \in Reviews : v5'[q].proposal = v5[q].proposal /\ (q # r => v5'[q] = v5[q])
  BY <1>1 DEF MemoryInv, ReviewsInv
<1>5. v5'[r].pc = "looked"
  BY <1>1 DEF MemoryInv, ReviewsInv
<1>6. ReviewsInv'
  BY <1>1, <1>3, <1>4, <1>5 DEF MemoryInv, ReviewsInv, S!Locked
<1>7. CaptureInv' /\ ProposalsInv'
  BY <1>1 DEF MemoryInv, CaptureInv, ProposalsInv
<1>8. PromotionInv'
  BY <1>1 DEF MemoryInv, PromotionInv, Approved
<1>9. StoreInv'
  BY <1>1 DEF MemoryInv, StoreInv, Sound, S!Store, PrivateRecord
<1> QED
  BY <1>1, <1>6, <1>7, <1>8, <1>9 DEF MemoryInv, Bounds, S!BoundsAssumption

(* A proposal changes while its row is held by nobody but the review that    *)
(* lets it go.                                                               *)
LEMMA ProposalMoves ==
    ASSUME MemoryInv, NEW p \in DOMAIN v3, NEW w \in S!Proposals, v3' = [v3 EXCEPT ![p] = w],
           ~w.drawn, w.awaited => w.status = "needs_user_confirmation",
           \A r \in Reviews : v5[r].pc = "looked" /\ v5[r].proposal = p => v5'[r].pc = "idle",
           \A r \in Reviews : v5'[r] \in {v5[r], S!Idle}, DOMAIN v5' = Reviews, v5' = [r \in Reviews |-> v5'[r]]
    PROVE  ProposalsInv' /\ ReviewsInv'
<1>1. v3 \in Seq(S!Proposals)
  BY DEF MemoryInv, ProposalsInv
<1>2. v3' \in Seq(S!Proposals) /\ Len(v3') = Len(v3) /\ DOMAIN v3' = DOMAIN v3
      /\ \A q \in DOMAIN v3 : v3'[q] = IF q = p THEN w ELSE v3[q]
  BY <1>1
<1>3. ProposalsInv'
  BY <1>2 DEF MemoryInv, ProposalsInv
<1>4. S!Idle \in [pc : {"idle", "decided", "looked"}, proposal : 0..MaxProposals,
                 found : S!Ids \cup {S!None}] /\ S!Idle.pc = "idle"
  BY DEF MemoryInv, Bounds, S!BoundsAssumption, S!Idle, S!None
<1>5. v5' \in [Reviews -> [pc : {"idle", "decided", "looked"}, proposal : 0..MaxProposals,
                          found : S!Ids \cup {S!None}]]
  BY <1>4 DEF MemoryInv, ReviewsInv
<1>6. \A r \in Reviews : v5'[r].pc # "idle" => v5'[r] = v5[r]
  BY <1>4
<1>7. \A r \in Reviews : v5'[r].pc = "looked" => v5'[r] = v5[r] /\ v5[r].proposal # p
  BY <1>6
<1>8. ReviewsInv'
  BY <1>2, <1>5, <1>6, <1>7 DEF MemoryInv, ReviewsInv
<1> QED
  BY <1>3, <1>8

(* A proposal is declined, or answered by the owner, while nobody holds its  *)
(* row.                                                                      *)
LEMMA Decline_Keeps ==
    ASSUME MemoryInv, S!confirm_memory_proposal \/ \E r \in Reviews : S!Decline(r)
    PROVE  MemoryInv'
<1>1. PICK p \in DOMAIN v3, w \in S!Proposals :
        /\ v3' = [v3 EXCEPT ![p] = w] /\ ~S!Locked(p) /\ S!Open(p)
        /\ w.status \in {"pending", "rejected", "needs_user_confirmation"} /\ ~w.drawn
        /\ (w.awaited => w.status = "needs_user_confirmation")
  <2>1. CASE S!confirm_memory_proposal
    <3>1. PICK p \in DOMAIN v3, status \in {"pending", "rejected"} :
            /\ v3[p].status = "needs_user_confirmation" /\ ~S!Locked(p)
            /\ v3' = [v3 EXCEPT ![p].status = status, ![p].awaited = FALSE]
      BY <2>1 DEF S!confirm_memory_proposal
    <3> DEFINE w == [v3[p] EXCEPT !.status = status, !.awaited = FALSE]
    <3>2. v3[p] \in S!Proposals /\ ~v3[p].drawn
      BY DEF MemoryInv, ProposalsInv
    <3>3. w \in S!Proposals /\ w.status = status /\ ~w.drawn /\ ~w.awaited
      BY <3>2 DEF S!Proposals
    <3>4. v3' = [v3 EXCEPT ![p] = w]
      BY <3>1, <3>2 DEF S!Proposals
    <3> HIDE DEF w
    <3> QED
      BY <3>1, <3>3, <3>4 DEF S!Open
  <2>2. ASSUME NEW r \in Reviews, S!Decline(r)
        PROVE  \E p \in DOMAIN v3, w \in S!Proposals :
        /\ v3' = [v3 EXCEPT ![p] = w] /\ ~S!Locked(p) /\ S!Open(p)
        /\ w.status \in {"pending", "rejected", "needs_user_confirmation"} /\ ~w.drawn
        /\ (w.awaited => w.status = "needs_user_confirmation")
    <3> DEFINE p == v5[r].proposal
    <3>1. v5[r].pc = "decided" /\ ~S!Locked(p) /\ S!Open(p)
      BY <2>2 DEF S!Decline
    <3>2. PICK status \in {"rejected", "needs_user_confirmation"} :
            v3' = [v3 EXCEPT ![p].status = status,
                             ![p].awaited = status = "needs_user_confirmation"]
      BY <2>2 DEF S!Decline
    <3>3. p \in DOMAIN v3
      BY <3>1 DEF MemoryInv, ReviewsInv
    <3> HIDE DEF p
    <3> DEFINE a == status = "needs_user_confirmation"
               w == [v3[p] EXCEPT !.status = status, !.awaited = a]
    <3>4. v3[p] \in S!Proposals /\ ~v3[p].drawn
      BY <3>3 DEF MemoryInv, ProposalsInv
    <3>5. v3' = [v3 EXCEPT ![p] = w]
      <4>1. v3' = [v3 EXCEPT ![p].status = status, ![p].awaited = a]
        BY <3>2
      <4> HIDE DEF a
      <4> QED
        BY <3>3, <3>4, <4>1 DEF S!Proposals
    <3>6. a \in BOOLEAN
      OBVIOUS
    <3>7. w \in S!Proposals /\ w.status = status /\ w.drawn = v3[p].drawn /\ w.awaited = a
      <4> HIDE DEF a
      <4> QED
        BY <3>4, <3>6 DEF S!Proposals
    <3>8. w.awaited => w.status = "needs_user_confirmation"
      BY <3>7
    <3> HIDE DEF w, a
    <3> QED
      BY <3>1, <3>3, <3>4, <3>5, <3>7, <3>8
  <2> QED
    BY <2>1, <2>2
<1>2. UNCHANGED <<v1, v2, v4>> /\ v6' \in BOOLEAN
      /\ (v5' = v5 \/ \E r \in Reviews : v5' = [v5 EXCEPT ![r] = S!Idle])
  BY DEF S!confirm_memory_proposal, S!Decline, S!Done
<1>3. v5 = [r \in Reviews |-> v5[r]]
  BY DEF MemoryInv, ReviewsInv
<1>4. (\A r \in Reviews : v5'[r] \in {v5[r], S!Idle}) /\ DOMAIN v5' = Reviews
      /\ v5' = [r \in Reviews |-> v5'[r]]
  BY <1>2, <1>3
<1>5. \A r \in Reviews : ~(v5[r].pc = "looked" /\ v5[r].proposal = p)
  BY <1>1 DEF S!Locked
<1>6. ProposalsInv' /\ ReviewsInv'
  <2>1. \A r \in Reviews : v5[r].pc = "looked" /\ v5[r].proposal = p => v5'[r].pc = "idle"
    BY <1>5
  <2>2. v3' = [v3 EXCEPT ![p] = w] /\ ~w.drawn
        /\ (w.awaited => w.status = "needs_user_confirmation")
    BY <1>1
  <2> QED
    BY <1>4, <2>1, <2>2, ProposalMoves
<1>7. CaptureInv' /\ StoreInv' /\ Bounds'
  BY <1>2
     DEF MemoryInv, CaptureInv, StoreInv, Evolves, Sound, S!Store,
     PrivateRecord, Bounds, S!BoundsAssumption
<1>8. v3 \in Seq(S!Proposals)
  BY DEF MemoryInv, ProposalsInv
<1>9. DOMAIN v3' = DOMAIN v3 /\ \A q \in DOMAIN v3 : v3'[q] = IF q = p THEN w ELSE v3[q]
  BY <1>1, <1>8
<1>10. \A i : \A q \in DOMAIN v3 : Approved(q, i)' <=> Approved(q, i)
  BY <1>1, <1>9 DEF S!Open, Approved
<1>11. PromotionInv'
  <2>1. \A q \in DOMAIN v3' : v3'[q].status = "approved" => v3'[q].result \in DOMAIN v1'
    BY <1>1, <1>2, <1>9 DEF MemoryInv, PromotionInv
  <2>2. ASSUME NEW i \in DOMAIN v1', v1'[i].class = "inference"
        PROVE  \E q \in DOMAIN v3' : Approved(q, i)'
                    /\ \A q2 \in DOMAIN v3' : Approved(q2, i)' => q2 = q
    BY <1>2, <1>9, <1>10, <2>2 DEF MemoryInv, PromotionInv
  <2> QED
    BY <2>1, <2>2 DEF PromotionInv, Approved
<1> QED
  BY <1>2, <1>6, <1>7, <1>11 DEF MemoryInv

(* A review merges or promotes the proposal whose row it alone holds.        *)
LEMMA review_memory_proposal_Keeps ==
    ASSUME MemoryInv, NEW r \in Reviews, S!review_memory_proposal(r)
    PROVE  MemoryInv'
<1>0. PICK p : p = v5[r].proposal
  OBVIOUS
<1>1. v5[r].pc = "looked" /\ v6' \in BOOLEAN /\ v5' = [v5 EXCEPT ![r] = S!Idle]
      /\ UNCHANGED v4
  BY DEF S!review_memory_proposal, S!Done
<1>2. p \in DOMAIN v3 /\ v3[p].status = "pending"
      /\ \A q \in Reviews : v5[q].pc = "looked" /\ v5[q].proposal = p => q = r
  BY <1>0, <1>1 DEF MemoryInv, ReviewsInv
<1>3. v3 \in Seq(S!Proposals) /\ v3[p] \in S!Proposals /\ ~v3[p].drawn /\ ~v3[p].awaited
  BY <1>2 DEF MemoryInv, ProposalsInv
<1>4. v5 = [q \in Reviews |-> v5[q]]
  BY DEF MemoryInv, ReviewsInv
<1>5. /\ \A q \in Reviews : v5'[q] \in {v5[q], S!Idle}
      /\ DOMAIN v5' = Reviews /\ v5' = [q \in Reviews |-> v5'[q]]
      /\ \A q \in Reviews : v5[q].pc = "looked" /\ v5[q].proposal = p => v5'[q].pc = "idle"
  BY <1>1, <1>2, <1>4 DEF S!Idle
<1>6. ASSUME NEW status \in {"merged", "approved"}, NEW result \in S!Ids,
             v3' = [v3 EXCEPT ![p].status = status, ![p].result = result]
      PROVE  /\ ProposalsInv' /\ ReviewsInv' /\ DOMAIN v3' = DOMAIN v3
             /\ v3'[p].status = status /\ v3'[p].result = result
             /\ \A q \in DOMAIN v3 : q # p => v3'[q] = v3[q]
  <2> DEFINE w == [v3[p] EXCEPT !.status = status, !.result = result]
  <2>1. v3' = [v3 EXCEPT ![p] = w]
    BY <1>2, <1>3, <1>6 DEF S!Proposals
  <2>2. w \in S!Proposals /\ w.status = status /\ w.result = result /\ ~w.drawn /\ ~w.awaited
    BY <1>3 DEF S!Proposals
  <2> HIDE DEF w
  <2>3. ProposalsInv' /\ ReviewsInv'
    BY <1>2, <1>5, <2>1, <2>2, ProposalMoves
  <2>4. DOMAIN v3' = DOMAIN v3 /\ \A q \in DOMAIN v3 : v3'[q] = IF q = p THEN w ELSE v3[q]
    BY <1>3, <2>1
  <2> QED
    BY <1>2, <2>2, <2>3, <2>4
<1>7. CASE v5[r].found # S!None /\ UNCHANGED <<v1, v2>>
           /\ v3' = [v3 EXCEPT ![p].status = "merged", ![p].result = v5[r].found]
  <2>1. v5[r].found \in S!Ids
    BY <1>7 DEF MemoryInv, ReviewsInv
  <2>2. /\ ProposalsInv' /\ ReviewsInv' /\ DOMAIN v3' = DOMAIN v3
        /\ v3'[p].status = "merged" /\ \A q \in DOMAIN v3 : q # p => v3'[q] = v3[q]
    BY <1>6, <1>7, <2>1
  <2>3. \A i : \A q \in DOMAIN v3 : Approved(q, i)' <=> Approved(q, i)
    BY <1>2, <2>2 DEF Approved
  <2>4. PromotionInv'
    <3>1. \A q \in DOMAIN v3' : v3'[q].status = "approved" => v3'[q].result \in DOMAIN v1'
      BY <1>2, <1>7, <2>2 DEF MemoryInv, PromotionInv
    <3>2. ASSUME NEW i \in DOMAIN v1', v1'[i].class = "inference"
          PROVE  \E q \in DOMAIN v3' : Approved(q, i)'
                    /\ \A q2 \in DOMAIN v3' : Approved(q2, i)' => q2 = q
      BY <1>7, <2>2, <2>3, <3>2 DEF MemoryInv, PromotionInv
    <3> QED
      BY <3>1, <3>2 DEF PromotionInv, Approved
  <2>5. CaptureInv' /\ StoreInv' /\ Bounds'
    BY <1>1, <1>7
       DEF MemoryInv, CaptureInv, StoreInv, Sound, S!Store, PrivateRecord,
       Bounds, S!BoundsAssumption
  <2> QED
    BY <1>1, <2>2, <2>4, <2>5 DEF MemoryInv
<1>8. ASSUME NEW truth \in {"inferred", "confirmed"}, Len(v1) < MaxRecords,
             NEW s \in S!Committed([S!Store EXCEPT !.records = Append(@, S!Promoted(v3[p], truth))]),
             S!Commit(s),
             v3' = [v3 EXCEPT ![p].status = "approved", ![p].result = Len(v1) + 1]
      PROVE  MemoryInv'
  <2> DEFINE new == S!Promoted(v3[p], truth)
  <2>0. PICK n : n = Len(v1) + 1
    OBVIOUS
  <2>1. new \in S!Records /\ PrivateRecord(new)
    BY <1>3 DEF S!Promoted, S!Records, S!Proposals, PrivateRecord
  <2>2. v1 \in Seq(S!Records) /\ MaxRecords \in Nat /\ StoreInv
    BY DEF MemoryInv, Bounds, S!BoundsAssumption, StoreInv, Sound, S!Store
  <2> HIDE DEF new
  <2>3. s = [records |-> Append(v1, new), links |-> v2]
    BY <1>8 DEF S!Committed, S!Store, new
  <2>4. v1' = Append(v1, new) /\ v2' = v2
    BY <1>8, <2>3 DEF S!Commit
  <2>5. StoreInv'
    <3>1. Sound([records |-> Append(v1, new), links |-> v2])
      BY <1>8, <2>1, <2>2, AppendedSound
    <3> QED
      BY <2>4, <3>1 DEF StoreInv, Sound, S!Store, PrivateRecord
  <2>6. /\ DOMAIN v1 \subseteq DOMAIN v1' /\ n \in DOMAIN v1' /\ n \notin DOMAIN v1
        /\ \A i \in DOMAIN v1 : v1'[i] = v1[i]
        /\ \A i \in DOMAIN v1' : i \in DOMAIN v1 \/ i = n
    <3> DEFINE t == Append(v1, new)
    <3>1. /\ Len(t) = n /\ t \in Seq(S!Records)
          /\ (\A i \in DOMAIN v1 : i \in DOMAIN t /\ t[i] = v1[i])
          /\ (\A i \in DOMAIN t : i \in DOMAIN v1 \/ i = Len(t))
      BY <2>0, <2>1, <2>2, Appending
    <3>2. n \in 1..n /\ n \notin 1..Len(v1) /\ DOMAIN v1 = 1..Len(v1)
      BY <2>0, <2>2
    <3>3. v1' = t
      BY <2>4
    <3> HIDE DEF t
    <3>4. DOMAIN t = 1..n
      BY <3>1
    <3> QED
      BY <3>1, <3>2, <3>3, <3>4
  <2>7. n \in S!Ids
    <3>1. Len(v1) \in Nat
      BY <2>2
    <3> QED
      BY <1>8, <2>0, <2>2, <3>1 DEF S!Ids
  <2>8. /\ ProposalsInv' /\ ReviewsInv' /\ DOMAIN v3' = DOMAIN v3
        /\ v3'[p].status = "approved" /\ v3'[p].result = n
        /\ \A q \in DOMAIN v3 : q # p => v3'[q] = v3[q]
    BY <1>6, <1>8, <2>0, <2>7
  <2>9. PromotionInv'
    <3>1. \A q \in DOMAIN v3' : v3'[q].status = "approved" => v3'[q].result \in DOMAIN v1'
      BY <2>6, <2>8 DEF MemoryInv, PromotionInv
    <3>2. Approved(p, n)' /\ \A q \in DOMAIN v3' : Approved(q, n)' => q = p
      BY <2>6, <2>8 DEF MemoryInv, PromotionInv, Approved
    <3>3. \A i \in DOMAIN v1 : \A q \in DOMAIN v3 : Approved(q, i)' <=> Approved(q, i)
      BY <1>2, <2>6, <2>8 DEF Approved
    <3>4. ASSUME NEW i \in DOMAIN v1', v1'[i].class = "inference"
          PROVE  \E q \in DOMAIN v3' : Approved(q, i)'
                    /\ \A q2 \in DOMAIN v3' : Approved(q2, i)' => q2 = q
      <4>1. CASE i = n
        BY <1>2, <2>8, <3>2, <4>1
      <4>2. CASE i \in DOMAIN v1
        BY <2>6, <2>8, <3>3, <3>4, <4>2 DEF MemoryInv, PromotionInv
      <4> QED
        BY <2>6, <4>1, <4>2
    <3> QED
      BY <3>1, <3>4 DEF PromotionInv, Approved
  <2>10. CaptureInv'
    BY <1>1, <2>6 DEF MemoryInv, CaptureInv
  <2> QED
    BY <1>1, <2>5, <2>8, <2>9, <2>10 DEF MemoryInv, Bounds, S!BoundsAssumption
<1> QED
  <2> DEFINE truth == IF v3[p].class = "inference" THEN "inferred" ELSE "confirmed"
  <2>1. \/ /\ v5[r].found # S!None /\ UNCHANGED <<v1, v2>>
           /\ v3' = [v3 EXCEPT ![p].status = "merged", ![p].result = v5[r].found]
        \/ /\ v5[r].found = S!None /\ Len(v1) < MaxRecords
           /\ \E s \in S!Committed([S!Store EXCEPT !.records = Append(@, S!Promoted(v3[p], truth))]) :
                S!Commit(s)
           /\ v3' = [v3 EXCEPT ![p].status = "approved", ![p].result = Len(v1) + 1]
    BY <1>0 DEF S!review_memory_proposal, S!Room
  <2>2. truth \in {"inferred", "confirmed"}
    OBVIOUS
  <2> HIDE DEF truth
  <2> QED
    BY <1>7, <1>8, <2>1, <2>2

(* Every step of the store keeps the invariant.                              *)
LEMMA MemoryKeeps == MemoryInv /\ [S!Next]_(S!vars) => MemoryInv'
<1> SUFFICES ASSUME MemoryInv, [S!Next]_(S!vars) PROVE MemoryInv'
  OBVIOUS
<1>1. CASE UNCHANGED S!vars
  <2>1. UNCHANGED <<v1, v2, v3, v4, v5, v6>>
    BY <1>1 DEF S!vars
  <2> QED
    BY <2>1, StandsStill DEF MemoryInv, CaptureInv
<1>2. CASE S!apply_memory_capture \/ S!_resolve_memory_target
  BY <1>2, apply_memory_capture_Keeps, _resolve_memory_target_Keeps
<1>3. CASE S!correct_explicit_memory \/ S!forget_memory
  BY <1>3, correct_explicit_memory_Keeps, forget_memory_Keeps
<1>4. CASE S!store_explicit_memory \/ S!explicit_memory_endpoint
  BY <1>4, store_explicit_memory_Keeps
<1>5. CASE S!propose_memory \/ S!create_memory_proposal_endpoint
  BY <1>5, propose_memory_Keeps
<1>6. CASE S!confirm_memory_proposal \/ \E r \in Reviews : S!Decline(r)
  BY <1>6, Decline_Keeps
<1>7. ASSUME NEW r \in Reviews,
             \/ S!process_next_memory_proposal(r) \/ S!review_memory_proposal_endpoint(r)
             \/ S!LookForDuplicate(r) \/ S!review_memory_proposal(r) \/ S!ReviewFails(r)
      PROVE  MemoryInv'
  BY <1>7, Decided_Keeps, LookForDuplicate_Keeps, review_memory_proposal_Keeps
<1> QED
  BY <1>1, <1>2, <1>3, <1>4, <1>5, <1>6, <1>7 DEF S!Next

(* What the invariant says of memory.                                        *)
LEMMA MemoryInvImplies ==
    ASSUME MemoryInv
    PROVE  S!TypeOK /\ S!PrivacyIsKept /\ S!OwnerDecides /\ S!HistoryIsTrue /\ S!PromotedOnce
<1>1. v1 \in Seq(S!Records) /\ v3 \in Seq(S!Proposals)
  BY DEF MemoryInv, StoreInv, Sound, S!Store, ProposalsInv
<1>2. S!TypeOK
  BY <1>1
     DEF MemoryInv, StoreInv, Sound, S!Store, ProposalsInv, CaptureInv,
     ReviewsInv, S!TypeOK
<1>3. S!PrivacyIsKept
  BY DEF MemoryInv, StoreInv, Sound, S!Store, S!PrivacyIsKept, S!Live,
     PrivateRecord
<1>4. S!OwnerDecides
  BY DEF MemoryInv, ProposalsInv, S!OwnerDecides
<1>5. S!HistoryIsTrue
  BY DEF MemoryInv, StoreInv, Sound, S!Store, S!HistoryIsTrue, S!Live
<1>6. S!PromotedOnce
  <2>1. ASSUME NEW i \in DOMAIN v1, v1[i].class = "inference"
        PROVE  Cardinality({p \in DOMAIN v3 : /\ v3[p].status = "approved"
                                              /\ v3[p].result = i}) = 1
    <3>1. PICK p \in DOMAIN v3 : Approved(p, i) /\ \A q \in DOMAIN v3 : Approved(q, i) => q = p
      BY <2>1 DEF MemoryInv, PromotionInv
    <3>2. {q \in DOMAIN v3 : /\ v3[q].status = "approved" /\ v3[q].result = i} = {p}
      BY <3>1 DEF Approved
    <3> QED
      BY <3>2, FS_Singleton
  <2> QED
    BY <2>1, SameCardinality, Zenon DEF S!PromotedOnce
<1> QED
  BY <1>2, <1>3, <1>4, <1>5, <1>6

-----------------------------------------------------------------------------
(* The invariant of the place: v1 is the clock, v2 the installations, v3 the *)
(* observations, v4 when each was accepted, v6 the calls and v7 the locks.   *)

Moments == 0..MaxTime

Submissions ==
    {M!Idle} \cup [at : {"lock", "read"}, id : Updates, began : 1..MaxTime]
        \cup [at : {"write"}, id : Updates, began : 1..MaxTime,
              seen : [source : {"none", "manual", "device"}, at : Moments]]

PlaceTypes ==
    /\ v1 \in 1..MaxTime
    /\ v2 \in [Installations -> [state : {"absent", "active", "revoked"},
                permission : {"not_requested", "granted", "denied"}, last : Moments]]
    /\ v3 \in [Updates -> [by : Installations \cup {"none"}, observed : Moments]]
    /\ v4 \in [Updates -> Moments]
    /\ v5 \in [source : {"none", "manual", "device"}, at : Moments]
    /\ v6 \in [Calls -> Submissions]
    /\ v7 \in [Installations -> Calls \cup {M!Free}]

(* What was accepted was observed, and not after the last accepted one of    *)
(* the same device.                                                          *)
AcceptedInv == \A u \in Updates :
    /\ v3[u].by # "none" => v3[u].observed >= 1
    /\ v4[u] # 0 => v3[u].by # "none" /\ v3[u].observed <= v2[v3[u].by].last

Busy(c) == v6[c] # M!Idle
Holding(c) == v6[c].at \in {"read", "write"}

(* A call that has passed the checks still holds its device's row, and what  *)
(* the checks found is still so.                                             *)
Held(c) ==
    /\ Busy(c) => v3[v6[c].id].by # "none" /\ v6[c].began <= v1
    /\ Busy(c) /\ Holding(c) =>
        /\ v7[M!Installation(c)] = c
        /\ v2[M!Installation(c)].last < M!Observed(c)
        /\ Cardinality(M!AcceptedSince(M!Installation(c), v6[c].began)) < RateLimit

HoldingInv == \A c \in Calls : Held(c)

Window(i, t) == {u \in Updates : v3[u].by = i /\ v4[u] > 0 /\ v4[u] + Hour >= t /\ v4[u] <= t}
RateInv == \A i \in Installations, t \in 1..MaxTime : Cardinality(Window(i, t)) <= RateLimit

PlaceAssumption == M!ClockAssumption /\ M!NamesAssumption

PlaceInv == PlaceAssumption /\ PlaceTypes /\ AcceptedInv /\ HoldingInv /\ RateInv

(* The initial state of the places.                                          *)
LEMMA PlaceInitially == PlaceAssumption /\ M!Init => PlaceInv
<1> SUFFICES ASSUME PlaceAssumption, M!Init PROVE PlaceInv
  OBVIOUS
<1> USE DEF M!Init, PlaceAssumption, M!ClockAssumption
<1>1. PlaceTypes
  BY DEF PlaceTypes, M!NoInstall, M!NoPlace, Moments, Submissions
<1>2. AcceptedInv
  BY DEF AcceptedInv
<1>3. HoldingInv
  BY DEF HoldingInv, Held, Busy
<1>4. RateInv
  <2> SUFFICES ASSUME NEW i \in Installations, NEW t \in 1..MaxTime
               PROVE  Cardinality(Window(i, t)) <= RateLimit
    BY DEF RateInv
  <2>1. Window(i, t) = {}
    BY DEF Window
  <2> QED
    BY <2>1, FS_EmptySet
<1> QED
  BY <1>1, <1>2, <1>3, <1>4 DEF PlaceInv

(* What the shape of a call says of its state.                               *)
LEMMA CallIsTyped ==
    ASSUME PlaceTypes, NEW c \in Calls
    PROVE  /\ Busy(c) => v6[c].id \in Updates /\ v6[c].began \in 1..MaxTime
                          /\ v6[c].at \in {"lock", "read", "write"}
           /\ ~Busy(c) => v6[c].at = "idle"
           /\ v6[c].at = "write" => v6[c].seen \in [source : {"none", "manual", "device"},
                                                     at : Moments]
           /\ v6[c].at = "idle" => ~Busy(c)
BY DEF PlaceTypes, Submissions, Busy, M!Idle

(* The devices and the owner: no call moves, and nothing is accepted.        *)
LEMMA OthersKeep ==
    ASSUME PlaceInv, UNCHANGED <<v4, v6, v7>>, PlaceTypes', v1 <= v1',
           \A i \in Installations : v2'[i].last = v2[i].last,
           \A u \in Updates : v3'[u] = v3[u] \/ (v3[u].by = "none" /\ v3'[u].observed >= 1)
    PROVE  PlaceInv'
<1>1. \A u \in Updates : v4[u] > 0 => v3[u].by # "none"
  BY DEF PlaceInv, AcceptedInv, PlaceTypes, Moments
<1>2. \A i, t : M!AcceptedSince(i, t)' = M!AcceptedSince(i, t)
  BY <1>1 DEF M!AcceptedSince
<1>3. \A i, t : Window(i, t)' = Window(i, t)
  BY <1>1 DEF Window
<1>4. AcceptedInv'
  BY DEF PlaceInv, AcceptedInv, PlaceTypes
<1>5. HoldingInv'
  <2> SUFFICES ASSUME NEW c \in Calls PROVE Held(c)'
    BY DEF HoldingInv, Held
  <2>1. Held(c)
    BY DEF HoldingInv, Held, PlaceInv
  <2>2. CASE ~Busy(c)
    BY <2>2 DEF Busy, Held
  <2>3. CASE Busy(c)
    <3>1. v6[c].id \in Updates /\ v6[c].began \in 1..MaxTime
      BY <2>3, CallIsTyped DEF PlaceInv
    <3>2. v3[v6[c].id].by \in Installations /\ v3[v6[c].id].by # "none"
      BY <2>1, <2>3, <3>1 DEF Held, PlaceInv, PlaceTypes
    <3>3. v3'[v6[c].id] = v3[v6[c].id]
      BY <3>1, <3>2
    <3>4. M!Installation(c)' = M!Installation(c) /\ M!Observed(c)' = M!Observed(c)
          /\ M!Installation(c) \in Installations
      BY <3>2, <3>3 DEF M!Installation, M!Observed
    <3>5. v6[c].began <= v1'
      BY <2>1, <2>3, <3>1 DEF Held, PlaceInv, PlaceTypes
    <3>6. (v3[v6[c].id].by # "none")'
      BY <3>2, <3>3
    <3>7. M!AcceptedSince(M!Installation(c), v6[c].began)'
            = M!AcceptedSince(M!Installation(c), v6[c].began)
      BY <1>2, <3>4
    <3>8. v2'[M!Installation(c)].last = v2[M!Installation(c)].last
      BY <3>4
    <3> QED
      BY <2>1, <2>3, <3>4, <3>5, <3>6, <3>7, <3>8 DEF Held, Busy, Holding
  <2> QED
    BY <2>2, <2>3
<1>6. RateInv'
  BY <1>3 DEF PlaceInv, RateInv
<1> QED
  BY <1>4, <1>5, <1>6
     DEF PlaceInv, PlaceAssumption, M!ClockAssumption, M!NamesAssumption

(* One call moves and takes no row of another.                               *)
LEMMA CallMoves ==
    ASSUME PlaceInv, NEW c \in Calls, NEW w \in Submissions, v6' = [v6 EXCEPT ![c] = w],
           UNCHANGED <<v1, v2, v3, v4, v5>>, v7' \in [Installations -> Calls \cup {M!Free}],
           \A i \in Installations : v7[i] \notin {c, M!Free} => v7'[i] = v7[i],
           Held(c)'
    PROVE  PlaceInv'
<1>1. PlaceTypes'
  BY DEF PlaceInv, PlaceTypes
<1>2. AcceptedInv' /\ RateInv'
  BY DEF PlaceInv, AcceptedInv, RateInv, Window
<1>3. \A i, t : M!AcceptedSince(i, t)' = M!AcceptedSince(i, t)
  BY DEF M!AcceptedSince
<1>4. HoldingInv'
  <2> SUFFICES ASSUME NEW d \in Calls, d # c PROVE Held(d)'
    BY DEF HoldingInv
  <2>1. v6'[d] = v6[d]
    BY DEF PlaceInv, PlaceTypes
  <2>2. Held(d) /\ d # M!Free
    BY DEF PlaceInv, HoldingInv, PlaceAssumption, M!NamesAssumption
  <2>3. M!Installation(d)' = M!Installation(d) /\ M!Observed(d)' = M!Observed(d)
    BY <2>1 DEF M!Installation, M!Observed
  <2>4. Busy(d)' = Busy(d) /\ Holding(d)' = Holding(d)
    BY <2>1 DEF Busy, Holding
  <2>5. CASE ~(Busy(d) /\ Holding(d))
    BY <2>1, <2>2, <2>4, <2>5 DEF Held
  <2>6. CASE Busy(d) /\ Holding(d)
    <3>1. v6[d].id \in Updates
      BY <2>6, CallIsTyped DEF PlaceInv
    <3>2. M!Installation(d) \in Installations
      BY <2>2, <2>6, <3>1 DEF Held, PlaceInv, PlaceTypes, M!Installation
    <3>3. v7'[M!Installation(d)] = d
      BY <2>2, <2>6, <3>2 DEF Held
    <3>4. M!AcceptedSince(M!Installation(d), v6[d].began)'
            = M!AcceptedSince(M!Installation(d), v6[d].began)
      BY <1>3, <2>1, <2>3
    <3> QED
      BY <2>1, <2>2, <2>3, <2>4, <2>6, <3>3, <3>4 DEF Held
  <2> QED
    BY <2>5, <2>6
<1> QED
  BY <1>1, <1>2, <1>4
     DEF PlaceInv, PlaceAssumption, M!ClockAssumption, M!NamesAssumption

(* A call that ends lets go of its device's row and of no other.             *)
LEMMA FinishReleases ==
    ASSUME PlaceInv, NEW c \in Calls, M!Finish(c)
    PROVE  /\ v6' = [v6 EXCEPT ![c] = M!Idle]
           /\ v7' \in [Installations -> Calls \cup {M!Free}]
           /\ \A i \in Installations : v7[i] # c => v7'[i] = v7[i]
           /\ Held(c)'
<1>1. v6' = [v6 EXCEPT ![c] = M!Idle] /\ v6'[c] = M!Idle
  BY DEF M!Finish, PlaceInv, PlaceTypes
<1>2. Held(c)'
  BY <1>1 DEF Held, Busy
<1> QED
  BY <1>1, <1>2 DEF M!Finish, PlaceInv, PlaceTypes

(* The steps of a call before it writes, and its loss.                       *)
LEMMA CallsKeep ==
    ASSUME PlaceInv, NEW c \in Calls,
           (\E u \in Updates : M!Submit(c, u)) \/ M!LockInstallation(c) \/ M!ReadPlace(c) \/ M!Lose(c)
    PROVE  PlaceInv'
<1>0. UNCHANGED <<v1, v2, v3, v4, v5>>
  BY DEF M!Submit, M!LockInstallation, M!ReadPlace, M!Lose
<1>1. ASSUME NEW u \in Updates, M!Submit(c, u)
      PROVE  PlaceInv'
  <2> DEFINE w == [at |-> "lock", id |-> u, began |-> v1]
  <2>1. v6' = [v6 EXCEPT ![c] = w] /\ v7' = v7 /\ v3[u].by # "none"
    BY <1>1 DEF M!Submit
  <2>2. w \in Submissions
    BY DEF Submissions, PlaceInv, PlaceTypes
  <2>3. v6'[c] = w
    BY <2>1 DEF PlaceInv, PlaceTypes
  <2>4. Held(c)'
    BY <1>0, <2>1, <2>3 DEF Held, Holding, PlaceInv, PlaceTypes
  <2> HIDE DEF w
  <2> QED
    BY <1>0, <2>1, <2>2, <2>4, CallMoves DEF PlaceInv, PlaceTypes
<1>2. ASSUME M!Finish(c)
      PROVE  PlaceInv'
  <2>1. M!Idle \in Submissions
    BY DEF Submissions
  <2> QED
    BY <1>0, <1>2, <2>1, FinishReleases, CallMoves
<1>3. CASE M!ReadPlace(c)
  <2> DEFINE w == [at |-> "write", id |-> v6[c].id, began |-> v6[c].began, seen |-> v5]
  <2>1. v6' = [v6 EXCEPT ![c] = w] /\ v7' = v7 /\ v6[c].at = "read"
    BY <1>3 DEF M!ReadPlace
  <2>2. Busy(c) /\ Holding(c) /\ Held(c)
    BY <2>1 DEF Busy, Holding, M!Idle, PlaceInv, HoldingInv
  <2>3. v6[c].id \in Updates /\ v6[c].began \in 1..MaxTime
    BY <2>2, CallIsTyped DEF PlaceInv
  <2>4. w \in Submissions
    BY <2>3 DEF Submissions, PlaceInv, PlaceTypes
  <2>5. v6'[c] = w
    BY <2>1 DEF PlaceInv, PlaceTypes
  <2>6. v6'[c].id = v6[c].id /\ v6'[c].began = v6[c].began /\ v6'[c].at = "write"
    BY <2>5
  <2>7. M!Installation(c)' = M!Installation(c) /\ M!Observed(c)' = M!Observed(c)
    BY <1>0, <2>6 DEF M!Installation, M!Observed
  <2>8. M!AcceptedSince(M!Installation(c), v6[c].began)'
            = M!AcceptedSince(M!Installation(c), v6[c].began)
    BY <1>0, <2>6, <2>7 DEF M!AcceptedSince
  <2>9. Held(c)'
    BY <1>0, <2>1, <2>2, <2>6, <2>7, <2>8 DEF Held
  <2> HIDE DEF w
  <2> QED
    BY <1>0, <2>1, <2>4, <2>9, CallMoves DEF PlaceInv, PlaceTypes
<1>4. CASE M!LockInstallation(c) /\ ~M!Finish(c)
  <2> DEFINE w == [v6[c] EXCEPT !.at = "read"]
  <2>1. /\ v6[c].at = "lock" /\ v7[M!Installation(c)] = M!Free
        /\ ~M!TooMany(c) /\ ~M!OutOfOrder(c)
        /\ v6' = [v6 EXCEPT ![c] = w] /\ v7' = [v7 EXCEPT ![M!Installation(c)] = c]
    BY <1>4 DEF M!LockInstallation
  <2>2. Busy(c) /\ Held(c)
    BY <2>1 DEF Busy, M!Idle, PlaceInv, HoldingInv
  <2>3. v6[c].id \in Updates /\ v6[c].began \in 1..MaxTime
    BY <2>2, CallIsTyped DEF PlaceInv
  <2>4. v3[v6[c].id] \in [by : Installations \cup {"none"}, observed : Moments]
        /\ v3[v6[c].id].by # "none"
    BY <2>2, <2>3 DEF PlaceInv, PlaceTypes, Held
  <2>5. M!Installation(c) \in Installations /\ M!Observed(c) \in 1..MaxTime
    BY <2>3, <2>4
       DEF M!Installation, M!Observed, PlaceInv, AcceptedInv, Moments
  <2>6. v2[M!Installation(c)].last \in Moments
    BY <2>5 DEF PlaceInv, PlaceTypes
  <2>7. v2[M!Installation(c)].last < M!Observed(c)
    BY <2>1, <2>5, <2>6 DEF M!OutOfOrder, Moments
  <2>8. Cardinality(M!AcceptedSince(M!Installation(c), v6[c].began)) < RateLimit
    <3>1. M!AcceptedSince(M!Installation(c), v6[c].began) \in SUBSET Updates
      BY DEF M!AcceptedSince
    <3>2. IsFiniteSet(Updates) /\ RateLimit \in Nat
      BY SameCardinality
         DEF PlaceInv, PlaceAssumption, M!NamesAssumption, M!ClockAssumption
    <3>3. Cardinality(M!AcceptedSince(M!Installation(c), v6[c].began)) \in Nat
      BY <3>1, <3>2, FS_Subset, FS_CardinalityType
    <3>4. ~(Cardinality(M!AcceptedSince(M!Installation(c), v6[c].began)) >= RateLimit)
      BY <2>1, SameCardinality DEF M!TooMany
    <3> QED
      BY <3>2, <3>3, <3>4
  <2>9. v6[c] \in [at : {"lock", "read"}, id : Updates, began : 1..MaxTime]
    BY <2>1 DEF PlaceInv, PlaceTypes, Submissions, M!Idle
  <2>10. w \in Submissions /\ w.at = "read" /\ w.id = v6[c].id /\ w.began = v6[c].began
    BY <2>9 DEF Submissions
  <2> HIDE DEF w
  <2>11. v6'[c] = w
    BY <2>1 DEF PlaceInv, PlaceTypes
  <2>12. M!Installation(c)' = M!Installation(c) /\ M!Observed(c)' = M!Observed(c)
    BY <1>0, <2>10, <2>11 DEF M!Installation, M!Observed
  <2>13. M!AcceptedSince(M!Installation(c), v6[c].began)'
            = M!AcceptedSince(M!Installation(c), v6[c].began)
    BY <1>0, <2>10, <2>11, <2>12 DEF M!AcceptedSince
  <2>14. v7' \in [Installations -> Calls \cup {M!Free}] /\ v7'[M!Installation(c)] = c
         /\ \A i \in Installations : v7[i] \notin {c, M!Free} => v7'[i] = v7[i]
    BY <2>1, <2>5 DEF PlaceInv, PlaceTypes
  <2>15. Held(c)'
    BY <1>0, <2>2, <2>7, <2>8, <2>10, <2>11, <2>12, <2>13, <2>14 DEF Held
  <2> QED
    BY <1>0, <2>1, <2>10, <2>14, <2>15, CallMoves
<1>5. M!Lose(c) => M!Finish(c)
  BY DEF M!Lose
<1> QED
  BY <1>1, <1>2, <1>3, <1>4, <1>5

(* What a call finds as it writes.                                           *)
LEMMA WriterHolds ==
    ASSUME PlaceInv, NEW c \in Calls, M!WriteUpdate(c)
    PROVE  /\ v6[c].id \in Updates /\ v6[c].began \in 1..MaxTime /\ Busy(c) /\ Holding(c)
           /\ M!Installation(c) \in Installations /\ M!Observed(c) \in 1..MaxTime
           /\ v7[M!Installation(c)] = c
           /\ v2[M!Installation(c)].last \in Moments
           /\ v2[M!Installation(c)].last < M!Observed(c)
           /\ Cardinality(M!AcceptedSince(M!Installation(c), v6[c].began)) < RateLimit
           /\ v4[v6[c].id] = 0
<1>1. Busy(c) /\ Holding(c) /\ Held(c)
  BY DEF M!WriteUpdate, Busy, Holding, M!Idle, PlaceInv, HoldingInv
<1>2. v6[c].id \in Updates /\ v6[c].began \in 1..MaxTime
  BY <1>1, CallIsTyped DEF PlaceInv
<1>3. v3[v6[c].id] \in [by : Installations \cup {"none"}, observed : Moments]
      /\ v3[v6[c].id].by # "none"
  BY <1>1, <1>2 DEF PlaceInv, PlaceTypes, Held
<1>4. M!Installation(c) \in Installations /\ M!Observed(c) \in 1..MaxTime
  BY <1>2, <1>3 DEF M!Installation, M!Observed, PlaceInv, AcceptedInv, Moments
<1>5. v2[M!Installation(c)].last \in Moments
  BY <1>4 DEF PlaceInv, PlaceTypes
<1>6. v2[M!Installation(c)].last < M!Observed(c) /\ v7[M!Installation(c)] = c
      /\ Cardinality(M!AcceptedSince(M!Installation(c), v6[c].began)) < RateLimit
  BY <1>1 DEF Held
<1>7. v4[v6[c].id] = 0
  <2>1. v4[v6[c].id] # 0 => M!Observed(c) <= v2[M!Installation(c)].last
    BY <1>2 DEF PlaceInv, AcceptedInv, M!Installation, M!Observed
  <2> QED
    BY <1>4, <1>5, <1>6, <2>1 DEF Moments
<1> QED
  BY <1>1, <1>2, <1>4, <1>5, <1>6, <1>7

(* One element more makes a finite set larger by at most one.                *)
LEMMA OneMore ==
    ASSUME NEW W, NEW x, IsFiniteSet(W)
    PROVE  /\ Cardinality(W \cup {x}) \in Nat
           /\ Cardinality(W \cup {x}) <= Cardinality(W) + 1
<1>1. Cardinality(W) \in Nat
  BY FS_CardinalityType
<1>2. Cardinality(W \cup {x}) = IF x \in W THEN Cardinality(W) ELSE Cardinality(W) + 1
  BY FS_AddElement
<1> QED
  BY <1>1, <1>2

(* The write: the checks that were made under the lock still hold.           *)
LEMMA WriteUpdateKeeps ==
    ASSUME PlaceInv, NEW c \in Calls, M!WriteUpdate(c)
    PROVE  PlaceInv'
<1>1. PICK u, i, b, o : u = v6[c].id /\ i = M!Installation(c) /\ b = v6[c].began
                        /\ o = M!Observed(c)
  OBVIOUS
<1>2. /\ u \in Updates /\ i \in Installations /\ b \in 1..MaxTime /\ o \in 1..MaxTime
      /\ v7[i] = c /\ v2[i].last \in Moments /\ v2[i].last < o /\ v4[u] = 0
      /\ v3[u].by = i /\ v3[u].observed = o
      /\ Cardinality(M!AcceptedSince(i, b)) < RateLimit
  BY <1>1, WriterHolds DEF M!Installation, M!Observed
<1>3. /\ v4' = [v4 EXCEPT ![u] = b]
      /\ v2' = [v2 EXCEPT ![i].permission = "granted", ![i].last = o]
      /\ v5' = v5 \/ v5' = [source |-> "device", at |-> o]
      /\ M!Finish(c) /\ UNCHANGED <<v1, v3>>
  BY <1>1 DEF M!WriteUpdate
<1>4. /\ v6' = [v6 EXCEPT ![c] = M!Idle]
      /\ v7' \in [Installations -> Calls \cup {M!Free}]
      /\ \A j \in Installations : v7[j] # c => v7'[j] = v7[j]
      /\ Held(c)'
  BY <1>3, FinishReleases
<1>5. v2'[i].last = o /\ \A j \in Installations : j # i => v2'[j] = v2[j]
  BY <1>2, <1>3 DEF PlaceInv, PlaceTypes
<1>6. v4'[u] = b /\ \A x \in Updates : x # u => v4'[x] = v4[x]
  BY <1>2, <1>3 DEF PlaceInv, PlaceTypes
<1>7. PlaceTypes'
  <2>1. v2' \in [Installations -> [state : {"absent", "active", "revoked"},
                permission : {"not_requested", "granted", "denied"}, last : Moments]]
    BY <1>2, <1>3 DEF PlaceInv, PlaceTypes, Moments
  <2>2. v4' \in [Updates -> Moments]
    BY <1>2, <1>3 DEF PlaceInv, PlaceTypes, Moments
  <2>3. v5' \in [source : {"none", "manual", "device"}, at : Moments]
    BY <1>2, <1>3 DEF PlaceInv, PlaceTypes, Moments
  <2>4. v6' \in [Calls -> Submissions]
    BY <1>4 DEF PlaceInv, PlaceTypes, Submissions
  <2> QED
    BY <1>3, <1>4, <2>1, <2>2, <2>3, <2>4 DEF PlaceInv, PlaceTypes
<1>8. AcceptedInv'
  <2> SUFFICES ASSUME NEW x \in Updates
               PROVE  /\ v3[x].by # "none" => v3[x].observed >= 1
                      /\ v4'[x] # 0 => v3[x].by # "none" /\ v3[x].observed <= v2'[v3[x].by].last
    BY <1>3 DEF AcceptedInv
  <2>1. /\ v3[x].by # "none" => v3[x].observed >= 1
        /\ v4[x] # 0 => v3[x].by # "none" /\ v3[x].observed <= v2[v3[x].by].last
    BY DEF PlaceInv, AcceptedInv
  <2>2. v3[x] \in [by : Installations \cup {"none"}, observed : Moments]
    BY DEF PlaceInv, PlaceTypes
  <2>3. CASE x = u
    BY <1>2, <1>5, <2>1, <2>3 DEF PlaceInv, PlaceAssumption, M!NamesAssumption
  <2>4. CASE x # u /\ v3[x].by = i
    <3>1. v3[x].observed <= v2[i].last => v3[x].observed <= o
      BY <1>2, <2>2 DEF Moments
    <3> QED
      BY <1>2, <1>5, <1>6, <2>1, <2>4, <3>1
  <2>5. CASE x # u /\ v3[x].by # i
    BY <1>5, <1>6, <2>1, <2>2, <2>5
  <2> QED
    BY <2>3, <2>4, <2>5
<1>9. \A j, t : j # i => M!AcceptedSince(j, t)' = M!AcceptedSince(j, t)
  BY <1>2, <1>3, <1>6 DEF M!AcceptedSince
<1>10. HoldingInv'
  <2> SUFFICES ASSUME NEW d \in Calls, d # c PROVE Held(d)'
    BY <1>4 DEF HoldingInv
  <2>1. v6'[d] = v6[d]
    BY <1>4 DEF PlaceInv, PlaceTypes
  <2>2. Held(d)
    BY DEF PlaceInv, HoldingInv
  <2>3. M!Installation(d)' = M!Installation(d) /\ M!Observed(d)' = M!Observed(d)
    BY <1>3, <2>1 DEF M!Installation, M!Observed
  <2>4. Busy(d)' = Busy(d) /\ Holding(d)' = Holding(d)
    BY <2>1 DEF Busy, Holding
  <2>5. CASE ~(Busy(d) /\ Holding(d))
    BY <1>3, <2>1, <2>2, <2>4, <2>5 DEF Held
  <2>6. CASE Busy(d) /\ Holding(d)
    <3>1. v6[d].id \in Updates
      BY <2>6, CallIsTyped DEF PlaceInv
    <3>2. M!Installation(d) \in Installations
      BY <2>2, <2>6, <3>1 DEF Held, PlaceInv, PlaceTypes, M!Installation
    <3>3. M!Installation(d) # i
      BY <1>2, <2>2, <2>6 DEF Held
    <3>4. v7'[M!Installation(d)] = d
      BY <1>4, <2>2, <2>6, <3>2 DEF Held
    <3>5. M!AcceptedSince(M!Installation(d), v6[d].began)'
            = M!AcceptedSince(M!Installation(d), v6[d].began)
      BY <1>9, <2>1, <2>3, <3>3
    <3>6. v2'[M!Installation(d)].last = v2[M!Installation(d)].last
      BY <1>5, <3>2, <3>3
    <3> QED
      BY <1>3, <2>1, <2>2, <2>3, <2>4, <2>6, <3>4, <3>5, <3>6 DEF Held
  <2> QED
    BY <2>5, <2>6
<1>11. RateInv'
  <2> SUFFICES ASSUME NEW j \in Installations, NEW t \in 1..MaxTime
               PROVE  Cardinality(Window(j, t)') <= RateLimit
    BY DEF RateInv
  <2>1. Cardinality(Window(j, t)) <= RateLimit
    BY DEF PlaceInv, RateInv
  <2>2. Hour \in Nat /\ RateLimit \in Nat /\ MaxTime \in Nat /\ IsFiniteSet(Updates)
    BY SameCardinality
       DEF PlaceInv, PlaceAssumption, M!NamesAssumption, M!ClockAssumption
  <2>3. CASE Window(j, t)' = Window(j, t)
    BY <2>1, <2>3
  <2>4. CASE Window(j, t)' # Window(j, t)
    <3>1. j = i /\ b <= t /\ b + Hour >= t
      BY <1>2, <1>3, <1>6, <2>4 DEF Window
    <3>2. Window(j, t)' = Window(j, t) \cup {u}
      BY <1>2, <1>3, <1>6, <3>1 DEF Window
    <3>3. M!AcceptedSince(i, b) \in SUBSET Updates
      BY DEF M!AcceptedSince
    <3>4. IsFiniteSet(M!AcceptedSince(i, b)) /\ Cardinality(M!AcceptedSince(i, b)) \in Nat
      BY <2>2, <3>3, FS_Subset, FS_CardinalityType
    <3>5. Window(j, t) \in SUBSET M!AcceptedSince(i, b)
      <4>1. \A x \in Updates : v4[x] \in Nat
        BY DEF PlaceInv, PlaceTypes, Moments
      <4>2. \A x \in Updates : v4[x] + Hour >= t => v4[x] + Hour >= b
        BY <1>2, <2>2, <3>1, <4>1
      <4> QED
        BY <3>1, <4>2 DEF Window, M!AcceptedSince
    <3>6. IsFiniteSet(Window(j, t)) /\ Cardinality(Window(j, t)) \in Nat
          /\ Cardinality(Window(j, t)) <= Cardinality(M!AcceptedSince(i, b))
      BY <3>4, <3>5, FS_Subset, FS_CardinalityType
    <3>7. Cardinality(Window(j, t) \cup {u}) \in Nat
          /\ Cardinality(Window(j, t) \cup {u}) <= Cardinality(Window(j, t)) + 1
      BY <3>6, OneMore
    <3> QED
      BY <1>2, <2>2, <3>2, <3>4, <3>6, <3>7
  <2> QED
    BY <2>3, <2>4
<1> QED
  BY <1>7, <1>8, <1>10, <1>11
     DEF PlaceInv, PlaceAssumption, M!ClockAssumption, M!NamesAssumption

(* Every step of the places keeps the invariant.                             *)
LEMMA PlaceKeeps == PlaceInv /\ [M!Next]_(M!vars) => PlaceInv'
<1> SUFFICES ASSUME PlaceInv, [M!Next]_(M!vars) PROVE PlaceInv'
  OBVIOUS
<1>1. CASE UNCHANGED M!vars
  <2>1. UNCHANGED <<v1, v2, v3, v4, v5, v6, v7>>
    BY <1>1 DEF M!vars
  <2>2. PlaceTypes'
    BY <2>1 DEF PlaceInv, PlaceTypes
  <2> QED
    BY <2>1, <2>2, OthersKeep DEF PlaceInv, PlaceTypes
<1>2. CASE M!Tick \/ M!set_current_place
  <2>1. UNCHANGED <<v2, v3, v4, v6, v7>>
    BY <1>2 DEF M!Tick, M!set_current_place
  <2>2. v1' \in 1..MaxTime /\ v1 <= v1'
    BY <1>2
       DEF M!Tick, M!set_current_place, PlaceInv, PlaceTypes, PlaceAssumption,
       M!ClockAssumption
  <2>3. v5' \in [source : {"none", "manual", "device"}, at : Moments]
    BY <1>2 DEF M!Tick, M!set_current_place, PlaceInv, PlaceTypes, Moments
  <2>4. PlaceTypes'
    BY <2>1, <2>2, <2>3 DEF PlaceInv, PlaceTypes
  <2> QED
    BY <2>1, <2>2, <2>4, OthersKeep
<1>3. ASSUME NEW i \in Installations,
             \/ M!register_mobile_location_installation(i)
             \/ M!revoke_mobile_location_installation(i)
      PROVE  PlaceInv'
  <2>1. UNCHANGED <<v1, v3, v4, v5, v6, v7>>
    BY <1>3
       DEF M!register_mobile_location_installation,
       M!revoke_mobile_location_installation
  <2>2. v2' \in [Installations -> [state : {"absent", "active", "revoked"},
                permission : {"not_requested", "granted", "denied"}, last : Moments]]
        /\ \A j \in Installations : v2'[j].last = v2[j].last
    <3>1. CASE M!register_mobile_location_installation(i)
      BY <3>1 DEF M!register_mobile_location_installation, PlaceInv, PlaceTypes
    <3>2. CASE M!revoke_mobile_location_installation(i)
      BY <3>2, ZenonT(60) DEF M!revoke_mobile_location_installation, PlaceInv, PlaceTypes
    <3> QED
      BY <1>3, <3>1, <3>2
  <2>3. PlaceTypes'
    BY <2>1, <2>2 DEF PlaceInv, PlaceTypes
  <2>4. v1 <= v1'
    BY <2>1 DEF PlaceInv, PlaceTypes
  <2> QED
    BY <2>1, <2>2, <2>3, <2>4, OthersKeep
<1>4. ASSUME NEW i \in Installations, NEW u \in Updates, M!Observe(i, u)
      PROVE  PlaceInv'
  <2>1. UNCHANGED <<v1, v2, v4, v5, v6, v7>> /\ v3[u].by = "none"
        /\ v3' = [v3 EXCEPT ![u] = [by |-> i, observed |-> v1]]
    BY <1>4 DEF M!Observe
  <2>2. v3' \in [Updates -> [by : Installations \cup {"none"}, observed : Moments]]
        /\ v3'[u].observed = v1 /\ \A x \in Updates : x # u => v3'[x] = v3[x]
    BY <2>1 DEF PlaceInv, PlaceTypes, Moments
  <2>3. PlaceTypes'
    BY <2>1, <2>2 DEF PlaceInv, PlaceTypes
  <2>4. v1 <= v1' /\ v1 >= 1
    BY <2>1 DEF PlaceInv, PlaceTypes
  <2>5. \A x \in Updates : v3'[x] = v3[x] \/ (v3[x].by = "none" /\ v3'[x].observed >= 1)
    BY <2>1, <2>2, <2>4
  <2> QED
    BY <2>1, <2>3, <2>4, <2>5, OthersKeep
<1>5. ASSUME NEW c \in Calls,
             (\E u \in Updates : M!Submit(c, u)) \/ M!Serve(c) \/ M!Lose(c)
      PROVE  PlaceInv'
  BY <1>5, CallsKeep, WriteUpdateKeeps DEF M!Serve
<1> QED
  BY <1>1, <1>2, <1>3, <1>4, <1>5 DEF M!Next

(* What the invariant says of the places.                                    *)
LEMMA PlaceInvImplies ==
    ASSUME PlaceInv
    PROVE  M!TypeOK /\ M!UpdatesAreBounded
<1>1. \A c \in Calls : v6[c].at \in {"idle", "lock", "read", "write"}
  BY CallIsTyped DEF PlaceInv
<1>2. M!TypeOK
  BY <1>1 DEF PlaceInv, PlaceTypes, Moments, M!TypeOK
<1>3. M!UpdatesAreBounded
  <2>1. ASSUME NEW i \in Installations, NEW t \in 1..MaxTime
        PROVE  M!Cardinality({u \in M!AcceptedSince(i, t) : v4[u] <= t}) <= RateLimit
    <3>1. {u \in M!AcceptedSince(i, t) : v4[u] <= t} = Window(i, t)
      BY DEF M!AcceptedSince, Window
    <3> QED
      BY <3>1, SameCardinality DEF PlaceInv, RateInv
  <2> QED
    BY <2>1 DEF M!UpdatesAreBounded
<1> QED
  BY <1>2, <1>3

(* A step accepts an observation that was not accepted before and is later   *)
(* than the last.                                                            *)
LEMMA StepAdvances == PlaceInv /\ [M!Next]_(M!vars) => M!Advances
<1> SUFFICES ASSUME PlaceInv, [M!Next]_(M!vars) PROVE M!Advances
  OBVIOUS
<1>1. CASE UNCHANGED v4
  BY <1>1 DEF M!Advances
<1>2. ASSUME NEW c \in Calls, M!WriteUpdate(c)
      PROVE  M!Advances
  <2>1. v4' = [v4 EXCEPT ![v6[c].id] = v6[c].began]
    BY <1>2 DEF M!WriteUpdate
  <2>2. v4 \in [Updates -> Moments]
    BY DEF PlaceInv, PlaceTypes
  <2> QED
    BY <1>2, <2>1, <2>2, WriterHolds DEF M!Advances, M!Installation, M!Observed
<1>3. UNCHANGED v4 \/ \E c \in Calls : M!WriteUpdate(c)
  BY DEF M!Next, M!vars, M!Tick, M!set_current_place,
     M!register_mobile_location_installation,
         M!revoke_mobile_location_installation, M!Observe, M!Submit, M!Serve,
         M!LockInstallation, M!ReadPlace, M!Lose
<1> QED
  BY <1>1, <1>2, <1>3

-----------------------------------------------------------------------------
(* The two side by side.                                                     *)

IInv ==
    /\ focus = "memory" => MemoryInv
    /\ focus = "place" => PlaceInv

(* The invariant holds in every behaviour of either component.               *)
THEOREM Invariance == Spec => []IInv
<1>1. Init => IInv
  BY Assumptions, MemoryInitially, PlaceInitially
     DEF Init, IInv, Bounds, PlaceAssumption
<1>2. IInv /\ [Next]_vars => IInv'
  <2> SUFFICES ASSUME IInv, [Next]_vars PROVE IInv'
    OBVIOUS
  <2>1. focus' = focus
    BY DEF Next, Remember, Locate, Rest, vars
  <2>2. focus = "memory" => [S!Next]_(S!vars)
    BY DEF Next, Remember, Locate, Rest, vars, S!vars
  <2>3. focus = "place" => [M!Next]_(M!vars)
    BY DEF Next, Remember, Locate, Rest, vars, M!vars
  <2> QED
    BY <2>1, <2>2, <2>3, MemoryKeeps, PlaceKeeps DEF IInv
<1> QED
  BY <1>1, <1>2, PTL DEF Spec

(* Every variable of memory and of the places keeps its type.                *)
THEOREM TypesHold == Spec => []TypeOK
<1>1. IInv => TypeOK
  BY MemoryInvImplies, PlaceInvImplies DEF IInv, TypeOK
<1> QED
  BY <1>1, Invariance, PTL

(* What was drawn from a private source is private wherever it is            *)
(* remembered.                                                               *)
THEOREM PrivacyHolds == Spec => []PrivacyIsKept
<1>1. IInv => PrivacyIsKept
  BY MemoryInvImplies DEF IInv, PrivacyIsKept
<1> QED
  BY <1>1, Invariance, PTL

(* What Theo left to the owner is remembered only if the owner confirmed it. *)
THEOREM OwnerHolds == Spec => []OwnerDecides
<1>1. IInv => OwnerDecides
  BY MemoryInvImplies DEF IInv, OwnerDecides
<1> QED
  BY <1>1, Invariance, PTL

(* An inference is promoted once, and history leads to what is outdated.     *)
THEOREM PromotionHolds == Spec => []PromotedOnce
<1>1. IInv => PromotedOnce
  BY MemoryInvImplies DEF IInv, PromotedOnce
<1> QED
  BY <1>1, Invariance, PTL

(* No hour holds more accepted observations of a device than the limit.      *)
THEOREM RateHolds == Spec => []UpdatesAreBounded
<1>1. IInv => UpdatesAreBounded
  BY PlaceInvImplies DEF IInv, UpdatesAreBounded
<1> QED
  BY <1>1, Invariance, PTL

(* An observation is accepted once, and each of a device after the one       *)
(* before.                                                                   *)
THEOREM AcceptanceAdvances == Spec => ObservationsAdvance
<1>1. IInv /\ [Next]_vars => [focus = "place" => M!Advances]_vars
  <2> SUFFICES ASSUME IInv, Next, focus = "place" PROVE M!Advances
    BY DEF vars
  <2>1. [M!Next]_(M!vars)
    BY DEF Next, Remember, Locate, Rest, vars, M!vars
  <2> QED
    BY <2>1, StepAdvances DEF IInv
<1> QED
  BY <1>1, Invariance, PTL DEF Spec, ObservationsAdvance
=============================================================================
