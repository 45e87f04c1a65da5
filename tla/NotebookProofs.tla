---------------------------- MODULE NotebookProofs ----------------------------
(***************************************************************************)
(* Proofs about Notebook, for any incidents, evidence and engineers and    *)
(* any number of reviews: the audit log tells the columns, the model is    *)
(* told what was verified, every commit is a step of NotebookLife, and a   *)
(* page shows every citation of the analysis it finds.                     *)
(*                                                                         *)
(* The order of the audit ids is the order in which they are drawn, not    *)
(* that of the commits.  That they agree for each row follows from its     *)
(* lock: the UPDATE takes it before the id is drawn, and no other          *)
(* transaction on the row draws one before the lock is free.               *)
(***************************************************************************)
EXTENDS Notebook, SelectionProofs

(* The row lock of an open transaction is its own.                         *)
OneWriterPerRow ==
  \A g, h \in Engineers :
    g # h /\ review[g].at # "idle" /\ review[h].at # "idle"
      => review[g].entity # review[h].entity

IdsAreDrawn == auditSeq \in Nat /\ \A r \in audit : r.id \in Nat /\ r.id <= auditSeq

(* The id that a transaction has drawn is above those of its row's records.*)
DrawnIsLatest ==
  \A g \in Engineers : review[g].at = "audited" =>
    /\ review[g].id \in Nat /\ review[g].id <= auditSeq
    /\ \A r \in audit : r.entity = review[g].entity => r.id < review[g].id

(* What the transaction of an engineer may look like.                      *)
IsReview(t) ==
  \E at \in {"idle", "updated", "audited"}, v \in Values : \E x, n :
    t = [at |-> at, entity |-> x, value |-> v, id |-> n]

ReviewIsTyped == DOMAIN review = Engineers /\ \A g \in Engineers : IsReview(review[g])

AuditInv ==
  /\ column \in [Entities -> Column]
  /\ ReviewIsTyped
  /\ OneWriterPerRow
  /\ IdsAreDrawn
  /\ DrawnIsLatest
  /\ AuditTellsState

-----------------------------------------------------------------------------
(* The state between two transactions.                                     *)
LEMMA NoReviewIsTyped == IsReview(NoReview) /\ NoReview.at = "idle"
<1>1. NoReview = [at |-> "idle", entity |-> Nobody, value |-> "none", id |-> 0]
  BY DEF NoReview
<1>2. IsReview(NoReview)
  BY <1>1, Zenon DEF IsReview, Values
<1> QED BY <1>1, <1>2

(* Taking the lock of a row that nobody has.                               *)
LEMMA BeginKeepsAudit ==
  ASSUME AuditInv, NEW g \in Engineers, NEW x, NEW v \in Values, Begin(g, x, v)
  PROVE  AuditInv'
<1> USE DEF AuditInv
<1>1. /\ review' = [review EXCEPT ![g] = [at |-> "updated", entity |-> x, value |-> v, id |-> 0]]
      /\ UNCHANGED <<column, audit, auditSeq>>
      /\ \A h \in Engineers : review[h].entity # x
  BY DEF Begin, rowVars, RowIsFree
<1>2. /\ review'[g].at = "updated" /\ review'[g].entity = x
      /\ \A h \in Engineers : h # g => review'[h] = review[h]
  BY <1>1 DEF ReviewIsTyped
<1>3. ReviewIsTyped'
  <2>1. review'[g] = [at |-> "updated", entity |-> x, value |-> v, id |-> 0]
    BY <1>1 DEF ReviewIsTyped
  <2>2. IsReview(review'[g])
    BY <2>1, Zenon DEF IsReview
  <2> QED BY <1>1, <1>2, <2>2 DEF ReviewIsTyped
<1>4. OneWriterPerRow'
  BY <1>1, <1>2 DEF OneWriterPerRow
<1>5. DrawnIsLatest'
  BY <1>1, <1>2 DEF DrawnIsLatest
<1> QED BY <1>1, <1>3, <1>4, <1>5 DEF IdsAreDrawn, AuditTellsState

(* The id that is drawn is above all that were drawn before.               *)
LEMMA RecordKeepsAudit ==
  ASSUME AuditInv, NEW g \in Engineers, RecordAudit(g)
  PROVE  AuditInv'
<1> USE DEF AuditInv
<1>1. /\ auditSeq' = auditSeq + 1
      /\ review' = [review EXCEPT ![g] = [@ EXCEPT !.at = "audited", !.id = auditSeq']]
      /\ UNCHANGED <<column, audit>>
      /\ review[g].at = "updated"
  BY DEF RecordAudit
<1>2. \A h \in Engineers : h # g => review'[h] = review[h]
  BY <1>1 DEF ReviewIsTyped
<1>3. review'[g] = [review[g] EXCEPT !.at = "audited", !.id = auditSeq']
  BY <1>1 DEF ReviewIsTyped
<1>4. auditSeq' \in Nat /\ \A r \in audit : r.id \in Nat /\ r.id < auditSeq'
  BY <1>1 DEF IdsAreDrawn
<1>5. review'[g] = [at |-> "audited", entity |-> review[g].entity,
                    value |-> review[g].value, id |-> auditSeq']
  BY <1>3 DEF ReviewIsTyped, IsReview
<1>6. ReviewIsTyped'
  <2>1. review[g].value \in Values
    BY DEF ReviewIsTyped, IsReview
  <2>2. IsReview(review'[g])
    BY <1>5, <2>1, Zenon DEF IsReview
  <2> QED BY <1>1, <1>2, <2>2 DEF ReviewIsTyped
<1>7. OneWriterPerRow'
  BY <1>1, <1>2, <1>5 DEF OneWriterPerRow
<1>8. DrawnIsLatest'
  BY <1>1, <1>2, <1>4, <1>5 DEF DrawnIsLatest, IdsAreDrawn
<1> QED BY <1>1, <1>4, <1>6, <1>7, <1>8 DEF IdsAreDrawn, AuditTellsState

(* The columns and the record of a commit become visible together, and the *)
(* record is the last of its row.                                          *)
LEMMA CommitKeepsAudit ==
  ASSUME AuditInv, NEW g \in Engineers, CommitReview(g)
  PROVE  AuditInv'
<1> USE DEF AuditInv
<1> DEFINE t == review[g]
           r == Record(g)
<1>1. /\ t.at = "audited"
      /\ column' = [column EXCEPT ![t.entity] = [value |-> t.value, by |-> g]]
      /\ audit' = audit \cup {r}
      /\ review' = [review EXCEPT ![g] = NoReview]
      /\ auditSeq' = auditSeq
  BY DEF CommitReview
<1>2. r.id = t.id /\ r.entity = t.entity /\ r.value = Details(t.entity, t.value) /\ r.by = g
  BY DEF Record
<1>3. /\ review'[g].at = "idle"
      /\ \A h \in Engineers : h # g => review'[h] = review[h]
  BY <1>1 DEF ReviewIsTyped, NoReview
<1>4. /\ t.id \in Nat /\ t.id <= auditSeq
      /\ \A u \in audit : u.entity = t.entity => u.id < t.id
  BY <1>1 DEF DrawnIsLatest
<1>5. column' \in [Entities -> Column]
  <2>1. t.value \in Values
    BY DEF ReviewIsTyped, IsReview
  <2> QED BY <1>1, <2>1 DEF Column
<1>6. ReviewIsTyped'
  BY <1>1, <1>3, NoReviewIsTyped DEF ReviewIsTyped
<1>7. OneWriterPerRow'
  BY <1>3 DEF OneWriterPerRow
<1>8. IdsAreDrawn'
  BY <1>1, <1>2, <1>4 DEF IdsAreDrawn
<1>9. DrawnIsLatest'
  <2> SUFFICES ASSUME NEW h \in Engineers, review'[h].at = "audited"
               PROVE  /\ review'[h].id \in Nat /\ review'[h].id <= auditSeq'
                      /\ \A u \in audit' : u.entity = review'[h].entity => u.id < review'[h].id
    BY DEF DrawnIsLatest
  <2>1. h # g /\ review'[h] = review[h]
    BY <1>3
  <2>2. review[h].entity # t.entity
    BY <1>1, <2>1 DEF OneWriterPerRow
  <2> QED BY <1>1, <1>2, <2>1, <2>2 DEF DrawnIsLatest
<1>10. AuditTellsState'
  <2> SUFFICES ASSUME NEW x \in Entities
               PROVE  LET records == {u \in audit' : u.entity = x} IN
                      IF records = {} THEN column'[x] = Unset
                      ELSE \E last \in records :
                             /\ \A u \in records : u.id <= last.id
                             /\ column'[x].by = last.by
                             /\ Details(x, column'[x].value) = last.value
    BY DEF AuditTellsState
  <2>1. CASE x = t.entity
    <3>1. column'[x] = [value |-> t.value, by |-> g]
      BY <1>1, <2>1
    <3>2. r \in audit' /\ r.entity = x
      BY <1>1, <1>2, <2>1
    <3>3. \A u \in audit' : u.entity = x => u.id <= r.id
      BY <1>1, <1>2, <1>4, <2>1 DEF IdsAreDrawn
    <3> QED BY <1>2, <2>1, <3>1, <3>2, <3>3
  <2>2. CASE x # t.entity
    <3>1. column'[x] = column[x]
      BY <1>1, <2>2
    <3>2. {u \in audit' : u.entity = x} = {u \in audit : u.entity = x}
      BY <1>1, <1>2, <2>2
    <3> QED BY <3>1, <3>2 DEF AuditTellsState
  <2> QED BY <2>1, <2>2
<1> QED BY <1>5, <1>6, <1>7, <1>8, <1>9, <1>10

(* A transaction that rolls back leaves a gap in the ids and nothing else. *)
LEMMA RollBackKeepsAudit ==
  ASSUME AuditInv, NEW g \in Engineers, RollBack(g)
  PROVE  AuditInv'
<1> USE DEF AuditInv
<1>1. /\ review' = [review EXCEPT ![g] = NoReview]
      /\ UNCHANGED <<column, audit, auditSeq>>
  BY DEF RollBack, rowVars
<1>2. /\ review'[g].at = "idle"
      /\ \A h \in Engineers : h # g => review'[h] = review[h]
  BY <1>1 DEF ReviewIsTyped, NoReview
<1>3. ReviewIsTyped'
  BY <1>1, <1>2, NoReviewIsTyped DEF ReviewIsTyped
<1>4. OneWriterPerRow' /\ DrawnIsLatest'
  BY <1>1, <1>2 DEF OneWriterPerRow, DrawnIsLatest
<1> QED BY <1>1, <1>3, <1>4 DEF IdsAreDrawn, AuditTellsState

(* The steps that write none of this.                                      *)
AuditUntouched == UNCHANGED <<column, audit, auditSeq, review>>

(* They keep the invariant.                                                *)
LEMMA UntouchedKeepsAudit ==
  ASSUME AuditInv, AuditUntouched
  PROVE  AuditInv'
BY DEF AuditInv, AuditUntouched, ReviewIsTyped, OneWriterPerRow, IdsAreDrawn,
       DrawnIsLatest, AuditTellsState

(* So does every step of a review transaction.                             *)
LEMMA ReviewStepKeepsAudit ==
  ASSUME AuditInv, NEW g \in Engineers, ReviewStep(g)
  PROVE  AuditInv'
<1>1. CASE SetHypothesisVerdict(g)
  <2>1. PICK i \in Incidents, v \in {"none", "confirmed", "rejected"} :
          \E a \in DOMAIN analyses[i] : Begin(g, Hypothesis(i, a), v)
    BY <1>1 DEF SetHypothesisVerdict
  <2>2. v \in Values
    BY DEF Values
  <2> QED BY <2>1, <2>2, BeginKeepsAudit
<1>2. CASE FlagEvidence(g)
  <2>1. \E e : Begin(g, EvidenceItem(e), "flagged")
    BY <1>2 DEF FlagEvidence
  <2>2. "flagged" \in Values
    BY DEF Values
  <2> QED BY <2>1, <2>2, BeginKeepsAudit
<1>3. CASE SaveResolution(g)
  <2>1. \E i : Begin(g, Resolution(i), "cause")
    BY <1>3 DEF SaveResolution
  <2>2. "cause" \in Values
    BY DEF Values
  <2> QED BY <2>1, <2>2, BeginKeepsAudit
<1> QED
  BY <1>1, <1>2, <1>3, RecordKeepsAudit, CommitKeepsAudit, RollBackKeepsAudit DEF ReviewStep

(* ... and every step of the system.                                       *)
LEMMA AuditStep ==
  ASSUME AuditInv, [NotebookNext]_notebookVars
  PROVE  AuditInv'
<1>1. CASE \E g \in Engineers : ReviewStep(g)
  BY <1>1, ReviewStepKeepsAudit
<1>2. ASSUME NEW i \in Incidents,
             \/ OpenIncident(i) \/ CaptureEvidence(i) \/ LoadEvidence(i)
             \/ LoadVerdicts(i) \/ LoadPageEvidence(i)
      PROVE  AuditInv'
  <2>1. AuditUntouched
    BY <1>2 DEF OpenIncident, CaptureEvidence, LoadEvidence, LoadVerdicts,
                LoadPageEvidence, rowVars, AuditUntouched
  <2> QED BY <2>1, UntouchedKeepsAudit
<1>3. CASE LoadSimilar \/ SaveAnalysis \/ AnalysisDies \/ LoadPageAnalysis
  <2>1. AuditUntouched
    BY <1>3 DEF LoadSimilar, SaveAnalysis, AnalysisDies, LoadPageAnalysis, rowVars, AuditUntouched
  <2> QED BY <2>1, UntouchedKeepsAudit
<1>4. CASE UNCHANGED notebookVars
  <2>1. AuditUntouched
    BY <1>4 DEF notebookVars, AuditUntouched
  <2> QED BY <2>1, UntouchedKeepsAudit
<1> QED BY <1>1, <1>2, <1>3, <1>4 DEF NotebookNext

(* Nothing is reviewed at first.                                           *)
LEMMA AuditInitially == NotebookInit => AuditInv
<1> SUFFICES ASSUME NotebookInit PROVE AuditInv
  OBVIOUS
<1> USE DEF NotebookInit
<1>1. column \in [Entities -> Column]
  BY DEF Column, Unset, Values
<1>2. ReviewIsTyped /\ OneWriterPerRow /\ DrawnIsLatest
  BY NoReviewIsTyped DEF ReviewIsTyped, OneWriterPerRow, DrawnIsLatest
<1>3. IdsAreDrawn
  BY DEF IdsAreDrawn
<1>4. AuditTellsState
  BY DEF AuditTellsState
<1> QED BY <1>1, <1>2, <1>3, <1>4 DEF AuditInv

(* However the review transactions of any number of engineers interleave   *)
(* and roll back, the last audit record of a row, by id, is the change     *)
(* that the row shows (review.go: recordAudit in the caller's transaction, *)
(* after its UPDATE).                                                      *)
THEOREM AuditCorrect == NotebookSpec => []AuditTellsState
<1>1. AuditInv => AuditTellsState
  BY DEF AuditInv
<1> QED
  BY <1>1, AuditInitially, AuditStep, PTL DEF NotebookSpec

-----------------------------------------------------------------------------
(* Learning.  What a draft is told is the last word of the audit log when  *)
(* it is told, and who it was told of is fixed when the candidates are     *)
(* read, however much is reviewed or analysed between the statements of    *)
(* loadSimilar and before the analysis is filed.                           *)

AnalysesAreBounded ==
  /\ DOMAIN analyses = Incidents
  /\ \A i \in Incidents : (\E S : analyses[i] \in Seq(S)) /\ Len(analyses[i]) <= MaxAnalyses

ResolvedIsRecorded ==
  /\ DOMAIN phase = Incidents
  /\ \A i \in Incidents : phase[i] = "resolved" =>
       \E entry \in audit : entry.entity = Resolution(i) /\ entry.value = "none"

IsDraft(d) ==
  \E at \in {"idle", "evidence", "similar"} : \E i, sh, di, s, p, t :
    d = [at |-> at, incident |-> i, shown |-> sh, distrusted |-> di,
         similar |-> s, pending |-> p, told |-> t]

(* Verdicts are only told of incidents whose root cause is told, too.      *)
ToldOf(d) == {t.entity.incident : t \in d.told}

DraftIsVerified ==
  /\ IsDraft(draft)
  /\ ToldOf(draft) = draft.similar
  /\ draft.pending \subseteq draft.similar
  /\ draft.at # "idle" =>
       draft.incident \in Incidents /\ Len(analyses[draft.incident]) < MaxAnalyses

LearnInv == AuditInv /\ AnalysesAreBounded /\ ResolvedIsRecorded /\ DraftIsVerified

(* A row that was reviewed shows the last word of the log.                 *)
LEMMA LastIsTold ==
  ASSUME AuditInv, NEW x \in Entities, \E r \in audit : r.entity = x
  PROVE  LastWord(x, Details(x, column[x].value))
<1> DEFINE records == {r \in audit : r.entity = x}
<1>1. records # {}
  OBVIOUS
<1>2. PICK last \in records :
        /\ \A r \in records : r.id <= last.id
        /\ Details(x, column[x].value) = last.value
  BY <1>1 DEF AuditInv, AuditTellsState
<1> QED BY <1>2 DEF LastWord

(* No draft is a draft that was told nothing.                              *)
LEMMA NoDraftIsVerified ==
  ASSUME draft' = NoDraft PROVE DraftIsVerified'
<1>1. NoDraft = [at |-> "idle", incident |-> Nobody, shown |-> <<>>, distrusted |-> {},
                 similar |-> {}, pending |-> {}, told |-> {}]
  BY DEF NoDraft
<1>2. IsDraft(NoDraft)
  BY <1>1, Zenon DEF IsDraft
<1> QED BY <1>1, <1>2 DEF DraftIsVerified, ToldOf

(* A draft that stays stays verified.                                      *)
LEMMA DraftStays ==
  ASSUME DraftIsVerified, UNCHANGED <<draft, analyses>>
  PROVE  DraftIsVerified'
BY DEF DraftIsVerified, ToldOf

(* The candidates are resolved, and a resolution is recorded.              *)
LEMMA SimilarIsVerified ==
  ASSUME LearnInv, LoadSimilar
  PROVE  /\ DraftIsVerified'
         /\ \A t \in draft'.told : LastWord(t.entity, Details(t.entity, t.value))
<1> USE DEF LearnInv
<1>1. PICK best \in SUBSET Candidates(draft.incident) :
        draft' = [draft EXCEPT !.at = "similar", !.similar = best, !.pending = best,
          !.told = {[entity |-> Resolution(k), value |-> column[Resolution(k)].value] : k \in best}]
  BY DEF LoadSimilar
<1> DEFINE told == {[entity |-> Resolution(k), value |-> column[Resolution(k)].value] : k \in best}
<1>2. draft.at = "evidence" /\ analyses' = analyses
  BY DEF LoadSimilar, rowVars
<1>3. draft' = [at |-> "similar", incident |-> draft.incident, shown |-> draft.shown,
                distrusted |-> draft.distrusted, similar |-> best, pending |-> best, told |-> told]
  BY <1>1 DEF DraftIsVerified, IsDraft
<1>4. IsDraft(draft')
  BY <1>3, Zenon DEF IsDraft
<1>5. \A k \in best : k \in Incidents /\ phase[k] = "resolved"
  BY DEF Candidates
<1>6. \A k : Resolution(k).type = "incident" /\ Resolution(k).incident = k
  BY DEF Resolution
<1>7. draft'.told = told /\ draft'.pending = best /\ draft'.similar = best
  BY <1>3
<1>8. {t.entity.incident : t \in told} = best
  <2>1. ASSUME NEW k \in best PROVE \E t \in told : t.entity.incident = k
    <3>1. [entity |-> Resolution(k), value |-> column[Resolution(k)].value] \in told
      OBVIOUS
    <3> QED BY <1>6, <3>1
  <2>2. ASSUME NEW t \in told PROVE t.entity.incident \in best
    BY <1>6
  <2> QED BY <2>1, <2>2
<1>9. ASSUME NEW t \in draft'.told
      PROVE  LastWord(t.entity, Details(t.entity, t.value))
  <2>1. PICK k \in best : t = [entity |-> Resolution(k), value |-> column[Resolution(k)].value]
    BY <1>7, <1>9
  <2>2. \E entry \in audit : entry.entity = Resolution(k)
    BY <1>5, <2>1 DEF ResolvedIsRecorded
  <2>3. Resolution(k) \in Entities
    BY <1>5, <2>1 DEF Entities
  <2> QED BY <2>1, <2>2, <2>3, LastIsTold
<1>10. draft'.incident \in Incidents /\ Len(analyses'[draft'.incident]) < MaxAnalyses
  BY <1>2, <1>3 DEF DraftIsVerified
<1> QED BY <1>4, <1>7, <1>8, <1>9, <1>10 DEF DraftIsVerified, ToldOf

(* A verdict that an engineer gave is the value of the last record of its  *)
(* hypothesis.                                                             *)
LEMMA VerdictsAreVerified ==
  ASSUME LearnInv, NEW k \in Incidents, LoadVerdicts(k)
  PROVE  /\ DraftIsVerified'
         /\ \A t \in draft'.told \ draft.told : LastWord(t.entity, Details(t.entity, t.value))
<1> USE DEF LearnInv
<1>1. /\ draft' = [draft EXCEPT !.pending = @ \ {k}, !.told = @ \cup Verdicts(k)]
      /\ k \in draft.pending
      /\ analyses' = analyses
  BY DEF LoadVerdicts, rowVars
<1>2. draft' = [at |-> draft.at, incident |-> draft.incident, shown |-> draft.shown,
                distrusted |-> draft.distrusted, similar |-> draft.similar,
                pending |-> draft.pending \ {k}, told |-> draft.told \cup Verdicts(k)]
  BY <1>1 DEF DraftIsVerified, IsDraft
<1>3. IsDraft(draft')
  <2>1. draft.at \in {"idle", "evidence", "similar"}
    BY DEF DraftIsVerified, IsDraft
  <2> QED BY <1>2, <2>1, Zenon DEF IsDraft
<1>4. ASSUME NEW t \in Verdicts(k)
      PROVE  t.entity.incident = k /\ LastWord(t.entity, Details(t.entity, t.value))
  <2>1. PICK a \in DOMAIN analyses[k] :
          /\ a = Len(analyses[k])
          /\ column[Hypothesis(k, a)].value \in {"confirmed", "rejected"}
          /\ t = [entity |-> Hypothesis(k, a), value |-> column[Hypothesis(k, a)].value]
    BY <1>4 DEF Verdicts
  <2> DEFINE x == Hypothesis(k, a)
  <2>2. t.entity = x /\ t.value = column[x].value
    BY <2>1
  <2>3. x.incident = k
    BY DEF Hypothesis
  <2>4. a \in 1..MaxAnalyses
    <3>1. PICK S : analyses[k] \in Seq(S)
      BY DEF AnalysesAreBounded
    <3> QED BY <2>1, <3>1, NotebookAssumption DEF AnalysesAreBounded
  <2>5. x \in Entities
    BY <2>4 DEF Entities
  <2>6. column[x] # Unset
    BY <2>1 DEF Unset
  <2>7. \E r \in audit : r.entity = x
    BY <2>5, <2>6 DEF AuditInv, AuditTellsState
  <2>8. LastWord(x, Details(x, column[x].value))
    BY <2>5, <2>7, LastIsTold
  <2> QED BY <2>2, <2>3, <2>8
<1>5. ToldOf(draft') = draft'.similar
  <2>1. k \in draft.similar /\ ToldOf(draft) = draft.similar
    BY <1>1 DEF DraftIsVerified
  <2>2. draft'.told = draft.told \cup Verdicts(k) /\ draft'.similar = draft.similar
    BY <1>2
  <2> QED BY <1>4, <2>1, <2>2 DEF ToldOf
<1>6. draft'.pending \subseteq draft'.similar
  BY <1>2 DEF DraftIsVerified
<1>7. draft'.at # "idle" =>
        draft'.incident \in Incidents /\ Len(analyses'[draft'.incident]) < MaxAnalyses
  BY <1>1, <1>2 DEF DraftIsVerified
<1>8. \A t \in draft'.told \ draft.told : LastWord(t.entity, Details(t.entity, t.value))
  BY <1>2, <1>4
<1> QED BY <1>3, <1>5, <1>6, <1>7, <1>8 DEF DraftIsVerified, ToldOf

(* The request is loaded: nothing of the past yet.                         *)
LEMMA LoadIsVerified ==
  ASSUME LearnInv, NEW i \in Incidents, LoadEvidence(i)
  PROVE  DraftIsVerified'
<1>1. draft' = [NoDraft EXCEPT !.at = "evidence", !.incident = i, !.shown = Shown(i),
                               !.distrusted = Distrusted]
  BY DEF LoadEvidence
<1>2. draft' = [at |-> "evidence", incident |-> i, shown |-> Shown(i),
                distrusted |-> Distrusted, similar |-> {}, pending |-> {}, told |-> {}]
  BY <1>1 DEF NoDraft
<1>3. IsDraft(draft')
  BY <1>2, Zenon DEF IsDraft
<1>4. Len(analyses[i]) < MaxAnalyses /\ analyses' = analyses
  BY DEF LoadEvidence, rowVars
<1> QED BY <1>2, <1>3, <1>4 DEF DraftIsVerified, ToldOf

(* What a commit files: one more analysis of the draft's incident.         *)
LEMMA WhatIsFiled ==
  ASSUME LearnInv, SaveAnalysis
  PROVE  /\ AnalysesAreBounded'
         /\ \A i \in Incidents : analyses'[i] # analyses[i] =>
              Last(analyses'[i]).sources =
                IF Last(analyses'[i]).status = "ok" THEN ToldOf(draft) ELSE {}
<1> USE DEF LearnInv
<1> DEFINE i == draft.incident
<1>1. PICK r \in AnsweredRecords(draft) \cup {EmptyRecord} :
        analyses' = [analyses EXCEPT ![i] = Append(@, r)]
  BY DEF SaveAnalysis
<1>2. i \in Incidents /\ Len(analyses[i]) < MaxAnalyses
  BY DEF DraftIsVerified, SaveAnalysis
<1>3. PICK S : analyses[i] \in Seq(S)
  BY <1>2 DEF AnalysesAreBounded
<1>4. analyses[i] \in Seq(S \cup {r})
  BY <1>3
<1>5. /\ analyses'[i] = Append(analyses[i], r)
      /\ \A k \in Incidents : k # i => analyses'[k] = analyses[k]
      /\ DOMAIN analyses' = Incidents
  BY <1>1, <1>2 DEF AnalysesAreBounded
<1>6. /\ analyses'[i] \in Seq(S \cup {r})
      /\ Len(analyses'[i]) = Len(analyses[i]) + 1
      /\ Last(analyses'[i]) = r
  BY <1>4, <1>5 DEF Last
<1>7. Len(analyses'[i]) <= MaxAnalyses
  BY <1>2, <1>3, <1>6, NotebookAssumption
<1>8. AnalysesAreBounded'
  BY <1>5, <1>6, <1>7 DEF AnalysesAreBounded
<1>9. r.sources = IF r.status = "ok" THEN ToldOf(draft) ELSE {}
  <2>1. ToldOf(draft) = draft.similar
    BY DEF DraftIsVerified
  <2>2. CASE r \in AnsweredRecords(draft)
    <3>1. r.status = "ok" /\ r.sources = draft.similar
      BY <2>2 DEF AnsweredRecords, Sources
    <3> QED BY <2>1, <3>1
  <2>3. CASE r = EmptyRecord
    BY <2>3 DEF EmptyRecord
  <2> QED BY <2>2, <2>3
<1> QED BY <1>5, <1>6, <1>8, <1>9

(* A commit that resolves an incident records it.                          *)
LEMMA CommitRecordsResolution ==
  ASSUME LearnInv, NEW g \in Engineers, CommitReview(g)
  PROVE  ResolvedIsRecorded'
<1> USE DEF LearnInv
<1> DEFINE t == review[g]
<1>1. /\ phase' = [i \in Incidents |-> IF t.entity = Resolution(i) THEN "resolved" ELSE phase[i]]
      /\ audit' = audit \cup {Record(g)}
  BY DEF CommitReview
<1>2. Record(g).entity = t.entity /\ Record(g).value = Details(t.entity, t.value)
  BY DEF Record
<1>3. ASSUME NEW i \in Incidents, phase'[i] = "resolved"
      PROVE  \E entry \in audit' : entry.entity = Resolution(i) /\ entry.value = "none"
  <2>1. CASE t.entity = Resolution(i)
    <3>1. Details(t.entity, t.value) = "none"
      BY <2>1 DEF Details, Resolution
    <3> QED BY <1>1, <1>2, <2>1, <3>1
  <2>2. CASE t.entity # Resolution(i)
    BY <1>1, <1>3, <2>2 DEF ResolvedIsRecorded
  <2> QED BY <2>1, <2>2
<1> QED BY <1>1, <1>3 DEF ResolvedIsRecorded

(* Every step keeps what drafts were told verified.                        *)
LEMMA LearnStep ==
  ASSUME LearnInv, [NotebookNext]_notebookVars
  PROVE  LearnInv'
<1> USE DEF LearnInv
<1>1. AuditInv'
  BY AuditStep
<1>2. ASSUME UNCHANGED <<phase, analyses, draft>>, audit \subseteq audit' PROVE LearnInv'
  <2>1. DraftIsVerified'
    BY <1>2, DraftStays
  <2>2. ResolvedIsRecorded'
    BY <1>2 DEF ResolvedIsRecorded
  <2> QED BY <1>1, <1>2, <2>1, <2>2 DEF AnalysesAreBounded
<1>3. ASSUME NEW g \in Engineers, ReviewStep(g) PROVE LearnInv'
  <2>1. CASE CommitReview(g)
    <3>1. UNCHANGED <<analyses, draft>> /\ audit \subseteq audit'
      BY <2>1 DEF CommitReview
    <3>2. DraftIsVerified'
      BY <3>1, DraftStays
    <3> QED BY <1>1, <2>1, <3>1, <3>2, CommitRecordsResolution DEF AnalysesAreBounded
  <2>2. CASE RecordAudit(g) \/ RollBack(g)
    BY <1>2, <2>2 DEF RecordAudit, RollBack, rowVars
  <2>3. CASE SetHypothesisVerdict(g) \/ FlagEvidence(g) \/ SaveResolution(g)
    BY <1>2, <2>3 DEF SetHypothesisVerdict, FlagEvidence, SaveResolution, Begin, rowVars
  <2> QED BY <1>3, <2>1, <2>2, <2>3 DEF ReviewStep
<1>4. ASSUME NEW i \in Incidents, OpenIncident(i) PROVE LearnInv'
  <2>1. /\ phase' = [phase EXCEPT ![i] = "open"]
        /\ UNCHANGED <<analyses, draft, audit>>
    BY <1>4 DEF OpenIncident
  <2>2. DraftIsVerified'
    BY <2>1, DraftStays
  <2>3. ResolvedIsRecorded'
    BY <2>1 DEF ResolvedIsRecorded
  <2> QED BY <1>1, <2>1, <2>2, <2>3 DEF AnalysesAreBounded
<1>5. ASSUME NEW i \in Incidents, CaptureEvidence(i) \/ LoadPageEvidence(i) PROVE LearnInv'
  BY <1>2, <1>5 DEF CaptureEvidence, LoadPageEvidence, rowVars
<1>6. ASSUME NEW i \in Incidents, LoadEvidence(i) \/ LoadVerdicts(i) PROVE LearnInv'
  <2>1. UNCHANGED <<phase, analyses, audit>>
    BY <1>6 DEF LoadEvidence, LoadVerdicts, rowVars
  <2>2. DraftIsVerified'
    BY <1>6, LoadIsVerified, VerdictsAreVerified
  <2> QED BY <1>1, <2>1, <2>2 DEF AnalysesAreBounded, ResolvedIsRecorded
<1>7. CASE LoadSimilar
  <2>1. UNCHANGED <<phase, analyses, audit>>
    BY <1>7 DEF LoadSimilar, rowVars
  <2> QED BY <1>1, <1>7, <2>1, SimilarIsVerified DEF AnalysesAreBounded, ResolvedIsRecorded
<1>8. CASE SaveAnalysis
  <2>1. draft' = NoDraft /\ audit' = audit /\ Publish(draft.incident)
    BY <1>8 DEF SaveAnalysis
  <2>2. ResolvedIsRecorded'
    BY <2>1 DEF Publish, ResolvedIsRecorded
  <2> QED BY <1>1, <1>8, <2>1, <2>2, NoDraftIsVerified, WhatIsFiled
<1>9. CASE AnalysisDies
  <2>1. draft' = NoDraft /\ UNCHANGED <<phase, analyses, audit>>
    BY <1>9 DEF AnalysisDies, rowVars
  <2> QED BY <1>1, <2>1, NoDraftIsVerified DEF AnalysesAreBounded, ResolvedIsRecorded
<1>10. CASE LoadPageAnalysis
  BY <1>2, <1>10 DEF LoadPageAnalysis, rowVars
<1>11. CASE UNCHANGED notebookVars
  BY <1>2, <1>11 DEF notebookVars
<1> QED
  BY <1>3, <1>4, <1>5, <1>6, <1>7, <1>8, <1>9, <1>10, <1>11 DEF NotebookNext

(* Nothing is analysed at first.                                           *)
LEMMA LearnInitially == NotebookInit => LearnInv
<1> SUFFICES ASSUME NotebookInit PROVE LearnInv
  OBVIOUS
<1>1. AuditInv
  BY AuditInitially
<1>2. AnalysesAreBounded
  <2>1. \A i \in Incidents : analyses[i] = <<>> /\ <<>> \in Seq({})
    BY DEF NotebookInit
  <2> QED BY <2>1, NotebookAssumption DEF NotebookInit, AnalysesAreBounded
<1>3. ResolvedIsRecorded
  BY DEF NotebookInit, ResolvedIsRecorded
<1>4. DraftIsVerified
  <2>1. draft = NoDraft
    BY DEF NotebookInit
  <2>2. NoDraft = [at |-> "idle", incident |-> Nobody, shown |-> <<>>, distrusted |-> {},
                   similar |-> {}, pending |-> {}, told |-> {}]
    BY DEF NoDraft
  <2>3. IsDraft(draft)
    BY <2>1, <2>2, Zenon DEF IsDraft
  <2> QED BY <2>1, <2>2, <2>3 DEF DraftIsVerified, ToldOf
<1> QED BY <1>1, <1>2, <1>3, <1>4 DEF LearnInv

(* Whatever is reviewed, resolved or analysed again between the statements *)
(* of loadSimilar, an analysis is told only the last words of engineers'   *)
(* transactions, and the provenance of one that used them is exactly the   *)
(* incidents they were about - also when others were resolved meanwhile.   *)
THEOREM LearningCorrect == NotebookSpec => LearnedFromVerified
<1> DEFINE Told ==
             \A t \in draft'.told \ draft.told : LastWord(t.entity, Details(t.entity, t.value))
           Filed ==
             \A i \in Incidents : analyses'[i] # analyses[i] =>
               Last(analyses'[i]).sources =
                 IF Last(analyses'[i]).status = "ok" THEN {t.entity.incident : t \in draft.told} ELSE {}
<1>1. ASSUME LearnInv, [NotebookNext]_notebookVars PROVE [Told /\ Filed]_notebookVars
  <2> SUFFICES ASSUME NotebookNext PROVE Told /\ Filed
    BY <1>1
  <2>1. Told
    <3>1. CASE LoadSimilar
      BY <1>1, <3>1, SimilarIsVerified
    <3>2. CASE \E k \in Incidents : LoadVerdicts(k)
      BY <1>1, <3>2, VerdictsAreVerified
    <3>3. CASE ~LoadSimilar /\ ~\E k \in Incidents : LoadVerdicts(k)
      <4>1. NoDraft.told = {}
        BY DEF NoDraft
      <4>2. CASE SaveAnalysis \/ AnalysisDies
        BY <4>1, <4>2 DEF SaveAnalysis, AnalysisDies
      <4>3. CASE \E i \in Incidents : LoadEvidence(i)
        BY <4>3 DEF LoadEvidence, NoDraft
      <4>4. CASE /\ ~SaveAnalysis /\ ~AnalysisDies
                 /\ ~\E i \in Incidents : LoadEvidence(i)
        <5>1. draft' = draft
          BY <3>3, <4>4 DEF NotebookNext, ReviewStep, OpenIncident, CaptureEvidence,
                      LoadPageEvidence, SetHypothesisVerdict, FlagEvidence, SaveResolution,
                      Begin, RecordAudit, CommitReview, RollBack, LoadPageAnalysis, rowVars
        <5> QED BY <5>1
      <4> QED BY <4>2, <4>3, <4>4
    <3> QED BY <3>1, <3>2, <3>3
  <2>2. Filed
    <3>1. CASE SaveAnalysis
      BY <1>1, <3>1, WhatIsFiled DEF ToldOf
    <3>2. CASE ~SaveAnalysis
      <4>1. analyses' = analyses
        BY <3>2 DEF NotebookNext, ReviewStep, OpenIncident, CaptureEvidence, LoadEvidence,
                    LoadVerdicts, LoadPageEvidence, SetHypothesisVerdict, FlagEvidence,
                    SaveResolution, Begin, RecordAudit, CommitReview, RollBack, LoadSimilar,
                    AnalysisDies, LoadPageAnalysis, rowVars
      <4> QED BY <4>1
    <3> QED BY <3>1, <3>2
  <2> QED BY <2>1, <2>2
<1> QED
  BY <1>1, LearnInitially, LearnStep, PTL DEF NotebookSpec, LearnedFromVerified

-----------------------------------------------------------------------------
(* The refinement of NotebookLife.  An item belongs to one incident, and   *)
(* what an open transaction will change was there when it began.           *)

EvidenceOnce ==
  /\ DOMAIN evidence = Incidents
  /\ \A i \in Incidents : evidence[i] \in Seq(Items)
  /\ \A i, k \in Incidents : i # k => ToSet(evidence[i]) \cap ToSet(evidence[k]) = {}

FlaggedIsCaptured ==
  \A e \in Items : Flagged(e) => \E i \in Incidents : e \in ToSet(evidence[i])

Grounded(x) ==
  \/ x.type = "hypothesis"
  \/ \E i \in Incidents : x = Resolution(i) /\ phase[i] # "absent"
  \/ \E i \in Incidents : \E e \in ToSet(evidence[i]) : x = EvidenceItem(e)

ReviewIsGrounded ==
  \A g \in Engineers : review[g].at # "idle" => Grounded(review[g].entity)

DraftIsGrounded ==
  draft.at # "idle" => draft.incident \in Incidents /\ phase[draft.incident] # "absent"

PhaseIsTyped == phase \in [Incidents -> {"absent", "open", "published", "resolved"}]

LifeInv ==
  LearnInv /\ PhaseIsTyped /\ EvidenceOnce /\ FlaggedIsCaptured /\ ReviewIsGrounded /\ DraftIsGrounded

(* The elements of a concatenation.                                        *)
LEMMA JoinedSet ==
  ASSUME NEW S, NEW l \in Seq(S), NEW r \in Seq(S)
  PROVE  l \o r \in Seq(S) /\ ToSet(l \o r) = ToSet(l) \cup ToSet(r)
<1> DEFINE u == l \o r
<1>1. /\ u \in Seq(S) /\ Len(u) = Len(l) + Len(r)
      /\ \A m \in 1..Len(l) + Len(r) : u[m] = IF m <= Len(l) THEN l[m] ELSE r[m - Len(l)]
  OBVIOUS
<1>2. DOMAIN l = 1..Len(l) /\ DOMAIN r = 1..Len(r) /\ DOMAIN u = 1..Len(u)
  BY <1>1
<1>3. Len(l) \in Nat /\ Len(r) \in Nat
  OBVIOUS
<1>4. \A m \in 1..Len(l) : m \in 1..Len(u) /\ u[m] = l[m]
  BY <1>1, <1>3
<1>5. \A m \in 1..Len(r) : m + Len(l) \in 1..Len(u) /\ u[m + Len(l)] = r[m]
  <2> SUFFICES ASSUME NEW m \in 1..Len(r)
               PROVE  m + Len(l) \in 1..Len(u) /\ u[m + Len(l)] = r[m]
    OBVIOUS
  <2>1. m + Len(l) \in 1..Len(l) + Len(r) /\ ~(m + Len(l) <= Len(l)) /\ (m + Len(l)) - Len(l) = m
    BY <1>3
  <2> QED BY <1>1, <2>1
<1>6. \A m \in 1..Len(u) : \/ m \in 1..Len(l) /\ u[m] = l[m]
                           \/ m - Len(l) \in 1..Len(r) /\ u[m] = r[m - Len(l)]
  BY <1>1, <1>3
<1> HIDE DEF u
<1>7. ToSet(u) \subseteq ToSet(l) \cup ToSet(r)
  BY <1>2, <1>6 DEF ToSet
<1>8. ToSet(l) \subseteq ToSet(u)
  BY <1>2, <1>4 DEF ToSet
<1>9. ToSet(r) \subseteq ToSet(u)
  BY <1>2, <1>5 DEF ToSet
<1> QED BY <1>1, <1>7, <1>8, <1>9 DEF u

(* A sequence and its two parts.                                           *)
LEMMA PartsSet ==
  ASSUME NEW S, NEW s \in Seq(S), NEW n \in 1..Len(s) + 1
  PROVE  /\ SubSeq(s, 1, n - 1) \in Seq(S) /\ SubSeq(s, n, Len(s)) \in Seq(S)
         /\ ToSet(SubSeq(s, 1, n - 1)) \cup ToSet(SubSeq(s, n, Len(s))) = ToSet(s)
<1> DEFINE l == SubSeq(s, 1, n - 1)
           r == SubSeq(s, n, Len(s))
<1>1. Len(s) \in Nat /\ n \in Int /\ DOMAIN s = 1..Len(s) /\ \A m \in 1..Len(s) : s[m] \in S
  OBVIOUS
<1>2. l \in Seq(S) /\ Len(l) = n - 1 /\ \A m \in 1..n - 1 : l[m] = s[m]
  BY <1>1
<1>3. r \in Seq(S) /\ Len(r) = Len(s) - n + 1 /\ \A m \in 1..Len(s) - n + 1 : r[m] = s[n + m - 1]
  BY <1>1
<1>4. DOMAIN l = 1..n - 1 /\ DOMAIN r = 1..Len(s) - n + 1
  BY <1>2, <1>3
<1>5. \A m \in 1..n - 1 : m \in 1..Len(s)
  BY <1>1
<1>6. \A m \in 1..Len(s) - n + 1 : n + m - 1 \in 1..Len(s)
  BY <1>1
<1>7. \A m \in 1..Len(s) : \/ m \in 1..n - 1
                           \/ m - n + 1 \in 1..Len(s) - n + 1 /\ n + (m - n + 1) - 1 = m
  BY <1>1
<1> HIDE DEF l, r
<1>8. ToSet(l) \subseteq ToSet(s)
  BY <1>1, <1>2, <1>4, <1>5 DEF ToSet
<1>9. ToSet(r) \subseteq ToSet(s)
  BY <1>1, <1>3, <1>4, <1>6 DEF ToSet
<1>10. ASSUME NEW m \in 1..Len(s) PROVE s[m] \in ToSet(l) \cup ToSet(r)
  <2>1. CASE m \in 1..n - 1
    <3>1. l[m] = s[m] /\ m \in DOMAIN l
      BY <1>2, <1>4, <2>1
    <3> QED BY <3>1 DEF ToSet
  <2>2. CASE m - n + 1 \in 1..Len(s) - n + 1 /\ n + (m - n + 1) - 1 = m
    <3>1. r[m - n + 1] = s[m] /\ m - n + 1 \in DOMAIN r
      BY <1>3, <1>4, <2>2
    <3> QED BY <3>1 DEF ToSet
  <2> QED BY <1>7, <2>1, <2>2
<1>11. ToSet(s) \subseteq ToSet(l) \cup ToSet(r)
  BY <1>1, <1>10 DEF ToSet
<1> QED BY <1>2, <1>3, <1>8, <1>9, <1>11 DEF l, r

(* Inserting adds one element and loses none.                              *)
LEMMA InsertedSet ==
  ASSUME NEW S, NEW s \in Seq(S), NEW e \in S, NEW n \in 1..Len(s) + 1
  PROVE  InsertAt(s, n, e) \in Seq(S) /\ ToSet(InsertAt(s, n, e)) = ToSet(s) \cup {e}
<1> DEFINE l == SubSeq(s, 1, n - 1)
           r == SubSeq(s, n, Len(s))
           lx == l \o <<e>>
<1>1. l \in Seq(S)
  BY PartsSet
<1>2. r \in Seq(S)
  BY PartsSet
<1>3. ToSet(l) \cup ToSet(r) = ToSet(s)
  BY PartsSet
<1>4. <<e>> \in Seq(S)
  OBVIOUS
<1>5. ToSet(<<e>>) = {e}
  BY DEF ToSet
<1> HIDE DEF l, r
<1>6. lx \in Seq(S)
  BY <1>1, <1>4
<1>7. ToSet(lx) = ToSet(l) \cup ToSet(<<e>>)
  BY <1>1, <1>4, JoinedSet
<1> HIDE DEF lx
<1>8. lx \o r \in Seq(S)
  BY <1>2, <1>6
<1>9. ToSet(lx \o r) = ToSet(lx) \cup ToSet(r)
  BY <1>2, <1>6, JoinedSet
<1>10. InsertAt(s, n, e) = lx \o r
  BY DEF InsertAt, l, r, lx
<1> QED BY <1>3, <1>5, <1>7, <1>8, <1>9, <1>10

(* An item is captured once, for one incident.                             *)
LEMMA WhatIsCaptured ==
  ASSUME LifeInv, NEW i \in Incidents, CaptureEvidence(i)
  PROVE  \E e \in Items :
           /\ \A k \in Incidents : e \notin ToSet(evidence[k])
           /\ DOMAIN evidence' = Incidents
           /\ evidence'[i] \in Seq(Items) /\ ToSet(evidence'[i]) = ToSet(evidence[i]) \cup {e}
           /\ \A k \in Incidents : k # i => evidence'[k] = evidence[k]
<1>1. PICK e \in Items, n \in 1..Len(evidence[i]) + 1 :
        /\ \A k \in Incidents : e \notin ToSet(evidence[k])
        /\ evidence' = [evidence EXCEPT ![i] = InsertAt(@, n, e)]
  BY DEF CaptureEvidence
<1>2. evidence[i] \in Seq(Items) /\ DOMAIN evidence = Incidents
  BY DEF LifeInv, EvidenceOnce
<1>3. /\ InsertAt(evidence[i], n, e) \in Seq(Items)
      /\ ToSet(InsertAt(evidence[i], n, e)) = ToSet(evidence[i]) \cup {e}
  BY <1>2, InsertedSet
<1>4. evidence'[i] = InsertAt(evidence[i], n, e) /\ DOMAIN evidence' = Incidents
  BY <1>1, <1>2
<1>5. \A k \in Incidents : k # i => evidence'[k] = evidence[k]
  BY <1>1, <1>2
<1> QED BY <1>1, <1>3, <1>4, <1>5

(* The parts of LifeInv that a step may disturb.                           *)
LEMMA CaptureKeepsLife ==
  ASSUME LifeInv, NEW i \in Incidents, CaptureEvidence(i)
  PROVE  EvidenceOnce' /\ FlaggedIsCaptured' /\ ReviewIsGrounded' /\ DraftIsGrounded'
<1> USE DEF LifeInv
<1>1. PICK e \in Items :
        /\ \A k \in Incidents : e \notin ToSet(evidence[k])
        /\ DOMAIN evidence' = Incidents
        /\ evidence'[i] \in Seq(Items) /\ ToSet(evidence'[i]) = ToSet(evidence[i]) \cup {e}
        /\ \A k \in Incidents : k # i => evidence'[k] = evidence[k]
  BY WhatIsCaptured
<1>2. UNCHANGED <<phase, column, review, draft>>
  BY DEF CaptureEvidence
<1>3. EvidenceOnce'
  <2>1. \A k \in Incidents : evidence'[k] \in Seq(Items)
    BY <1>1 DEF EvidenceOnce
  <2>2. ASSUME NEW k \in Incidents, NEW m \in Incidents, k # m
        PROVE  ToSet(evidence'[k]) \cap ToSet(evidence'[m]) = {}
    <3>1. ToSet(evidence[k]) \cap ToSet(evidence[m]) = {}
      BY <2>2 DEF EvidenceOnce
    <3>2. CASE k = i
      BY <1>1, <2>2, <3>1, <3>2
    <3>3. CASE m = i
      BY <1>1, <2>2, <3>1, <3>3
    <3>4. CASE k # i /\ m # i
      BY <1>1, <3>1, <3>4
    <3> QED BY <3>2, <3>3, <3>4
  <2> QED BY <1>1, <2>1, <2>2 DEF EvidenceOnce
<1>4. \A k \in Incidents : ToSet(evidence[k]) \subseteq ToSet(evidence'[k])
  BY <1>1
<1>5. FlaggedIsCaptured'
  BY <1>2, <1>4 DEF FlaggedIsCaptured, Flagged
<1>6. ReviewIsGrounded'
  BY <1>2, <1>4 DEF ReviewIsGrounded, Grounded
<1> QED BY <1>2, <1>3, <1>5, <1>6 DEF DraftIsGrounded

(* A transaction begins on a row that is there.                            *)
LEMMA BeginIsGrounded ==
  ASSUME LifeInv, NEW g \in Engineers, NEW x, NEW v, Begin(g, x, v), Grounded(x)
  PROVE  EvidenceOnce' /\ FlaggedIsCaptured' /\ ReviewIsGrounded' /\ DraftIsGrounded'
<1> USE DEF LifeInv
<1>1. /\ review' = [review EXCEPT ![g] = [at |-> "updated", entity |-> x, value |-> v, id |-> 0]]
      /\ UNCHANGED <<phase, column, evidence, draft>>
  BY DEF Begin, rowVars
<1>2. review'[g].entity = x /\ \A h \in Engineers : h # g => review'[h] = review[h]
  BY <1>1 DEF LearnInv, AuditInv, ReviewIsTyped
<1>3. Grounded(x)'
  BY <1>1 DEF Grounded
<1>4. ReviewIsGrounded'
  BY <1>1, <1>2, <1>3 DEF ReviewIsGrounded, Grounded
<1> QED BY <1>1, <1>4 DEF EvidenceOnce, FlaggedIsCaptured, Flagged, DraftIsGrounded

(* What is flagged when it commits was captured before.                    *)
LEMMA CommitKeepsLife ==
  ASSUME LifeInv, NEW g \in Engineers, CommitReview(g)
  PROVE  EvidenceOnce' /\ FlaggedIsCaptured' /\ ReviewIsGrounded' /\ DraftIsGrounded'
<1> USE DEF LifeInv
<1> DEFINE t == review[g]
<1>1. /\ t.at = "audited"
      /\ column' = [column EXCEPT ![t.entity] = [value |-> t.value, by |-> g]]
      /\ phase' = [i \in Incidents |-> IF t.entity = Resolution(i) THEN "resolved" ELSE phase[i]]
      /\ review' = [review EXCEPT ![g] = NoReview]
      /\ UNCHANGED <<evidence, draft>>
  BY DEF CommitReview
<1>2. Grounded(t.entity)
  BY <1>1 DEF ReviewIsGrounded
<1>3. \A i \in Incidents : phase[i] # "absent" => phase'[i] # "absent"
  BY <1>1
<1>4. /\ review'[g].at = "idle"
      /\ \A h \in Engineers : h # g => review'[h] = review[h]
  BY <1>1, NoReviewIsTyped DEF LearnInv, AuditInv, ReviewIsTyped
<1>5. ReviewIsGrounded'
  BY <1>1, <1>3, <1>4 DEF ReviewIsGrounded, Grounded
<1>6. FlaggedIsCaptured'
  <2> SUFFICES ASSUME NEW e \in Items, Flagged(e)'
               PROVE  \E i \in Incidents : e \in ToSet(evidence[i])
    BY <1>1 DEF FlaggedIsCaptured
  <2>1. CASE t.entity = EvidenceItem(e)
    <3>1. t.entity.type = "evidence_item" /\ t.entity.which = e
      BY <2>1 DEF EvidenceItem
    <3>2. PICK i \in Incidents : \E d \in ToSet(evidence[i]) : t.entity = EvidenceItem(d)
      <4>1. \A i : Resolution(i).type = "incident"
        BY DEF Resolution
      <4> QED BY <1>2, <3>1, <4>1 DEF Grounded
    <3> QED BY <3>1, <3>2 DEF EvidenceItem
  <2>2. CASE t.entity # EvidenceItem(e)
    <3>1. EvidenceItem(e) \in Entities
      BY DEF Entities
    <3>2. Flagged(e)
      BY <1>1, <2>2, <3>1 DEF Flagged, LearnInv, AuditInv
    <3> QED BY <3>2 DEF FlaggedIsCaptured
  <2> QED BY <2>1, <2>2
<1> QED BY <1>1, <1>3, <1>5, <1>6 DEF EvidenceOnce, DraftIsGrounded

(* Only an opening, a resolution and an analysis write incidents.status.   *)
LEMMA PhaseStep ==
  ASSUME LifeInv, [NotebookNext]_notebookVars
  PROVE  PhaseIsTyped'
<1> USE DEF LifeInv, PhaseIsTyped
<1>1. ASSUME NEW i \in Incidents, OpenIncident(i) PROVE PhaseIsTyped'
  BY <1>1 DEF OpenIncident
<1>2. ASSUME NEW g \in Engineers, CommitReview(g) PROVE PhaseIsTyped'
  BY <1>2 DEF CommitReview
<1>3. CASE SaveAnalysis
  BY <1>3 DEF SaveAnalysis, Publish
<1>4. CASE phase' = phase
  BY <1>4
<1> QED
  BY <1>1, <1>2, <1>3, <1>4
  DEF NotebookNext, ReviewStep, CaptureEvidence, LoadEvidence, LoadVerdicts, LoadPageEvidence,
      SetHypothesisVerdict, FlagEvidence, SaveResolution, Begin, RecordAudit, RollBack,
      LoadSimilar, AnalysisDies, LoadPageAnalysis, rowVars, notebookVars

(* Every step keeps the invariant of the refinement.                       *)
LEMMA LifeInvStep ==
  ASSUME LifeInv, [NotebookNext]_notebookVars
  PROVE  LifeInv'
<1> DEFINE Kept == EvidenceOnce' /\ FlaggedIsCaptured' /\ ReviewIsGrounded' /\ DraftIsGrounded'
<1>1. LearnInv' /\ PhaseIsTyped'
  BY LearnStep, PhaseStep DEF LifeInv
<1>2. ASSUME NEW i \in Incidents, OpenIncident(i) PROVE Kept
  <2>1. /\ phase' = [phase EXCEPT ![i] = "open"]
        /\ UNCHANGED <<evidence, column, review, draft>>
    BY <1>2 DEF OpenIncident
  <2>2. \A k \in Incidents : phase[k] # "absent" => phase'[k] # "absent"
    BY <2>1 DEF LifeInv, PhaseIsTyped
  <2>3. ReviewIsGrounded'
    BY <2>1, <2>2 DEF LifeInv, ReviewIsGrounded, Grounded
  <2> QED BY <2>1, <2>2, <2>3 DEF LifeInv, EvidenceOnce, FlaggedIsCaptured, Flagged, DraftIsGrounded
<1>3. ASSUME NEW i \in Incidents, CaptureEvidence(i) PROVE Kept
  BY <1>3, CaptureKeepsLife
<1>4. ASSUME NEW g \in Engineers, ReviewStep(g) PROVE Kept
  <2>1. CASE SetHypothesisVerdict(g)
    <3>1. PICK i, a, v : Begin(g, Hypothesis(i, a), v)
      BY <2>1 DEF SetHypothesisVerdict
    <3>2. Grounded(Hypothesis(i, a))
      BY DEF Grounded, Hypothesis
    <3> QED BY <3>1, <3>2, BeginIsGrounded
  <2>2. CASE FlagEvidence(g)
    <3>1. PICK i \in Incidents : \E e \in ToSet(evidence[i]) : Begin(g, EvidenceItem(e), "flagged")
      BY <2>2 DEF FlagEvidence
    <3>2. PICK e \in ToSet(evidence[i]) : Begin(g, EvidenceItem(e), "flagged")
      BY <3>1
    <3>3. Grounded(EvidenceItem(e))
      BY DEF Grounded
    <3> QED BY <3>2, <3>3, BeginIsGrounded
  <2>3. CASE SaveResolution(g)
    <3>1. PICK i \in Incidents : phase[i] # "absent" /\ Begin(g, Resolution(i), "cause")
      BY <2>3 DEF SaveResolution
    <3>2. Grounded(Resolution(i))
      BY <3>1 DEF Grounded
    <3> QED BY <3>1, <3>2, BeginIsGrounded
  <2>4. CASE RecordAudit(g)
    <3>1. /\ review[g].at = "updated"
          /\ review' = [review EXCEPT ![g] = [@ EXCEPT !.at = "audited", !.id = auditSeq']]
          /\ UNCHANGED <<phase, evidence, column, draft>>
      BY <2>4 DEF RecordAudit
    <3>2. /\ review'[g].entity = review[g].entity
          /\ \A h \in Engineers : h # g => review'[h] = review[h]
      BY <3>1 DEF LifeInv, LearnInv, AuditInv, ReviewIsTyped, IsReview
    <3>3. ReviewIsGrounded'
      BY <3>1, <3>2 DEF LifeInv, ReviewIsGrounded, Grounded
    <3> QED BY <3>1, <3>3 DEF LifeInv, EvidenceOnce, FlaggedIsCaptured, Flagged, DraftIsGrounded
  <2>5. CASE CommitReview(g)
    BY <2>5, CommitKeepsLife
  <2>6. CASE RollBack(g)
    <3>1. review' = [review EXCEPT ![g] = NoReview] /\ UNCHANGED <<phase, evidence, column, draft>>
      BY <2>6 DEF RollBack, rowVars
    <3>2. review'[g].at = "idle" /\ \A h \in Engineers : h # g => review'[h] = review[h]
      BY <3>1, NoReviewIsTyped DEF LifeInv, LearnInv, AuditInv, ReviewIsTyped
    <3>3. ReviewIsGrounded'
      BY <3>1, <3>2 DEF LifeInv, ReviewIsGrounded, Grounded
    <3> QED BY <3>1, <3>3 DEF LifeInv, EvidenceOnce, FlaggedIsCaptured, Flagged, DraftIsGrounded
  <2> QED BY <1>4, <2>1, <2>2, <2>3, <2>4, <2>5, <2>6 DEF ReviewStep
<1>5. ASSUME UNCHANGED <<evidence, column, review>>,
             \A k \in Incidents : phase[k] # "absent" => phase'[k] # "absent",
             DraftIsGrounded'
      PROVE  Kept
  <2>1. ReviewIsGrounded'
    BY <1>5 DEF LifeInv, ReviewIsGrounded, Grounded
  <2> QED BY <1>5, <2>1 DEF LifeInv, EvidenceOnce, FlaggedIsCaptured, Flagged
<1>6. ASSUME NEW i \in Incidents, LoadEvidence(i) PROVE Kept
  <2>1. draft'.incident = i /\ phase[i] # "absent" /\ UNCHANGED <<phase, evidence, column, review>>
    BY <1>6 DEF LoadEvidence, NoDraft, rowVars
  <2> QED BY <1>5, <2>1 DEF DraftIsGrounded
<1>7. ASSUME LoadSimilar \/ \E i \in Incidents : LoadVerdicts(i) PROVE Kept
  <2>1. UNCHANGED <<phase, evidence, column, review>>
    BY <1>7 DEF LoadSimilar, LoadVerdicts, rowVars
  <2>2. draft'.incident = draft.incident /\ (draft'.at # "idle" => draft.at # "idle")
    <3>1. IsDraft(draft)
      BY DEF LifeInv, LearnInv, DraftIsVerified
    <3>2. CASE LoadSimilar
      BY <3>1, <3>2 DEF LoadSimilar, IsDraft
    <3>3. ASSUME NEW i \in Incidents, LoadVerdicts(i)
          PROVE  draft'.incident = draft.incident /\ draft'.at = draft.at
      BY <3>1, <3>3 DEF LoadVerdicts, IsDraft
    <3> QED BY <1>7, <3>2, <3>3
  <2> QED BY <1>5, <2>1, <2>2 DEF LifeInv, DraftIsGrounded
<1>8. ASSUME SaveAnalysis \/ AnalysisDies PROVE Kept
  <2>1. UNCHANGED <<evidence, column, review>> /\ draft' = NoDraft
    BY <1>8 DEF SaveAnalysis, AnalysisDies, rowVars
  <2>2. \A k \in Incidents : phase[k] # "absent" => phase'[k] # "absent"
    BY <1>8 DEF SaveAnalysis, AnalysisDies, Publish, rowVars, LifeInv, PhaseIsTyped
  <2> QED BY <1>5, <2>1, <2>2 DEF DraftIsGrounded, NoDraft
<1>9. ASSUME \/ LoadPageAnalysis \/ UNCHANGED notebookVars
             \/ \E i \in Incidents : LoadPageEvidence(i)
      PROVE  Kept
  <2>1. UNCHANGED <<phase, evidence, column, review, draft>>
    BY <1>9 DEF LoadPageAnalysis, LoadPageEvidence, rowVars, notebookVars
  <2> QED BY <1>5, <2>1 DEF LifeInv, DraftIsGrounded
<1>10. Kept
  BY <1>2, <1>3, <1>4, <1>6, <1>7, <1>8, <1>9 DEF NotebookNext
<1> QED BY <1>1, <1>10 DEF LifeInv

(* Nothing is captured, flagged or open at first.                          *)
LEMMA LifeInvInitially == NotebookInit => LifeInv
<1> SUFFICES ASSUME NotebookInit PROVE LifeInv
  OBVIOUS
<1> USE DEF NotebookInit
<1>1. LearnInv
  BY LearnInitially
<1>2. PhaseIsTyped
  BY DEF PhaseIsTyped
<1>3. EvidenceOnce
  BY DEF EvidenceOnce, ToSet
<1>4. \A e \in Items : ~Flagged(e)
  <2>1. \A e \in Items : EvidenceItem(e) \in Entities
    BY DEF Entities
  <2> QED BY <2>1 DEF Flagged
<1>5. FlaggedIsCaptured
  BY <1>4 DEF FlaggedIsCaptured
<1>6. ReviewIsGrounded
  BY NoReviewIsTyped DEF ReviewIsGrounded
<1>7. DraftIsGrounded
  BY DEF DraftIsGrounded, NoDraft
<1> QED BY <1>1, <1>2, <1>3, <1>5, <1>6, <1>7 DEF LifeInv

-----------------------------------------------------------------------------
(* Each step is a step of NotebookLife or none.                            *)
LEMMA OpenIsOpen ==
  ASSUME NEW i \in Incidents, OpenIncident(i)
  PROVE  Life!Open(i)
BY DEF OpenIncident, Life!Open, Flagged

(* An item that is captured was flagged by nobody yet.                     *)
LEMMA CaptureIsCapture ==
  ASSUME LifeInv, NEW i \in Incidents, CaptureEvidence(i)
  PROVE  Life!Capture(i)
<1> DEFINE captured == [k \in Incidents |-> ToSet(evidence[k])]
           distrusted == [k \in Incidents |-> {e \in ToSet(evidence[k]) : Flagged(e)}]
<1>1. PICK e \in Items :
        /\ \A k \in Incidents : e \notin ToSet(evidence[k])
        /\ DOMAIN evidence' = Incidents
        /\ evidence'[i] \in Seq(Items) /\ ToSet(evidence'[i]) = ToSet(evidence[i]) \cup {e}
        /\ \A k \in Incidents : k # i => evidence'[k] = evidence[k]
  BY WhatIsCaptured
<1>2. phase[i] # "absent" /\ UNCHANGED <<phase, analyses, column>>
  BY DEF CaptureEvidence
<1>3. captured' = [captured EXCEPT ![i] = @ \cup {e}]
  BY <1>1
<1>4. {e} \in SUBSET (Items \ UNION {captured[k] : k \in Incidents})
  BY <1>1
<1>5. ~Flagged(e) /\ \A d : Flagged(d)' = Flagged(d)
  BY <1>1, <1>2 DEF LifeInv, FlaggedIsCaptured, Flagged
<1>6. ASSUME NEW k \in Incidents
      PROVE  {d \in ToSet(evidence'[k]) : Flagged(d)'} = {d \in ToSet(evidence[k]) : Flagged(d)}
  BY <1>1, <1>5
<1>7. distrusted' = distrusted
  BY <1>6
<1> QED BY <1>2, <1>3, <1>4, <1>7 DEF Life!Capture

(* A commit resolves, distrusts one item or says something of a hypothesis.*)
LEMMA CommitIsReview ==
  ASSUME LifeInv, NEW g \in Engineers, CommitReview(g)
  PROVE  \/ \E i \in Incidents : Life!Resolve(i) \/ Life!Distrust(i)
         \/ UNCHANGED Life!lifeVars
<1> DEFINE t == review[g]
           distrusted == [k \in Incidents |-> {e \in ToSet(evidence[k]) : Flagged(e)}]
<1>1. /\ t.at = "audited"
      /\ column' = [column EXCEPT ![t.entity] = [value |-> t.value, by |-> g]]
      /\ phase' = [i \in Incidents |-> IF t.entity = Resolution(i) THEN "resolved" ELSE phase[i]]
      /\ UNCHANGED <<evidence, analyses>>
  BY DEF CommitReview
<1>2. PhaseIsTyped /\ EvidenceOnce /\ column \in [Entities -> Column]
  BY DEF LifeInv, LearnInv, AuditInv
<1>3. \A i \in Incidents : \A e \in ToSet(evidence[i]) : e \in Items /\ EvidenceItem(e) \in Entities
  <2>1. \A i \in Incidents : \A e \in ToSet(evidence[i]) : e \in Items
    BY <1>2 DEF EvidenceOnce, ToSet
  <2> QED BY <2>1 DEF Entities
<1>4. Grounded(t.entity)
  BY <1>1 DEF LifeInv, ReviewIsGrounded
<1>5. ASSUME \A e \in Items : t.entity # EvidenceItem(e)
      PROVE  distrusted' = distrusted
  <2>1. \A e \in Items : Flagged(e)' = Flagged(e)
    <3>1. \A e \in Items : EvidenceItem(e) \in Entities
      BY DEF Entities
    <3> QED BY <1>1, <1>2, <1>5, <3>1 DEF Flagged
  <2>2. \A k \in Incidents : {e \in ToSet(evidence[k]) : Flagged(e)'} = {e \in ToSet(evidence[k]) : Flagged(e)}
    BY <1>3, <2>1
  <2> QED BY <1>1, <2>2
<1>6. /\ \A e : EvidenceItem(e).type = "evidence_item"
      /\ \A i : Resolution(i).type = "incident" /\ Resolution(i).incident = i
  BY DEF EvidenceItem, Resolution
<1>7. ASSUME t.entity.type = "hypothesis" PROVE UNCHANGED Life!lifeVars
  <2>1. distrusted' = distrusted
    BY <1>5, <1>6, <1>7
  <2>2. \A i \in Incidents : t.entity # Resolution(i)
    BY <1>6, <1>7
  <2>3. phase' = phase
    BY <1>1, <1>2, <2>2 DEF PhaseIsTyped
  <2> QED BY <1>1, <2>1, <2>3 DEF Life!lifeVars
<1>8. ASSUME NEW i \in Incidents, t.entity = Resolution(i), phase[i] # "absent"
      PROVE  Life!Resolve(i)
  <2>1. distrusted' = distrusted
    <3>1. \A e \in Items : t.entity # EvidenceItem(e)
      BY <1>6, <1>8
    <3> QED BY <1>5, <3>1
  <2>2. \A k \in Incidents : t.entity = Resolution(k) <=> k = i
    BY <1>6, <1>8
  <2>3. phase' = [phase EXCEPT ![i] = "resolved"]
    BY <1>1, <1>2, <2>2 DEF PhaseIsTyped
  <2> QED BY <1>1, <1>8, <2>1, <2>3 DEF Life!Resolve
<1>9. ASSUME NEW i \in Incidents, NEW e \in ToSet(evidence[i]), t.entity = EvidenceItem(e)
      PROVE  Life!Distrust(i)
  <2>1. \A k \in Incidents : t.entity # Resolution(k)
    BY <1>6, <1>9
  <2>2. phase' = phase
    BY <1>1, <1>2, <2>1 DEF PhaseIsTyped
  <2>3. Flagged(e)'
    <3>1. column'[EvidenceItem(e)] = [value |-> t.value, by |-> g]
      BY <1>1, <1>2, <1>3, <1>9
    <3> QED BY <3>1, NotebookAssumption DEF Flagged, Unset
  <2>4. \A d \in Items : d # e => Flagged(d)' = Flagged(d)
    <3>1. \A d \in Items : EvidenceItem(d) \in Entities
      BY DEF Entities
    <3>2. \A d \in Items : d # e => EvidenceItem(d) # t.entity
      BY <1>9 DEF EvidenceItem
    <3> QED BY <1>1, <1>2, <3>1, <3>2 DEF Flagged
  <2>5. \A k \in Incidents : k # i => e \notin ToSet(evidence[k])
    BY <1>2, <1>9 DEF EvidenceOnce
  <2>6. ASSUME NEW k \in Incidents
        PROVE  {d \in ToSet(evidence[k]) : Flagged(d)'} =
               IF k = i THEN {d \in ToSet(evidence[k]) : Flagged(d)} \cup {e}
                        ELSE {d \in ToSet(evidence[k]) : Flagged(d)}
    BY <1>3, <1>9, <2>3, <2>4, <2>5
  <2>7. distrusted' = [distrusted EXCEPT ![i] = @ \cup {e}]
    BY <1>1, <2>6
  <2> QED BY <1>1, <1>9, <2>2, <2>7 DEF Life!Distrust
<1> QED BY <1>4, <1>7, <1>8, <1>9 DEF Grounded

(* Filing counts one more and reopens nothing.                             *)
LEMMA SaveIsFile ==
  ASSUME LifeInv, SaveAnalysis
  PROVE  \E i \in Incidents : Life!FileAnalysis(i)
<1> DEFINE i == draft.incident
           count == [k \in Incidents |-> Len(analyses[k])]
<1>1. PICK r : analyses' = [analyses EXCEPT ![i] = Append(@, r)]
  BY DEF SaveAnalysis
<1>2. Publish(i) /\ UNCHANGED <<evidence, column>> /\ draft.at = "similar"
  BY DEF SaveAnalysis
<1>3. i \in Incidents /\ phase[i] # "absent"
  BY <1>2 DEF LifeInv, DraftIsGrounded
<1>4. DOMAIN analyses = Incidents
  BY DEF LifeInv, LearnInv, AnalysesAreBounded
<1>5. Len(Append(analyses[i], r)) = Len(analyses[i]) + 1
  <2>1. PICK S : analyses[i] \in Seq(S)
    BY <1>3 DEF LifeInv, LearnInv, AnalysesAreBounded
  <2>2. analyses[i] \in Seq(S \cup {r})
    BY <2>1
  <2> QED BY <2>2
<1>6. count' = [count EXCEPT ![i] = @ + 1]
  BY <1>1, <1>3, <1>4, <1>5
<1>7. phase' = [phase EXCEPT ![i] = IF @ = "resolved" THEN @ ELSE "published"]
  BY <1>2 DEF Publish
<1> QED BY <1>2, <1>3, <1>6, <1>7 DEF Life!FileAnalysis, Flagged

(* Whatever is neither a commit nor a capture is a stutter of              *)
(* NotebookLife.                                                           *)
LEMMA ReviewLifeStep ==
  ASSUME LifeInv, [NotebookNext]_notebookVars
  PROVE  [Life!LifeNext]_(Life!lifeVars)
<1>1. ASSUME UNCHANGED <<phase, evidence, column, analyses>> PROVE UNCHANGED Life!lifeVars
  BY <1>1 DEF Life!lifeVars, Flagged
<1>2. \/ \E i \in Incidents : OpenIncident(i) \/ CaptureEvidence(i)
      \/ \E g \in Engineers : CommitReview(g)
      \/ SaveAnalysis
      \/ UNCHANGED <<phase, evidence, column, analyses>>
  BY DEF NotebookNext, ReviewStep, LoadEvidence, LoadVerdicts, LoadPageEvidence,
         SetHypothesisVerdict, FlagEvidence, SaveResolution, Begin, RecordAudit, RollBack,
         LoadSimilar, AnalysisDies, LoadPageAnalysis, rowVars, notebookVars
<1>3. ASSUME NEW i \in Incidents, OpenIncident(i) \/ CaptureEvidence(i) PROVE Life!LifeNext
  BY <1>3, OpenIsOpen, CaptureIsCapture DEF Life!LifeNext
<1>4. ASSUME NEW g \in Engineers, CommitReview(g)
      PROVE  Life!LifeNext \/ UNCHANGED Life!lifeVars
  BY <1>4, CommitIsReview DEF Life!LifeNext
<1>5. ASSUME SaveAnalysis PROVE Life!LifeNext
  BY <1>5, SaveIsFile DEF Life!LifeNext
<1> QED BY <1>1, <1>2, <1>3, <1>4, <1>5

(* The initial states map to the initial state of NotebookLife.            *)
LEMMA ReviewLifeInitially == NotebookInit => Life!LifeInit
<1> SUFFICES ASSUME NotebookInit PROVE Life!LifeInit
  OBVIOUS
<1>1. ToSet(<<>>) = {} /\ Len(<<>>) = 0
  BY DEF ToSet
<1> QED BY <1>1 DEF NotebookInit, Life!LifeInit

(* Reviews, captures and analyses keep the promise of NotebookLife,        *)
(* however their transactions interleave: evidence and distrust only grow  *)
(* and a resolved notebook stays resolved.                                 *)
THEOREM ReviewLifeCorrect == NotebookSpec => ReviewKeepsLife
BY LifeInvInitially, LifeInvStep, ReviewLifeInitially, ReviewLifeStep, PTL
DEF NotebookSpec, ReviewKeepsLife, Life!LifeSpec

-----------------------------------------------------------------------------
(* Types.  What a transaction locks exists, so there is a row to write;    *)
(* what a draft holds was read from rows.                                  *)

IdIsDrawn == \A g \in Engineers : review[g].at = "audited" => review[g].id \in 1..MaxReviews

TypeInv == NotebookTypeOK /\ IdIsDrawn

OpenReview ==
  [at : {"updated", "audited"}, entity : Entities, value : Values, id : 0..MaxReviews]

OpenDraft ==
  [at : {"evidence", "similar"}, incident : Incidents, shown : Seq(Items),
   distrusted : SUBSET Items, similar : SUBSET Incidents, pending : SUBSET Incidents,
   told : SUBSET [entity : Entities, value : Values]]

(* The evidence of a request is what nobody had flagged.                   *)
LEMMA WhatIsShown ==
  ASSUME evidence \in [Incidents -> Seq(Items)], NEW i \in Incidents
  PROVE  Shown(i) \in Seq(Items) /\ ToSet(Shown(i)) = ToSet(evidence[i]) \ Distrusted
<1> DEFINE kept == Shown(i)
           all == evidence[i]
           out == Distrusted
<1>1. all \in Seq(Items)
  OBVIOUS
<1>2. kept = Without(all, out)
  BY DEF Shown
<1> HIDE DEF kept, all, out
<1>3. /\ kept \in Seq(Items)
      /\ \A k \in DOMAIN kept : kept[k] \notin out /\ \E n \in DOMAIN all : kept[k] = all[n]
      /\ \A n \in DOMAIN all : all[n] \notin out => \E k \in DOMAIN kept : kept[k] = all[n]
  BY <1>1, <1>2, WithoutKeeps
<1>4. ToSet(kept) = ToSet(all) \ out
  BY <1>3 DEF ToSet
<1> QED BY <1>3, <1>4 DEF kept, all, out

(* Taking a lock.                                                          *)
LEMMA BeginIsTyped ==
  ASSUME TypeInv, NEW g \in Engineers, NEW x \in Entities, NEW v \in Values, Begin(g, x, v)
  PROVE  TypeInv'
<1>1. /\ review' = [review EXCEPT ![g] = [at |-> "updated", entity |-> x, value |-> v, id |-> 0]]
      /\ UNCHANGED <<rowVars, draft, page>>
  BY DEF Begin
<1>2. review \in [Engineers -> {NoReview} \cup OpenReview]
  BY DEF TypeInv, NotebookTypeOK, OpenReview
<1>3. [at |-> "updated", entity |-> x, value |-> v, id |-> 0] \in OpenReview
  BY NotebookAssumption DEF OpenReview
<1>4. review' \in [Engineers -> {NoReview} \cup OpenReview]
  BY <1>1, <1>2, <1>3
<1>5. IdIsDrawn'
  BY <1>1, <1>2 DEF IdIsDrawn, TypeInv
<1>6. NotebookTypeOK'
  BY <1>1, <1>4 DEF TypeInv, NotebookTypeOK, OpenReview, rowVars
<1> QED BY <1>5, <1>6 DEF TypeInv

(* The steps of a review transaction.                                      *)
LEMMA ReviewIsTypedStep ==
  ASSUME TypeInv, LifeInv, NEW g \in Engineers, ReviewStep(g)
  PROVE  TypeInv'
<1>1. review \in [Engineers -> {NoReview} \cup OpenReview]
  BY DEF TypeInv, NotebookTypeOK, OpenReview
<1>2. NoReview.at = "idle"
  BY NoReviewIsTyped
<1>3. CASE SetHypothesisVerdict(g)
  <2>1. PICK i \in Incidents, v \in {"none", "confirmed", "rejected"} :
          \E a \in DOMAIN analyses[i] : Begin(g, Hypothesis(i, a), v)
    BY <1>3 DEF SetHypothesisVerdict
  <2>2. PICK a \in DOMAIN analyses[i] : Begin(g, Hypothesis(i, a), v)
    BY <2>1
  <2>3. a \in 1..MaxAnalyses
    <3>1. PICK S : analyses[i] \in Seq(S)
      BY DEF LifeInv, LearnInv, AnalysesAreBounded
    <3> QED BY <2>2, <3>1, NotebookAssumption DEF LifeInv, LearnInv, AnalysesAreBounded
  <2>4. Hypothesis(i, a) \in Entities
    BY <2>3 DEF Entities
  <2>5. v \in Values
    BY DEF Values
  <2> QED BY <2>2, <2>4, <2>5, BeginIsTyped
<1>4. CASE FlagEvidence(g)
  <2>1. PICK i \in Incidents : \E e \in ToSet(evidence[i]) : Begin(g, EvidenceItem(e), "flagged")
    BY <1>4 DEF FlagEvidence
  <2>2. PICK e \in ToSet(evidence[i]) : Begin(g, EvidenceItem(e), "flagged")
    BY <2>1
  <2>3. e \in Items
    BY DEF LifeInv, EvidenceOnce, ToSet
  <2>4. EvidenceItem(e) \in Entities /\ "flagged" \in Values
    BY <2>3 DEF Entities, Values
  <2> QED BY <2>2, <2>4, BeginIsTyped
<1>5. CASE SaveResolution(g)
  <2>1. PICK i \in Incidents : Begin(g, Resolution(i), "cause")
    BY <1>5 DEF SaveResolution
  <2>2. Resolution(i) \in Entities /\ "cause" \in Values
    BY DEF Entities, Values
  <2> QED BY <2>1, <2>2, BeginIsTyped
<1>6. CASE RecordAudit(g)
  <2>1. /\ review[g].at = "updated" /\ auditSeq < MaxReviews /\ auditSeq' = auditSeq + 1
        /\ review' = [review EXCEPT ![g] = [@ EXCEPT !.at = "audited", !.id = auditSeq']]
        /\ UNCHANGED <<phase, evidence, analyses, column, audit, draft, page>>
    BY <1>6 DEF RecordAudit
  <2>2. auditSeq' \in 1..MaxReviews
    BY <2>1, NotebookAssumption DEF TypeInv, NotebookTypeOK
  <2>3. review[g] \in OpenReview
    BY <1>1, <1>2, <2>1
  <2>4. review'[g] = [at |-> "audited", entity |-> review[g].entity,
                      value |-> review[g].value, id |-> auditSeq']
    BY <1>1, <2>1, <2>3 DEF OpenReview
  <2>5. review'[g] \in OpenReview /\ review'[g].id = auditSeq'
    BY <2>2, <2>3, <2>4 DEF OpenReview
  <2>6. review' \in [Engineers -> {NoReview} \cup OpenReview]
    BY <1>1, <2>1, <2>5
  <2>7. IdIsDrawn'
    BY <1>1, <2>1, <2>2, <2>5 DEF IdIsDrawn, TypeInv
  <2>8. auditSeq' \in 0..MaxReviews
    BY <2>2
  <2>9. NotebookTypeOK'
    BY <2>1, <2>6, <2>8 DEF TypeInv, NotebookTypeOK, OpenReview
  <2> QED BY <2>7, <2>9 DEF TypeInv
<1>7. CASE CommitReview(g)
  <2> DEFINE t == review[g]
  <2>1. /\ t.at = "audited"
        /\ column' = [column EXCEPT ![t.entity] = [value |-> t.value, by |-> g]]
        /\ audit' = audit \cup {Record(g)}
        /\ review' = [review EXCEPT ![g] = NoReview]
        /\ UNCHANGED <<evidence, analyses, auditSeq, draft, page>>
    BY <1>7 DEF CommitReview
  <2>2. t \in OpenReview /\ t.id \in 1..MaxReviews
    BY <1>1, <1>2, <2>1 DEF TypeInv, IdIsDrawn
  <2>3. t.entity \in Entities /\ t.value \in Values
    BY <2>2 DEF OpenReview
  <2>4. Details(t.entity, t.value) \in Values
    BY <2>3 DEF Details, Values
  <2>5. Record(g) \in AuditRecord
    <3>1. Record(g) = [id |-> t.id, entity |-> t.entity,
                       value |-> Details(t.entity, t.value), by |-> g]
      BY DEF Record
    <3> HIDE DEF t
    <3> QED BY <2>2, <2>3, <2>4, <3>1 DEF AuditRecord
  <2>6. column' \in [Entities -> Column]
    BY <2>1, <2>3 DEF TypeInv, NotebookTypeOK, Column
  <2>7. review' \in [Engineers -> {NoReview} \cup OpenReview]
    BY <1>1, <2>1
  <2>8. IdIsDrawn'
    BY <1>1, <1>2, <2>1 DEF IdIsDrawn, TypeInv
  <2>9. phase' \in [Incidents -> {"absent", "open", "published", "resolved"}]
    BY <1>7 DEF CommitReview, TypeInv, NotebookTypeOK
  <2>10. NotebookTypeOK'
    BY <2>1, <2>5, <2>6, <2>7, <2>9 DEF TypeInv, NotebookTypeOK, OpenReview
  <2> QED BY <2>8, <2>10 DEF TypeInv
<1>8. CASE RollBack(g)
  <2>1. review' = [review EXCEPT ![g] = NoReview] /\ UNCHANGED <<rowVars, draft, page>>
    BY <1>8 DEF RollBack
  <2>2. review' \in [Engineers -> {NoReview} \cup OpenReview]
    BY <1>1, <2>1
  <2>3. IdIsDrawn'
    BY <1>1, <1>2, <2>1 DEF IdIsDrawn, TypeInv
  <2>4. NotebookTypeOK'
    BY <2>1, <2>2 DEF TypeInv, NotebookTypeOK, OpenReview, rowVars
  <2> QED BY <2>3, <2>4 DEF TypeInv
<1> QED BY <1>3, <1>4, <1>5, <1>6, <1>7, <1>8 DEF ReviewStep

(* What a draft is told, is told of entities.                              *)
LEMMA LoadIsTyped ==
  ASSUME TypeInv, LifeInv, NEW i \in Incidents, LoadEvidence(i)
  PROVE  draft' \in OpenDraft
<1>1. draft' = [at |-> "evidence", incident |-> i, shown |-> Shown(i),
                distrusted |-> Distrusted, similar |-> {}, pending |-> {}, told |-> {}]
  BY DEF LoadEvidence, NoDraft
<1>2. Shown(i) \in Seq(Items)
  BY WhatIsShown DEF TypeInv, NotebookTypeOK
<1>3. Distrusted \in SUBSET Items
  BY DEF Distrusted
<1> QED BY <1>1, <1>2, <1>3 DEF OpenDraft

(* ... and of similar incidents and their root causes.                     *)
LEMMA SimilarIsTyped ==
  ASSUME TypeInv, LifeInv, LoadSimilar
  PROVE  draft' \in OpenDraft
<1>1. draft \in {NoDraft} \cup OpenDraft /\ NoDraft.at = "idle" /\ draft.at = "evidence"
  BY DEF TypeInv, NotebookTypeOK, OpenDraft, NoDraft, LoadSimilar
<1>2. draft \in OpenDraft
  BY <1>1
<1>3. PICK best \in SUBSET Candidates(draft.incident) :
        draft' = [draft EXCEPT !.at = "similar", !.similar = best, !.pending = best,
          !.told = {[entity |-> Resolution(k), value |-> column[Resolution(k)].value] : k \in best}]
  BY DEF LoadSimilar
<1> DEFINE told == {[entity |-> Resolution(k), value |-> column[Resolution(k)].value] : k \in best}
<1>4. best \subseteq Incidents
  BY DEF Candidates
<1>5. told \in SUBSET [entity : Entities, value : Values]
  <2> SUFFICES ASSUME NEW k \in best
               PROVE  Resolution(k) \in Entities /\ column[Resolution(k)].value \in Values
    OBVIOUS
  <2>1. Resolution(k) \in Entities
    BY <1>4 DEF Entities
  <2> QED BY <2>1 DEF TypeInv, NotebookTypeOK, Column
<1>6. draft' = [at |-> "similar", incident |-> draft.incident, shown |-> draft.shown,
                distrusted |-> draft.distrusted, similar |-> best, pending |-> best,
                told |-> told]
  BY <1>2, <1>3 DEF OpenDraft
<1> HIDE DEF told
<1> QED BY <1>2, <1>4, <1>5, <1>6 DEF OpenDraft

(* A verdict is on an analysis that there is.                              *)
LEMMA VerdictsAreTyped ==
  ASSUME TypeInv, LifeInv, NEW k \in Incidents, LoadVerdicts(k)
  PROVE  draft' \in OpenDraft
<1>1. /\ draft' = [draft EXCEPT !.pending = @ \ {k}, !.told = @ \cup Verdicts(k)]
      /\ k \in draft.pending
  BY DEF LoadVerdicts
<1>2. draft \in OpenDraft
  <2>1. draft \in {NoDraft} \cup OpenDraft /\ NoDraft.pending = {}
    BY DEF TypeInv, NotebookTypeOK, OpenDraft, NoDraft
  <2> QED BY <1>1, <2>1
<1>3. Verdicts(k) \in SUBSET [entity : Entities, value : Values]
  <2> SUFFICES ASSUME NEW a \in DOMAIN analyses[k]
               PROVE  [entity |-> Hypothesis(k, a), value |-> column[Hypothesis(k, a)].value]
                        \in [entity : Entities, value : Values]
    BY DEF Verdicts
  <2>1. a \in 1..MaxAnalyses
    <3>1. analyses[k] \in Seq(Analysis) /\ Len(analyses[k]) <= MaxAnalyses
      BY DEF LifeInv, LearnInv, AnalysesAreBounded, TypeInv, NotebookTypeOK
    <3> QED BY <3>1, NotebookAssumption
  <2>2. Hypothesis(k, a) \in Entities
    BY <2>1 DEF Entities
  <2>3. column[Hypothesis(k, a)].value \in Values
    BY <2>2 DEF TypeInv, NotebookTypeOK, Column
  <2> QED BY <2>2, <2>3
<1>4. draft' = [at |-> draft.at, incident |-> draft.incident, shown |-> draft.shown,
                distrusted |-> draft.distrusted, similar |-> draft.similar,
                pending |-> draft.pending \ {k}, told |-> draft.told \cup Verdicts(k)]
  BY <1>1, <1>2 DEF OpenDraft
<1> QED BY <1>2, <1>3, <1>4 DEF OpenDraft

(* An analysis cites what its request showed.                              *)
LEMMA WhatIsCited ==
  ASSUME TypeInv, draft.at # "idle", NEW r \in AnsweredRecords(draft) \cup {EmptyRecord}
  PROVE  /\ r \in Analysis
         /\ r.cites \subseteq ToSet(draft.shown)
<1>1. draft \in OpenDraft
  BY DEF TypeInv, NotebookTypeOK, OpenDraft, NoDraft
<1>2. draft.shown \in Seq(Items) /\ Sources(draft) \in SUBSET Incidents
  BY <1>1 DEF OpenDraft, Sources
<1>3. CASE r = EmptyRecord
  BY <1>3 DEF EmptyRecord, Analysis
<1>4. CASE r \in AnsweredRecords(draft)
  <2>1. PICK said :
          r = [status |-> "ok", cites |-> Cited(draft, said), sources |-> Sources(draft)]
    BY <1>4 DEF AnsweredRecords
  <2>2. r.cites = {draft.shown[h] : h \in said \cap DOMAIN draft.shown}
    BY <2>1 DEF Cited
  <2>3. r.cites \subseteq ToSet(draft.shown)
    BY <2>2 DEF ToSet
  <2>4. r.cites \in SUBSET Items
    BY <1>2, <2>2
  <2> QED BY <1>2, <2>1, <2>3, <2>4 DEF Analysis
<1> QED BY <1>3, <1>4

-----------------------------------------------------------------------------
(* Citations.  Evidence is inserted anywhere and flagged at any time, but  *)
(* never removed: what a request showed, an analysis cites and a page has  *)
(* listed remains evidence of the incident.                                *)

DraftShows ==
  draft.at # "idle" =>
    /\ ToSet(draft.shown) \subseteq ToSet(evidence[draft.incident])
    /\ ToSet(draft.shown) \cap draft.distrusted = {}

AnalysesCite ==
  \A i \in Incidents : \A n \in DOMAIN analyses[i] :
    analyses[i][n].cites \subseteq ToSet(evidence[i])

(* The items on a page are those that an analysis committed by then could  *)
(* cite.                                                                   *)
PageShows ==
  page.at # "none" =>
    /\ page.before <= Len(analyses[page.incident])
    /\ page.analysis <= Len(analyses[page.incident])
    /\ \A n \in 1..page.before : analyses[page.incident][n].cites \subseteq ToSet(page.items)

CiteInv == DraftShows /\ AnalysesCite /\ PageShows

NotebookInv == LifeInv /\ TypeInv /\ CiteInv

(* A commit appends an analysis that cites what its request showed.        *)
LEMMA WhatIsSaved ==
  ASSUME NotebookInv, SaveAnalysis
  PROVE  \E i \in Incidents, r \in Analysis :
           /\ i = draft.incident
           /\ r.cites \subseteq ToSet(evidence[i])
           /\ r.cites \cap draft.distrusted = {}
           /\ analyses' \in [Incidents -> Seq(Analysis)]
           /\ \A k \in Incidents : k # i => analyses'[k] = analyses[k]
           /\ Len(analyses'[i]) = Len(analyses[i]) + 1
           /\ Last(analyses'[i]) = r
           /\ \A n \in 1..Len(analyses[i]) : analyses'[i][n] = analyses[i][n]
           /\ analyses'[i][Len(analyses[i]) + 1] = r
<1> DEFINE i == draft.incident
<1>1. PICK r \in AnsweredRecords(draft) \cup {EmptyRecord} :
        analyses' = [analyses EXCEPT ![i] = Append(@, r)]
  BY DEF SaveAnalysis
<1>2. draft.at # "idle"
  BY DEF SaveAnalysis
<1>3. i \in Incidents
  BY <1>2 DEF NotebookInv, LifeInv, DraftIsGrounded
<1>4. r \in Analysis /\ r.cites \subseteq ToSet(draft.shown)
  BY <1>2, WhatIsCited DEF NotebookInv
<1>5. r.cites \subseteq ToSet(evidence[i]) /\ r.cites \cap draft.distrusted = {}
  BY <1>2, <1>4 DEF NotebookInv, CiteInv, DraftShows
<1>6. analyses \in [Incidents -> Seq(Analysis)]
  BY DEF NotebookInv, TypeInv, NotebookTypeOK
<1>7. /\ analyses' \in [Incidents -> Seq(Analysis)]
      /\ \A k \in Incidents : k # i => analyses'[k] = analyses[k]
      /\ analyses'[i] = Append(analyses[i], r)
  <2>1. Append(analyses[i], r) \in Seq(Analysis)
    BY <1>3, <1>4, <1>6
  <2> QED BY <1>1, <1>3, <1>6, <2>1
<1>8. /\ Len(analyses'[i]) = Len(analyses[i]) + 1
      /\ Last(analyses'[i]) = r
      /\ \A n \in 1..Len(analyses[i]) : analyses'[i][n] = analyses[i][n]
      /\ analyses'[i][Len(analyses[i]) + 1] = r
  <2>1. analyses[i] \in Seq(Analysis)
    BY <1>3, <1>6
  <2> HIDE DEF i
  <2> QED BY <1>4, <1>7, <2>1 DEF Last
<1> QED BY <1>3, <1>4, <1>5, <1>7, <1>8

(* The types of the columns that the analysis and the pages write.         *)
LEMMA TypeStep ==
  ASSUME NotebookInv, [NotebookNext]_notebookVars
  PROVE  TypeInv'
<1> USE DEF NotebookInv
<1>1. PhaseIsTyped'
  BY PhaseStep
<1>2. ASSUME UNCHANGED <<column, audit, auditSeq, review>>,
             evidence' \in [Incidents -> Seq(Items)], analyses' \in [Incidents -> Seq(Analysis)],
             draft' \in {NoDraft} \cup OpenDraft,
             page' \in {NoPage} \cup
               [at : {"evidence", "shown"}, incident : Incidents, items : Seq(Items),
                before : Nat, analysis : Nat]
      PROVE  TypeInv'
  BY <1>1, <1>2 DEF TypeInv, NotebookTypeOK, IdIsDrawn, PhaseIsTyped, OpenDraft
<1>3. /\ evidence \in [Incidents -> Seq(Items)]
      /\ analyses \in [Incidents -> Seq(Analysis)]
      /\ draft \in {NoDraft} \cup OpenDraft
      /\ page \in {NoPage} \cup
           [at : {"evidence", "shown"}, incident : Incidents, items : Seq(Items),
            before : Nat, analysis : Nat]
  BY DEF TypeInv, NotebookTypeOK, OpenDraft
<1>4. ASSUME NEW g \in Engineers, ReviewStep(g) PROVE TypeInv'
  BY <1>4, ReviewIsTypedStep
<1>5. ASSUME NEW i \in Incidents, OpenIncident(i) PROVE TypeInv'
  BY <1>2, <1>3, <1>5 DEF OpenIncident
<1>6. ASSUME NEW i \in Incidents, CaptureEvidence(i) PROVE TypeInv'
  <2>1. UNCHANGED <<analyses, column, audit, auditSeq, review, draft, page>>
    BY <1>6 DEF CaptureEvidence
  <2>2. evidence' \in [Incidents -> Seq(Items)]
    <3>1. \E e, n : evidence' = [evidence EXCEPT ![i] = InsertAt(@, n, e)]
      BY <1>6 DEF CaptureEvidence
    <3>2. evidence'[i] \in Seq(Items)
      BY <1>6, WhatIsCaptured
    <3> QED BY <1>3, <3>1, <3>2
  <2> QED BY <1>2, <1>3, <2>1, <2>2
<1>7. ASSUME LoadSimilar \/ \E i \in Incidents : LoadEvidence(i) \/ LoadVerdicts(i)
      PROVE  TypeInv'
  <2>1. UNCHANGED <<evidence, analyses, column, audit, auditSeq, review, page>>
    BY <1>7 DEF LoadEvidence, LoadVerdicts, LoadSimilar, rowVars
  <2>2. draft' \in OpenDraft
    BY <1>7, LoadIsTyped, VerdictsAreTyped, SimilarIsTyped
  <2> QED BY <1>2, <1>3, <2>1, <2>2
<1>8. CASE SaveAnalysis
  <2>1. UNCHANGED <<evidence, column, audit, auditSeq, review, page>> /\ draft' = NoDraft
    BY <1>8 DEF SaveAnalysis
  <2>2. analyses' \in [Incidents -> Seq(Analysis)]
    BY <1>8, WhatIsSaved
  <2> QED BY <1>2, <1>3, <2>1, <2>2
<1>9. CASE AnalysisDies
  BY <1>2, <1>3, <1>9 DEF AnalysisDies, rowVars
<1>10. ASSUME NEW i \in Incidents, LoadPageEvidence(i) PROVE TypeInv'
  <2>1. UNCHANGED <<evidence, analyses, column, audit, auditSeq, review, draft>>
    BY <1>10 DEF LoadPageEvidence, rowVars
  <2>2. page' = [at |-> "evidence", incident |-> i, items |-> evidence[i],
                 before |-> Len(analyses[i]), analysis |-> 0]
    BY <1>10 DEF LoadPageEvidence, ItemsOnPage
  <2>3. evidence[i] \in Seq(Items) /\ Len(analyses[i]) \in Nat
    BY <1>3
  <2> QED BY <1>2, <1>3, <2>1, <2>2, <2>3
<1>11. CASE LoadPageAnalysis
  <2>1. /\ UNCHANGED <<evidence, analyses, column, audit, auditSeq, review, draft>>
        /\ page.at = "evidence"
        /\ page' = [page EXCEPT !.at = "shown", !.analysis = Len(analyses[page.incident])]
    BY <1>11 DEF LoadPageAnalysis, rowVars
  <2>2. page \in [at : {"evidence", "shown"}, incident : Incidents, items : Seq(Items),
                  before : Nat, analysis : Nat]
    BY <1>3, <2>1 DEF NoPage
  <2>3. Len(analyses[page.incident]) \in Nat
    BY <1>3, <2>2
  <2>4. page' \in [at : {"evidence", "shown"}, incident : Incidents, items : Seq(Items),
                  before : Nat, analysis : Nat]
    BY <2>1, <2>2, <2>3
  <2> QED BY <1>2, <1>3, <2>1, <2>4
<1>12. CASE UNCHANGED notebookVars
  BY <1>2, <1>3, <1>12 DEF notebookVars
<1> QED
  BY <1>4, <1>5, <1>6, <1>7, <1>8, <1>9, <1>10, <1>11, <1>12 DEF NotebookNext

(* More evidence, and no analysis yet that was not there: nothing to check *)
(* but what is already cited.                                              *)
LEMMA CitesStay ==
  ASSUME CiteInv, LifeInv, UNCHANGED <<draft, analyses, page>>,
         \A i \in Incidents : ToSet(evidence[i]) \subseteq ToSet(evidence'[i])
  PROVE  CiteInv'
<1>1. DraftShows'
  BY DEF CiteInv, DraftShows, LifeInv, DraftIsGrounded
<1>2. AnalysesCite'
  BY DEF CiteInv, AnalysesCite
<1>3. PageShows'
  BY DEF CiteInv, PageShows
<1> QED BY <1>1, <1>2, <1>3 DEF CiteInv

(* One more analysis leaves what a page has listed as it was.              *)
LEMMA SaveKeepsCites ==
  ASSUME NotebookInv, SaveAnalysis
  PROVE  CiteInv'
<1>1. PICK i \in Incidents, r \in Analysis :
        /\ r.cites \subseteq ToSet(evidence[i])
        /\ analyses' \in [Incidents -> Seq(Analysis)]
        /\ \A k \in Incidents : k # i => analyses'[k] = analyses[k]
        /\ Len(analyses'[i]) = Len(analyses[i]) + 1
        /\ \A n \in 1..Len(analyses[i]) : analyses'[i][n] = analyses[i][n]
        /\ analyses'[i][Len(analyses[i]) + 1] = r
  BY WhatIsSaved
<1>2. UNCHANGED <<evidence, page>> /\ draft' = NoDraft
  BY DEF SaveAnalysis
<1>3. DraftShows'
  BY <1>2 DEF DraftShows, NoDraft
<1>4. analyses[i] \in Seq(Analysis) /\ analyses'[i] \in Seq(Analysis)
  BY <1>1 DEF NotebookInv, TypeInv, NotebookTypeOK
<1>5. AnalysesCite'
  <2> SUFFICES ASSUME NEW k \in Incidents, NEW n \in DOMAIN analyses'[k]
               PROVE  analyses'[k][n].cites \subseteq ToSet(evidence'[k])
    BY DEF AnalysesCite
  <2>1. CASE k # i
    BY <1>1, <1>2, <2>1 DEF NotebookInv, CiteInv, AnalysesCite
  <2>2. CASE k = i
    <3>1. n \in 1..Len(analyses[i]) \/ n = Len(analyses[i]) + 1
      BY <1>1, <1>4, <2>2
    <3>2. CASE n \in 1..Len(analyses[i])
      <4>1. n \in DOMAIN analyses[i] /\ analyses'[i][n] = analyses[i][n]
        BY <1>1, <1>4, <3>2
      <4> QED BY <1>2, <2>2, <4>1 DEF NotebookInv, CiteInv, AnalysesCite
    <3>3. CASE n = Len(analyses[i]) + 1
      BY <1>1, <1>2, <2>2, <3>3
    <3> QED BY <3>1, <3>2, <3>3
  <2> QED BY <2>1, <2>2
<1>6. PageShows'
  <2> SUFFICES ASSUME page.at # "none"
               PROVE  /\ page.before <= Len(analyses'[page.incident])
                      /\ page.analysis <= Len(analyses'[page.incident])
                      /\ \A n \in 1..page.before :
                           analyses'[page.incident][n].cites \subseteq ToSet(page.items)
    BY <1>2 DEF PageShows
  <2>1. /\ page.before <= Len(analyses[page.incident])
        /\ page.analysis <= Len(analyses[page.incident])
        /\ \A n \in 1..page.before : analyses[page.incident][n].cites \subseteq ToSet(page.items)
    BY DEF NotebookInv, CiteInv, PageShows
  <2>2. page.incident \in Incidents /\ page.before \in Nat /\ page.analysis \in Nat
    BY DEF NotebookInv, TypeInv, NotebookTypeOK, NoPage
  <2>3. CASE page.incident # i
    BY <1>1, <2>1, <2>2, <2>3
  <2>4. CASE page.incident = i
    <3>1. Len(analyses[i]) \in Nat
      BY <1>4
    <3>2. \A n \in 1..page.before : n \in 1..Len(analyses[i])
      BY <2>1, <2>2, <2>4, <3>1
    <3>3. /\ page.before <= Len(analyses'[i])
          /\ page.analysis <= Len(analyses'[i])
      BY <1>1, <2>1, <2>2, <2>4, <3>1
    <3>4. \A n \in 1..page.before : analyses'[i][n] = analyses[i][n]
      BY <1>1, <3>2
    <3>5. \A n \in 1..page.before : analyses'[i][n].cites \subseteq ToSet(page.items)
      BY <2>1, <2>4, <3>4
    <3> QED BY <2>4, <3>3, <3>5
  <2> QED BY <2>3, <2>4
<1> QED BY <1>3, <1>5, <1>6 DEF CiteInv

(* The steps of the analysis and of the pages.                             *)
LEMMA CiteStep ==
  ASSUME NotebookInv, [NotebookNext]_notebookVars
  PROVE  CiteInv'
<1> USE DEF NotebookInv
<1>1. ASSUME UNCHANGED <<draft, evidence, analyses, page>> PROVE CiteInv'
  BY <1>1, CitesStay
<1>2. ASSUME NEW g \in Engineers, ReviewStep(g) PROVE CiteInv'
  BY <1>1, <1>2 DEF ReviewStep, SetHypothesisVerdict, FlagEvidence, SaveResolution, Begin,
                    RecordAudit, CommitReview, RollBack, rowVars
<1>3. ASSUME NEW i \in Incidents, OpenIncident(i) PROVE CiteInv'
  BY <1>1, <1>3 DEF OpenIncident
<1>4. ASSUME NEW i \in Incidents, CaptureEvidence(i) PROVE CiteInv'
  <2>1. \A k \in Incidents : ToSet(evidence[k]) \subseteq ToSet(evidence'[k])
    BY <1>4, WhatIsCaptured
  <2>2. UNCHANGED <<draft, analyses, page>>
    BY <1>4 DEF CaptureEvidence
  <2> QED BY <2>1, <2>2, CitesStay
<1>5. ASSUME UNCHANGED <<evidence, analyses, page>>, DraftShows' PROVE CiteInv'
  BY <1>5 DEF CiteInv, AnalysesCite, PageShows
<1>6. ASSUME NEW i \in Incidents, LoadEvidence(i) PROVE CiteInv'
  <2>1. UNCHANGED <<evidence, analyses, page>>
    BY <1>6 DEF LoadEvidence, rowVars
  <2>2. draft' = [at |-> "evidence", incident |-> i, shown |-> Shown(i),
                  distrusted |-> Distrusted, similar |-> {}, pending |-> {}, told |-> {}]
    BY <1>6 DEF LoadEvidence, NoDraft
  <2>3. ToSet(Shown(i)) = ToSet(evidence[i]) \ Distrusted
    BY WhatIsShown DEF TypeInv, NotebookTypeOK
  <2>4. DraftShows'
    BY <2>1, <2>2, <2>3 DEF DraftShows
  <2> QED BY <1>5, <2>1, <2>4
<1>7. ASSUME UNCHANGED <<evidence, analyses, page>>, draft.at # "idle",
             draft'.incident = draft.incident, draft'.shown = draft.shown,
             draft'.distrusted = draft.distrusted
      PROVE  CiteInv'
  <2>1. DraftShows'
    BY <1>7 DEF CiteInv, DraftShows
  <2> QED BY <1>5, <1>7, <2>1
<1>8. ASSUME LoadSimilar PROVE CiteInv'
  <2>1. draft.at = "evidence" /\ UNCHANGED <<evidence, analyses, page>>
    BY <1>8 DEF LoadSimilar, rowVars
  <2>2. /\ draft'.incident = draft.incident /\ draft'.shown = draft.shown
        /\ draft'.distrusted = draft.distrusted
    BY <1>8 DEF LoadSimilar, LifeInv, LearnInv, DraftIsVerified, IsDraft
  <2> QED BY <1>7, <2>1, <2>2
<1>9. ASSUME NEW k \in Incidents, LoadVerdicts(k) PROVE CiteInv'
  <2>1. /\ draft' = [draft EXCEPT !.pending = @ \ {k}, !.told = @ \cup Verdicts(k)]
        /\ k \in draft.pending
        /\ UNCHANGED <<evidence, analyses, page>>
    BY <1>9 DEF LoadVerdicts, rowVars
  <2>2. draft \in OpenDraft
    BY <2>1 DEF TypeInv, NotebookTypeOK, OpenDraft, NoDraft
  <2>3. draft.at # "idle"
    BY <2>2 DEF OpenDraft
  <2>4. /\ draft'.incident = draft.incident /\ draft'.shown = draft.shown
        /\ draft'.distrusted = draft.distrusted
    BY <2>1 DEF LifeInv, LearnInv, DraftIsVerified, IsDraft
  <2> QED BY <1>7, <2>1, <2>3, <2>4
<1>10. CASE SaveAnalysis
  BY <1>10, SaveKeepsCites
<1>11. CASE AnalysisDies
  BY <1>5, <1>11 DEF AnalysisDies, rowVars, DraftShows, NoDraft
<1>12. ASSUME NEW i \in Incidents, LoadPageEvidence(i) PROVE CiteInv'
  <2>1. UNCHANGED <<evidence, analyses, draft>>
    BY <1>12 DEF LoadPageEvidence, rowVars
  <2>2. page' = [at |-> "evidence", incident |-> i, items |-> evidence[i],
                 before |-> Len(analyses[i]), analysis |-> 0]
    BY <1>12 DEF LoadPageEvidence, ItemsOnPage
  <2>3. analyses[i] \in Seq(Analysis)
    BY DEF TypeInv, NotebookTypeOK
  <2>4. PageShows'
    <3>1. Len(analyses[i]) \in Nat /\ DOMAIN analyses[i] = 1..Len(analyses[i])
      BY <2>3
    <3>2. \A n \in 1..Len(analyses[i]) : analyses[i][n].cites \subseteq ToSet(evidence[i])
      BY <3>1 DEF CiteInv, AnalysesCite
    <3> QED BY <2>1, <2>2, <3>1, <3>2 DEF PageShows
  <2> QED BY <2>1, <2>4 DEF CiteInv, DraftShows, AnalysesCite
<1>13. CASE LoadPageAnalysis
  <2>1. /\ UNCHANGED <<evidence, analyses, draft>>
        /\ page.at = "evidence"
        /\ page' = [page EXCEPT !.at = "shown", !.analysis = Len(analyses[page.incident])]
    BY <1>13 DEF LoadPageAnalysis, rowVars
  <2>2. page \in [at : {"evidence", "shown"}, incident : Incidents, items : Seq(Items),
                  before : Nat, analysis : Nat]
    BY <2>1 DEF TypeInv, NotebookTypeOK, NoPage
  <2>3. /\ page'.incident = page.incident /\ page'.items = page.items
        /\ page'.before = page.before /\ page'.analysis = Len(analyses[page.incident])
    BY <2>1, <2>2
  <2>4. Len(analyses[page.incident]) \in Nat
    BY <2>2 DEF TypeInv, NotebookTypeOK
  <2>5. PageShows'
    BY <2>1, <2>3, <2>4 DEF CiteInv, PageShows
  <2> QED BY <2>1, <2>5 DEF CiteInv, DraftShows, AnalysesCite
<1>14. CASE UNCHANGED notebookVars
  BY <1>1, <1>14 DEF notebookVars
<1> QED
  BY <1>2, <1>3, <1>4, <1>6, <1>8, <1>9, <1>10, <1>11, <1>12, <1>13, <1>14 DEF NotebookNext

(* There is nothing at first.                                              *)
LEMMA NotebookInvInitially == NotebookInit => NotebookInv
<1> SUFFICES ASSUME NotebookInit PROVE NotebookInv
  OBVIOUS
<1>1. LifeInv
  BY LifeInvInitially
<1>2. TypeInv
  <2>1. \A S : <<>> \in Seq(S)
    OBVIOUS
  <2>2. NoReview.at = "idle"
    BY NoReviewIsTyped
  <2>3. IdIsDrawn
    BY <2>2 DEF NotebookInit, IdIsDrawn
  <2>4. column \in [Entities -> Column]
    BY DEF NotebookInit, Column, Unset, Values
  <2>5. NotebookTypeOK
    BY <2>1, <2>4, NotebookAssumption DEF NotebookInit, NotebookTypeOK
  <2> QED BY <2>3, <2>5 DEF TypeInv
<1>3. CiteInv
  <2>1. DraftShows
    BY DEF NotebookInit, DraftShows, NoDraft
  <2>2. AnalysesCite
    BY DEF NotebookInit, AnalysesCite
  <2>3. PageShows
    BY DEF NotebookInit, PageShows, NoPage
  <2> QED BY <2>1, <2>2, <2>3 DEF CiteInv
<1> QED BY <1>1, <1>2, <1>3 DEF NotebookInv

(* The invariant of the whole notebook.                                    *)
LEMMA NotebookInvariant == NotebookSpec => []NotebookInv
<1>1. ASSUME NotebookInv, [NotebookNext]_notebookVars PROVE NotebookInv'
  BY <1>1, LifeInvStep, TypeStep, CiteStep DEF NotebookInv
<1> QED BY <1>1, NotebookInvInitially, PTL DEF NotebookSpec

(* The rows keep the types of their columns, and what refers to a row      *)
(* refers to one that there is: a review to an entity, an audit id to one  *)
(* that was drawn, what was told to an incident or to an analysis of one.  *)
THEOREM NotebookTypesCorrect == NotebookSpec => []NotebookTypeOK
BY NotebookInvariant, PTL DEF NotebookInv, TypeInv

(* A page that was not overtaken by a re-run shows every citation of the   *)
(* claim (notebook.go: loadEvidence before loadAnalysis, in no             *)
(* transaction).                                                           *)
THEOREM PagesCorrect == NotebookSpec => []PageCitesAll
<1>1. ASSUME NotebookInv PROVE PageCitesAll
  <2> SUFFICES ASSUME page.at = "shown", page.analysis # 0, page.analysis = page.before
               PROVE  Displayed(page).cites \subseteq {page.items[n] : n \in Refs(page)}
    BY DEF PageCitesAll
  <2>1. page.before \in 1..page.before
    BY <1>1 DEF NotebookInv, TypeInv, NotebookTypeOK, NoPage
  <2>2. Displayed(page).cites \subseteq ToSet(page.items)
    BY <1>1, <2>1 DEF NotebookInv, CiteInv, PageShows, Displayed
  <2> QED BY <2>2 DEF Refs, ToSet
<1> QED BY <1>1, NotebookInvariant, PTL

(* No analysis cites what had been flagged when its request was loaded     *)
(* (analysis.go: LoadAnalysisRequest, AND is_valid).                       *)
THEOREM TrustedCitations == NotebookSpec => CitedOnceTrusted
<1> DEFINE Trusted ==
      \A i \in Incidents : analyses'[i] # analyses[i] =>
        Last(analyses'[i]).cites \cap draft.distrusted = {}
<1>1. ASSUME NotebookInv, [NotebookNext]_notebookVars PROVE [Trusted]_notebookVars
  <2> SUFFICES ASSUME NotebookNext PROVE Trusted
    BY <1>1
  <2>1. CASE SaveAnalysis
    <3>1. PICK i \in Incidents, r \in Analysis :
            /\ r.cites \cap draft.distrusted = {}
            /\ \A k \in Incidents : k # i => analyses'[k] = analyses[k]
            /\ Last(analyses'[i]) = r
      BY <1>1, <2>1, WhatIsSaved
    <3> QED BY <3>1
  <2>2. CASE ~SaveAnalysis
    <3>1. analyses' = analyses
      BY <2>2 DEF NotebookNext, ReviewStep, OpenIncident, CaptureEvidence, LoadEvidence,
                  LoadVerdicts, LoadPageEvidence, SetHypothesisVerdict, FlagEvidence,
                  SaveResolution, Begin, RecordAudit, CommitReview, RollBack, LoadSimilar,
                  AnalysisDies, LoadPageAnalysis, rowVars
    <3> QED BY <3>1
  <2> QED BY <2>1, <2>2
<1> QED BY <1>1, NotebookInvariant, PTL DEF NotebookSpec, CitedOnceTrusted
=============================================================================
