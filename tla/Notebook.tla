------------------------------ MODULE Notebook ------------------------------
(***************************************************************************)
(* What engineers and the analyst read from a notebook and write to it:    *)
(* the review transactions and their audit log (internal/store/review.go), *)
(* the pages and exports (internal/store/notebook.go), and the learning    *)
(* corpus that an analysis draws on (internal/store/analysis.go).          *)
(*                                                                         *)
(* Nothing but the transactions is atomic.  A page and an analysis are     *)
(* put together from several statements, each of which sees what is        *)
(* committed when it runs; a review transaction locks its row with its     *)
(* UPDATE and shows nothing before it commits.                             *)
(*                                                                         *)
(* The job queue is left to Pipeline: one worker analyses, and the current *)
(* analysis of an incident is its last.  An analysis has at most one claim,*)
(* a hypothesis, which cites what the analysis cites.                      *)
(***************************************************************************)
EXTENDS Selection, FiniteSets, SequencesExt

CONSTANTS
  Incidents,    \* incident ids
  Items,        \* evidence ids (uuids)
  Engineers,    \* who reviews
  Nobody,       \* NULL in verdict_by, flagged_by, resolved_by
  Alike(_, _),  \* the incidents share an alert name
  MaxSimilar,   \* maxSimilar
  MaxAnalyses,  \* bound: analyses of all incidents
  MaxReviews    \* bound: audit ids that are drawn

ASSUME NotebookAssumption ==
  /\ Nobody \notin Engineers
  /\ MaxSimilar \in Nat /\ MaxAnalyses \in Nat /\ MaxReviews \in Nat

VARIABLES
  phase,     \* incidents.status
  evidence,  \* evidence_items, ORDER BY captured_at, id
  analyses,  \* analyses of each incident in commit order, the last is current
  column,    \* the columns an engineer writes: verdict, flag, resolution
  audit,     \* audit_log
  auditSeq,  \* the sequence behind its id
  review,    \* the transaction each engineer has open
  draft,     \* the locals of the analysis that is being made
  page       \* the locals of a page or an export, and what it shows

notebookVars == <<phase, evidence, analyses, column, audit, auditSeq, review, draft, page>>
rowVars == <<phase, evidence, analyses, column, audit, auditSeq>>

-----------------------------------------------------------------------------
(* What can be reviewed.                                                   *)
Hypothesis(i, a) == [type |-> "hypothesis", incident |-> i, which |-> a]
EvidenceItem(e) == [type |-> "evidence_item", incident |-> Nobody, which |-> e]
Resolution(i) == [type |-> "incident", incident |-> i, which |-> Nobody]

Entities ==
  {Hypothesis(i, a) : i \in Incidents, a \in 1..MaxAnalyses}
    \cup {EvidenceItem(e) : e \in Items} \cup {Resolution(i) : i \in Incidents}

(* Verdicts, one comment and one root cause; "none" is the default.        *)
Values == {"none", "confirmed", "rejected", "flagged", "cause"}
Column == [value : Values, by : Engineers \cup {Nobody}]
Unset == [value |-> "none", by |-> Nobody]

Flagged(e) == column[EvidenceItem(e)] # Unset
(* What is_valid leaves out.                                               *)
Distrusted == {e \in Items : Flagged(e)}

AuditRecord == [id : 1..MaxReviews, entity : Entities, value : Values, by : Engineers]

(* A row of analyses with its citations and its similar incidents; an      *)
(* analysis that was skipped counts as failed.                             *)
Analysis == [status : {"ok", "failed"}, cites : SUBSET Items, sources : SUBSET Incidents]

(* shown is the evidence of the request, similar its past incidents and    *)
(* told what it says of them; distrusted is what was flagged when it was   *)
(* loaded (history).                                                       *)
NoDraft == [at |-> "idle", incident |-> Nobody, shown |-> <<>>, distrusted |-> {},
            similar |-> {}, pending |-> {}, told |-> {}]
NoReview == [at |-> "idle", entity |-> Nobody, value |-> "none", id |-> 0]
NoPage == [at |-> "none", incident |-> Nobody, items |-> <<>>, before |-> 0, analysis |-> 0]

NotebookTypeOK ==
  /\ phase \in [Incidents -> {"absent", "open", "published", "resolved"}]
  /\ evidence \in [Incidents -> Seq(Items)]
  /\ analyses \in [Incidents -> Seq(Analysis)]
  /\ column \in [Entities -> Column]
  /\ audit \subseteq AuditRecord
  /\ auditSeq \in 0..MaxReviews
  /\ review \in [Engineers -> {NoReview} \cup
       [at : {"updated", "audited"}, entity : Entities, value : Values, id : 0..MaxReviews]]
  /\ draft \in {NoDraft} \cup
       [at : {"evidence", "similar"}, incident : Incidents, shown : Seq(Items),
        distrusted : SUBSET Items, similar : SUBSET Incidents, pending : SUBSET Incidents,
        told : SUBSET [entity : Entities, value : Values]]
  /\ page \in {NoPage} \cup
       [at : {"evidence", "shown"}, incident : Incidents, items : Seq(Items),
        before : Nat, analysis : Nat]

NotebookInit ==
  /\ phase = [i \in Incidents |-> "absent"]
  /\ evidence = [i \in Incidents |-> <<>>]
  /\ analyses = [i \in Incidents |-> <<>>]
  /\ column = [x \in Entities |-> Unset]
  /\ audit = {}
  /\ auditSeq = 0
  /\ review = [g \in Engineers |-> NoReview]
  /\ draft = NoDraft
  /\ page = NoPage

-----------------------------------------------------------------------------
(* Intake and the collectors, as far as the notebook sees them.            *)
OpenIncident(i) ==
  /\ phase[i] = "absent"
  /\ phase' = [phase EXCEPT ![i] = "open"]
  /\ UNCHANGED <<evidence, analyses, column, audit, auditSeq, review, draft, page>>

(* captured_at is the start of a transaction and the ids are random, so an *)
(* item may come anywhere in the order.                                    *)
CaptureEvidence(i) ==
  /\ phase[i] # "absent"
  /\ \E e \in Items, n \in 1..Len(evidence[i]) + 1 :
       /\ \A k \in Incidents : e \notin ToSet(evidence[k])
       /\ evidence' = [evidence EXCEPT ![i] = InsertAt(@, n, e)]
  /\ UNCHANGED <<phase, analyses, column, audit, auditSeq, review, draft, page>>

-----------------------------------------------------------------------------
(* Review transactions.                                                    *)
RowIsFree(x) == \A g \in Engineers : review[g].entity # x

(* BEGIN and the UPDATE, which holds the row until the transaction ends.   *)
Begin(g, x, v) ==
  /\ review[g].at = "idle"
  /\ RowIsFree(x)
  /\ auditSeq < MaxReviews
  /\ review' = [review EXCEPT ![g] = [at |-> "updated", entity |-> x, value |-> v, id |-> 0]]
  /\ UNCHANGED <<rowVars, draft, page>>

(* Posted from a page, which may show an analysis that was replaced since. *)
SetHypothesisVerdict(g) ==
  \E i \in Incidents, v \in {"none", "confirmed", "rejected"} : \E a \in DOMAIN analyses[i] :
    /\ analyses[i][a].cites # {}
    /\ Begin(g, Hypothesis(i, a), v)

FlagEvidence(g) ==
  \E i \in Incidents : \E e \in ToSet(evidence[i]) : Begin(g, EvidenceItem(e), "flagged")

SaveResolution(g) ==
  \E i \in Incidents : phase[i] # "absent" /\ Begin(g, Resolution(i), "cause")

(* The record of a resolution has no details, only its actor.              *)
Details(x, v) == IF x.type = "incident" THEN "none" ELSE v

Record(g) ==
  LET t == review[g]
  IN  [id |-> t.id, entity |-> t.entity, value |-> Details(t.entity, t.value), by |-> g]

(* Variant: the audit record is written through the pool, not in the       *)
(* transaction, and stays when the transaction rolls back.                 *)
AuditThroughPool(g) ==
  /\ review[g].at = "updated"
  /\ auditSeq < MaxReviews
  /\ auditSeq' = auditSeq + 1
  /\ review' = [review EXCEPT ![g] = [@ EXCEPT !.at = "audited", !.id = auditSeq']]
  /\ audit' = audit \cup {[Record(g) EXCEPT !.id = auditSeq']}
  /\ UNCHANGED <<phase, evidence, analyses, column, draft, page>>

(* recordAudit draws the next id; the row is not seen before the COMMIT.   *)
RecordAudit(g) ==
  /\ review[g].at = "updated"
  /\ auditSeq < MaxReviews
  /\ auditSeq' = auditSeq + 1
  /\ review' = [review EXCEPT ![g] = [@ EXCEPT !.at = "audited", !.id = auditSeq']]
  /\ UNCHANGED <<phase, evidence, analyses, column, audit, draft, page>>

CommitReview(g) ==
  LET t == review[g] IN
  /\ t.at = "audited"
  /\ column' = [column EXCEPT ![t.entity] = [value |-> t.value, by |-> g]]
  /\ audit' = audit \cup {Record(g)}
  /\ phase' = [i \in Incidents |-> IF t.entity = Resolution(i) THEN "resolved" ELSE phase[i]]
  /\ review' = [review EXCEPT ![g] = NoReview]
  /\ UNCHANGED <<evidence, analyses, auditSeq, draft, page>>

(* A statement failed, the request was cancelled or the server died.       *)
RollBack(g) ==
  /\ review[g].at # "idle"
  /\ review' = [review EXCEPT ![g] = NoReview]
  /\ UNCHANGED <<rowVars, draft, page>>

-----------------------------------------------------------------------------
(* An analysis: LoadAnalysisRequest, the provider, SaveAnalysis.           *)

Analysed == {x \in Entities : x.type = "hypothesis" /\ x.which <= Len(analyses[x.incident])}

(* Variant: AND is_valid is missing.                                       *)
ShowAll(i) == evidence[i]

(* The evidence of the request: handle En is its n-th item.                *)
Shown(i) == Without(evidence[i], Distrusted)

LoadEvidence(i) ==
  /\ draft = NoDraft
  /\ phase[i] # "absent"
  /\ Len(analyses[i]) < MaxAnalyses /\ Cardinality(Analysed) < MaxAnalyses
  /\ draft' = [NoDraft EXCEPT !.at = "evidence", !.incident = i, !.shown = Shown(i),
                              !.distrusted = Distrusted]
  /\ UNCHANGED <<rowVars, review, page>>

(* Resolved, not this one, and sharing an alert name.                      *)
Candidates(i) == {k \in Incidents \ {i} : phase[k] = "resolved" /\ Alike(i, k)}

(* loadSimilar takes the best MaxSimilar, with their root causes.  Which   *)
(* are the best is left open.                                              *)
LoadSimilar ==
  /\ draft.at = "evidence"
  /\ \E best \in SUBSET Candidates(draft.incident) :
       /\ Cardinality(best) <= MaxSimilar
       /\ Cardinality(best) < MaxSimilar => best = Candidates(draft.incident)
       /\ draft' = [draft EXCEPT !.at = "similar", !.similar = best, !.pending = best,
            !.told = {[entity |-> Resolution(k), value |-> column[Resolution(k)].value] : k \in best}]
  /\ UNCHANGED <<rowVars, review, page>>

(* Variant: AND h.verdict IN ('confirmed', 'rejected') is missing, and     *)
(* what is not confirmed counts as ruled out.                              *)
VerdictsByDefault(k) ==
  {[entity |-> Hypothesis(k, a),
    value |-> IF column[Hypothesis(k, a)].value = "confirmed" THEN "confirmed" ELSE "rejected"] :
     a \in {n \in DOMAIN analyses[k] : n = Len(analyses[k]) /\ analyses[k][n].cites # {}}}

(* The verdicts on the current analysis of a similar incident.             *)
Verdicts(k) ==
  {[entity |-> Hypothesis(k, a), value |-> column[Hypothesis(k, a)].value] :
     a \in {n \in DOMAIN analyses[k] : /\ n = Len(analyses[k])
                                       /\ column[Hypothesis(k, n)].value \in {"confirmed", "rejected"}}}

LoadVerdicts(k) ==
  /\ k \in draft.pending
  /\ draft' = [draft EXCEPT !.pending = @ \ {k}, !.told = @ \cup Verdicts(k)]
  /\ UNCHANGED <<rowVars, review, page>>

(* Variant: who was similar is looked up again when the analysis is saved. *)
SimilarNow(d) == Candidates(d.incident)

(* rec.Similar: the incidents that were in the request.                    *)
Sources(d) == d.similar

(* EnforceCitations and RefToID.                                           *)
Cited(d, said) == {d.shown[h] : h \in said \cap DOMAIN d.shown}

(* status ok.  The model may cite handles that it was not given.           *)
AnsweredRecords(d) ==
  {[status |-> "ok", cites |-> Cited(d, said), sources |-> Sources(d)] :
     said \in SUBSET (1..Len(d.shown) + 1)}

(* status failed or skipped: no claims, and no provenance.                 *)
EmptyRecord == [status |-> "failed", cites |-> {}, sources |-> {}]

(* Variant: the UPDATE of the incident has no condition.                   *)
PublishAlways(i) == phase' = [phase EXCEPT ![i] = "published"]

Publish(i) == phase' = [phase EXCEPT ![i] = IF @ = "resolved" THEN @ ELSE "published"]

(* The new analysis is the current one, whatever it says.                  *)
SaveAnalysis ==
  LET i == draft.incident IN
  /\ draft.at = "similar" /\ draft.pending = {}
  /\ \E r \in AnsweredRecords(draft) \cup {EmptyRecord} :
       analyses' = [analyses EXCEPT ![i] = Append(@, r)]
  /\ Publish(i)
  /\ draft' = NoDraft
  /\ UNCHANGED <<evidence, column, audit, auditSeq, review, page>>

(* Variant: what the run had loaded is kept for the next one.              *)
AnalysisStops ==
  /\ draft # NoDraft
  /\ draft' = [draft EXCEPT !.at = "idle"]
  /\ UNCHANGED <<rowVars, review, page>>

(* A statement fails, or the worker dies.                                  *)
AnalysisDies ==
  /\ draft # NoDraft
  /\ draft' = NoDraft
  /\ UNCHANGED <<rowVars, review, page>>

-----------------------------------------------------------------------------
(* LoadNotebook, for the page of an incident, for a card that a review     *)
(* request renders again, and for an export.                               *)

(* Variant: the page hides what was flagged.                               *)
ItemsTrusted(i) == Without(evidence[i], Distrusted)

(* loadEvidence: item n is displayed as En, flagged or not.  before is the *)
(* analysis that was current then (history).                               *)
ItemsOnPage(i) == evidence[i]

LoadPageEvidence(i) ==
  /\ page.at # "evidence"
  /\ phase[i] # "absent"
  /\ page' = [at |-> "evidence", incident |-> i, items |-> ItemsOnPage(i),
              before |-> Len(analyses[i]), analysis |-> 0]
  /\ UNCHANGED <<rowVars, review, draft>>

(* loadAnalysis finds the current one; its rows do not change.             *)
LoadPageAnalysis ==
  /\ page.at = "evidence"
  /\ page' = [page EXCEPT !.at = "shown", !.analysis = Len(analyses[page.incident])]
  /\ UNCHANGED <<rowVars, review, draft>>

Displayed(p) == analyses[p.incident][p.analysis]

(* mapRefs drops a citation that is not among the items.                   *)
Refs(p) == {n \in DOMAIN p.items : p.items[n] \in Displayed(p).cites}

-----------------------------------------------------------------------------
ReviewStep(g) ==
  \/ SetHypothesisVerdict(g) \/ FlagEvidence(g) \/ SaveResolution(g)
  \/ RecordAudit(g) \/ CommitReview(g) \/ RollBack(g)

NotebookNext ==
  \/ \E i \in Incidents :
       OpenIncident(i) \/ CaptureEvidence(i) \/ LoadEvidence(i) \/ LoadVerdicts(i)
         \/ LoadPageEvidence(i)
  \/ \E g \in Engineers : ReviewStep(g)
  \/ LoadSimilar \/ SaveAnalysis \/ AnalysisDies \/ LoadPageAnalysis

NotebookSpec == NotebookInit /\ [][NotebookNext]_notebookVars

-----------------------------------------------------------------------------
(* The audit trail never diverges from the change it describes: the last   *)
(* record of an entity, by id, names the engineer and the value its row    *)
(* has, and a row without a record was never reviewed - although two       *)
(* engineers review at once and their transactions may roll back.          *)
AuditTellsState ==
  \A x \in Entities :
    LET records == {r \in audit : r.entity = x} IN
    IF records = {} THEN column[x] = Unset
    ELSE \E last \in records :
           /\ \A r \in records : r.id <= last.id
           /\ column[x].by = last.by
           /\ Details(x, column[x].value) = last.value

(* A page shows a claim with all its citations, unless the analysis was    *)
(* replaced while the page was loading: then the new one may cite evidence *)
(* that arrived after the page read its own.                               *)
PageCitesAll ==
  page.at = "shown" /\ page.analysis # 0 /\ page.analysis = page.before =>
    Displayed(page).cites \subseteq {page.items[n] : n \in Refs(page)}

(* An analysis does not rest on evidence that had been flagged when it     *)
(* loaded its request; what is flagged later may be cited.                 *)
CitedOnceTrusted ==
  [][\A i \in Incidents : analyses'[i] # analyses[i] =>
       Last(analyses'[i]).cites \cap draft.distrusted = {}]_notebookVars

(* Learning is retrieval of verified outcomes: whatever an analysis is told *)
(* about past incidents is, when it is told, the last word of the audit log *)
(* on it, although verdicts change and analyses are replaced between the    *)
(* statements that read; and an analysis that used it names exactly the     *)
(* incidents it was told of, one that did not names none.                   *)
LastWord(x, v) ==
  \E last \in audit : /\ last.entity = x /\ last.value = v
                      /\ \A r \in audit : r.entity = x => r.id <= last.id

LearnedFromVerified ==
  [][/\ \A t \in draft'.told \ draft.told : LastWord(t.entity, Details(t.entity, t.value))
     /\ \A i \in Incidents : analyses'[i] # analyses[i] =>
          Last(analyses'[i]).sources =
            IF Last(analyses'[i]).status = "ok" THEN {t.entity.incident : t \in draft.told} ELSE {}
    ]_notebookVars

(* The review transactions, the analysis and the captures keep the promise *)
(* of NotebookLife: a commit is one step of it, all the rest stutters.     *)
Life == INSTANCE NotebookLife
          WITH captured <- [i \in Incidents |-> ToSet(evidence[i])],
               distrusted <- [i \in Incidents |-> {e \in ToSet(evidence[i]) : Flagged(e)}],
               analysed <- [i \in Incidents |-> Len(analyses[i])]

ReviewKeepsLife == Life!LifeSpec
=============================================================================
