------------------------------ MODULE Pipeline ------------------------------
(***************************************************************************)
(* From an incident to its notebook and its ping: the three handlers of    *)
(* internal/worker/worker.go run over the job queue, with the services of  *)
(* internal/core and the transactions of internal/store they call.         *)
(*                                                                         *)
(*   collect -> SaveEvidence -> enqueue analyze                            *)
(*   analyze -> LoadAnalysisRequest, provider, SaveAnalysis -> enqueue     *)
(*              notify                                                     *)
(*   notify  -> LoadNotification, then Send and Record per channel         *)
(*                                                                         *)
(* Each statement or transaction is one action, so a handler can be        *)
(* interrupted - by an error, a lost claim, another worker, an engineer -  *)
(* between any two of them.  SaveAnalysis is two: the statement that clears*)
(* is_current fixes which rows it saw, and the rest meets the unique index *)
(* when it commits.                                                        *)
(***************************************************************************)
EXTENDS JobQueue, Sequences

CONSTANTS
  Incidents,   \* incident ids that can be created
  NoIncident,  \* jobs.incident_id before the INSERT
  Items,       \* evidence ids (uuids) that can be created
  Channels,    \* the configured notification channels, in order
  ProviderResults, \* what the AI provider may do: {} if none is configured
  MaxFaults    \* bound: statements that fail in a behaviour

(* buildChannels appends each channel at most once.                        *)
ASSUME PipelineAssumption ==
  /\ NoIncident \notin Incidents
  /\ Channels \in Seq(STRING)
  /\ \A m, n \in DOMAIN Channels : Channels[m] = Channels[n] => m = n
  /\ ProviderResults \subseteq {"ok", "failed"}
  /\ MaxFaults \in Nat

VARIABLES
  kind,      \* jobs.kind
  about,     \* jobs.incident_id
  phase,     \* incidents.status
  triage,    \* incidents.triage_verdict
  evidence,  \* evidence_items of each incident
  flagged,   \* those with is_valid = false
  analyses,  \* analyses of each incident, in commit order
  current,   \* positions of those with is_current
  pings,     \* messages delivered per incident and channel
  notes,     \* notifications rows: <<channel, status>>
  handler,   \* where each worker is inside its handler, with its locals
  faults     \* how many statements have failed

jobVars == <<kind, about>>
incidentVars == <<phase, triage>>
evidenceVars == <<evidence, flagged>>
analysisVars == <<analyses, current>>
notifyVars == <<pings, notes>>
storeVars == <<incidentVars, evidenceVars, analysisVars, notifyVars>>
pipelineVars == <<queueVars, jobVars, storeVars, handler, faults>>

Kinds == {"collect", "analyze", "notify"}
Verdicts == {"actionable", "likely_noise", "unknown"}
Phase == {"absent", "open", "published", "resolved"}

ChannelNames == {Channels[n] : n \in DOMAIN Channels}

(* core.AnalysisRecord, without the prose.                                 *)
Record == [status : {"ok", "failed", "skipped"},
           verdict : Verdicts,
           cites : SUBSET Items]

NoRecord == [status |-> "skipped", verdict |-> "unknown", cites |-> {}]

(* The locals of a handler: the evidence in the request, the record to     *)
(* save, the analyses whose is_current was cleared, the next channel and   *)
(* what its Send returned.                                                 *)
HandlerState ==
  [pc : {"idle", "collect", "analyzeHandoff", "analyze", "provider", "save",
         "notifyHandoff", "notify", "quiet", "send", "record", "return"},
   shown : SUBSET Items,
   record : Record,
   cleared : SUBSET Nat,
   next : Nat,
   outcome : {"none", "sent", "failed"}]

Blank == [pc |-> "idle", shown |-> {}, record |-> NoRecord, cleared |-> {},
          next |-> 1, outcome |-> "none"]

PipelineTypeOK ==
  /\ QueueTypeOK
  /\ kind \in [Jobs -> Kinds \cup {"none"}]
  /\ about \in [Jobs -> Incidents \cup {NoIncident}]
  /\ phase \in [Incidents -> Phase]
  /\ triage \in [Incidents -> Verdicts \cup {"null"}]
  /\ evidence \in [Incidents -> SUBSET Items]
  /\ flagged \in [Incidents -> SUBSET Items]
  /\ analyses \in [Incidents -> Seq(Record)]
  /\ current \in [Incidents -> SUBSET Nat]
  /\ pings \in [Incidents -> [ChannelNames -> Nat]]
  /\ notes \in [Incidents -> SUBSET ((ChannelNames \cup {"gate"}) \X {"sent", "failed", "quiet"})]
  /\ handler \in [Workers -> HandlerState]
  /\ faults \in 0..MaxFaults

PipelineInit ==
  /\ QueueInit
  /\ kind = [j \in Jobs |-> "none"]
  /\ about = [j \in Jobs |-> NoIncident]
  /\ phase = [i \in Incidents |-> "absent"]
  /\ triage = [i \in Incidents |-> "null"]
  /\ evidence = [i \in Incidents |-> {}]
  /\ flagged = [i \in Incidents |-> {}]
  /\ analyses = [i \in Incidents |-> <<>>]
  /\ current = [i \in Incidents |-> {}]
  /\ pings = [i \in Incidents |-> [c \in ChannelNames |-> 0]]
  /\ notes = [i \in Incidents |-> {}]
  /\ handler = [w \in Workers |-> Blank]
  /\ faults = 0

-----------------------------------------------------------------------------
(* Where a handler stands, and how it moves on.                            *)
At(w, pc) == held[w] # NoJob /\ handler[w].pc = pc

Go(w, pc) == handler' = [handler EXCEPT ![w].pc = pc]

Inc(w) == about[held[w]]

LetGo(w) == handler' = [handler EXCEPT ![w] = Blank]

(* INSERT INTO jobs (kind, incident_id).                                   *)
Insert(k, i) ==
  \E j \in Jobs :
    /\ j = CHOOSE fresh \in Jobs : status[fresh] = "absent"
    /\ Enqueue(j)
    /\ kind' = [kind EXCEPT ![j] = k]
    /\ about' = [about EXCEPT ![j] = i]

-----------------------------------------------------------------------------
(* Intake and the engineer, as far as the pipeline sees them.              *)

(* Variant: the job of a new incident is left to a second transaction that *)
(* never comes.                                                            *)
IngestWithoutJob(i) ==
  /\ phase[i] = "absent"
  /\ phase' = [phase EXCEPT ![i] = "open"]
  /\ UNCHANGED <<queueVars, jobVars, triage, evidenceVars, analysisVars, notifyVars, handler, faults>>

(* IngestBatch creates an incident and its collect job in one transaction. *)
IngestCreates(i) ==
  /\ phase[i] = "absent"
  /\ phase' = [phase EXCEPT ![i] = "open"]
  /\ Insert("collect", i)
  /\ UNCHANGED <<triage, evidenceVars, analysisVars, notifyVars, handler, faults>>

(* SaveResolution.  It may be saved again, which changes nothing here.     *)
SaveResolution(i) ==
  /\ phase[i] \in {"open", "published"}
  /\ phase' = [phase EXCEPT ![i] = "resolved"]
  /\ UNCHANGED <<queueVars, jobVars, triage, evidenceVars, analysisVars, notifyVars, handler, faults>>

(* FlagEvidence: is_valid = false, the raw capture stays.                  *)
FlagEvidence(i) ==
  /\ \E e \in evidence[i] \ flagged[i] : flagged' = [flagged EXCEPT ![i] = @ \cup {e}]
  /\ UNCHANGED <<queueVars, jobVars, incidentVars, evidence, analysisVars, notifyVars, handler, faults>>

-----------------------------------------------------------------------------
(* The worker loop around the handlers (processOne).                       *)
Claim(w) ==
  /\ Dequeue(w)
  /\ handler' = [handler EXCEPT ![w] = [Blank EXCEPT !.pc = kind[held'[w]]]]
  /\ UNCHANGED <<jobVars, storeVars, faults>>

Idle(w) ==
  /\ IdlePoll(w)
  /\ UNCHANGED <<jobVars, storeVars, handler, faults>>

(* The handler returned nil.                                               *)
HandlerDone(w) ==
  /\ At(w, "return")
  /\ Complete(w)
  /\ LetGo(w)
  /\ UNCHANGED <<jobVars, storeVars, faults>>

(* The handler returned an error: Retry or Fail, and its work so far stays.*)
HandlerError(w) ==
  /\ Retry(w) \/ Fail(w)
  /\ LetGo(w)

(* A statement of the handler failed; its transaction, if any, rolls back. *)
StatementFails(w) ==
  /\ held[w] # NoJob
  /\ handler[w].pc \in {"collect", "analyzeHandoff", "analyze", "save",
                        "notifyHandoff", "notify", "quiet", "record"}
  /\ faults < MaxFaults
  /\ faults' = faults + 1
  /\ HandlerError(w)
  /\ UNCHANGED <<jobVars, storeVars>>

ClaimLost(w) ==
  /\ Abandon(w)
  /\ LetGo(w)
  /\ UNCHANGED <<jobVars, storeVars, faults>>

TimePasses(j) ==
  /\ BackoffElapsed(j) \/ OrphanGoesStale(j) \/ HandlerOverruns(j)
  /\ UNCHANGED <<jobVars, storeVars, handler, faults>>

-----------------------------------------------------------------------------
(* SaveEvidence: the items of a run are inserted in one transaction.       *)
SaveEvidence(i) ==
  \E new \in SUBSET (Items \ UNION {evidence[k] : k \in Incidents}) :
    evidence' = [evidence EXCEPT ![i] = @ \cup new]

(* handleCollect.  The collectors are best effort and return what they     *)
(* got - captures, gaps and failures are all items; with none at all,      *)
(* nothing is saved.                                                       *)
CollectEvidence(w) ==
  /\ At(w, "collect")
  /\ SaveEvidence(Inc(w))
  /\ Go(w, "analyzeHandoff")
  /\ UNCHANGED <<queueVars, jobVars, incidentVars, flagged, analysisVars, notifyVars, faults>>

(* Variant: the ping does not wait for the analysis.                       *)
EnqueueNotifyEarly(w) ==
  /\ At(w, "analyzeHandoff")
  /\ Insert("notify", Inc(w))
  /\ Go(w, "return")
  /\ UNCHANGED <<storeVars, faults>>

EnqueueAnalyze(w) ==
  /\ At(w, "analyzeHandoff")
  /\ Insert("analyze", Inc(w))
  /\ Go(w, "return")
  /\ UNCHANGED <<storeVars, faults>>

-----------------------------------------------------------------------------
(* handleAnalyze.                                                          *)

(* The request shows the evidence that is valid now; nothing locks it.     *)
LoadAnalysisRequest(w) ==
  /\ At(w, "analyze")
  /\ handler' = [handler EXCEPT
       ![w] = [@ EXCEPT !.pc = "provider", !.shown = evidence[Inc(w)] \ flagged[Inc(w)]]]
  /\ UNCHANGED <<queueVars, jobVars, storeVars, faults>>

(* Variant: the provider's citations are believed.                         *)
CitationsAsGiven(cited, shown) == cited

(* EnforceCitations keeps the references that the request offered.         *)
EnforceCitations(cited, shown) == cited \cap shown

(* What Analyze hands to SaveAnalysis: skipped without a provider, failed  *)
(* when it errs, else its answer with the citations enforced.  A model may *)
(* cite anything, and give any verdict.                                    *)
Answers(shown) ==
  {r \in Record :
     /\ r.status = "skipped" <=> ProviderResults = {}
     /\ r.status # "skipped" => r.status \in ProviderResults
     /\ r.status # "ok" => r.verdict = "unknown" /\ r.cites = {}
     /\ r.status = "ok" => \E cited \in SUBSET Items : r.cites = EnforceCitations(cited, shown)}

(* Variant: an error of the provider is an error of the handler.           *)
ProviderAnswersOrErrs(w) ==
  /\ At(w, "provider")
  /\ \E answer \in Answers(handler[w].shown) :
       IF answer.status = "failed"
         THEN HandlerError(w)
         ELSE /\ handler' = [handler EXCEPT
                   ![w] = [@ EXCEPT !.pc = "save", !.shown = {}, !.record = answer,
                                    !.cleared = current[Inc(w)]]]
              /\ UNCHANGED queueVars
  /\ UNCHANGED <<jobVars, storeVars, faults>>

(* The answer arrives and SaveAnalysis begins: UPDATE analyses SET         *)
(* is_current = false sees the rows that are current now.                  *)
ProviderAnswers(w) ==
  /\ At(w, "provider")
  /\ \E answer \in Answers(handler[w].shown) :
       handler' = [handler EXCEPT
         ![w] = [@ EXCEPT !.pc = "save", !.shown = {}, !.record = answer,
                          !.cleared = current[Inc(w)]]]
  /\ UNCHANGED <<queueVars, jobVars, storeVars, faults>>

(* Variant: the incident is published and given its verdict only once.     *)
PublishOnce(w) ==
  LET i == Inc(w) IN
  IF phase[i] = "open"
    THEN /\ phase' = [phase EXCEPT ![i] = "published"]
         /\ triage' = [triage EXCEPT ![i] = handler[w].record.verdict]
    ELSE UNCHANGED incidentVars

(* Variant: the UPDATE has no condition on the status.                     *)
PublishAlways(w) ==
  /\ phase' = [phase EXCEPT ![Inc(w)] = "published"]
  /\ triage' = [triage EXCEPT ![Inc(w)] = handler[w].record.verdict]

(* UPDATE incidents SET status = 'published', triage_verdict = $2 unless   *)
(* the engineer closed it first.                                           *)
Publish(w) ==
  LET i == Inc(w) IN
  IF phase[i] # "resolved"
    THEN /\ phase' = [phase EXCEPT ![i] = "published"]
         /\ triage' = [triage EXCEPT ![i] = handler[w].record.verdict]
    ELSE UNCHANGED incidentVars

(* Variant: no unique index on the current analysis.                       *)
NoIndex(w) == TRUE

(* uq_analyses_current accepts the row: none but those this transaction    *)
(* cleared is current.                                                     *)
IndexAccepts(w) == current[Inc(w)] \subseteq handler[w].cleared

(* INSERT INTO analyses ... is_current = true, publish, commit.            *)
SaveAnalysis(w) ==
  LET i == Inc(w)
      a == Len(analyses[i]) + 1
  IN  /\ At(w, "save")
      /\ IndexAccepts(w)
      /\ analyses' = [analyses EXCEPT ![i] = Append(@, handler[w].record)]
      /\ current' = [current EXCEPT ![i] = (@ \ handler[w].cleared) \cup {a}]
      /\ Publish(w)
      /\ handler' = [handler EXCEPT ![w] = [Blank EXCEPT !.pc = "notifyHandoff"]]
      /\ UNCHANGED <<queueVars, jobVars, evidenceVars, notifyVars, faults>>

(* Another SaveAnalysis committed in between: unique violation, rollback.  *)
SaveConflict(w) ==
  /\ At(w, "save")
  /\ ~IndexAccepts(w)
  /\ HandlerError(w)
  /\ UNCHANGED <<jobVars, storeVars, faults>>

EnqueueNotify(w) ==
  /\ At(w, "notifyHandoff")
  /\ Insert("notify", Inc(w))
  /\ Go(w, "return")
  /\ UNCHANGED <<storeVars, faults>>

-----------------------------------------------------------------------------
(* handleNotify.                                                           *)

(* The gate: only an explicit likely_noise keeps quiet.                    *)
ShouldNotify(verdict) == verdict # "likely_noise"

(* The verdict is that of the incident, not of its current analysis.       *)
LoadNotification(w) ==
  /\ At(w, "notify")
  /\ Go(w, IF ~ShouldNotify(triage[Inc(w)]) THEN "quiet"
           ELSE IF Channels = <<>> THEN "return"
           ELSE "send")
  /\ UNCHANGED <<queueVars, jobVars, storeVars, faults>>

(* Variant: status and reason change places in the call of Record.         *)
RecordNoise(w) ==
  /\ At(w, "quiet")
  /\ notes' = [notes EXCEPT ![Inc(w)] = @ \cup {<<"gate", "noise">>}]
  /\ Go(w, "return")
  /\ UNCHANGED <<queueVars, jobVars, incidentVars, evidenceVars, analysisVars, pings, faults>>

RecordQuiet(w) ==
  /\ At(w, "quiet")
  /\ notes' = [notes EXCEPT ![Inc(w)] = @ \cup {<<"gate", "quiet">>}]
  /\ Go(w, "return")
  /\ UNCHANGED <<queueVars, jobVars, incidentVars, evidenceVars, analysisVars, pings, faults>>

Delivered(w, c) == pings' = [pings EXCEPT ![Inc(w)][c] = @ + 1]

(* Variant: a channel that fails fails the job, which is then run again.   *)
SendOrGiveUp(w) ==
  /\ At(w, "send")
  /\ \/ /\ Delivered(w, Channels[handler[w].next])
        /\ handler' = [handler EXCEPT ![w] = [@ EXCEPT !.pc = "record", !.outcome = "sent"]]
        /\ UNCHANGED queueVars
     \/ /\ HandlerError(w)
        /\ Delivered(w, Channels[handler[w].next]) \/ UNCHANGED pings
  /\ UNCHANGED <<jobVars, incidentVars, evidenceVars, analysisVars, notes, faults>>

(* The next channel is tried; a failure is an outcome like any other, and   *)
(* a message may have gone out although Send returned an error.             *)
Send(w) ==
  /\ At(w, "send")
  /\ \E outcome \in {"sent", "failed"} :
       /\ handler' = [handler EXCEPT ![w] = [@ EXCEPT !.pc = "record", !.outcome = outcome]]
       /\ \/ Delivered(w, Channels[handler[w].next])
          \/ outcome = "failed" /\ UNCHANGED pings
  /\ UNCHANGED <<queueVars, jobVars, incidentVars, evidenceVars, analysisVars, notes, faults>>

RecordOutcome(w) ==
  LET n == handler[w].next IN
  /\ At(w, "record")
  /\ notes' = [notes EXCEPT ![Inc(w)] = @ \cup {<<Channels[n], handler[w].outcome>>}]
  /\ handler' = [handler EXCEPT
       ![w] = IF n < Len(Channels)
                THEN [Blank EXCEPT !.pc = "send", !.next = n + 1]
                ELSE [Blank EXCEPT !.pc = "return"]]
  /\ UNCHANGED <<queueVars, jobVars, incidentVars, evidenceVars, analysisVars, pings, faults>>

-----------------------------------------------------------------------------
HandlerStep(w) ==
  \/ CollectEvidence(w) \/ EnqueueAnalyze(w)
  \/ LoadAnalysisRequest(w) \/ ProviderAnswers(w)
  \/ SaveAnalysis(w) \/ SaveConflict(w) \/ EnqueueNotify(w)
  \/ LoadNotification(w) \/ RecordQuiet(w) \/ Send(w) \/ RecordOutcome(w)
  \/ HandlerDone(w)

PipelineNext ==
  \/ \E i \in Incidents : IngestCreates(i) \/ SaveResolution(i) \/ FlagEvidence(i)
  \/ \E w \in Workers : Claim(w) \/ Idle(w) \/ HandlerStep(w) \/ StatementFails(w) \/ ClaimLost(w)
  \/ \E j \in Jobs : TimePasses(j)

PipelineSpec == PipelineInit /\ [][PipelineNext]_pipelineVars

(* Each worker's loop runs on and every call it makes returns; the clock   *)
(* advances.  Nothing obliges engineers, faults or lost claims.            *)
PipelineFairness ==
  /\ \A w \in Workers : WF_pipelineVars(Claim(w)) /\ WF_pipelineVars(HandlerStep(w))
  /\ \A j \in Jobs :
       WF_pipelineVars(/\ BackoffElapsed(j) \/ OrphanGoesStale(j)
                       /\ UNCHANGED <<jobVars, storeVars, handler, faults>>)

PipelineFairSpec == PipelineSpec /\ PipelineFairness

-----------------------------------------------------------------------------
(* An incident that was analysed has exactly one current analysis, whatever*)
(* workers analysed it at the same time (uq_analyses_current).             *)
OneCurrentAnalysis ==
  \A i \in Incidents :
    IF analyses[i] = <<>> THEN current[i] = {}
    ELSE \E a \in DOMAIN analyses[i] : current[i] = {a}

(* A published incident carries the verdict of its current analysis, the   *)
(* one its readers see: the two are written by one transaction.            *)
PublishedVerdictIsCurrent ==
  \A i \in Incidents : phase[i] = "published" =>
    \E a \in current[i] \cap DOMAIN analyses[i] : triage[i] = analyses[i][a].verdict

(* Every claim cites evidence captured for the same incident - product     *)
(* rule 6 - although the model may cite anything and captures go on while  *)
(* it thinks.                                                              *)
CitationsExist ==
  \A i \in Incidents : \A a \in DOMAIN analyses[i] : analyses[i][a].cites \subseteq evidence[i]

JobAbout(i, kinds, statuses) ==
  \E j \in Jobs : about[j] = i /\ kind[j] \in kinds /\ status[j] \in statuses

(* The next step of every notebook is in the queue: an incident that was   *)
(* never analysed has a job on its way to the analysis, and one that was   *)
(* has a job on its way to the ping or its outcome on record - unless the  *)
(* job was given up.  No crash between two statements loses the thread.    *)
NextStepIsQueued ==
  \A i \in Incidents :
    /\ phase[i] # "absent" /\ analyses[i] = <<>> =>
         JobAbout(i, {"collect", "analyze"}, {"pending", "running", "failed"})
    /\ analyses[i] # <<>> /\ Channels # <<>> =>
         \/ JobAbout(i, {"analyze", "notify"}, {"pending", "running", "failed"})
         \/ notes[i] # {}

(* Engineers are told with the analysis, not just the alert: no channel is *)
(* pinged before an analysis is on file.                                   *)
PingsFollowAnalysis ==
  \A i \in Incidents : (\E c \in ChannelNames : pings[i][c] > 0) => analyses[i] # <<>>

(* A second ping of a channel is paid for by a lost claim or a failed      *)
(* statement: a channel that cannot be reached never causes one.           *)
PingsPaidFor ==
  \A i \in Incidents, c \in ChannelNames : pings[i][c] <= 1 + lost + faults

(* The pipeline keeps the promise of NotebookLife.                         *)
Life == INSTANCE NotebookLife
          WITH captured <- evidence, distrusted <- flagged,
               analysed <- [i \in Incidents |-> Len(analyses[i])]

LifeIsKept == Life!LifeSpec

(* Honest degradation: whatever the provider and the collectors do, an     *)
(* open incident is eventually published or closed by its engineer.        *)
EventuallyPublished ==
  \A i \in Incidents : phase[i] = "open" ~> phase[i] \in {"published", "resolved"}

(* The filter is on the ping, never on the record: every published         *)
(* incident ends up with the outcome of its notification on record.        *)
EventuallyNotified ==
  \A i \in Incidents : phase[i] = "published" ~> notes[i] # {}

(* notify.go:42-43: a failure is recorded, never retried (a retry would    *)
(* duplicate the ping).                                                    *)
PingedOnce ==
  \A i \in Incidents, c \in ChannelNames : pings[i][c] <= 1

(* README: likely-noise incidents are recorded quietly.  When every        *)
(* analysis of an incident found noise, nobody is pinged about it.         *)
NoiseIsQuiet ==
  \A i \in Incidents :
    /\ analyses[i] # <<>>
    /\ \A a \in DOMAIN analyses[i] : analyses[i][a].verdict = "likely_noise"
    => \A c \in ChannelNames : pings[i][c] = 0
=============================================================================
