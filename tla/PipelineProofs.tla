--------------------------- MODULE PipelineProofs ---------------------------
(***************************************************************************)
(* Proofs about Pipeline, for any incidents, jobs, workers, channels and   *)
(* any provider.                                                           *)
(*                                                                         *)
(* First, what the handlers do to the queue is what a worker of JobQueue   *)
(* may do, so every theorem about the queue holds of the pipeline.  Then   *)
(* the analyses: one is current, and what they cite was captured.  Then    *)
(* the pipeline is shown to implement NotebookLife, no step of a notebook  *)
(* to be lost between two jobs, and no channel to be pinged more often     *)
(* than faults and lost claims account for.                                *)
(***************************************************************************)
EXTENDS Pipeline, JobQueueProofs, SequenceTheorems, FiniteSetTheorems

(* Each step of the pipeline is a step of the queue or leaves it alone.    *)
LEMMA PipelineStepIsQueueStep ==
  ASSUME [PipelineNext]_pipelineVars
  PROVE  [QueueNext]_queueVars
<1>1. ASSUME NEW i \in Incidents, IngestCreates(i) \/ SaveResolution(i) \/ FlagEvidence(i)
      PROVE  [QueueNext]_queueVars
  BY <1>1 DEF IngestCreates, SaveResolution, FlagEvidence, Insert, QueueNext
<1>2. ASSUME NEW w \in Workers,
             Claim(w) \/ Idle(w) \/ ClaimLost(w) \/ HandlerDone(w)
      PROVE  [QueueNext]_queueVars
  BY <1>2 DEF Claim, Idle, ClaimLost, HandlerDone, QueueNext
<1>3. ASSUME NEW w \in Workers, StatementFails(w) \/ SaveConflict(w)
      PROVE  [QueueNext]_queueVars
  BY <1>3 DEF StatementFails, SaveConflict, HandlerError, QueueNext
<1>4. ASSUME NEW w \in Workers, EnqueueAnalyze(w) \/ EnqueueNotify(w)
      PROVE  [QueueNext]_queueVars
  BY <1>4 DEF EnqueueAnalyze, EnqueueNotify, Insert, QueueNext
<1>5. ASSUME NEW w \in Workers,
             \/ CollectEvidence(w) \/ LoadAnalysisRequest(w) \/ ProviderAnswers(w)
             \/ SaveAnalysis(w) \/ LoadNotification(w) \/ RecordQuiet(w)
             \/ Send(w) \/ RecordOutcome(w)
      PROVE  [QueueNext]_queueVars
  BY <1>5 DEF CollectEvidence, LoadAnalysisRequest, ProviderAnswers, SaveAnalysis,
              LoadNotification, RecordQuiet, Send, RecordOutcome
<1>6. ASSUME NEW j \in Jobs, TimePasses(j)
      PROVE  [QueueNext]_queueVars
  BY <1>6 DEF TimePasses, QueueNext
<1>7. CASE UNCHANGED pipelineVars
  BY <1>7 DEF pipelineVars
<1> QED
  BY <1>1, <1>2, <1>3, <1>4, <1>5, <1>6, <1>7 DEF PipelineNext, HandlerStep

(* The pipeline implements the queue: whatever the handlers do, the jobs   *)
(* table and the claims behave as JobQueue says.                           *)
THEOREM PipelineKeepsQueue == PipelineSpec => QueueSpec
<1>1. PipelineInit => QueueInit
  BY DEF PipelineInit
<1> QED
  BY <1>1, PipelineStepIsQueueStep, PTL DEF PipelineSpec, QueueSpec

-----------------------------------------------------------------------------
(* A job that was inserted is about an incident on file; one that pings    *)
(* is about an incident that was analysed.                                 *)
JobsInv ==
  \A j \in Jobs : status[j] # "absent" =>
    /\ kind[j] \in Kinds
    /\ about[j] \in Incidents
    /\ phase[about[j]] # "absent"
    /\ kind[j] = "notify" => analyses[about[j]] # <<>>

AfterAnalysis == {"notifyHandoff", "notify", "quiet", "send", "record"}

(* Where a handler stands says what it has done so far.                    *)
Stage(w) ==
  /\ handler[w].pc \in AfterAnalysis => analyses[Inc(w)] # <<>>
  /\ handler[w].pc = "notify" => handler[w].next = 1
  /\ handler[w].pc \in {"send", "record"} => handler[w].next \in DOMAIN Channels
  /\ handler[w].pc = "record" => handler[w].outcome \in {"sent", "failed"}

(* What a handler was shown and what it is about to save was captured for  *)
(* its incident.                                                           *)
Shown(w) ==
  /\ handler[w].shown \subseteq evidence[Inc(w)]
  /\ handler[w].record.cites \subseteq evidence[Inc(w)]

HandlerInv == \A w \in Workers : held[w] # NoJob => Stage(w) /\ Shown(w)

PipelineInv ==
  /\ PipelineTypeOK
  /\ JobsInv
  /\ HeldInv
  /\ HandlerInv
  /\ OneCurrentAnalysis
  /\ PublishedVerdictIsCurrent
  /\ CitationsExist
  /\ PingsFollowAnalysis

(* The incident of a worker that handles a job.                            *)
LEMMA HandledIncident ==
  ASSUME PipelineInv, NEW w \in Workers, held[w] # NoJob
  PROVE  /\ held[w] \in Jobs /\ status[held[w]] # "absent"
         /\ Inc(w) \in Incidents /\ phase[Inc(w)] # "absent"
BY DEF PipelineInv, PipelineTypeOK, QueueTypeOK, HeldInv, JobsInv, Inc

-----------------------------------------------------------------------------
(* Type correctness, one lemma for the table of jobs, one for the handlers *)
(* and one for the store.                                                  *)
JobsTypeOK ==
  /\ QueueTypeOK
  /\ kind \in [Jobs -> Kinds \cup {"none"}]
  /\ about \in [Jobs -> Incidents \cup {NoIncident}]

LEMMA JobsTypeStep ==
  ASSUME PipelineInv, [PipelineNext]_pipelineVars
  PROVE  JobsTypeOK'
<1>1. QueueTypeOK'
  BY PipelineStepIsQueueStep, QueueTypeStep DEF PipelineInv, PipelineTypeOK
<1>2. ASSUME NEW k \in Kinds, NEW i \in Incidents, Insert(k, i)
      PROVE  JobsTypeOK'
  BY <1>1, <1>2 DEF Insert, JobsTypeOK, PipelineInv, PipelineTypeOK
<1>3. ASSUME NEW i \in Incidents, IngestCreates(i) \/ SaveResolution(i) \/ FlagEvidence(i)
      PROVE  JobsTypeOK'
  <2>1. CASE IngestCreates(i)
    BY <1>2, <2>1 DEF IngestCreates, Kinds
  <2>2. CASE SaveResolution(i) \/ FlagEvidence(i)
    BY <1>1, <2>2 DEF SaveResolution, FlagEvidence, jobVars, JobsTypeOK, PipelineInv, PipelineTypeOK
  <2> QED BY <1>3, <2>1, <2>2
<1>4. ASSUME NEW w \in Workers, EnqueueAnalyze(w) \/ EnqueueNotify(w)
      PROVE  JobsTypeOK'
  <2>1. Inc(w) \in Incidents
    BY <1>4, HandledIncident DEF EnqueueAnalyze, EnqueueNotify, At
  <2> QED BY <1>2, <1>4, <2>1 DEF EnqueueAnalyze, EnqueueNotify, Kinds
<1>5. ASSUME UNCHANGED jobVars PROVE JobsTypeOK'
  BY <1>1, <1>5 DEF jobVars, JobsTypeOK, PipelineInv, PipelineTypeOK
<1> QED
  BY <1>3, <1>4, <1>5
  DEF PipelineNext, HandlerStep, Claim, Idle, StatementFails, ClaimLost, TimePasses,
      CollectEvidence, LoadAnalysisRequest, ProviderAnswers, SaveAnalysis, SaveConflict,
      LoadNotification, RecordQuiet, Send, RecordOutcome, HandlerDone, pipelineVars

LEMMA BlankTyped == Blank \in HandlerState
BY DEF Blank, HandlerState, NoRecord, Record, Verdicts

LEMMA HandlerTypeStep ==
  ASSUME PipelineInv, [PipelineNext]_pipelineVars
  PROVE  handler' \in [Workers -> HandlerState]
<1>0. handler \in [Workers -> HandlerState]
  BY DEF PipelineInv, PipelineTypeOK
<1>1. ASSUME NEW w \in Workers, LetGo(w) PROVE handler' \in [Workers -> HandlerState]
  BY <1>0, <1>1, BlankTyped DEF LetGo
<1>2. ASSUME NEW w \in Workers,
             NEW pc \in {"collect", "analyzeHandoff", "analyze", "provider", "save",
                         "notifyHandoff", "notify", "quiet", "send", "record", "return"},
             \/ Go(w, pc)
             \/ handler' = [handler EXCEPT ![w] = [Blank EXCEPT !.pc = pc]]
      PROVE  handler' \in [Workers -> HandlerState]
  <2>1. [handler[w] EXCEPT !.pc = pc] \in HandlerState /\ [Blank EXCEPT !.pc = pc] \in HandlerState
    BY <1>0, BlankTyped DEF HandlerState
  <2> QED BY <1>0, <1>2, <2>1 DEF Go
<1>3. ASSUME NEW w \in Workers, Claim(w) PROVE handler' \in [Workers -> HandlerState]
  <2>1. PICK j \in Jobs : held' = [held EXCEPT ![w] = j] /\ status[j] # "absent"
    BY <1>3 DEF Claim, Dequeue, FirstRunnable, Runnable
  <2>2. kind[held'[w]] \in Kinds
    BY <2>1 DEF PipelineInv, PipelineTypeOK, QueueTypeOK, JobsInv
  <2> QED BY <1>2, <1>3, <2>2 DEF Claim, Kinds
<1>4. ASSUME NEW w \in Workers, LoadAnalysisRequest(w) PROVE handler' \in [Workers -> HandlerState]
  <2>1. evidence[Inc(w)] \in SUBSET Items
    BY <1>4, HandledIncident DEF LoadAnalysisRequest, At, PipelineInv, PipelineTypeOK
  <2> QED BY <1>0, <1>4, <2>1 DEF LoadAnalysisRequest, HandlerState
<1>5. ASSUME NEW w \in Workers, ProviderAnswers(w) PROVE handler' \in [Workers -> HandlerState]
  <2>1. current[Inc(w)] \in SUBSET Nat
    BY <1>5, HandledIncident DEF ProviderAnswers, At, PipelineInv, PipelineTypeOK
  <2>2. PICK answer \in Record :
          handler' = [handler EXCEPT
            ![w] = [@ EXCEPT !.pc = "save", !.shown = {}, !.record = answer,
                             !.cleared = current[Inc(w)]]]
    BY <1>5 DEF ProviderAnswers, Answers
  <2>3. [handler[w] EXCEPT !.pc = "save", !.shown = {}, !.record = answer,
                           !.cleared = current[Inc(w)]] \in HandlerState
    BY <1>0, <2>1 DEF HandlerState
  <2> QED BY <1>0, <2>2, <2>3
<1>6. ASSUME NEW w \in Workers, LoadNotification(w) PROVE handler' \in [Workers -> HandlerState]
  <2>1. PICK pc \in {"quiet", "return", "send"} : Go(w, pc)
    BY <1>6 DEF LoadNotification
  <2> QED BY <1>2, <2>1
<1>7. ASSUME NEW w \in Workers, Send(w) PROVE handler' \in [Workers -> HandlerState]
  <2>1. PICK o \in {"sent", "failed"} :
          handler' = [handler EXCEPT ![w] = [@ EXCEPT !.pc = "record", !.outcome = o]]
    BY <1>7 DEF Send
  <2>2. [handler[w] EXCEPT !.pc = "record", !.outcome = o] \in HandlerState
    BY <1>0 DEF HandlerState
  <2> QED BY <1>0, <2>1, <2>2
<1>8. ASSUME NEW w \in Workers, RecordOutcome(w) PROVE handler' \in [Workers -> HandlerState]
  <2>1. handler[w].next + 1 \in Nat
    BY <1>0 DEF HandlerState
  <2>2. /\ [Blank EXCEPT !.pc = "send", !.next = handler[w].next + 1] \in HandlerState
        /\ [Blank EXCEPT !.pc = "return"] \in HandlerState
    BY <2>1, BlankTyped DEF HandlerState
  <2> QED BY <1>0, <1>8, <2>2 DEF RecordOutcome
<1>9. ASSUME NEW w \in Workers,
             CollectEvidence(w) \/ EnqueueAnalyze(w) \/ SaveAnalysis(w) \/ EnqueueNotify(w)
             \/ RecordQuiet(w)
      PROVE  handler' \in [Workers -> HandlerState]
  BY <1>2, <1>9 DEF CollectEvidence, EnqueueAnalyze, SaveAnalysis, EnqueueNotify, RecordQuiet
<1>10. ASSUME NEW w \in Workers,
              StatementFails(w) \/ ClaimLost(w) \/ SaveConflict(w) \/ HandlerDone(w)
       PROVE  handler' \in [Workers -> HandlerState]
  BY <1>1, <1>10 DEF StatementFails, ClaimLost, SaveConflict, HandlerDone, HandlerError
<1>11. ASSUME UNCHANGED handler PROVE handler' \in [Workers -> HandlerState]
  BY <1>0, <1>11
<1> QED
  BY <1>3, <1>4, <1>5, <1>6, <1>7, <1>8, <1>9, <1>10, <1>11
  DEF PipelineNext, HandlerStep, IngestCreates, SaveResolution, FlagEvidence, Idle, TimePasses,
      pipelineVars

StoreTypeOK ==
  /\ phase \in [Incidents -> Phase]
  /\ triage \in [Incidents -> Verdicts \cup {"null"}]
  /\ evidence \in [Incidents -> SUBSET Items]
  /\ flagged \in [Incidents -> SUBSET Items]
  /\ analyses \in [Incidents -> Seq(Record)]
  /\ current \in [Incidents -> SUBSET Nat]
  /\ pings \in [Incidents -> [ChannelNames -> Nat]]
  /\ notes \in [Incidents -> SUBSET ((ChannelNames \cup {"gate"}) \X {"sent", "failed", "quiet"})]

(* An UPDATE of one row keeps the type of its column.                      *)
LEMMA RowKeepsType ==
  ASSUME NEW S, NEW T, NEW f \in [S -> T], NEW x, NEW v, x \in S => v \in T
  PROVE  [f EXCEPT ![x] = v] \in [S -> T]
OBVIOUS

LEMMA StoreTypeStep ==
  ASSUME PipelineInv, [PipelineNext]_pipelineVars
  PROVE  StoreTypeOK'
<1>0. StoreTypeOK
  BY DEF StoreTypeOK, PipelineInv, PipelineTypeOK
<1> USE DEF StoreTypeOK, incidentVars, evidenceVars, analysisVars, notifyVars
<1>1. ASSUME NEW i \in Incidents, IngestCreates(i) \/ SaveResolution(i) \/ FlagEvidence(i)
      PROVE  StoreTypeOK'
  <2>1. CASE IngestCreates(i) \/ SaveResolution(i)
    <3>1. /\ \E p \in Phase : phase' = [phase EXCEPT ![i] = p]
          /\ UNCHANGED <<triage, evidence, flagged, analyses, current, pings, notes>>
      BY <2>1 DEF IngestCreates, SaveResolution, Phase
    <3> QED BY <1>0, <3>1
  <2>2. CASE FlagEvidence(i)
    <3>1. PICK e \in evidence[i] \ flagged[i] : flagged' = [flagged EXCEPT ![i] = @ \cup {e}]
      BY <2>2 DEF FlagEvidence
    <3>2. flagged[i] \cup {e} \in SUBSET Items
      BY <1>0
    <3> QED BY <1>0, <2>2, <3>1, <3>2 DEF FlagEvidence
  <2> QED BY <1>1, <2>1, <2>2
<1>2. ASSUME NEW w \in Workers, CollectEvidence(w) PROVE StoreTypeOK'
  <2>1. PICK new \in SUBSET Items : evidence' = [evidence EXCEPT ![Inc(w)] = @ \cup new]
    BY <1>2 DEF CollectEvidence, SaveEvidence
  <2>2. Inc(w) \in Incidents => evidence[Inc(w)] \cup new \in SUBSET Items
    BY <1>0
  <2>3. evidence' \in [Incidents -> SUBSET Items]
    BY <1>0, <2>1, <2>2, RowKeepsType
  <2> QED BY <1>0, <1>2, <2>3 DEF CollectEvidence
<1>3. ASSUME NEW w \in Workers, SaveAnalysis(w) PROVE StoreTypeOK'
  <2>1. handler[w].record \in Record /\ handler[w].record.verdict \in Verdicts
    BY DEF PipelineInv, PipelineTypeOK, HandlerState, Record
  <2>2. Inc(w) \in Incidents
    BY <1>3, HandledIncident DEF SaveAnalysis, At
  <2>3. /\ Append(analyses[Inc(w)], handler[w].record) \in Seq(Record)
        /\ Len(analyses[Inc(w)]) + 1 \in Nat
    BY <1>0, <2>1, <2>2, AppendProperties, LenProperties
  <2>4. /\ phase' \in [Incidents -> Phase]
        /\ triage' \in [Incidents -> Verdicts \cup {"null"}]
    BY <1>0, <1>3, <2>1 DEF SaveAnalysis, Publish, Phase
  <2>5. /\ analyses' \in [Incidents -> Seq(Record)]
        /\ current' \in [Incidents -> SUBSET Nat]
        /\ UNCHANGED <<evidence, flagged, pings, notes>>
    BY <1>0, <1>3, <2>3 DEF SaveAnalysis
  <2> QED BY <1>0, <2>4, <2>5
<1>4. ASSUME NEW w \in Workers, RecordQuiet(w) PROVE StoreTypeOK'
  <2> DEFINE Rows == SUBSET ((ChannelNames \cup {"gate"}) \X {"sent", "failed", "quiet"})
  <2>1. notes' = [notes EXCEPT ![Inc(w)] = @ \cup {<<"gate", "quiet">>}]
    BY <1>4 DEF RecordQuiet
  <2>2. Inc(w) \in Incidents => notes[Inc(w)] \cup {<<"gate", "quiet">>} \in Rows
    BY <1>0
  <2>3. notes' \in [Incidents -> Rows]
    BY <1>0, <2>1, <2>2, RowKeepsType
  <2> QED BY <1>0, <1>4, <2>3 DEF RecordQuiet
<1>5. ASSUME NEW w \in Workers, Send(w) PROVE StoreTypeOK'
  <2>1. /\ \/ Delivered(w, Channels[handler[w].next])
           \/ pings' = pings
        /\ UNCHANGED <<phase, triage, evidence, flagged, analyses, current, notes>>
    BY <1>5 DEF Send
  <2>2. pings' \in [Incidents -> [ChannelNames -> Nat]]
    <3> DEFINE c == Channels[handler[w].next]
               n == pings[Inc(w)][c] + 1
               row == [pings[Inc(w)] EXCEPT ![c] = n]
    <3>1. pings' = pings \/ pings' = [pings EXCEPT ![Inc(w)] = row]
      BY <2>1 DEF Delivered
    <3>2. ASSUME Inc(w) \in Incidents PROVE row \in [ChannelNames -> Nat]
      <4>1. pings[Inc(w)] \in [ChannelNames -> Nat]
        BY <1>0, <3>2
      <4>2. c \in ChannelNames => n \in Nat
        BY <4>1
      <4> HIDE DEF c, n
      <4> QED BY <4>1, <4>2, RowKeepsType
    <3>3. pings \in [Incidents -> [ChannelNames -> Nat]]
      BY <1>0
    <3> HIDE DEF row
    <3>4. [pings EXCEPT ![Inc(w)] = row] \in [Incidents -> [ChannelNames -> Nat]]
      <4> DEFINE T == [ChannelNames -> Nat]
      <4>1. Inc(w) \in Incidents => row \in T
        BY <3>2
      <4>2. pings \in [Incidents -> T]
        BY <3>3
      <4> HIDE DEF T
      <4>3. [pings EXCEPT ![Inc(w)] = row] \in [Incidents -> T]
        BY <4>1, <4>2, RowKeepsType
      <4> QED BY <4>3 DEF T
    <3> QED BY <3>1, <3>3, <3>4
  <2> QED BY <1>0, <2>1, <2>2
<1>6. ASSUME NEW w \in Workers, RecordOutcome(w) PROVE StoreTypeOK'
  <2>1. Channels[handler[w].next] \in ChannelNames /\ handler[w].outcome \in {"sent", "failed"}
    BY <1>6 DEF RecordOutcome, At, PipelineInv, HandlerInv, Stage, ChannelNames
  <2>2. /\ notes' = [notes EXCEPT ![Inc(w)] = @ \cup
                         {<<Channels[handler[w].next], handler[w].outcome>>}]
        /\ UNCHANGED <<phase, triage, evidence, flagged, analyses, current, pings>>
    BY <1>6 DEF RecordOutcome
  <2> DEFINE Rows == SUBSET ((ChannelNames \cup {"gate"}) \X {"sent", "failed", "quiet"})
             row == <<Channels[handler[w].next], handler[w].outcome>>
  <2>3. Inc(w) \in Incidents => notes[Inc(w)] \cup {row} \in Rows
    BY <1>0, <2>1
  <2>4. notes' \in [Incidents -> Rows]
    BY <1>0, <2>2, <2>3, RowKeepsType
  <2> QED BY <1>0, <2>2, <2>4
<1>7. ASSUME UNCHANGED storeVars PROVE StoreTypeOK'
  BY <1>0, <1>7 DEF storeVars
<1> QED
  BY <1>1, <1>2, <1>3, <1>4, <1>5, <1>6, <1>7
  DEF PipelineNext, HandlerStep, Claim, Idle, StatementFails, ClaimLost, TimePasses,
      EnqueueAnalyze, LoadAnalysisRequest, ProviderAnswers, SaveConflict, EnqueueNotify,
      LoadNotification, HandlerDone, pipelineVars, storeVars

LEMMA PipelineTypeStep ==
  ASSUME PipelineInv, [PipelineNext]_pipelineVars
  PROVE  PipelineTypeOK'
<1>1. faults' \in 0..MaxFaults
  <2>1. faults \in 0..MaxFaults
    BY DEF PipelineInv, PipelineTypeOK
  <2>2. \/ faults' = faults
        \/ faults < MaxFaults /\ faults' = faults + 1
    BY DEF PipelineNext, HandlerStep, IngestCreates, SaveResolution, FlagEvidence, Claim, Idle,
           StatementFails, ClaimLost, TimePasses, CollectEvidence, EnqueueAnalyze,
           LoadAnalysisRequest, ProviderAnswers, SaveAnalysis, SaveConflict, EnqueueNotify,
           LoadNotification, RecordQuiet, Send, RecordOutcome, HandlerDone, pipelineVars
  <2> QED BY <2>1, <2>2, PipelineAssumption
<1> QED
  BY <1>1, JobsTypeStep, HandlerTypeStep, StoreTypeStep
  DEF JobsTypeOK, StoreTypeOK, PipelineTypeOK

-----------------------------------------------------------------------------
LEMMA AppendNotEmpty ==
  ASSUME NEW S, NEW s \in Seq(S), NEW e \in S
  PROVE  Append(s, e) # <<>>
BY AppendProperties

(* No incident disappears, no analysis and no evidence is taken back.      *)
LEMMA StoreGrows ==
  ASSUME PipelineInv, [PipelineNext]_pipelineVars, NEW i \in Incidents
  PROVE  /\ phase[i] # "absent" => phase'[i] # "absent"
         /\ analyses[i] # <<>> => analyses'[i] # <<>>
         /\ evidence[i] \subseteq evidence'[i]
<1> DEFINE Grows == /\ phase[i] # "absent" => phase'[i] # "absent"
                    /\ analyses[i] # <<>> => analyses'[i] # <<>>
                    /\ evidence[i] \subseteq evidence'[i]
<1>0. StoreTypeOK
  BY DEF StoreTypeOK, PipelineInv, PipelineTypeOK
<1>1. ASSUME NEW k \in Incidents, IngestCreates(k) \/ SaveResolution(k) \/ FlagEvidence(k)
      PROVE  Grows
  BY <1>0, <1>1
  DEF IngestCreates, SaveResolution, FlagEvidence, StoreTypeOK, evidenceVars, analysisVars, incidentVars
<1>2. ASSUME NEW w \in Workers, CollectEvidence(w) PROVE Grows
  BY <1>0, <1>2 DEF CollectEvidence, SaveEvidence, StoreTypeOK, analysisVars, incidentVars
<1>3. ASSUME NEW w \in Workers, SaveAnalysis(w) PROVE Grows
  <2>1. Inc(w) \in Incidents /\ handler[w].record \in Record
    BY <1>3, HandledIncident DEF SaveAnalysis, At, PipelineInv, PipelineTypeOK, HandlerState
  <2>2. Append(analyses[Inc(w)], handler[w].record) # <<>>
    <3>1. analyses[Inc(w)] \in Seq(Record) /\ handler[w].record \in Record
      BY <1>0, <2>1 DEF StoreTypeOK
    <3> QED BY <3>1, AppendNotEmpty
  <2>3. /\ analyses' = [analyses EXCEPT ![Inc(w)] = Append(@, handler[w].record)]
        /\ evidence' = evidence
    BY <1>3 DEF SaveAnalysis, evidenceVars
  <2>4. CASE phase[Inc(w)] # "resolved"
    BY <1>0, <1>3, <2>1, <2>2, <2>3, <2>4 DEF SaveAnalysis, Publish, StoreTypeOK
  <2>5. CASE phase[Inc(w)] = "resolved"
    BY <1>0, <1>3, <2>1, <2>2, <2>3, <2>5 DEF SaveAnalysis, Publish, StoreTypeOK, incidentVars
  <2> QED BY <2>4, <2>5
<1>4. ASSUME UNCHANGED <<phase, analyses, evidence>> PROVE Grows
  BY <1>4
<1> QED
  BY <1>1, <1>2, <1>3, <1>4
  DEF PipelineNext, HandlerStep, Claim, Idle, StatementFails, ClaimLost, TimePasses,
      EnqueueAnalyze, LoadAnalysisRequest, ProviderAnswers, SaveConflict, EnqueueNotify,
      LoadNotification, RecordQuiet, Send, RecordOutcome, HandlerDone, pipelineVars,
      storeVars, incidentVars, evidenceVars, analysisVars

(* A row keeps its kind and its incident, and only INSERT adds one.        *)
LEMMA RowsStay ==
  ASSUME PipelineInv, [PipelineNext]_pipelineVars
  PROVE  /\ \A j \in Jobs : status[j] # "absent" =>
              kind'[j] = kind[j] /\ about'[j] = about[j]
         /\ \A j \in Jobs : status[j] = "absent" /\ status'[j] # "absent" =>
              \/ /\ kind'[j] = "collect"
                 /\ about'[j] \in Incidents /\ phase'[about'[j]] # "absent"
              \/ /\ kind'[j] = "analyze"
                 /\ about'[j] \in Incidents /\ phase[about'[j]] # "absent"
              \/ /\ kind'[j] = "notify"
                 /\ about'[j] \in Incidents /\ phase[about'[j]] # "absent"
                 /\ analyses[about'[j]] # <<>>
<1> DEFINE Stays ==
             \A j \in Jobs : status[j] # "absent" =>
               kind'[j] = kind[j] /\ about'[j] = about[j]
           Adds(k, i) ==
             \A j \in Jobs : status[j] = "absent" /\ status'[j] # "absent" =>
               kind'[j] = k /\ about'[j] = i
           AddsNone ==
             \A j \in Jobs : status[j] = "absent" => status'[j] = "absent"
<1>0. JobsTypeOK /\ HeldInv
  BY DEF JobsTypeOK, PipelineInv, PipelineTypeOK
<1>1. ASSUME NEW k, NEW i, Insert(k, i) PROVE Stays /\ Adds(k, i)
  BY <1>0, <1>1 DEF Insert, Enqueue, JobsTypeOK, QueueTypeOK
<1>2. ASSUME NEW i \in Incidents, IngestCreates(i)
      PROVE  Stays /\ Adds("collect", i) /\ phase'[i] = "open"
  BY <1>1, <1>2 DEF IngestCreates, PipelineInv, PipelineTypeOK
<1>3. ASSUME NEW w \in Workers, EnqueueAnalyze(w)
      PROVE  /\ Stays /\ Adds("analyze", Inc(w))
             /\ Inc(w) \in Incidents /\ phase[Inc(w)] # "absent"
  BY <1>1, <1>3, HandledIncident DEF EnqueueAnalyze, At
<1>4. ASSUME NEW w \in Workers, EnqueueNotify(w)
      PROVE  /\ Stays /\ Adds("notify", Inc(w))
             /\ Inc(w) \in Incidents /\ phase[Inc(w)] # "absent"
             /\ analyses[Inc(w)] # <<>>
  BY <1>1, <1>4, HandledIncident
  DEF EnqueueNotify, At, PipelineInv, HandlerInv, Stage, AfterAnalysis
<1>5. ASSUME NEW w \in Workers, Dequeue(w) \/ Complete(w) \/ Retry(w) \/ Fail(w) \/ Abandon(w)
      PROVE  AddsNone
  BY <1>0, <1>5
  DEF Dequeue, FirstRunnable, Runnable, Complete, Retry, Fail, Overwrite, Abandon, rowVars,
      JobsTypeOK, QueueTypeOK, HeldInv
<1>6. ASSUME \/ \E w \in Workers :
                   \/ Claim(w) \/ StatementFails(w) \/ ClaimLost(w)
                   \/ SaveConflict(w) \/ HandlerDone(w)
             \/ \E j \in Jobs : TimePasses(j)
             \/ UNCHANGED <<queueVars, jobVars>>
      PROVE  Stays /\ AddsNone
  <2>1. UNCHANGED jobVars
    BY <1>6 DEF Claim, StatementFails, ClaimLost, SaveConflict, HandlerDone, TimePasses
  <2>2. Stays
    BY <2>1 DEF jobVars
  <2>3. AddsNone
    BY <1>5, <1>6
    DEF Claim, StatementFails, ClaimLost, SaveConflict, HandlerDone, HandlerError, TimePasses,
        BackoffElapsed, OrphanGoesStale, HandlerOverruns, queueVars
  <2> QED BY <2>2, <2>3
<1>7. \/ \E i \in Incidents : IngestCreates(i)
      \/ \E w \in Workers : EnqueueAnalyze(w) \/ EnqueueNotify(w)
      \/ \E w \in Workers :
           \/ Claim(w) \/ StatementFails(w) \/ ClaimLost(w)
           \/ SaveConflict(w) \/ HandlerDone(w)
      \/ \E j \in Jobs : TimePasses(j)
      \/ UNCHANGED <<queueVars, jobVars>>
  BY DEF PipelineNext, HandlerStep, SaveResolution, FlagEvidence, Idle, IdlePoll, CollectEvidence,
         LoadAnalysisRequest, ProviderAnswers, SaveAnalysis, LoadNotification, RecordQuiet,
         Send, RecordOutcome, pipelineVars
<1> HIDE DEF Stays, Adds, AddsNone
<1>8. CASE \E i \in Incidents : IngestCreates(i)
  BY <1>2, <1>8 DEF Stays, Adds
<1>9. CASE \E w \in Workers : EnqueueAnalyze(w) \/ EnqueueNotify(w)
  BY <1>3, <1>4, <1>9 DEF Stays, Adds
<1> QED
  BY <1>6, <1>7, <1>8, <1>9 DEF Stays, AddsNone

LEMMA JobsInvStep ==
  ASSUME PipelineInv, [PipelineNext]_pipelineVars
  PROVE  JobsInv'
<1> SUFFICES ASSUME NEW j \in Jobs, status'[j] # "absent"
             PROVE  /\ kind'[j] \in Kinds
                    /\ about'[j] \in Incidents
                    /\ phase'[about'[j]] # "absent"
                    /\ kind'[j] = "notify" => analyses'[about'[j]] # <<>>
  BY DEF JobsInv
<1>1. CASE status[j] # "absent"
  <2>1. /\ kind[j] \in Kinds /\ about[j] \in Incidents
        /\ phase[about[j]] # "absent"
        /\ kind[j] = "notify" => analyses[about[j]] # <<>>
    BY <1>1 DEF PipelineInv, JobsInv
  <2>2. kind'[j] = kind[j] /\ about'[j] = about[j]
    BY <1>1, RowsStay
  <2> QED BY <2>1, <2>2, StoreGrows
<1>2. CASE status[j] = "absent"
  <2>1. \/ /\ kind'[j] = "collect"
           /\ about'[j] \in Incidents /\ phase'[about'[j]] # "absent"
        \/ /\ kind'[j] = "analyze"
           /\ about'[j] \in Incidents /\ phase[about'[j]] # "absent"
        \/ /\ kind'[j] = "notify"
           /\ about'[j] \in Incidents /\ phase[about'[j]] # "absent"
           /\ analyses[about'[j]] # <<>>
    BY <1>2, RowsStay
  <2> QED BY <2>1, StoreGrows DEF Kinds
<1> QED BY <1>1, <1>2

-----------------------------------------------------------------------------
(* A worker that keeps its job keeps its incident, which only gains        *)
(* evidence and analyses.                                                  *)
LEMMA StillHandled ==
  ASSUME PipelineInv, [PipelineNext]_pipelineVars,
         NEW v \in Workers, held[v] # NoJob, held'[v] = held[v]
  PROVE  /\ Inc(v)' = Inc(v)
         /\ analyses[Inc(v)] # <<>> => analyses'[Inc(v)] # <<>>
         /\ evidence[Inc(v)] \subseteq evidence'[Inc(v)]
<1>1. held[v] \in Jobs /\ status[held[v]] # "absent" /\ Inc(v) \in Incidents
  BY HandledIncident
<1>2. Inc(v)' = Inc(v)
  BY <1>1, RowsStay DEF Inc
<1> QED BY <1>1, <1>2, StoreGrows

(* Whatever others do, a handler that does not move keeps its invariant.   *)
LEMMA Bystander ==
  ASSUME PipelineInv, [PipelineNext]_pipelineVars,
         NEW v \in Workers, held[v] # NoJob, held'[v] = held[v], handler'[v] = handler[v]
  PROVE  Stage(v)' /\ Shown(v)'
<1>1. Stage(v) /\ Shown(v)
  BY DEF PipelineInv, HandlerInv
<1> QED BY <1>1, StillHandled DEF Stage, Shown

(* A handler's own step leaves it where it should be.                      *)
LEMMA HandlerMoves ==
  ASSUME PipelineInv, [PipelineNext]_pipelineVars,
         NEW w \in Workers, HandlerStep(w), held'[w] # NoJob
  PROVE  Stage(w)' /\ Shown(w)'
<1>0. handler \in [Workers -> HandlerState] /\ held \in [Workers -> Jobs \cup {NoJob}]
  BY DEF PipelineInv, PipelineTypeOK, QueueTypeOK
<1>1. ~HandlerDone(w) /\ ~SaveConflict(w)
  BY <1>0 DEF HandlerDone, Complete, SaveConflict, HandlerError, Retry, Fail, Overwrite
<1>2. held[w] # NoJob /\ held'[w] = held[w]
  BY <1>1
  DEF HandlerStep, At, CollectEvidence, EnqueueAnalyze, LoadAnalysisRequest, ProviderAnswers,
      SaveAnalysis, EnqueueNotify, LoadNotification, RecordQuiet, Send, RecordOutcome, Insert,
      Enqueue, queueVars, workerVars
<1>3. /\ Stage(w) /\ Shown(w)
      /\ Inc(w)' = Inc(w)
      /\ analyses[Inc(w)] # <<>> => analyses'[Inc(w)] # <<>>
      /\ evidence[Inc(w)] \subseteq evidence'[Inc(w)]
  BY <1>2, StillHandled DEF PipelineInv, HandlerInv
<1>4. CASE CollectEvidence(w) \/ EnqueueAnalyze(w) \/ EnqueueNotify(w) \/ RecordQuiet(w)
  <2>1. PICK pc \in {"analyzeHandoff", "return"} : Go(w, pc)
    BY <1>4 DEF CollectEvidence, EnqueueAnalyze, EnqueueNotify, RecordQuiet
  <2>2. handler'[w] = [handler[w] EXCEPT !.pc = pc]
    BY <1>0, <2>1 DEF Go
  <2> QED BY <1>0, <1>3, <2>2 DEF Stage, Shown, AfterAnalysis, HandlerState
<1>5. CASE LoadAnalysisRequest(w)
  <2>1. handler'[w] = [handler[w] EXCEPT !.pc = "provider",
                                         !.shown = evidence[Inc(w)] \ flagged[Inc(w)]]
    BY <1>0, <1>5 DEF LoadAnalysisRequest
  <2> QED BY <1>0, <1>3, <2>1 DEF Stage, Shown, AfterAnalysis, HandlerState
<1>6. CASE ProviderAnswers(w)
  <2>1. PICK answer \in Answers(handler[w].shown) :
          handler'[w] = [handler[w] EXCEPT !.pc = "save", !.shown = {}, !.record = answer,
                                           !.cleared = current[Inc(w)]]
    BY <1>0, <1>6 DEF ProviderAnswers
  <2>2. answer.cites \subseteq handler[w].shown
    BY DEF Answers, EnforceCitations, Record
  <2> QED BY <1>0, <1>3, <2>1, <2>2 DEF Stage, Shown, AfterAnalysis, HandlerState
<1>7. CASE SaveAnalysis(w)
  <2>1. handler'[w] = [Blank EXCEPT !.pc = "notifyHandoff"]
    BY <1>0, <1>7 DEF SaveAnalysis
  <2>2. handler[w].record \in Record /\ analyses[Inc(w)] \in Seq(Record) /\ Inc(w) \in Incidents
    BY <1>0, <1>2, HandledIncident DEF HandlerState, PipelineInv, PipelineTypeOK
  <2>3. analyses'[Inc(w)] = Append(analyses[Inc(w)], handler[w].record)
    BY <1>7, <2>2 DEF SaveAnalysis, PipelineInv, PipelineTypeOK
  <2>4. Append(analyses[Inc(w)], handler[w].record) # <<>>
    BY <2>2, AppendNotEmpty
  <2>5. analyses'[Inc(w)] # <<>>
    BY <2>3, <2>4
  <2> QED BY <1>3, <2>1, <2>5 DEF Stage, Shown, AfterAnalysis, Blank, NoRecord
<1>8. CASE LoadNotification(w)
  <2>1. PICK pc \in {"quiet", "return", "send"} :
          /\ Go(w, pc)
          /\ pc = "send" => Channels # <<>>
          /\ handler[w].pc = "notify"
    BY <1>8 DEF LoadNotification, At
  <2>2. handler'[w] = [handler[w] EXCEPT !.pc = pc]
    BY <1>0, <2>1 DEF Go
  <2>3. Channels # <<>> => 1 \in DOMAIN Channels
    BY PipelineAssumption
  <2> QED BY <1>0, <1>3, <2>1, <2>2, <2>3 DEF Stage, Shown, AfterAnalysis, HandlerState
<1>9. CASE Send(w)
  <2>1. PICK o \in {"sent", "failed"} :
          handler'[w] = [handler[w] EXCEPT !.pc = "record", !.outcome = o]
    BY <1>0, <1>9 DEF Send
  <2> QED BY <1>0, <1>3, <1>9, <2>1 DEF Send, At, Stage, Shown, AfterAnalysis, HandlerState
<1>10. CASE RecordOutcome(w)
  <2>1. handler[w].pc = "record" /\ handler[w].next \in DOMAIN Channels
    BY <1>3, <1>10 DEF RecordOutcome, At, Stage
  <2>2. handler'[w] = IF handler[w].next < Len(Channels)
                        THEN [Blank EXCEPT !.pc = "send", !.next = handler[w].next + 1]
                        ELSE [Blank EXCEPT !.pc = "return"]
    BY <1>0, <1>10 DEF RecordOutcome
  <2>3. DOMAIN Channels = 1..Len(Channels) /\ Len(Channels) \in Nat
    BY PipelineAssumption
  <2>4. analyses'[Inc(w)'] # <<>>
    BY <1>3, <2>1 DEF Stage, AfterAnalysis
  <2> QED BY <2>1, <2>2, <2>3, <2>4 DEF Stage, Shown, AfterAnalysis, Blank, NoRecord
<1> QED
  BY <1>1, <1>4, <1>5, <1>6, <1>7, <1>8, <1>9, <1>10 DEF HandlerStep

(* A worker that holds a job after a step is the one that moved, the one   *)
(* that claimed it, or one that did not take part.                         *)
LEMMA WhoMoves ==
  ASSUME PipelineInv, [PipelineNext]_pipelineVars, NEW v \in Workers, held'[v] # NoJob
  PROVE  \/ held[v] # NoJob /\ held'[v] = held[v] /\ handler'[v] = handler[v]
         \/ HandlerStep(v)
         \/ Claim(v)
<1>0. handler \in [Workers -> HandlerState] /\ held \in [Workers -> Jobs \cup {NoJob}]
  BY DEF PipelineInv, PipelineTypeOK, QueueTypeOK
<1>1. ASSUME NEW w \in Workers, StatementFails(w) \/ ClaimLost(w) \/ SaveConflict(w) \/ HandlerDone(w)
      PROVE  held' = [held EXCEPT ![w] = NoJob] /\ handler' = [handler EXCEPT ![w] = Blank]
  BY <1>1
  DEF StatementFails, ClaimLost, SaveConflict, HandlerDone, HandlerError, LetGo, Complete, Retry,
      Fail, Overwrite, Abandon
<1>2. ASSUME NEW w \in Workers, w # v, HandlerStep(w) \/ Claim(w)
      PROVE  held'[v] = held[v] /\ handler'[v] = handler[v]
  <2>1. CASE Claim(w) \/ HandlerDone(w) \/ SaveConflict(w)
    BY <1>0, <1>1, <1>2, <2>1 DEF Claim, Dequeue
  <2>2. CASE EnqueueAnalyze(w) \/ EnqueueNotify(w)
    BY <1>0, <1>2, <2>2 DEF EnqueueAnalyze, EnqueueNotify, Insert, Enqueue, Go, workerVars
  <2>3. CASE ~Claim(w) /\ ~HandlerDone(w) /\ ~SaveConflict(w) /\ ~EnqueueAnalyze(w) /\ ~EnqueueNotify(w)
    BY <1>0, <1>2, <2>3
    DEF HandlerStep, CollectEvidence, LoadAnalysisRequest, ProviderAnswers, SaveAnalysis,
        LoadNotification, RecordQuiet, Send, RecordOutcome, Go, queueVars, workerVars
  <2> QED BY <2>1, <2>2, <2>3
<1>3. \/ \E w \in Workers : HandlerStep(w) \/ Claim(w)
      \/ \E w \in Workers : StatementFails(w) \/ ClaimLost(w)
      \/ UNCHANGED <<held, handler>>
  BY DEF PipelineNext, IngestCreates, SaveResolution, FlagEvidence, Idle, IdlePoll, TimePasses,
         Insert, Enqueue, BackoffElapsed, OrphanGoesStale, HandlerOverruns, workerVars, queueVars,
         pipelineVars
<1>4. held[v] = NoJob /\ held'[v] # held[v] => Claim(v)
  <2> SUFFICES ASSUME held[v] = NoJob, held'[v] # NoJob, ~Claim(v)
               PROVE  FALSE
    OBVIOUS
  <2>1. ~HandlerStep(v)
    BY DEF HandlerStep, At, CollectEvidence, EnqueueAnalyze, LoadAnalysisRequest, ProviderAnswers,
           SaveAnalysis, SaveConflict, EnqueueNotify, LoadNotification, RecordQuiet, Send,
           RecordOutcome, HandlerDone
  <2> QED BY <1>0, <1>1, <1>2, <1>3, <2>1
<1> QED
  BY <1>0, <1>1, <1>2, <1>3, <1>4

LEMMA HandlerInvStep ==
  ASSUME PipelineInv, [PipelineNext]_pipelineVars
  PROVE  HandlerInv'
<1> SUFFICES ASSUME NEW v \in Workers, held'[v] # NoJob
             PROVE  Stage(v)' /\ Shown(v)'
  BY DEF HandlerInv
<1>0. handler \in [Workers -> HandlerState] /\ held \in [Workers -> Jobs \cup {NoJob}]
  BY DEF PipelineInv, PipelineTypeOK, QueueTypeOK
<1>1. CASE held[v] # NoJob /\ held'[v] = held[v] /\ handler'[v] = handler[v]
  BY <1>1, Bystander
<1>2. CASE HandlerStep(v)
  BY <1>2, HandlerMoves
<1>3. CASE Claim(v)
  <2>1. PICK j \in Jobs : /\ held' = [held EXCEPT ![v] = j]
                          /\ status[j] # "absent"
    BY <1>3 DEF Claim, Dequeue, FirstRunnable, Runnable
  <2>2. /\ handler'[v] = [Blank EXCEPT !.pc = kind[j]]
        /\ Inc(v)' = about[j]
        /\ analyses' = analyses /\ evidence' = evidence
    BY <1>0, <1>3, <2>1 DEF Claim, Inc, jobVars, storeVars, analysisVars, evidenceVars
  <2>3. kind[j] \in Kinds /\ (kind[j] = "notify" => analyses[about[j]] # <<>>)
    BY <2>1 DEF PipelineInv, JobsInv
  <2> QED BY <2>2, <2>3 DEF Kinds, Stage, Shown, AfterAnalysis, Blank, NoRecord
<1> QED
  BY <1>1, <1>2, <1>3, WhoMoves

-----------------------------------------------------------------------------
(* What SaveAnalysis commits: the new analysis is the only current one,    *)
(* because the unique index accepts it only if every row that was current  *)
(* has been cleared.                                                       *)
LEMMA WhatIsSaved ==
  ASSUME PipelineInv, NEW w \in Workers, SaveAnalysis(w), NEW i, i = Inc(w),
         NEW a, a = Len(analyses[i]) + 1
  PROVE  /\ i \in Incidents
         /\ analyses' = [analyses EXCEPT ![i] = Append(analyses[i], handler[w].record)]
         /\ DOMAIN analyses'[i] = 1..a
         /\ a \in DOMAIN analyses'[i]
         /\ \A b \in DOMAIN analyses[i] : analyses'[i][b] = analyses[i][b]
         /\ \A b \in DOMAIN analyses'[i] : b \in DOMAIN analyses[i] \/ b = a
         /\ analyses'[i][a] = handler[w].record
         /\ current' = [current EXCEPT ![i] = {a}]
         /\ evidence' = evidence /\ pings' = pings
<1>0. /\ i \in Incidents
      /\ analyses \in [Incidents -> Seq(Record)]
      /\ current \in [Incidents -> SUBSET Nat]
      /\ handler[w].record \in Record
  BY HandledIncident DEF SaveAnalysis, At, PipelineInv, PipelineTypeOK, HandlerState
<1>1. /\ analyses' = [analyses EXCEPT ![i] = Append(analyses[i], handler[w].record)]
      /\ current' = [current EXCEPT ![i] = (current[i] \ handler[w].cleared) \cup {a}]
      /\ current[i] \subseteq handler[w].cleared
      /\ evidence' = evidence /\ pings' = pings
  BY DEF SaveAnalysis, IndexAccepts, evidenceVars, notifyVars
<1>2. (current[i] \ handler[w].cleared) \cup {a} = {a}
  BY <1>1
<1>3. current' = [current EXCEPT ![i] = {a}]
  BY <1>1, <1>2
<1> DEFINE old == analyses[i]
           rec == handler[w].record
<1>4. old \in Seq(Record) /\ rec \in Record
  BY <1>0
<1>5. analyses'[i] = Append(old, rec)
  BY <1>0, <1>1
<1> HIDE DEF old, rec
<1>6. /\ Append(old, rec) \in Seq(Record)
      /\ Len(Append(old, rec)) = Len(old) + 1
      /\ \A b \in 1..Len(old) : Append(old, rec)[b] = old[b]
      /\ Append(old, rec)[Len(old) + 1] = rec
  BY <1>4, AppendProperties
<1>7. /\ DOMAIN old = 1..Len(old) /\ Len(old) \in Nat
      /\ DOMAIN Append(old, rec) = 1..Len(Append(old, rec))
  BY <1>4, <1>6, LenProperties
<1>8. /\ DOMAIN Append(old, rec) = 1..(Len(old) + 1)
      /\ Len(old) + 1 \in DOMAIN Append(old, rec)
      /\ \A b \in DOMAIN Append(old, rec) : b \in DOMAIN old \/ b = Len(old) + 1
  BY <1>6, <1>7
<1>9. /\ DOMAIN analyses'[i] = 1..a
      /\ a \in DOMAIN analyses'[i]
      /\ \A b \in DOMAIN analyses'[i] : b \in DOMAIN analyses[i] \/ b = a
  BY <1>5, <1>8 DEF old
<1>10. /\ \A b \in DOMAIN analyses[i] : analyses'[i][b] = analyses[i][b]
       /\ analyses'[i][a] = handler[w].record
  BY <1>5, <1>6, <1>7 DEF old, rec
<1> QED BY <1>0, <1>1, <1>3, <1>9, <1>10

(* Every step but SaveAnalysis leaves the analyses alone.                  *)
LEMMA AnalysesMove ==
  ASSUME [PipelineNext]_pipelineVars
  PROVE  (\E w \in Workers : SaveAnalysis(w)) \/ UNCHANGED <<analyses, current>>
BY DEF PipelineNext, HandlerStep, IngestCreates, SaveResolution, FlagEvidence, Claim, Idle,
       StatementFails, ClaimLost, TimePasses, CollectEvidence, EnqueueAnalyze,
       LoadAnalysisRequest, ProviderAnswers, SaveConflict, EnqueueNotify, LoadNotification,
       RecordQuiet, Send, RecordOutcome, HandlerDone, pipelineVars, storeVars, analysisVars

LEMMA OneCurrentStep ==
  ASSUME PipelineInv, [PipelineNext]_pipelineVars
  PROVE  OneCurrentAnalysis'
<1> SUFFICES ASSUME NEW k \in Incidents
             PROVE  IF analyses'[k] = <<>> THEN current'[k] = {}
                    ELSE \E a \in DOMAIN analyses'[k] : current'[k] = {a}
  BY DEF OneCurrentAnalysis
<1>1. IF analyses[k] = <<>> THEN current[k] = {}
      ELSE \E a \in DOMAIN analyses[k] : current[k] = {a}
  BY DEF PipelineInv, OneCurrentAnalysis
<1>2. ASSUME NEW w \in Workers, SaveAnalysis(w), k = Inc(w)
      PROVE  \E a \in DOMAIN analyses'[k] : current'[k] = {a}
  <2> DEFINE a == Len(analyses[k]) + 1
  <2>1. a \in DOMAIN analyses'[k] /\ current' = [current EXCEPT ![k] = {a}]
    BY <1>2, WhatIsSaved
  <2>2. current'[k] = {a}
    BY <2>1 DEF PipelineInv, PipelineTypeOK
  <2> QED BY <2>1, <2>2
<1>3. ASSUME NEW w \in Workers, SaveAnalysis(w), k # Inc(w)
      PROVE  analyses'[k] = analyses[k] /\ current'[k] = current[k]
  <2>1. /\ analyses' = [analyses EXCEPT ![Inc(w)] = Append(analyses[Inc(w)], handler[w].record)]
        /\ current' = [current EXCEPT ![Inc(w)] = {Len(analyses[Inc(w)]) + 1}]
    BY <1>3, WhatIsSaved
  <2> QED BY <1>3, <2>1 DEF PipelineInv, PipelineTypeOK
<1>4. ASSUME NEW w \in Workers, SaveAnalysis(w), k = Inc(w)
      PROVE  analyses'[k] # <<>>
  <2>1. DOMAIN analyses'[k] # {}
    BY <1>2, <1>4
  <2> QED BY <2>1
<1> QED
  BY <1>1, <1>2, <1>3, <1>4, AnalysesMove

LEMMA VerdictStep ==
  ASSUME PipelineInv, [PipelineNext]_pipelineVars
  PROVE  PublishedVerdictIsCurrent'
<1> SUFFICES ASSUME NEW k \in Incidents, phase'[k] = "published"
             PROVE  \E a \in current'[k] \cap DOMAIN analyses'[k] :
                      triage'[k] = analyses'[k][a].verdict
  BY DEF PublishedVerdictIsCurrent
<1>0. /\ phase \in [Incidents -> Phase]
      /\ triage \in [Incidents -> Verdicts \cup {"null"}]
      /\ current \in [Incidents -> SUBSET Nat]
      /\ analyses \in [Incidents -> Seq(Record)]
  BY DEF PipelineInv, PipelineTypeOK
<1>1. phase[k] = "published" =>
        \E a \in current[k] \cap DOMAIN analyses[k] : triage[k] = analyses[k][a].verdict
  BY DEF PipelineInv, PublishedVerdictIsCurrent
<1>2. ASSUME NEW w \in Workers, SaveAnalysis(w), k = Inc(w)
      PROVE  \E a \in current'[k] \cap DOMAIN analyses'[k] : triage'[k] = analyses'[k][a].verdict
  <2> DEFINE a == Len(analyses[k]) + 1
  <2>1. /\ a \in DOMAIN analyses'[k]
        /\ analyses'[k][a] = handler[w].record
        /\ current' = [current EXCEPT ![k] = {a}]
    BY <1>2, WhatIsSaved
  <2>2. current'[k] = {a}
    BY <1>0, <2>1
  <2>3. triage'[k] = handler[w].record.verdict
    BY <1>0, <1>2 DEF SaveAnalysis, Publish, incidentVars
  <2> QED BY <2>1, <2>2, <2>3
<1>3. ASSUME NEW w \in Workers, SaveAnalysis(w), k # Inc(w)
      PROVE  /\ analyses'[k] = analyses[k] /\ current'[k] = current[k]
             /\ phase'[k] = phase[k] /\ triage'[k] = triage[k]
  <2>1. /\ analyses' = [analyses EXCEPT ![Inc(w)] = Append(analyses[Inc(w)], handler[w].record)]
        /\ current' = [current EXCEPT ![Inc(w)] = {Len(analyses[Inc(w)]) + 1}]
    BY <1>3, WhatIsSaved
  <2>2. phase'[k] = phase[k] /\ triage'[k] = triage[k]
    BY <1>0, <1>3 DEF SaveAnalysis, Publish, incidentVars
  <2> QED BY <1>0, <1>3, <2>1, <2>2
<1>4. ASSUME ~ \E w \in Workers : SaveAnalysis(w)
      PROVE  /\ analyses' = analyses /\ current' = current /\ triage' = triage
             /\ phase[k] = "published"
  <2>1. \/ \E i \in Incidents : IngestCreates(i) \/ SaveResolution(i)
        \/ phase' = phase
    BY <1>4
    DEF PipelineNext, HandlerStep, FlagEvidence, Claim, Idle, StatementFails, ClaimLost, TimePasses,
        CollectEvidence, EnqueueAnalyze, LoadAnalysisRequest, ProviderAnswers, SaveConflict,
        EnqueueNotify, LoadNotification, RecordQuiet, Send, RecordOutcome, HandlerDone,
        pipelineVars, storeVars, incidentVars
  <2>2. phase[k] = "published"
    BY <1>0, <2>1 DEF IngestCreates, SaveResolution
  <2>3. triage' = triage
    BY <1>4
    DEF PipelineNext, HandlerStep, IngestCreates, SaveResolution, FlagEvidence, Claim, Idle,
        StatementFails, ClaimLost, TimePasses, CollectEvidence, EnqueueAnalyze,
        LoadAnalysisRequest, ProviderAnswers, SaveConflict, EnqueueNotify, LoadNotification,
        RecordQuiet, Send, RecordOutcome, HandlerDone, pipelineVars, storeVars, incidentVars
  <2> QED BY <1>4, <2>2, <2>3, AnalysesMove
<1> QED
  BY <1>1, <1>2, <1>3, <1>4

(* Citations were within what was shown, and captures only accumulate.     *)
LEMMA CitationsStep ==
  ASSUME PipelineInv, [PipelineNext]_pipelineVars
  PROVE  CitationsExist'
<1> SUFFICES ASSUME NEW k \in Incidents, NEW b \in DOMAIN analyses'[k]
             PROVE  analyses'[k][b].cites \subseteq evidence'[k]
  BY DEF CitationsExist
<1>1. /\ \A a \in DOMAIN analyses[k] : analyses[k][a].cites \subseteq evidence[k]
      /\ evidence[k] \subseteq evidence'[k]
  BY StoreGrows DEF PipelineInv, CitationsExist
<1>2. ASSUME NEW w \in Workers, SaveAnalysis(w), k = Inc(w)
      PROVE  analyses'[k][b].cites \subseteq evidence'[k]
  <2>1. handler[w].record.cites \subseteq evidence[k]
    BY <1>2 DEF SaveAnalysis, At, PipelineInv, HandlerInv, Shown
  <2>2. /\ \A c \in DOMAIN analyses[k] : analyses'[k][c] = analyses[k][c]
        /\ \A c \in DOMAIN analyses'[k] : c \in DOMAIN analyses[k] \/ c = Len(analyses[k]) + 1
        /\ analyses'[k][Len(analyses[k]) + 1] = handler[w].record
    BY <1>2, WhatIsSaved
  <2>3. CASE b \in DOMAIN analyses[k]
    BY <1>1, <2>2, <2>3
  <2>4. CASE b = Len(analyses[k]) + 1
    BY <1>1, <2>1, <2>2, <2>4
  <2> QED BY <2>2, <2>3, <2>4
<1>3. ASSUME NEW w \in Workers, SaveAnalysis(w), k # Inc(w)
      PROVE  analyses'[k] = analyses[k]
  <2>1. analyses' = [analyses EXCEPT ![Inc(w)] = Append(analyses[Inc(w)], handler[w].record)]
    BY <1>3, WhatIsSaved
  <2> QED BY <1>3, <2>1 DEF PipelineInv, PipelineTypeOK
<1> QED
  BY <1>1, <1>2, <1>3, AnalysesMove

(* Only Send delivers, in a handler that runs after an analysis.           *)
LEMMA PingsStep ==
  ASSUME PipelineInv, [PipelineNext]_pipelineVars
  PROVE  PingsFollowAnalysis'
<1> SUFFICES ASSUME NEW k \in Incidents, NEW c \in ChannelNames, pings'[k][c] > 0
             PROVE  analyses'[k] # <<>>
  BY DEF PingsFollowAnalysis, ChannelNames
<1>1. CASE pings[k][c] > 0
  BY <1>1, StoreGrows DEF PipelineInv, PingsFollowAnalysis
<1>2. CASE \E w \in Workers : Send(w) /\ k = Inc(w)
  BY <1>2, StoreGrows DEF Send, At, PipelineInv, HandlerInv, Stage, AfterAnalysis
<1>3. ASSUME NEW w \in Workers, Send(w), k # Inc(w)
      PROVE  pings'[k] = pings[k]
  BY <1>3 DEF Send, Delivered, PipelineInv, PipelineTypeOK
<1>4. (\E w \in Workers : Send(w)) \/ pings' = pings
  BY DEF PipelineNext, HandlerStep, IngestCreates, SaveResolution, FlagEvidence, Claim, Idle,
         StatementFails, ClaimLost, TimePasses, CollectEvidence, EnqueueAnalyze,
         LoadAnalysisRequest, ProviderAnswers, SaveAnalysis, SaveConflict, EnqueueNotify,
         LoadNotification, RecordQuiet, RecordOutcome, HandlerDone, pipelineVars, storeVars,
         notifyVars
<1> QED
  BY <1>1, <1>2, <1>3, <1>4

-----------------------------------------------------------------------------
LEMMA PipelineInvInit == PipelineInit => PipelineInv
<1> SUFFICES ASSUME PipelineInit PROVE PipelineInv
  OBVIOUS
<1>1. QueueTypeOK
  BY QueueAssumption DEF PipelineInit, QueueInit, QueueTypeOK, JobStatus
<1>2. PipelineTypeOK
  BY <1>1, BlankTyped, PipelineAssumption, EmptySeq
  DEF PipelineInit, PipelineTypeOK, Phase
<1>3. JobsInv /\ HeldInv /\ HandlerInv
  BY <1>1 DEF PipelineInit, QueueInit, QueueTypeOK, JobsInv, HeldInv, HandlerInv
<1>4. OneCurrentAnalysis /\ PublishedVerdictIsCurrent /\ CitationsExist
  BY DEF PipelineInit, OneCurrentAnalysis, PublishedVerdictIsCurrent, CitationsExist
<1>5. PingsFollowAnalysis
  BY DEF PipelineInit, PingsFollowAnalysis
<1> QED BY <1>2, <1>3, <1>4, <1>5 DEF PipelineInv

LEMMA PipelineInvStep ==
  ASSUME PipelineInv, [PipelineNext]_pipelineVars
  PROVE  PipelineInv'
<1>1. HeldInv'
  BY PipelineStepIsQueueStep, QueueKeepsRows DEF PipelineInv, PipelineTypeOK
<1> QED
  BY <1>1, PipelineTypeStep, JobsInvStep, HandlerInvStep, OneCurrentStep, VerdictStep,
     CitationsStep, PingsStep
  DEF PipelineInv

LEMMA PipelineInvariance == PipelineSpec => []PipelineInv
BY PipelineInvInit, PipelineInvStep, PTL DEF PipelineSpec

(* The tables and the handlers' locals keep their types.                   *)
THEOREM PipelineTypeCorrect == PipelineSpec => []PipelineTypeOK
<1>1. PipelineInv => PipelineTypeOK
  BY DEF PipelineInv
<1> QED BY <1>1, PipelineInvariance, PTL

(* However many workers analyse an incident at once, exactly one analysis  *)
(* is current.                                                             *)
THEOREM OneCurrentCorrect == PipelineSpec => []OneCurrentAnalysis
<1>1. PipelineInv => OneCurrentAnalysis
  BY DEF PipelineInv
<1> QED BY <1>1, PipelineInvariance, PTL

(* A published incident shows the verdict of its current analysis.         *)
THEOREM VerdictCorrect == PipelineSpec => []PublishedVerdictIsCurrent
<1>1. PipelineInv => PublishedVerdictIsCurrent
  BY DEF PipelineInv
<1> QED BY <1>1, PipelineInvariance, PTL

(* No analysis on file cites evidence that was never captured.             *)
THEOREM CitationsCorrect == PipelineSpec => []CitationsExist
<1>1. PipelineInv => CitationsExist
  BY DEF PipelineInv
<1> QED BY <1>1, PipelineInvariance, PTL

(* No channel is pinged about an incident that has no analysis.            *)
THEOREM PingsFollowCorrect == PipelineSpec => []PingsFollowAnalysis
<1>1. PipelineInv => PingsFollowAnalysis
  BY DEF PipelineInv
<1> QED BY <1>1, PipelineInvariance, PTL

-----------------------------------------------------------------------------
(* The pipeline implements NotebookLife: what the jobs, the retries and    *)
(* the transactions do to a notebook is what its life allows.              *)
LEMMA LifeInitially == PipelineInit => Life!LifeInit
<1> SUFFICES ASSUME PipelineInit PROVE Life!LifeInit
  OBVIOUS
<1>1. Len(<<>>) = 0
  OBVIOUS
<1>2. [i \in Incidents |-> Len(analyses[i])] = [i \in Incidents |-> 0]
  BY <1>1 DEF PipelineInit
<1> QED BY <1>2 DEF PipelineInit, Life!LifeInit

(* Filing an analysis: one more is on file, and a notebook that its        *)
(* engineer resolved stays resolved.                                       *)
LEMMA SavingFiles ==
  ASSUME PipelineInv, NEW w \in Workers, SaveAnalysis(w), NEW i \in Incidents, i = Inc(w)
  PROVE  Life!FileAnalysis(i)
<1> DEFINE count == [k \in Incidents |-> Len(analyses[k])]
<1>0. /\ phase \in [Incidents -> Phase]
      /\ analyses \in [Incidents -> Seq(Record)]
      /\ handler[w].record \in Record
  BY DEF PipelineInv, PipelineTypeOK, HandlerState
<1>1. i \in Incidents /\ phase[i] # "absent"
  BY HandledIncident DEF SaveAnalysis, At
<1>2. analyses' = [analyses EXCEPT ![i] = Append(analyses[i], handler[w].record)]
  BY WhatIsSaved
<1>3. Len(Append(analyses[i], handler[w].record)) = Len(analyses[i]) + 1
  <2>1. analyses[i] \in Seq(Record)
    BY <1>0, <1>1
  <2> QED BY <1>0, <2>1, AppendProperties
<1>4. count' = [count EXCEPT ![i] = @ + 1]
  BY <1>0, <1>1, <1>2, <1>3
<1>5. phase' = [phase EXCEPT ![i] = IF @ = "resolved" THEN @ ELSE "published"]
  <2>1. CASE phase[i] = "resolved"
    BY <1>0, <2>1 DEF SaveAnalysis, Publish, incidentVars
  <2>2. CASE phase[i] # "resolved"
    BY <1>0, <2>2 DEF SaveAnalysis, Publish
  <2> QED BY <2>1, <2>2
<1>6. UNCHANGED <<evidence, flagged>>
  BY DEF SaveAnalysis, evidenceVars
<1> QED
  BY <1>1, <1>4, <1>5, <1>6 DEF Life!FileAnalysis

LEMMA LifeStep ==
  ASSUME PipelineInv, [PipelineNext]_pipelineVars
  PROVE  [Life!LifeNext]_(Life!lifeVars)
<1>1. ASSUME NEW i \in Incidents, IngestCreates(i) PROVE Life!Open(i)
  BY <1>1 DEF IngestCreates, Life!Open, evidenceVars, analysisVars
<1>2. ASSUME NEW i \in Incidents, SaveResolution(i) PROVE Life!Resolve(i)
  BY <1>2 DEF SaveResolution, Life!Resolve, evidenceVars, analysisVars
<1>3. ASSUME NEW i \in Incidents, FlagEvidence(i) PROVE Life!Distrust(i)
  BY <1>3 DEF FlagEvidence, Life!Distrust, incidentVars, analysisVars
<1>4. ASSUME NEW w \in Workers, CollectEvidence(w), NEW i \in Incidents, i = Inc(w)
      PROVE  Life!Capture(i)
  BY <1>4, HandledIncident
  DEF CollectEvidence, SaveEvidence, At, Life!Capture, incidentVars, analysisVars
<1>5. ASSUME NEW w \in Workers, CollectEvidence(w) \/ SaveAnalysis(w) PROVE Inc(w) \in Incidents
  BY <1>5, HandledIncident DEF CollectEvidence, SaveAnalysis, At
<1>6. ASSUME UNCHANGED <<phase, evidence, flagged, analyses>> PROVE UNCHANGED Life!lifeVars
  BY <1>6 DEF Life!lifeVars
<1>7. \/ \E i \in Incidents : IngestCreates(i) \/ SaveResolution(i) \/ FlagEvidence(i)
      \/ \E w \in Workers : CollectEvidence(w) \/ SaveAnalysis(w)
      \/ UNCHANGED <<phase, evidence, flagged, analyses>>
  BY DEF PipelineNext, HandlerStep, Claim, Idle, StatementFails, ClaimLost, TimePasses,
         EnqueueAnalyze, LoadAnalysisRequest, ProviderAnswers, SaveConflict, EnqueueNotify,
         LoadNotification, RecordQuiet, Send, RecordOutcome, HandlerDone, pipelineVars,
         storeVars, incidentVars, evidenceVars, analysisVars
<1>8. CASE \E i \in Incidents : IngestCreates(i) \/ SaveResolution(i) \/ FlagEvidence(i)
  BY <1>1, <1>2, <1>3, <1>8 DEF Life!LifeNext
<1>9. ASSUME NEW w \in Workers, CollectEvidence(w) \/ SaveAnalysis(w) PROVE Life!LifeNext
  <2>1. PICK i \in Incidents : i = Inc(w)
    BY <1>5, <1>9
  <2>2. Life!Capture(i) \/ Life!FileAnalysis(i)
    BY <1>4, <1>9, <2>1, SavingFiles
  <2> QED BY <2>2 DEF Life!LifeNext
<1> QED
  BY <1>6, <1>7, <1>8, <1>9

(* Whatever crashes, repeats or collides, every notebook lives the life of *)
(* NotebookLife.                                                           *)
THEOREM LifeKept == PipelineSpec => LifeIsKept
BY LifeInitially, LifeStep, PipelineInvariance, PTL DEF PipelineSpec, LifeIsKept, Life!LifeSpec

-----------------------------------------------------------------------------
(* The handoff from job to job: NextStepIsQueued.                          *)
(*                                                                         *)
(* A handler inserts the job of the next step and only then completes its  *)
(* own, two statements apart; it may be interrupted in between, run again, *)
(* or run twice at once.  The argument follows the rows: a row of every    *)
(* incident says collect, a row that is done was passed on before it was   *)
(* done, and a row is never deleted.                                       *)

(* A job of this kind was inserted for the incident, whatever became of it.*)
HasRow(i, k) ==
  \E j \in Jobs : status[j] # "absent" /\ kind[j] = k /\ about[j] = i

(* What a job had to leave behind is there.                                *)
Passed(j) ==
  /\ kind[j] = "collect" => HasRow(about[j], "analyze")
  /\ kind[j] = "analyze" => HasRow(about[j], "notify")
  /\ kind[j] = "notify" => Channels = <<>> \/ notes[about[j]] # {}

(* A handler runs the steps of its job's kind, and returns nil only when   *)
(* the job was passed on.                                                  *)
Place(w) ==
  /\ handler[w].pc # "idle"
  /\ handler[w].pc \in {"collect", "analyzeHandoff"} => kind[held[w]] = "collect"
  /\ handler[w].pc \in {"analyze", "provider", "save", "notifyHandoff"} =>
       kind[held[w]] = "analyze"
  /\ handler[w].pc \in {"notify", "quiet", "send", "record"} => kind[held[w]] = "notify"
  /\ handler[w].pc = "return" => Passed(held[w])

StartedInv == \A i \in Incidents : phase[i] # "absent" => HasRow(i, "collect")

AnalysedInv == \A i \in Incidents : analyses[i] # <<>> => HasRow(i, "analyze")

DoneInv == \A j \in Jobs : status[j] = "done" => Passed(j)

PlaceInv == \A w \in Workers : held[w] # NoJob => Place(w)

HandoffInv == PipelineInv /\ StartedInv /\ AnalysedInv /\ DoneInv /\ PlaceInv

(* The property follows: from the collect row to the first row that is not *)
(* done.                                                                   *)
LEMMA HandoffSuffices == HandoffInv => NextStepIsQueued
<1> SUFFICES ASSUME HandoffInv, NEW i \in Incidents
             PROVE  /\ phase[i] # "absent" /\ analyses[i] = <<>> =>
                         JobAbout(i, {"collect", "analyze"}, {"pending", "running", "failed"})
                    /\ analyses[i] # <<>> /\ Channels # <<>> =>
                         \/ JobAbout(i, {"analyze", "notify"}, {"pending", "running", "failed"})
                         \/ notes[i] # {}
  BY DEF NextStepIsQueued
<1> USE DEF HandoffInv
<1>1. \A j \in Jobs : status[j] \in {"absent", "pending", "running", "done", "failed"}
  BY DEF PipelineInv, PipelineTypeOK, QueueTypeOK, JobStatus
<1>2. \A j \in Jobs : status[j] # "absent" /\ kind[j] = "notify" => analyses[about[j]] # <<>>
  BY DEF PipelineInv, JobsInv
<1>3. ASSUME phase[i] # "absent", analyses[i] = <<>>
      PROVE  JobAbout(i, {"collect", "analyze"}, {"pending", "running", "failed"})
  <2>1. PICK c \in Jobs : status[c] # "absent" /\ kind[c] = "collect" /\ about[c] = i
    BY <1>3 DEF StartedInv, HasRow
  <2>2. CASE status[c] # "done"
    BY <1>1, <2>1, <2>2 DEF JobAbout
  <2>3. CASE status[c] = "done"
    <3>1. PICK a \in Jobs : status[a] # "absent" /\ kind[a] = "analyze" /\ about[a] = i
      BY <2>1, <2>3 DEF DoneInv, Passed, HasRow
    <3>2. status[a] # "done"
      BY <1>2, <1>3, <3>1 DEF DoneInv, Passed, HasRow
    <3> QED BY <1>1, <3>1, <3>2 DEF JobAbout
  <2> QED BY <2>2, <2>3
<1>4. ASSUME analyses[i] # <<>>, Channels # <<>>
      PROVE  \/ JobAbout(i, {"analyze", "notify"}, {"pending", "running", "failed"})
             \/ notes[i] # {}
  <2>1. PICK a \in Jobs : status[a] # "absent" /\ kind[a] = "analyze" /\ about[a] = i
    BY <1>4 DEF AnalysedInv, HasRow
  <2>2. CASE status[a] # "done"
    BY <1>1, <2>1, <2>2 DEF JobAbout
  <2>3. CASE status[a] = "done"
    <3>1. PICK n \in Jobs : status[n] # "absent" /\ kind[n] = "notify" /\ about[n] = i
      BY <2>1, <2>3 DEF DoneInv, Passed, HasRow
    <3>2. status[n] = "done" => notes[i] # {}
      BY <1>4, <3>1 DEF DoneInv, Passed
    <3> QED BY <1>1, <3>1, <3>2 DEF JobAbout
  <2> QED BY <2>2, <2>3
<1> QED BY <1>3, <1>4

-----------------------------------------------------------------------------
(* Rows, and what was passed on, stay.                                     *)
LEMMA RowLasts ==
  ASSUME PipelineInv, [PipelineNext]_pipelineVars, NEW i, NEW k, HasRow(i, k)
  PROVE  HasRow(i, k)'
<1>1. PICK j \in Jobs : status[j] # "absent" /\ kind[j] = k /\ about[j] = i
  BY DEF HasRow
<1>2. status'[j] # "absent"
  BY <1>1, PipelineStepIsQueueStep, QueueKeepsRows DEF PipelineInv, PipelineTypeOK
<1>3. kind'[j] = k /\ about'[j] = i
  BY <1>1, RowsStay
<1> QED BY <1>2, <1>3 DEF HasRow

LEMMA NotesLast ==
  ASSUME PipelineInv, [PipelineNext]_pipelineVars, NEW i \in Incidents, notes[i] # {}
  PROVE  notes'[i] # {}
<1>0. notes[i] \subseteq notes'[i]
  <2>1. notes \in [Incidents -> SUBSET ((ChannelNames \cup {"gate"}) \X {"sent", "failed", "quiet"})]
    BY DEF PipelineInv, PipelineTypeOK
  <2>2. ASSUME NEW w \in Workers, RecordQuiet(w) \/ RecordOutcome(w)
        PROVE  \E x : notes' = [notes EXCEPT ![Inc(w)] = @ \cup {x}]
    BY <2>2 DEF RecordQuiet, RecordOutcome
  <2>3. (\E w \in Workers : RecordQuiet(w) \/ RecordOutcome(w)) \/ notes' = notes
    BY DEF PipelineNext, HandlerStep, IngestCreates, SaveResolution, FlagEvidence, Claim, Idle,
           StatementFails, ClaimLost, TimePasses, CollectEvidence, EnqueueAnalyze,
           LoadAnalysisRequest, ProviderAnswers, SaveAnalysis, SaveConflict, EnqueueNotify,
           LoadNotification, Send, HandlerDone, pipelineVars, storeVars, notifyVars
  <2> QED BY <2>1, <2>2, <2>3
<1> QED BY <1>0

LEMMA PassedLasts ==
  ASSUME PipelineInv, [PipelineNext]_pipelineVars,
         NEW j \in Jobs, status[j] # "absent", Passed(j)
  PROVE  Passed(j)'
<1>1. kind'[j] = kind[j] /\ about'[j] = about[j] /\ about[j] \in Incidents
  BY RowsStay DEF PipelineInv, JobsInv
<1>2. CASE kind[j] = "collect"
  BY <1>1, <1>2, RowLasts DEF Passed
<1>3. CASE kind[j] = "analyze"
  BY <1>1, <1>3, RowLasts DEF Passed
<1>4. CASE kind[j] = "notify"
  BY <1>1, <1>4, NotesLast DEF Passed
<1> QED BY <1>1, <1>2, <1>3, <1>4 DEF Passed

-----------------------------------------------------------------------------
LEMMA InsertGivesRow ==
  ASSUME JobsTypeOK, NEW i, NEW k, Insert(k, i)
  PROVE  HasRow(i, k)'
<1>1. PICK j \in Jobs : /\ status' = [status EXCEPT ![j] = "pending"]
                        /\ kind' = [kind EXCEPT ![j] = k]
                        /\ about' = [about EXCEPT ![j] = i]
  BY DEF Insert, Enqueue
<1>2. status'[j] = "pending" /\ kind'[j] = k /\ about'[j] = i
  BY <1>1 DEF JobsTypeOK, QueueTypeOK
<1> QED BY <1>2 DEF HasRow

(* An incident appears with its collect job.                               *)
LEMMA StartedStep ==
  ASSUME HandoffInv, [PipelineNext]_pipelineVars
  PROVE  StartedInv'
<1> USE DEF HandoffInv
<1> SUFFICES ASSUME NEW i \in Incidents, phase'[i] # "absent"
             PROVE  HasRow(i, "collect")'
  BY DEF StartedInv
<1>1. CASE phase[i] # "absent"
  BY <1>1, RowLasts DEF StartedInv
<1>2. CASE IngestCreates(i)
  BY <1>2, InsertGivesRow DEF IngestCreates, JobsTypeOK, PipelineInv, PipelineTypeOK
<1>3. CASE phase[i] = "absent" /\ ~IngestCreates(i)
  <2>0. phase \in [Incidents -> Phase]
    BY DEF PipelineInv, PipelineTypeOK
  <2>1. ASSUME NEW k \in Incidents, IngestCreates(k) \/ SaveResolution(k)
        PROVE  phase'[i] = phase[i]
    BY <1>3, <2>0, <2>1 DEF IngestCreates, SaveResolution
  <2>2. ASSUME NEW w \in Workers, SaveAnalysis(w)
        PROVE  phase'[i] = phase[i]
    <3>1. Inc(w) # i
      BY <1>3, <2>2, HandledIncident DEF SaveAnalysis, At
    <3> QED BY <2>0, <2>2, <3>1 DEF SaveAnalysis, Publish, incidentVars
  <2>3. \/ \E k \in Incidents : IngestCreates(k) \/ SaveResolution(k)
        \/ \E w \in Workers : SaveAnalysis(w)
        \/ phase' = phase
    BY DEF PipelineNext, HandlerStep, FlagEvidence, Claim, Idle, StatementFails, ClaimLost,
           TimePasses, CollectEvidence, EnqueueAnalyze, LoadAnalysisRequest, ProviderAnswers,
           SaveConflict, EnqueueNotify, LoadNotification, RecordQuiet, Send, RecordOutcome,
           HandlerDone, pipelineVars, storeVars, incidentVars
  <2> QED BY <1>3, <2>1, <2>2, <2>3
<1> QED BY <1>1, <1>2, <1>3

(* Only the handler of an analyze job files an analysis.                   *)
LEMMA AnalysedStep ==
  ASSUME HandoffInv, [PipelineNext]_pipelineVars
  PROVE  AnalysedInv'
<1> USE DEF HandoffInv
<1> SUFFICES ASSUME NEW i \in Incidents, analyses'[i] # <<>>
             PROVE  HasRow(i, "analyze")'
  BY DEF AnalysedInv
<1>1. CASE analyses[i] # <<>>
  BY <1>1, RowLasts DEF AnalysedInv
<1>2. CASE \E w \in Workers : SaveAnalysis(w) /\ Inc(w) = i
  <2>1. PICK w \in Workers : SaveAnalysis(w) /\ Inc(w) = i
    BY <1>2
  <2>2. held[w] \in Jobs /\ status[held[w]] # "absent"
    BY <2>1, HandledIncident DEF SaveAnalysis, At
  <2>3. kind[held[w]] = "analyze" /\ about[held[w]] = i
    BY <2>1 DEF SaveAnalysis, At, PlaceInv, Place, Inc
  <2> QED BY <2>2, <2>3, RowLasts DEF HasRow
<1>3. CASE analyses[i] = <<>> /\ ~ \E w \in Workers : SaveAnalysis(w) /\ Inc(w) = i
  <2>1. ASSUME NEW w \in Workers, SaveAnalysis(w), Inc(w) # i
        PROVE  analyses'[i] = analyses[i]
    <3>1. analyses' = [analyses EXCEPT ![Inc(w)] = Append(analyses[Inc(w)], handler[w].record)]
      BY <2>1, WhatIsSaved
    <3> QED BY <2>1, <3>1 DEF PipelineInv, PipelineTypeOK
  <2> QED BY <1>3, <2>1, AnalysesMove
<1> QED BY <1>1, <1>2, <1>3

(* Complete is reached only through "return".                              *)
LEMMA DoneStep ==
  ASSUME HandoffInv, [PipelineNext]_pipelineVars
  PROVE  DoneInv'
<1> USE DEF HandoffInv
<1> SUFFICES ASSUME NEW j \in Jobs, status'[j] = "done"
             PROVE  Passed(j)'
  BY DEF DoneInv
<1>0. QueueTypeOK
  BY DEF PipelineInv, PipelineTypeOK
<1>1. CASE status[j] = "done"
  BY <1>1, PassedLasts DEF DoneInv
<1>2. CASE \E w \in Workers : HandlerDone(w) /\ held[w] = j
  <2>1. PICK w \in Workers : HandlerDone(w) /\ held[w] = j
    BY <1>2
  <2>2. status[j] # "absent" /\ Passed(j)
    BY <2>1, HandledIncident DEF HandlerDone, At, PlaceInv, Place
  <2> QED BY <2>2, PassedLasts
<1>3. CASE status[j] # "done" /\ ~ \E w \in Workers : HandlerDone(w) /\ held[w] = j
  <2>1. ASSUME NEW w \in Workers, HandlerDone(w) PROVE status'[j] = status[j]
    BY <1>0, <1>3, <2>1 DEF HandlerDone, Complete, Overwrite, QueueTypeOK
  <2>2. ASSUME NEW w \in Workers, Dequeue(w) \/ Retry(w) \/ Fail(w) \/ Abandon(w)
        PROVE  status'[j] = "done" => status[j] = "done"
    BY <1>0, <2>2 DEF Dequeue, Retry, Fail, Overwrite, Abandon, rowVars, QueueTypeOK
  <2>3. ASSUME NEW k \in Jobs, Enqueue(k) PROVE status'[j] = "done" => status[j] = "done"
    BY <1>0, <2>3 DEF Enqueue, QueueTypeOK
  <2>4. \/ \E w \in Workers :
             \/ HandlerDone(w) \/ Dequeue(w) \/ Retry(w) \/ Fail(w) \/ Abandon(w)
        \/ \E k \in Jobs : Enqueue(k)
        \/ status' = status
    BY DEF PipelineNext, HandlerStep, IngestCreates, SaveResolution, FlagEvidence, Claim, Idle,
           IdlePoll, StatementFails, HandlerError, ClaimLost, TimePasses, BackoffElapsed,
           OrphanGoesStale, HandlerOverruns, CollectEvidence, EnqueueAnalyze, Insert,
           LoadAnalysisRequest, ProviderAnswers, SaveAnalysis, SaveConflict, EnqueueNotify,
           LoadNotification, RecordQuiet, Send, RecordOutcome, pipelineVars, queueVars
  <2> QED BY <1>3, <2>1, <2>2, <2>3, <2>4
<1> QED BY <1>1, <1>2, <1>3

-----------------------------------------------------------------------------
(* A handler that runs on stays in the steps of its kind; it returns once  *)
(* it has inserted the next job or recorded an outcome.                    *)
LEMMA PlaceMoves ==
  ASSUME HandoffInv, [PipelineNext]_pipelineVars,
         NEW w \in Workers, HandlerStep(w), held'[w] # NoJob
  PROVE  Place(w)'
<1> USE DEF HandoffInv
<1>0. /\ handler \in [Workers -> HandlerState] /\ held \in [Workers -> Jobs \cup {NoJob}]
      /\ JobsTypeOK
  BY DEF PipelineInv, PipelineTypeOK, QueueTypeOK, JobsTypeOK
<1>1. ~HandlerDone(w) /\ ~SaveConflict(w)
  BY <1>0 DEF HandlerDone, Complete, SaveConflict, HandlerError, Retry, Fail, Overwrite
<1>2. held[w] # NoJob /\ held'[w] = held[w]
  BY <1>1
  DEF HandlerStep, At, CollectEvidence, EnqueueAnalyze, LoadAnalysisRequest, ProviderAnswers,
      SaveAnalysis, EnqueueNotify, LoadNotification, RecordQuiet, Send, RecordOutcome, Insert,
      Enqueue, queueVars, workerVars
<1>3. /\ Place(w) /\ Stage(w) /\ held[w] \in Jobs /\ Inc(w) \in Incidents
      /\ kind'[held'[w]] = kind[held[w]] /\ about'[held'[w]] = Inc(w)
  BY <1>2, HandledIncident, RowsStay DEF PlaceInv, PipelineInv, HandlerInv, Inc
<1>4. CASE CollectEvidence(w)
  <2>1. handler[w].pc = "collect" /\ handler'[w].pc = "analyzeHandoff"
    BY <1>0, <1>4 DEF CollectEvidence, At, Go, HandlerState
  <2> QED BY <1>3, <2>1 DEF Place
<1>5. CASE EnqueueAnalyze(w)
  <2>1. handler[w].pc = "analyzeHandoff" /\ handler'[w].pc = "return"
    BY <1>0, <1>5 DEF EnqueueAnalyze, At, Go, HandlerState
  <2>2. HasRow(Inc(w), "analyze")'
    <3>1. PICK i \in Incidents : i = Inc(w)
      BY <1>3
    <3>2. HasRow(i, "analyze")'
      BY <1>0, <1>5, <3>1, InsertGivesRow DEF EnqueueAnalyze
    <3> QED BY <1>3, <3>1, <3>2 DEF HasRow, Inc
  <2> QED BY <1>3, <2>1, <2>2 DEF Place, Passed, HasRow, Inc
<1>6. CASE EnqueueNotify(w)
  <2>1. handler[w].pc = "notifyHandoff" /\ handler'[w].pc = "return"
    BY <1>0, <1>6 DEF EnqueueNotify, At, Go, HandlerState
  <2>2. HasRow(Inc(w), "notify")'
    <3>1. PICK i \in Incidents : i = Inc(w)
      BY <1>3
    <3>2. HasRow(i, "notify")'
      BY <1>0, <1>6, <3>1, InsertGivesRow DEF EnqueueNotify
    <3> QED BY <1>3, <3>1, <3>2 DEF HasRow, Inc
  <2> QED BY <1>3, <2>1, <2>2 DEF Place, Passed, HasRow, Inc
<1>7. CASE LoadAnalysisRequest(w) \/ ProviderAnswers(w) \/ SaveAnalysis(w)
  <2>1. /\ handler[w].pc \in {"analyze", "provider", "save"}
        /\ handler'[w].pc \in {"provider", "save", "notifyHandoff"}
    <3>1. CASE LoadAnalysisRequest(w)
      BY <1>0, <3>1 DEF LoadAnalysisRequest, At, HandlerState
    <3>2. CASE ProviderAnswers(w)
      <4>1. PICK answer : handler' = [handler EXCEPT
              ![w] = [@ EXCEPT !.pc = "save", !.shown = {}, !.record = answer,
                               !.cleared = current[Inc(w)]]]
        BY <3>2 DEF ProviderAnswers
      <4>2. handler[w].pc = "provider"
        BY <3>2 DEF ProviderAnswers, At
      <4> QED BY <1>0, <4>1, <4>2 DEF HandlerState
    <3>3. CASE SaveAnalysis(w)
      BY <1>0, <3>3 DEF SaveAnalysis, At, Blank
    <3> QED BY <1>7, <3>1, <3>2, <3>3
  <2> QED BY <1>3, <2>1 DEF Place
<1>8. CASE LoadNotification(w)
  <2>1. /\ handler[w].pc = "notify"
        /\ handler'[w].pc \in {"quiet", "return", "send"}
        /\ handler'[w].pc = "return" => Channels = <<>>
    BY <1>0, <1>8 DEF LoadNotification, At, Go, HandlerState
  <2> QED BY <1>3, <2>1 DEF Place, Passed
<1>9. CASE Send(w)
  <2>1. handler[w].pc = "send" /\ handler'[w].pc = "record"
    BY <1>0, <1>9 DEF Send, At, HandlerState
  <2> QED BY <1>3, <2>1 DEF Place
<1>10. CASE RecordQuiet(w) \/ RecordOutcome(w)
  <2>1. /\ handler[w].pc \in {"quiet", "record"}
        /\ handler'[w].pc \in {"return", "send"}
    <3>1. CASE RecordQuiet(w)
      BY <1>0, <3>1 DEF RecordQuiet, At, Go, HandlerState
    <3>2. CASE RecordOutcome(w)
      <4>1. handler'[w] \in {[Blank EXCEPT !.pc = "return"],
                             [Blank EXCEPT !.pc = "send", !.next = handler[w].next + 1]}
        BY <1>0, <3>2 DEF RecordOutcome
      <4>2. handler[w].pc = "record"
        BY <3>2 DEF RecordOutcome, At
      <4> QED BY <4>1, <4>2 DEF Blank
    <3> QED BY <1>10, <3>1, <3>2
  <2>2. notes'[Inc(w)] # {}
    <3>1. PICK x : notes' = [notes EXCEPT ![Inc(w)] = @ \cup {x}]
      BY <1>10 DEF RecordQuiet, RecordOutcome
    <3>2. x \in notes'[Inc(w)]
      BY <1>3, <3>1 DEF PipelineInv, PipelineTypeOK
    <3> QED BY <3>2
  <2> QED BY <1>3, <2>1, <2>2 DEF Place, Passed
<1> QED
  BY <1>1, <1>4, <1>5, <1>6, <1>7, <1>8, <1>9, <1>10 DEF HandlerStep

LEMMA PlaceStep ==
  ASSUME HandoffInv, [PipelineNext]_pipelineVars
  PROVE  PlaceInv'
<1> USE DEF HandoffInv
<1> SUFFICES ASSUME NEW v \in Workers, held'[v] # NoJob
             PROVE  Place(v)'
  BY DEF PlaceInv
<1>1. CASE held[v] # NoJob /\ held'[v] = held[v] /\ handler'[v] = handler[v]
  <2>1. Place(v) /\ held[v] \in Jobs /\ status[held[v]] # "absent"
    BY <1>1, HandledIncident DEF PlaceInv
  <2>2. kind'[held[v]] = kind[held[v]]
    BY <2>1, RowsStay
  <2>3. PICK j \in Jobs : j = held[v]
    BY <2>1
  <2>4. Passed(j) => Passed(j)'
    BY <2>1, <2>3, PassedLasts
  <2>5. handler[v].pc = "return" => Passed(held[v])'
    BY <1>1, <2>1, <2>3, <2>4 DEF Place, Passed
  <2> QED BY <1>1, <2>1, <2>2, <2>5 DEF Place
<1>2. CASE HandlerStep(v)
  BY <1>2, PlaceMoves
<1>3. CASE Claim(v)
  <2>1. PICK j \in Jobs : /\ held' = [held EXCEPT ![v] = j]
                          /\ status[j] # "absent"
    BY <1>3 DEF Claim, Dequeue, FirstRunnable, Runnable
  <2>2. held'[v] = j
    BY <2>1 DEF PipelineInv, PipelineTypeOK, QueueTypeOK
  <2>3. handler'[v] = [Blank EXCEPT !.pc = kind[j]] /\ kind' = kind
    BY <1>3, <2>2 DEF Claim, jobVars, PipelineInv, PipelineTypeOK
  <2>4. kind[j] \in Kinds
    BY <2>1 DEF PipelineInv, JobsInv
  <2> QED BY <2>2, <2>3, <2>4 DEF Kinds, Place, Blank
<1> QED
  BY <1>1, <1>2, <1>3, WhoMoves

-----------------------------------------------------------------------------
LEMMA HandoffInitially == PipelineInit => HandoffInv
<1> SUFFICES ASSUME PipelineInit PROVE HandoffInv
  OBVIOUS
<1>1. StartedInv /\ AnalysedInv /\ DoneInv /\ PlaceInv
  BY DEF PipelineInit, QueueInit, StartedInv, AnalysedInv, DoneInv, PlaceInv
<1> QED BY <1>1, PipelineInvInit DEF HandoffInv

LEMMA HandoffInvariance == PipelineSpec => []HandoffInv
<1>1. HandoffInv /\ [PipelineNext]_pipelineVars => HandoffInv'
  BY PipelineInvStep, StartedStep, AnalysedStep, DoneStep, PlaceStep DEF HandoffInv
<1> QED BY <1>1, HandoffInitially, PTL DEF PipelineSpec

(* Wherever a handler is interrupted, and however often it runs, the next  *)
(* step of every notebook is in the queue.                                 *)
THEOREM NextStepCorrect == PipelineSpec => []NextStepIsQueued
BY HandoffSuffices, HandoffInvariance, PTL

-----------------------------------------------------------------------------
(* What pings cost: PingsPaidFor.                                          *)
(*                                                                         *)
(* The bound counts what happened; the argument counts what can still      *)
(* happen.  An incident has one right to ping a channel, from its INSERT.  *)
(* The right lies in a job nobody handles, or is borne by the worker that  *)
(* handles the job, passes to the next job with the handoff, and is used   *)
(* up by Send.  A second right appears only where a job is to be run again *)
(* although its worker may have pinged: a lost claim, a handler that       *)
(* overran, a failed statement.  A conflict in SaveAnalysis is none of     *)
(* these: the worker it stops had not pinged yet.  The books are kept with *)
(* Balanced, as those of the attempts are in JobQueueProofs.               *)

(* The handler, run to its end, comes to Send for this channel.            *)
WillPing(w, c) ==
  \/ handler[w].pc \in {"collect", "analyzeHandoff", "analyze", "provider", "save",
                        "notifyHandoff", "notify"}
  \/ /\ handler[w].pc = "send"
     /\ \E m \in DOMAIN Channels : m >= handler[w].next /\ Channels[m] = c
  \/ /\ handler[w].pc = "record"
     /\ \E m \in DOMAIN Channels : m > handler[w].next /\ Channels[m] = c

Bearers(i, c) ==
  {w \in Workers : held[w] # NoJob /\ Inc(w) = i /\ WillPing(w, c)}

(* The jobs of an incident that a worker may still claim.                  *)
Waiting(i) ==
  {j \in Jobs : /\ about[j] = i
                /\ \/ status[j] = "pending"
                   \/ /\ status[j] = "running"
                      /\ stale[j] \/ \A w \in Workers : held[w] # j}

BalanceInv ==
  \A i \in Incidents, c \in ChannelNames :
    Balanced(pings[i][c], Bearers(i, c), Waiting(i), lost + faults)

-----------------------------------------------------------------------------
(* A handler that moves on keeps a right it bears, and has none after the  *)
(* handoff; after Send it has none for the channel it tried.               *)
LEMMA MoverBears ==
  ASSUME PipelineInv, [PipelineNext]_pipelineVars, NEW c,
         NEW w \in Workers, HandlerStep(w), held'[w] # NoJob, WillPing(w, c)'
  PROVE  /\ WillPing(w, c)
         /\ ~EnqueueAnalyze(w) /\ ~EnqueueNotify(w)
         /\ Send(w) => c # Channels[handler[w].next]
<1>0. /\ handler \in [Workers -> HandlerState] /\ held \in [Workers -> Jobs \cup {NoJob}]
  BY DEF PipelineInv, PipelineTypeOK, QueueTypeOK
<1>1. ~HandlerDone(w) /\ ~SaveConflict(w)
  BY <1>0 DEF HandlerDone, Complete, SaveConflict, HandlerError, Retry, Fail, Overwrite
<1>2. CASE EnqueueAnalyze(w) \/ EnqueueNotify(w)
  <2>1. handler'[w].pc = "return"
    BY <1>0, <1>2 DEF EnqueueAnalyze, EnqueueNotify, Go, HandlerState
  <2> QED BY <2>1 DEF WillPing
<1>3. CASE \/ CollectEvidence(w) \/ LoadAnalysisRequest(w) \/ ProviderAnswers(w)
           \/ SaveAnalysis(w) \/ LoadNotification(w)
  <2>1. handler[w].pc \in {"collect", "analyze", "provider", "save", "notify"}
    BY <1>3
    DEF CollectEvidence, LoadAnalysisRequest, ProviderAnswers, SaveAnalysis, LoadNotification, At
  <2> QED
    BY <2>1 DEF WillPing, EnqueueAnalyze, EnqueueNotify, Send, At
<1>4. CASE RecordQuiet(w)
  <2>1. handler'[w].pc = "return"
    BY <1>0, <1>4 DEF RecordQuiet, Go, HandlerState
  <2> QED BY <2>1 DEF WillPing
<1>5. CASE Send(w)
  <2>1. /\ handler[w].pc = "send" /\ handler'[w].pc = "record"
        /\ handler'[w].next = handler[w].next
        /\ held[w] # NoJob
    BY <1>0, <1>5 DEF Send, At, HandlerState
  <2>2. handler[w].next \in DOMAIN Channels /\ DOMAIN Channels \subseteq Nat
    BY <2>1, PipelineAssumption DEF PipelineInv, HandlerInv, Stage
  <2>3. PICK m \in DOMAIN Channels : m > handler[w].next /\ Channels[m] = c
    BY <2>1 DEF WillPing
  <2>4. m >= handler[w].next /\ m # handler[w].next
    BY <2>2, <2>3
  <2>5. c # Channels[handler[w].next]
    BY <2>2, <2>3, <2>4, PipelineAssumption
  <2> QED BY <2>1, <2>3, <2>4, <2>5 DEF WillPing, EnqueueAnalyze, EnqueueNotify, At
<1>6. CASE RecordOutcome(w)
  <2>1. handler[w].pc = "record" /\ held[w] # NoJob
    BY <1>6 DEF RecordOutcome, At
  <2>2. handler[w].next \in DOMAIN Channels /\ DOMAIN Channels \subseteq Nat
    BY <2>1, PipelineAssumption DEF PipelineInv, HandlerInv, Stage
  <2>3. \/ handler'[w].pc = "return"
        \/ handler'[w].pc = "send" /\ handler'[w].next = handler[w].next + 1
    BY <1>0, <1>6 DEF RecordOutcome, Blank
  <2>4. PICK m \in DOMAIN Channels : m >= handler[w].next + 1 /\ Channels[m] = c
    BY <2>3 DEF WillPing
  <2>5. m > handler[w].next
    BY <2>2, <2>4
  <2> QED BY <2>1, <2>4, <2>5 DEF WillPing, EnqueueAnalyze, EnqueueNotify, Send, At
<1> QED
  BY <1>1, <1>2, <1>3, <1>4, <1>5, <1>6 DEF HandlerStep

(* Who bears a right after a step bore it before or has just claimed it.   *)
LEMMA BearersMove ==
  ASSUME PipelineInv, [PipelineNext]_pipelineVars, NEW i, NEW c,
         NEW v \in Workers, v \in Bearers(i, c)', ~Claim(v)
  PROVE  /\ v \in Bearers(i, c)
         /\ ~EnqueueAnalyze(v) /\ ~EnqueueNotify(v)
         /\ Send(v) => c # Channels[handler[v].next]
<1>0. /\ handler \in [Workers -> HandlerState] /\ held \in [Workers -> Jobs \cup {NoJob}]
  BY DEF PipelineInv, PipelineTypeOK, QueueTypeOK
<1>1. held'[v] # NoJob /\ Inc(v)' = i /\ WillPing(v, c)'
  BY DEF Bearers
<1>2. CASE held[v] # NoJob /\ held'[v] = held[v] /\ handler'[v] = handler[v]
  <2>1. Inc(v) = i /\ WillPing(v, c)
    BY <1>1, <1>2, StillHandled DEF WillPing
  <2>2. ~EnqueueAnalyze(v) /\ ~EnqueueNotify(v) /\ ~Send(v)
    BY <1>0, <1>2 DEF EnqueueAnalyze, EnqueueNotify, Send, At, Go, HandlerState
  <2> QED BY <1>2, <2>1, <2>2 DEF Bearers
<1>3. CASE HandlerStep(v)
  <2>1. /\ WillPing(v, c)
        /\ ~EnqueueAnalyze(v) /\ ~EnqueueNotify(v)
        /\ Send(v) => c # Channels[handler[v].next]
    BY <1>1, <1>3, MoverBears
  <2>2. ~HandlerDone(v) /\ ~SaveConflict(v)
    BY <1>0, <1>1 DEF HandlerDone, Complete, SaveConflict, HandlerError, Retry, Fail, Overwrite
  <2>3. held[v] # NoJob /\ held'[v] = held[v]
    BY <1>3, <2>1, <2>2
    DEF HandlerStep, At, CollectEvidence, LoadAnalysisRequest, ProviderAnswers, SaveAnalysis,
        LoadNotification, RecordQuiet, Send, RecordOutcome, queueVars
  <2>4. Inc(v) = i
    BY <1>1, <2>3, StillHandled
  <2> QED BY <2>1, <2>3, <2>4 DEF Bearers
<1> QED BY <1>1, <1>2, <1>3, WhoMoves

(* A job that waits after a step was waiting, or was inserted, or was let  *)
(* go to be run again, or has gone stale under its worker.                 *)
LEMMA WaitingMoves ==
  ASSUME PipelineInv, [PipelineNext]_pipelineVars, NEW i,
         NEW j \in Jobs, j \in Waiting(i)'
  PROVE  \/ j \in Waiting(i)
         \/ about'[j] = i /\ Enqueue(j)
         \/ /\ about[j] = i
            /\ \/ \E w \in Workers : held[w] = j /\ (Retry(w) \/ Abandon(w))
               \/ HandlerOverruns(j)
<1>0. JobsTypeOK /\ HeldInv
  BY DEF PipelineInv, PipelineTypeOK, JobsTypeOK
<1>1. /\ about'[j] = i
      /\ status'[j] \in {"pending", "running"}
      /\ status'[j] = "running" => stale'[j] \/ \A w \in Workers : held'[w] # j
  BY DEF Waiting
<1>2. CASE status[j] = "absent"
  <2>1. ASSUME NEW w \in Workers, Dequeue(w) \/ Complete(w) \/ Retry(w) \/ Fail(w) \/ Abandon(w)
        PROVE  status'[j] = "absent"
    BY <1>0, <1>2, <2>1
    DEF Dequeue, FirstRunnable, Runnable, Complete, Retry, Fail, Overwrite, Abandon, rowVars,
        JobsTypeOK, QueueTypeOK, HeldInv
  <2>2. ASSUME NEW k \in Jobs, k # j, Enqueue(k) PROVE status'[j] = "absent"
    BY <1>0, <1>2, <2>2 DEF Enqueue, JobsTypeOK, QueueTypeOK
  <2> QED
    BY <1>1, <1>2, <2>1, <2>2, PipelineStepIsQueueStep
    DEF QueueNext, IdlePoll, BackoffElapsed, OrphanGoesStale, HandlerOverruns, queueVars
<1>3. CASE status[j] # "absent"
  <2>1. about[j] = i
    BY <1>1, <1>3, RowsStay
  <2>2. ASSUME NEW w \in Workers, Dequeue(w) PROVE j \in Waiting(i)
    <3>1. PICK k \in Jobs : /\ status' = [status EXCEPT ![k] = "running"]
                            /\ stale' = [stale EXCEPT ![k] = FALSE]
                            /\ held' = [held EXCEPT ![w] = k]
      BY <2>2 DEF Dequeue, FirstRunnable, Runnable
    <3>2. held[w] = NoJob
      BY <2>2 DEF Dequeue
    <3>3. j # k
      BY <1>0, <1>1, <3>1 DEF JobsTypeOK, QueueTypeOK
    <3>4. status[j] = status'[j] /\ stale[j] = stale'[j]
      BY <1>0, <3>1, <3>3 DEF JobsTypeOK, QueueTypeOK
    <3>5. ASSUME \A v \in Workers : held'[v] # j PROVE \A v \in Workers : held[v] # j
      BY <1>0, <3>1, <3>2, <3>5, QueueAssumption DEF JobsTypeOK, QueueTypeOK
    <3> QED BY <1>1, <2>1, <3>4, <3>5 DEF Waiting
  <2>3. ASSUME NEW w \in Workers, Complete(w) \/ Fail(w) PROVE j \in Waiting(i)
    <3>1. PICK s \in {"done", "failed"} :
            /\ status' = [status EXCEPT ![held[w]] = s]
            /\ stale' = [stale EXCEPT ![held[w]] = FALSE]
            /\ held' = [held EXCEPT ![w] = NoJob]
      BY <2>3 DEF Complete, Fail, Overwrite
    <3>2. held[w] # j
      BY <1>0, <1>1, <3>1 DEF JobsTypeOK, QueueTypeOK
    <3>3. status[j] = status'[j] /\ stale[j] = stale'[j]
      BY <1>0, <3>1, <3>2 DEF JobsTypeOK, QueueTypeOK
    <3>4. ASSUME \A v \in Workers : held'[v] # j PROVE \A v \in Workers : held[v] # j
      BY <1>0, <3>1, <3>2, <3>4 DEF JobsTypeOK, QueueTypeOK
    <3> QED BY <1>1, <2>1, <3>3, <3>4 DEF Waiting
  <2>4. ASSUME NEW w \in Workers, held[w] # j, Retry(w) \/ Abandon(w) PROVE j \in Waiting(i)
    <3>1. /\ held' = [held EXCEPT ![w] = NoJob]
          /\ status'[j] = status[j] /\ stale'[j] = stale[j]
      BY <1>0, <2>4 DEF Retry, Overwrite, Abandon, rowVars, JobsTypeOK, QueueTypeOK
    <3>2. ASSUME \A v \in Workers : held'[v] # j PROVE \A v \in Workers : held[v] # j
      BY <1>0, <2>4, <3>1, <3>2 DEF JobsTypeOK, QueueTypeOK
    <3> QED BY <1>1, <2>1, <3>1, <3>2 DEF Waiting
  <2>5. ASSUME NEW k \in Jobs, Enqueue(k) \/ BackoffElapsed(k) PROVE j \in Waiting(i)
    <3>1. status'[j] = status[j] /\ stale' = stale /\ held' = held
      BY <1>0, <1>3, <2>5 DEF Enqueue, BackoffElapsed, workerVars, JobsTypeOK, QueueTypeOK
    <3> QED BY <1>1, <2>1, <3>1 DEF Waiting
  <2>6. ASSUME NEW k \in Jobs, OrphanGoesStale(k) \/ (k # j /\ HandlerOverruns(k))
        PROVE  j \in Waiting(i)
    <3>1. status' = status /\ held' = held
      BY <2>6 DEF OrphanGoesStale, HandlerOverruns, workerVars
    <3>2. k # j => stale'[j] = stale[j]
      BY <1>0, <2>6 DEF OrphanGoesStale, HandlerOverruns, JobsTypeOK, QueueTypeOK
    <3>3. k = j => \A v \in Workers : held[v] # j
      BY <2>6 DEF OrphanGoesStale
    <3> QED BY <1>1, <2>1, <3>1, <3>2, <3>3 DEF Waiting
  <2>7. ASSUME UNCHANGED queueVars PROVE j \in Waiting(i)
    BY <1>1, <2>1, <2>7 DEF Waiting, queueVars
  <2> QED
    BY <2>1, <2>2, <2>3, <2>4, <2>5, <2>6, <2>7, PipelineStepIsQueueStep
    DEF QueueNext, IdlePoll
<1> QED BY <1>2, <1>3

-----------------------------------------------------------------------------
(* An incident that is not on file has no rights given out and no pings.   *)
LEMMA NothingYet ==
  ASSUME HandoffInv, NEW i \in Incidents, phase[i] = "absent", NEW c \in ChannelNames
  PROVE  Bearers(i, c) = {} /\ Waiting(i) = {} /\ pings[i][c] = 0
<1> USE DEF HandoffInv
<1>1. Bearers(i, c) = {}
  BY HandledIncident DEF Bearers
<1>2. \A j \in Jobs : about[j] = i => status[j] = "absent"
  BY DEF PipelineInv, JobsInv
<1>3. Waiting(i) = {}
  BY <1>2 DEF Waiting
<1>4. analyses[i] = <<>>
  BY <1>2 DEF AnalysedInv, HasRow
<1>5. pings[i][c] \in Nat /\ ~(pings[i][c] > 0)
  BY <1>4 DEF PipelineInv, PipelineTypeOK, PingsFollowAnalysis
<1> QED BY <1>1, <1>3, <1>5

(* Only Send delivers: what was delivered otherwise stays.                 *)
LEMMA PingsStay ==
  ASSUME [PipelineNext]_pipelineVars, ~ \E w \in Workers : Send(w)
  PROVE  pings' = pings
BY DEF PipelineNext, HandlerStep, IngestCreates, SaveResolution, FlagEvidence, Claim, Idle,
       StatementFails, ClaimLost, TimePasses, CollectEvidence, EnqueueAnalyze,
       LoadAnalysisRequest, ProviderAnswers, SaveAnalysis, SaveConflict, EnqueueNotify,
       LoadNotification, RecordQuiet, RecordOutcome, HandlerDone, pipelineVars, storeVars,
       notifyVars

LEMMA BalanceStep ==
  ASSUME HandoffInv, BalanceInv, [PipelineNext]_pipelineVars
  PROVE  BalanceInv'
<1> SUFFICES ASSUME NEW i \in Incidents, NEW c \in ChannelNames
             PROVE  Balanced(pings[i][c], Bearers(i, c), Waiting(i), lost + faults)'
  BY DEF BalanceInv, ChannelNames
<1> DEFINE A == Bearers(i, c)
           B == Waiting(i)
           d == pings[i][c]
           s == lost + faults
           Goal == Balanced(d, A, B, s)'
<1> USE DEF HandoffInv
<1>0. /\ JobsTypeOK /\ QueueTypeOK
      /\ handler \in [Workers -> HandlerState] /\ held \in [Workers -> Jobs \cup {NoJob}]
      /\ pings \in [Incidents -> [ChannelNames -> Nat]]
      /\ lost \in Nat /\ faults \in Nat
  BY QueueAssumption, PipelineAssumption DEF PipelineInv, PipelineTypeOK, QueueTypeOK, JobsTypeOK
<1>1. d \in Nat /\ s \in Nat /\ Balanced(d, A, B, s)
  BY <1>0 DEF BalanceInv
<1>2. ASSUME NEW v \in Workers, v \in A', ~Claim(v)
      PROVE  /\ v \in A
             /\ ~EnqueueAnalyze(v) /\ ~EnqueueNotify(v)
             /\ Send(v) => c # Channels[handler[v].next]
  BY <1>2, BearersMove
<1>3. A' \subseteq Workers /\ B' \subseteq Jobs
  BY DEF Bearers, Waiting
<1>4. ASSUME NEW j \in Jobs, j \in B'
      PROVE  \/ j \in B
             \/ about'[j] = i /\ Enqueue(j)
             \/ /\ about[j] = i
                /\ \/ \E w \in Workers : held[w] = j /\ (Retry(w) \/ Abandon(w))
                   \/ HandlerOverruns(j)
  BY <1>4, WaitingMoves
<1> HIDE DEF A, B, d, s
(* What the steps of the queue do to the claims.                           *)
<1>5. ASSUME NEW v \in Workers, Claim(v)
      PROVE  held[v] = NoJob /\ held'[v] \in Jobs
  BY <1>0, <1>5 DEF Claim, Dequeue, FirstRunnable, Runnable
<1>6. ASSUME NEW v \in Workers, Retry(v) \/ Abandon(v)
      PROVE  held[v] # NoJob /\ held' = [held EXCEPT ![v] = NoJob]
  BY <1>6 DEF Retry, Overwrite, Abandon
<1>7. ASSUME NEW k \in Jobs, Enqueue(k)
      PROVE  /\ held' = held /\ lost' = lost
             /\ status[k] = "absent" /\ status' = [status EXCEPT ![k] = "pending"]
  BY <1>7 DEF Enqueue, workerVars, faultVars
<1>8. ASSUME NEW k \in Jobs, HandlerOverruns(k)
      PROVE  /\ held' = held /\ lost' = lost + 1 /\ status' = status
             /\ ~stale[k] /\ stale' = [stale EXCEPT ![k] = TRUE]
  BY <1>8 DEF HandlerOverruns, workerVars
<1>9. ASSUME held' = held PROVE A' \subseteq A
  BY <1>2, <1>3, <1>5, <1>9, QueueAssumption
<1>10. ASSUME held' = held, status' = status, lost' = lost PROVE B' \subseteq B
  BY <1>0, <1>3, <1>4, <1>6, <1>7, <1>8, <1>10, QueueAssumption DEF QueueTypeOK
<1>11. ASSUME NEW j \in Jobs, Enqueue(j)
       PROVE  /\ A' \subseteq A
              /\ B' \subseteq B \cup {j}
              /\ about'[j] # i => B' \subseteq B
  BY <1>0, <1>3, <1>4, <1>6, <1>7, <1>8, <1>9, <1>11, QueueAssumption DEF QueueTypeOK
<1>12. ASSUME NEW w \in Workers, held[w] # NoJob, held' = [held EXCEPT ![w] = NoJob]
       PROVE  /\ A' \subseteq A /\ w \notin A'
              /\ B' \subseteq B \cup {held[w]}
              /\ about[held[w]] # i => B' \subseteq B
  <2>1. w \notin A'
    BY <1>0, <1>12 DEF A, Bearers
  <2>2. ASSUME NEW v \in Workers PROVE ~Claim(v)
    BY <1>0, <1>5, <1>12, QueueAssumption
  <2>3. ASSUME NEW j \in Jobs, j \in B', j \notin B PROVE j = held[w] /\ about[j] = i
    <3>1. PICK v \in Workers : /\ held[v] = j /\ about[j] = i
                               /\ held' = [held EXCEPT ![v] = NoJob]
      BY <1>0, <1>4, <1>6, <1>7, <1>8, <1>12, <2>3
    <3>2. v = w
      BY <1>0, <1>12, <3>1, QueueAssumption
    <3> QED BY <3>1, <3>2
  <2> QED BY <1>2, <1>3, <2>1, <2>2, <2>3
(* The actions.                                                            *)
<1>13. ASSUME NEW k \in Incidents, IngestCreates(k) PROVE Goal
  <2>1. PICK j \in Jobs : Enqueue(j) /\ about' = [about EXCEPT ![j] = k]
    BY <1>13 DEF IngestCreates, Insert
  <2>2. s' = s /\ d' = d
    BY <1>7, <1>13, <2>1 DEF IngestCreates, notifyVars, s, d
  <2>3. CASE k = i
    <3>1. A = {} /\ B = {} /\ d = 0
      BY <1>13, <2>3, NothingYet DEF IngestCreates, A, B, d
    <3>2. A' \subseteq {} /\ B' \subseteq {j}
      BY <1>11, <2>1, <3>1
    <3>3. Balanced(0, {}, {j}, s)
      BY <1>1, EmptyBalance
    <3>4. Balanced(0, A', B', s)
      BY <1>1, <3>2, <3>3, RightsLapse
    <3> QED BY <2>2, <3>1, <3>4 DEF Balanced
  <2>4. CASE k # i
    <3>1. about'[j] # i
      BY <1>0, <2>1, <2>4 DEF JobsTypeOK
    <3>2. Balanced(d, A', B', s)
      BY <1>1, <1>11, <2>1, <3>1, RightsLapse
    <3> QED BY <2>2, <3>2 DEF Balanced
  <2> QED BY <2>3, <2>4
<1>14. ASSUME NEW w \in Workers, Claim(w) PROVE Goal
  <2>1. PICK j \in Runnable : /\ status' = [status EXCEPT ![j] = "running"]
                              /\ stale' = [stale EXCEPT ![j] = FALSE]
                              /\ held' = [held EXCEPT ![w] = j]
                              /\ lost' = lost
    BY <1>14 DEF Claim, Dequeue, FirstRunnable, faultVars
  <2>2. j \in Jobs /\ status[j] # "absent" /\ about' = about
    BY <1>14, <2>1 DEF Runnable, Claim, jobVars
  <2>3. s' = s /\ d' = d
    BY <1>14, <2>1 DEF Claim, storeVars, notifyVars, s, d
  <2>4. A' \subseteq A \cup {w}
    BY <1>0, <1>2, <1>3, <1>5, <2>1, QueueAssumption
  <2>5. B' \subseteq B \ {j}
    <3>1. j \notin B'
      BY <1>0, <2>1, <2>2 DEF B, Waiting, QueueTypeOK
    <3>2. held[w] = NoJob /\ held'[w] # NoJob
      BY <1>5, <1>14, QueueAssumption
    <3>3. ASSUME NEW k \in Jobs PROVE ~Enqueue(k) /\ ~HandlerOverruns(k)
      BY <1>7, <1>8, <3>2
    <3>4. ASSUME NEW v \in Workers PROVE ~Retry(v) /\ ~Abandon(v)
      BY <1>0, <1>6, <3>2
    <3> QED BY <1>3, <1>4, <3>1, <3>3, <3>4
  <2>6. CASE about[j] = i
    <3>1. j \in B
      BY <2>1, <2>6 DEF B, Waiting, Runnable
    <3>2. A' \in SUBSET (A \cup {w}) /\ B' \in SUBSET (B \ {j})
      BY <2>4, <2>5
    <3>3. Balanced(d, A', B', s)
      BY <1>1, <3>1, <3>2, RightIsTaken
    <3> QED BY <2>3, <3>3 DEF Balanced
  <2>7. CASE about[j] # i
    <3>1. w \notin A'
      BY <1>0, <2>1, <2>2, <2>7 DEF A, Bearers, Inc
    <3>2. A' \in SUBSET A /\ B' \in SUBSET B
      BY <2>4, <2>5, <3>1
    <3>3. Balanced(d, A', B', s)
      BY <1>1, <3>2, RightsLapse
    <3> QED BY <2>3, <3>3 DEF Balanced
  <2> QED BY <2>6, <2>7
<1>15. ASSUME NEW w \in Workers, StatementFails(w) \/ ClaimLost(w) PROVE Goal
  <2>0. held[w] # NoJob /\ held' = [held EXCEPT ![w] = NoJob]
    BY <1>15
    DEF StatementFails, ClaimLost, HandlerError, Retry, Fail, Overwrite, Abandon
  <2>1. s' = s + 1
    <3>1. CASE StatementFails(w)
      <4>1. lost' = lost /\ faults' = faults + 1
        BY <3>1 DEF StatementFails, HandlerError, Retry, Fail, Overwrite, faultVars
      <4> QED BY <1>0, <4>1 DEF s
    <3>2. CASE ClaimLost(w)
      <4>1. lost' = lost + 1 /\ faults' = faults
        BY <3>2 DEF ClaimLost, Abandon
      <4> QED BY <1>0, <4>1 DEF s
    <3> QED BY <1>15, <3>1, <3>2
  <2>2. d' = d
    BY <1>15 DEF StatementFails, ClaimLost, storeVars, notifyVars, d
  <2>3. A' \in SUBSET A /\ B' \in SUBSET (B \cup {held[w]})
    BY <1>12, <2>0
  <2>4. Balanced(d, A', B', s + 1)
    BY <1>1, <2>3, RightIsBought
  <2> QED BY <2>1, <2>2, <2>4 DEF Balanced
<1>16. ASSUME NEW w \in Workers, HandlerDone(w) PROVE Goal
  <2>1. /\ held[w] # NoJob /\ held' = [held EXCEPT ![w] = NoJob]
        /\ status' = [status EXCEPT ![held[w]] = "done"] /\ lost' = lost
    BY <1>16 DEF HandlerDone, Complete, Overwrite, faultVars
  <2>2. s' = s /\ d' = d
    BY <1>16, <2>1 DEF HandlerDone, storeVars, notifyVars, s, d
  <2>3. held[w] \notin B'
    BY <1>0, <2>1 DEF B, Waiting, QueueTypeOK
  <2>4. A' \in SUBSET A /\ B' \in SUBSET B
    BY <1>12, <2>1, <2>3
  <2>5. Balanced(d, A', B', s)
    BY <1>1, <2>4, RightsLapse
  <2> QED BY <2>2, <2>5 DEF Balanced
<1>17. ASSUME NEW w \in Workers, SaveConflict(w) PROVE Goal
  <2>1. /\ held[w] # NoJob /\ held' = [held EXCEPT ![w] = NoJob] /\ lost' = lost
    BY <1>17 DEF SaveConflict, HandlerError, Retry, Fail, Overwrite, faultVars
  <2>2. s' = s /\ d' = d
    BY <1>17, <2>1 DEF SaveConflict, storeVars, notifyVars, s, d
  <2>3. A' \in SUBSET A /\ w \notin A' /\ B' \in SUBSET (B \cup {held[w]})
    BY <1>12, <2>1
  <2>4. CASE about[held[w]] = i
    <3>1. w \in A
      BY <1>17, <2>4 DEF SaveConflict, At, A, Bearers, Inc, WillPing
    <3>2. A' \in SUBSET (A \ {w})
      BY <2>3
    <3>3. Balanced(d, A', B', s)
      BY <1>1, <2>3, <3>1, <3>2, RightIsPassedOn
    <3> QED BY <2>2, <3>3 DEF Balanced
  <2>5. CASE about[held[w]] # i
    <3>1. B' \in SUBSET B
      BY <1>12, <2>1, <2>5
    <3>2. Balanced(d, A', B', s)
      BY <1>1, <2>3, <3>1, RightsLapse
    <3> QED BY <2>2, <3>2 DEF Balanced
  <2> QED BY <2>4, <2>5
<1>18. ASSUME NEW w \in Workers, EnqueueAnalyze(w) \/ EnqueueNotify(w) PROVE Goal
  <2>1. PICK j \in Jobs : Enqueue(j) /\ about' = [about EXCEPT ![j] = Inc(w)]
    BY <1>18 DEF EnqueueAnalyze, EnqueueNotify, Insert
  <2>2. s' = s /\ d' = d
    BY <1>7, <1>18, <2>1 DEF EnqueueAnalyze, EnqueueNotify, storeVars, notifyVars, s, d
  <2>3. A' \in SUBSET A /\ B' \in SUBSET (B \cup {j})
    BY <1>11, <2>1
  <2>4. CASE Inc(w) = i
    <3>1. w \in A
      BY <1>18, <2>4 DEF EnqueueAnalyze, EnqueueNotify, At, A, Bearers, WillPing
    <3>2. ~Claim(w)
      BY <1>5, <1>18 DEF EnqueueAnalyze, EnqueueNotify, At
    <3>3. A' \in SUBSET (A \ {w})
      BY <1>2, <1>18, <2>3, <3>2
    <3>4. Balanced(d, A', B', s)
      BY <1>1, <2>3, <3>1, <3>3, RightIsPassedOn
    <3> QED BY <2>2, <3>4 DEF Balanced
  <2>5. CASE Inc(w) # i
    <3>1. about'[j] # i
      BY <1>0, <2>1, <2>5 DEF JobsTypeOK
    <3>2. B' \in SUBSET B
      BY <1>11, <2>1, <3>1
    <3>3. Balanced(d, A', B', s)
      BY <1>1, <2>3, <3>2, RightsLapse
    <3> QED BY <2>2, <3>3 DEF Balanced
  <2> QED BY <2>4, <2>5
<1>19. ASSUME NEW w \in Workers, Send(w) PROVE Goal
  <2>1. UNCHANGED <<held, status, lost, faults>> /\ held[w] # NoJob /\ handler[w].pc = "send"
    BY <1>19 DEF Send, At, queueVars
  <2>2. s' = s
    BY <2>1 DEF s
  <2>3. A' \in SUBSET A /\ B' \in SUBSET B
    BY <1>9, <1>10, <2>1
  <2>4. CASE Inc(w) = i /\ c = Channels[handler[w].next] /\ Delivered(w, c)
    <3>1. d' = d + 1
      BY <1>0, <2>4 DEF Delivered, d
    <3>2. handler[w].next \in DOMAIN Channels /\ handler[w].next \in Nat
      BY <2>1, PipelineAssumption DEF PipelineInv, HandlerInv, Stage
    <3>3. w \in A
      BY <2>1, <2>4, <3>2 DEF A, Bearers, WillPing
    <3>4. ~Claim(w)
      BY <1>5, <2>1
    <3>5. A' \in SUBSET (A \ {w})
      BY <1>2, <1>19, <2>3, <2>4, <3>4
    <3>6. Balanced(d + 1, A', B', s)
      BY <1>1, <2>3, <3>3, <3>5, RightIsUsed
    <3> QED BY <2>2, <3>1, <3>6 DEF Balanced
  <2>5. CASE ~(Inc(w) = i /\ c = Channels[handler[w].next] /\ Delivered(w, c))
    <3>1. Delivered(w, Channels[handler[w].next]) \/ pings' = pings
      BY <1>19 DEF Send
    <3>2. d' = d
      BY <1>0, <2>5, <3>1 DEF Delivered, d
    <3>3. Balanced(d, A', B', s)
      BY <1>1, <2>3, RightsLapse
    <3> QED BY <2>2, <3>2, <3>3 DEF Balanced
  <2> QED BY <2>4, <2>5
<1>20. ASSUME NEW j \in Jobs, TimePasses(j) PROVE Goal
  <2>1. d' = d /\ faults' = faults /\ held' = held /\ status' = status
    BY <1>20
    DEF TimePasses, BackoffElapsed, OrphanGoesStale, HandlerOverruns, workerVars, faultVars, storeVars,
        notifyVars, d
  <2>2. A' \in SUBSET A
    BY <1>9, <2>1
  <2>3. CASE lost' = lost
    <3>1. B' \in SUBSET B /\ s' = s
      BY <1>10, <2>1, <2>3 DEF s
    <3>2. Balanced(d, A', B', s)
      BY <1>1, <2>2, <3>1, RightsLapse
    <3> QED BY <2>1, <3>1, <3>2 DEF Balanced
  <2>4. CASE lost' # lost
    <3>1. HandlerOverruns(j)
      BY <1>20, <2>4 DEF TimePasses, BackoffElapsed, OrphanGoesStale, workerVars, faultVars
    <3>2. s' = s + 1
      BY <1>0, <1>8, <2>1, <3>1 DEF s
    <3>3. ASSUME NEW k \in Jobs, k \in B', k # j PROVE k \in B
      <4>1. ~HandlerOverruns(k)
        BY <1>0, <1>8, <3>1, <3>3 DEF QueueTypeOK
      <4>2. ~Enqueue(k)
        BY <1>7, <2>4
      <4>3. ASSUME NEW v \in Workers, held[v] = k PROVE ~Retry(v) /\ ~Abandon(v)
        BY <1>0, <1>6, <2>1
      <4> QED BY <1>4, <3>3, <4>1, <4>2, <4>3
    <3>4. B' \in SUBSET (B \cup {j})
      BY <1>3, <3>3
    <3>5. Balanced(d, A', B', s + 1)
      BY <1>1, <2>2, <3>4, RightIsBought
    <3> QED BY <2>1, <3>2, <3>5 DEF Balanced
  <2> QED BY <2>3, <2>4
<1>21. ASSUME UNCHANGED <<queueVars, pings, faults>> PROVE Goal
  <2>1. UNCHANGED <<held, status, lost>> /\ s' = s /\ d' = d
    BY <1>21 DEF queueVars, s, d
  <2>2. A' \in SUBSET A /\ B' \in SUBSET B
    BY <1>9, <1>10, <2>1
  <2>3. Balanced(d, A', B', s)
    BY <1>1, <2>2, RightsLapse
  <2> QED BY <2>1, <2>3 DEF Balanced
<1>22. \/ \E k \in Incidents : IngestCreates(k)
       \/ \E w \in Workers :
            \/ Claim(w) \/ StatementFails(w) \/ ClaimLost(w) \/ HandlerDone(w)
            \/ SaveConflict(w) \/ EnqueueAnalyze(w) \/ EnqueueNotify(w) \/ Send(w)
       \/ \E j \in Jobs : TimePasses(j)
       \/ UNCHANGED <<queueVars, pings, faults>>
  BY DEF PipelineNext, HandlerStep, SaveResolution, FlagEvidence, Idle, IdlePoll, CollectEvidence,
         LoadAnalysisRequest, ProviderAnswers, SaveAnalysis, LoadNotification, RecordQuiet,
         RecordOutcome, pipelineVars, storeVars, notifyVars
<1>23. Goal
  BY <1>13, <1>14, <1>15, <1>16, <1>17, <1>18, <1>19, <1>20, <1>21, <1>22
<1> QED BY <1>23 DEF A, B, d, s

LEMMA BalanceInitially == PipelineInit => BalanceInv
<1> SUFFICES ASSUME PipelineInit, NEW i \in Incidents, NEW c \in ChannelNames
             PROVE  Balanced(pings[i][c], Bearers(i, c), Waiting(i), lost + faults)
  BY DEF BalanceInv
<1>1. Bearers(i, c) = {} /\ Waiting(i) = {} /\ pings[i][c] = 0 /\ lost + faults = 0
  BY DEF PipelineInit, QueueInit, Bearers, Waiting
<1>2. IsFiniteSet({}) /\ Cardinality({}) = 0
  BY FS_EmptySet
<1> QED BY <1>1, <1>2 DEF Balanced

LEMMA BalanceSuffices == HandoffInv /\ BalanceInv => PingsPaidFor
<1> SUFFICES ASSUME HandoffInv, BalanceInv, NEW i \in Incidents, NEW c \in ChannelNames
             PROVE  pings[i][c] <= 1 + lost + faults
  BY DEF PingsPaidFor
<1>1. pings[i][c] \in Nat /\ lost \in Nat /\ faults \in Nat
  BY QueueAssumption, PipelineAssumption DEF HandoffInv, PipelineInv, PipelineTypeOK, QueueTypeOK
<1>2. pings[i][c] <= 1 + (lost + faults)
  BY <1>1, RightsInHand DEF BalanceInv
<1> QED BY <1>1, <1>2

(* Every ping of a channel after the first is paid for by a claim that was *)
(* lost, a handler that overran its claim or a statement that failed -     *)
(* whatever workers collide, and whether or not channels can be reached.   *)
THEOREM PingsCorrect == PipelineSpec => []PingsPaidFor
<1>1. PipelineSpec => []BalanceInv
  BY BalanceInitially, BalanceStep, HandoffInvariance, PTL DEF PipelineSpec
<1> QED BY <1>1, BalanceSuffices, HandoffInvariance, PTL
=============================================================================
