# A TLA+ model of valaf

valaf turns alerts into incident notebooks: a webhook delivery opens an
incident, a worker collects evidence, has it analysed, publishes the notebook
and pings the engineers, who review and resolve it. This directory holds TLA+
modules of the parts of that path where the order of things matters, TLC
configurations that check them on small instances, and TLAPS proofs that hold
for every instance.

## 1. The system

Two processes share one PostgreSQL database: `valaf serve` (webhooks and the
engineers' pages) and any number of `valaf worker`. All coordination is in
tables; there is no other channel between them.

| Component | State | Operations | Talks to |
|---|---|---|---|
| Webhook intake (`web/intake.go`, `core/intake.go`, `store/incidents.go`) | `incidents`, `alerts` | drop below threshold; find or create the incident; upsert alerts; enqueue `collect` | sources (retry on non-2xx), jobs |
| Job queue (`store/jobs.go`, `0003_jobs.sql`) | `jobs`: status, attempts, run_at, updated_at | Enqueue, Dequeue, Complete, Retry, Fail | workers, intake |
| Worker loop (`worker/worker.go`) | one claimed `Job` in memory | Run, processOne, the three handlers | jobs, services |
| Collection (`core/collect.go`, `store/evidence.go`) | `evidence_items`, `attachments` | Collect, SaveEvidence | collectors, blob store |
| Analysis (`core/analyze.go`, `store/analysis.go`) | `analyses` and its children, `incidents.status`, `triage_verdict` | LoadAnalysisRequest, Analyze, EnforceCitations, SaveAnalysis | AI provider |
| Notification (`core/notify.go`, `store/notifications.go`) | `notifications` | LoadNotification, gate, Send, Record | channels |
| Review (`web/review.go`, `store/review.go`) | columns of `hypotheses`, `evidence_items`, `incidents`; `audit_log` | SetHypothesisVerdict, FlagEvidence, SaveResolution | - |
| Learning corpus (`store/analysis.go` loadSimilar) | resolved incidents | loadSimilar | analysis |
| Notebook and exports (`store/notebook.go`, `export/`) | none | read, number the citations, render | - |
| Blob store (`blob/`, `store/attachments.go`) | files or objects | Put, Open | collectors, web |
| Access (`auth/`, `store/users.go`, `store/sessions.go`, `store/intake_sources.go`) | users, sessions, sources | login, expiry, provisioning | web |
| Migrations (`migrate/`) | `schema_migrations` | Run at every start | - |
| Adapters (`adapters/`), configuration, `cmd/valaf` | none | parsing, HTTP, wiring | the outside |

What is hard about it:

* **Concurrency.** Deliveries of one outage overlap in READ COMMITTED
  transactions; workers claim with `FOR UPDATE SKIP LOCKED`; engineers resolve
  and flag while an incident is being analysed.
* **Failure.** A worker that dies, is shut down, or whose closing UPDATE fails
  leaves its row `running`; after `staleRunning` (5 min) the row is claimed
  again - also if its worker is only slow, for nothing renews `updated_at` and
  some calls in a handler have no deadline (SMTP, the database).
* **Partial work.** A handler is a series of statements and transactions. Each
  may fail, and a retry runs the handler from the start.
* **Duplicates.** Sources redeliver, jobs are retried, a slow claim and its
  successor run the same handler twice.
* **Order.** evidence before analysis, analysis before ping, and the engineer's
  resolution at any point between.

Per component, what makes it correct: a job has one handler and one more for each
that outlives its claim, ends, and is given up only after its attempts; a delivered batch is on
file exactly once it was accepted, one incident per outage, one `collect` job
per incident, nothing added to a closed notebook; each incident has one current
analysis whose verdict is the one on the notebook, citations exist, evidence
only accumulates, a resolved notebook stays resolved, the next step is always
in the queue, pings come after the analysis and are duplicated only by a failure;
the audit log tells what the columns show, a page shows every citation of its
claims, the model learns from verified outcomes and nothing else; an attachment
can be opened, a file in the store is whole, a panel is of the incident, a summary
does not misstate its series; a migration takes effect once, and
nothing serves before its tables exist.

## 2. The modules

```
JobQueue  <--EXTENDS--  Pipeline  --INSTANCE-->  NotebookLife
   ^                       ^
JobQueueProofs  <---  PipelineProofs

NotebookLife  <--INSTANCE--  Notebook  --EXTENDS-->  Selection  <--EXTENDS--  Metrics  <--EXTENDS--  Capture
                                ^                        ^                       ^                      ^
                         NotebookProofs  --->  SelectionProofs  <---  MetricsProofs  <---  CaptureProofs

Intake   <---  IntakeProofs             Startup  <---  StartupProofs

MCJobQueue, MCPipeline, MCIntake, MCNotebook, MCCapture, MCStartup: instances for TLC
```

**JobQueue** has the columns of a row that `Dequeue` tests. Time is abstracted
to what the WHERE clause can see: `due` is `run_at <= now()`, `stale` is
`updated_at < now() - staleRunning`, `earlier` is the order of `run_at`. Each
SQL statement is one action (`Enqueue`, `Dequeue`, `Complete`, `Retry`, `Fail`);
`held` and `seen` are the worker's copy of the row - the test of
`job.Attempts >= job.MaxAttempts` is on the copy, the UPDATEs match the id
alone, and both are modelled that way. `Abandon` is any loss of a claim.
`OrphanGoesStale` and `HandlerOverruns` are the same clock, for rows without and
with a worker on them; the second exists when `SlowHandlers` is TRUE. `overruns`
is a history variable: how often a handler of each job outlived `staleRunning`.

**Pipeline** extends it with what the handlers do. `handler[w].pc` is the place
between two statements where a worker stands, so a claim can be lost, another
worker can run the same job, and an engineer can act at every one of them.
`StatementFails` is an error of any statement, at the cost of one unit of
`faults`; the handler's earlier transactions stay. `SaveAnalysis` is one
transaction whose two halves matter: the rows whose `is_current` it cleared are
fixed first (`cleared`), and the unique index `uq_analyses_current` decides at
the INSERT whether it commits (`SaveAnalysis`) or not (`SaveConflict`). An
answer of the provider may cite any evidence and carry any verdict;
`EnforceCitations` is applied where the code applies it. A `Send` that returns an
error may have delivered its message. Intake and review
appear as `IngestCreates`, `FlagEvidence` and `SaveResolution`.

**NotebookLife** is the abstract specification: open, capture, flag, file an
analysis, resolve. No queue, no workers, no transactions. It has two
implementations, from the two sides of the database: Pipeline, with
`captured <- evidence`, `distrusted <- flagged` and
`analysed <- number of analyses`, and Notebook, where `distrusted` is read off
the columns and `analysed` is the length of the sequence of analyses.

**Intake** models `POST /webhook/{source}` from the parsed batch on. A
transaction is split where another one can notice: `Lookup` takes the snapshot
of the SELECT, `LockRow` waits for the row lock and tests the row again
(READ COMMITTED re-evaluation of `FOR UPDATE ... LIMIT 1`; a row that no longer
qualifies is passed over), `InsertIncident` is private until `Commit`. A
resolution is two steps, for it holds the row lock until it commits. `Redeliver`
is any failure before the reply. `opened` is the start of the transaction, since
that is what `now()` returns. `known` is a history variable: what the creator of
an incident could see.

**Notebook** models what engineers and the analyst read from a notebook and write
to it, between each other's statements. A review transaction is three steps:
the UPDATE, which waits for the row lock and holds it (`Begin`, used by
`SetHypothesisVerdict`, `FlagEvidence`, `SaveResolution`), `RecordAudit`, which
draws the id of the audit record, and `CommitReview`, which makes both visible;
`RollBack` is an error, a cancelled request or a dead server at any point. A
rolled-back transaction has used up its id, as a sequence does. An analysis is
`LoadEvidence`, `LoadSimilar`, one `LoadVerdicts` for each similar incident, and
`SaveAnalysis`, where the model's answer is any set of handles, one of which it
was never given, or the analysis failed: then it cites nothing and has no
provenance. A page, a card or an export is `LoadPageEvidence` and
`LoadPageAnalysis`, as `LoadNotebook` runs outside of a transaction. The queue is
absent here and one analysis is made at a time: what several of them do to each
other is Pipeline's subject. An item may be inserted anywhere in the evidence,
because `captured_at` is the start of a transaction and ids are random.

**Selection** has one operator, `Without`: what is left of a sequence when some
of its values are skipped. The evidence that a request shows, and the samples
that a summary is computed from, are of this form.

**Metrics** is the arithmetic of the Prometheus collector, without state:
`ParseFloats`, `Round2`, `Downsample`, `SeriesSummary`, `Summarize`. A float is an
exact number of thousandths, or an infinity, or NaN; what binary floating point
adds to that (an average of many terms, a half that is not representable) is
left out.

**Capture** models executions of the collect job of one incident, with each
collector configured or not (`roles`, as `buildCollectors` registers them). An
alert is what it says under the names by which Grafana may be referred to
(`UidKeys`, `PidKeys`, `UrlKeys`, in the order in which `resolvePanel` tries
them); the target merges all alerts name by name, in any order of rows
(`Merged`), and `ResolvePanel` takes the first name that has a value. Then come
the outcome of each collector, `Put`, and the transaction that records the items
and attachments; an execution without items records nothing. The local store is
modelled by inodes, since that is what
decides the interleavings: `OpenTmp` truncates whatever inode `<key>.tmp` names,
`WriteTmp` writes to the inode that was opened, `RenameTmp` moves the name and
fails when another Put has moved it. An S3 object is replaced as a whole, also when
the answer is lost and Put returns an error. The image of execution `e` is `e`.
`Reconfigure` is a restart with other collectors or another `BLOB_BACKEND`; the
attachment endpoint opens the store that is configured now.

**Startup** models `serve`, `migrate` and `worker` as processes of possibly
different releases. `migrate.Run` is a step per statement: `CREATE TABLE IF NOT
EXISTS` in two (it looks, then it creates or fails), the SELECT of the applied
versions, and for each pending one `BeginApply`, which waits for a transaction
that applies the same version, and `CommitApply`. `Exit` is what an error does to
the process, `Crash` a kill, `Restart` the supervisor or the operator. A migration
is one message to the server, so a transaction may go on without the process that
began it (`orphans`) and end after that process runs again (`OrphanEnds`). A worker
only polls; without the table `jobs` it logs the error and polls again.

Definitions called *Variant* are deliberate mistakes beside the definition they
vary. No specification uses them; each is there to show that a property is able
to fail.

## 3. What TLC checks

| Run | Instance | Properties | Result |
|---|---|---|---|
| `MCJobQueue` | 2 jobs, 3 workers, 2 attempts, 3 claims lost or overrun, fairness | `QueueTypeOK` `OneHandlerPerJob` `ClaimIsCurrent` `AttemptsPaidFor` `FailedAfterAllAttempts` `FinishedStaysFinished` `EveryJobFinishes` | hold |
| `MCPipeline_answers` | 1 incident, 2 workers, slow handlers, any answer or error, 1 item | `PipelineTypeOK` `OneCurrentAnalysis` `PublishedVerdictIsCurrent` `CitationsExist` `PingsFollowAnalysis` `LifeIsKept` | hold |
| `MCPipeline_ai_down` | 1 incident, 2 workers, the provider always errs, 1 lost claim, 1 failed statement, fairness | `NextStepIsQueued` `PingsPaidFor` `EventuallyPublished` `EventuallyNotified` | hold |
| `MCPipeline_noise` | 1 worker, nothing fails | `NoiseIsQuiet` | violated |
| `MCPipeline_pinged_once` | 1 worker, 2 channels, 1 failed statement | `PingedOnce` | violated |
| `MCIntake_storm` | 2 deliveries of 4 kinds of batch, 1 redelivery, 2 resolutions | `IntakeTypeOK` `RivalsOverlap` `OneCollectJob` `AcceptedIsOnFile` `ClosedTakesNoAlerts` | hold |
| `MCIntake_race` | 2 deliveries of one outage | `OneOutageOneRow` | violated |
| `MCNotebook` | 2 incidents, 2 items, 2 engineers, 2 analyses, 2 audit ids | `NotebookTypeOK` `AuditTellsState` `PageCitesAll` `CitedOnceTrusted` `LearnedFromVerified` `ReviewKeepsLife` | hold |
| `MCCapture_reruns` | 2 executions, 4 alerts, 4 answers, both stores, any collectors | `CaptureTypeOK` `ServedWhileConfigured` `SnapshotsAreWhole` `OverwrittenOnlyByRerun` `PanelOfTheIncident` `SummaryFaithful` | hold |
| `MCCapture_kept` | 2 executions, 1 alert, 1 answer | `CaptureKept` | violated |
| `MCCapture_panel` | 1 execution, 4 alerts | `PanelOfAnAlert` | violated |
| `MCStartup` | 2 servers of two releases, 1 migrate command, 2 workers, 3 crashes, fairness | `StartupTypeOK` `AppliedOnceInOrder` `ServesMigrated` `AllComeUp` | hold |

The five violated runs state what the repository says where the code does
something else:

* *One outage, one row* (`0001_init.sql:93`). `FOR UPDATE` in `findOrCreate`
  locks no row when there is none, and no index makes `grouping_key` unique
  among active incidents. `RivalsOverlap` is what remains true: two such
  notebooks come only from transactions that overlapped.
* *An explicit likely_noise stays quiet* (`notify.go:107`, README line 125).
  When the engineer resolves an incident before its analysis commits, the UPDATE
  that would store the verdict is skipped, the gate reads NULL as `unknown`, and
  everyone is pinged about a closed incident.
* *A failure is recorded, never retried* (`notify.go:42-43`). True of a failing
  channel, not of a failing `Record`: the job is retried from the first channel.
  `PingsPaidFor` is what remains true.
* *Raw captures are never edited or deleted* (README line 28). The key of a
  snapshot names the incident, the dashboard and the panel, not the execution
  (`grafana.go:119`), so a collect job that runs again puts its image over the
  one whose size and checksum the first attachment row records.
  `OverwrittenOnlyByRerun` is what remains true: nothing else overwrites it.
* *When an alert carries a Grafana panel reference, it renders that panel*
  (`grafana.go:1-3`). The names of all alerts are merged before they are looked
  up in order, so two alerts that each refer to a panel, under different names,
  may resolve to the dashboard of one and the panel of the other.
  `PanelOfTheIncident` is what remains true: both halves come from its alerts.

What the properties of the newer runs say in one line each:

* `AuditTellsState`: although ids are drawn before the COMMIT and some are lost,
  the record with the highest id of a row is what the row shows.
* `OneHandlerPerJob`, `ClaimIsCurrent`, `FinishedStaysFinished`: the claim of
  Dequeue excludes. What is not excluded is paid for by a handler of that very job
  that outlived `staleRunning`, never by a crash, a retry or another job.
* `PageCitesAll`: items arrive and are flagged while a page loads, and still no
  citation of a claim is missing, unless the analysis was replaced meanwhile.
* `CitedOnceTrusted`: what was flagged before the request is never cited.
  `LearnedFromVerified`: what the model is told about the past is at that moment
  the last word of the audit log, and an analysis that is ok names exactly the
  incidents it was told of, a failed one none.
* `ServedWhileConfigured`, `SnapshotsAreWhole`: no attachment dangles and no file
  is half an image, except that two Puts of one key that overlap share their
  temporary file; the exception is stated, and TLC needs it.
* `PanelOfTheIncident`: alerts join and jobs run again at any time, and the
  dashboard and the panel of a snapshot were named by alerts of its incident.
  `SummaryFaithful`: a summary shows nothing outside of the extremes of its series.
* `AppliedOnceInOrder`, `ServesMigrated`, `AllComeUp`: processes that start
  together make each other fail, and nothing worse, and not for ever.

**Bounds.** Two workers suffice for every conflict here, for each is between two
claims of a row or two transactions of an incident; in `MCJobQueue` a third
one claims a row that two already handle. One incident is enough in Pipeline: handlers of different
incidents share only the queue. One item distinguishes shown from not shown,
captured from flagged. The passing runs of Pipeline have one channel, which fails,
delivers, or delivers and returns an error; of several channels and what a retry
from the first one does, `PingsCorrect` speaks. `MaxAttempts` is 2 or 3 so that giving up is reached.
`MaxLost` and `MaxFaults` bound how often something goes wrong, not when;
`MaxRetries` and `MaxResolved` likewise. `Jobs` is large enough that an INSERT
never lacks a row under those bounds, and `Incidents` leaves one id per possible
insert. In Notebook two engineers suffice for a conflict on a row, two analyses
for one that is replaced, two incidents for one that learns from the other; the
cap `MaxSimilar` = 3 is not reached with two incidents, and what is checked of
`LoadSimilar` does not depend on which candidates it keeps. Its constraint
`PagesApart` stops at a page that is shown (nothing reads it) and explores page
loads only when no review transaction is open: a page sees only commits, and a
commit between its two statements changes columns that neither reads.
`MaxReviews` bounds the audit ids drawn. In Capture two executions are what a
retry or a lost claim makes; each asks Prometheus one query; images are whole. The
alerts refer to panels under different names, by a URL beside a name without a
value, and by a URL without a panel. The
answers are at the limits of the arithmetic: halves, more points than the trend
keeps (`TrendPoints` is 3), series beyond `MaxSeries`, NaN, infinities.
`MaxCrashes` = 3 lets every migrating process be killed, or one three times.
Symmetry is used in the runs without liveness, over ids that no definition
orders. Deadlock is checked in every run but those of Capture, whose executions
end.

**Fairness.** `QueueFairness` and `PipelineFairness` assume of each worker that
it keeps polling and that its handler takes its next step, and of time that it
passes. `Worker.Run` is an endless loop that returns only when its context is
cancelled, and a cancelled worker is replaced by the same process starting again.
Nothing is assumed of engineers, of faults, or of claims being lost. Liveness
needs a bound on lost claims and faults, as it does in the code: a job whose
statements keep failing is given up, which `EveryJobFinishes` counts as an end.
`StartupFairness` assumes that each process takes its next step and is started
again when it has exited (`restart: unless-stopped` in `docker-compose.yml` for
the server, the operator for `migrate`), and that each worker polls; crashes are
bounded and not fair.

## 4. What TLAPS proves

Each theorem holds for all values of the constants under the named assumption of
its module, and every invariant and action property of section 3's passing runs
has one. `QueueAssumption`, `PipelineAssumption`, `IntakeAssumption`,
`NotebookAssumption`, `MetricsAssumption`, `CaptureAssumption` and
`StartupAssumption` say that bounds are naturals, that null values, special floats
and kinds of processes are distinct, and that an answer of Prometheus is a matrix
of samples. Two parts have content: a trend has at least two points, as
`trendPoints` has, and no channel is configured twice, as `buildChannels`
(`main.go`) appends each at most once; without the latter a channel would be
pinged twice in one run of Notify. TLC evaluates them on its instances.

**JobQueueProofs.** Nothing is assumed of how long handlers take. Type
correctness. `GiveUpCorrect`, from the invariant that a worker's copy of
`attempts` is never ahead of the column. `ClaimsCorrect` and `FinalityCorrect`,
from `ClaimInv`: a row that was never overrun has at most one holder, and with a
holder it is `running`, not stale, and its attempts are those of the copy.
`ExclusionCorrect` counts instead: the holders of a row, and the right to claim it
if it is claimable, never exceed one and its overruns (`HolderInv`).
`AttemptsCorrect` keeps the same books for the attempts (`TurnsInv`): the
claims of a row from the last allowed one on, plus the right of a claimable row to
be claimed again, plus the right of each worker that may still retry it, never
exceed one and the claims that were lost. Only a lost claim or an overrun adds a
right (`RightIsBought`); a retry and a claim hand it on.

**IntakeProofs.** Type correctness, `OneCollectJobCorrect`, `AcceptedCorrect` and
`ClosedCorrect` from one invariant about where a delivery stands, what it has
locked and which row it will write: the row lock of a resolution and that of a
delivery exclude each other, and an inserted id belongs to one delivery.
`RivalsCorrect` needs a second one: what a transaction saw at its snapshot, and
what has happened to each of those rows since.

**PipelineProofs.** `PipelineKeepsQueue`: whatever the handlers do, the jobs
table behaves as JobQueue says, so the queue's theorems hold of the pipeline.
The inductive invariant `PipelineInv` adds to the properties themselves what a
job row says about its incident (`JobsInv`) and what a handler's place says about
what it has done (`HandlerInv`: past `SaveAnalysis` an analysis is on file; what
was shown and what will be saved was captured). From it follow
`OneCurrentCorrect`, `VerdictCorrect`, `CitationsCorrect`, `PingsFollowCorrect`.
The central step is `WhatIsSaved`: the index lets the INSERT through only if all
current rows were cleared, so the new row is the only one. `LifeKept` shows that
every step maps to a step of NotebookLife or to none.

`NextStepCorrect`: the next step of every notebook is in the queue. Its invariant
follows rows rather than handlers: every incident has a `collect` row, a row that
is `done` was passed on, and rows are never deleted, so the first row that is not
done is the next step. `PingsCorrect` follows the right to ping a channel: an
incident gets one when it is created, it lies in a job that waits or is borne by a
worker whose handler would come to `Send`, the handoff passes it on, `Send` uses it
up, and a second one is only made by a lost claim, an overrun or a failed
statement (`BalanceInv`). Both hold with slow handlers, double runs and any number
of faults.

**SelectionProofs.** `WithoutKeeps`: for sequences of any length, what `Without`
returns are exactly the elements that are not skipped; `WithoutEmpty`: nothing is
left only if all are skipped. The library states induction for operators,
which no prover here can instantiate; `NatSetInduction` states it as a fact about
a set, which can be cited. A recursive function is what its equation says once
some function satisfies the equation, and `ScanExists` builds one.

**NotebookProofs.** `AuditCorrect`, from `AuditInv`: a transaction draws its id
after it has the row lock, so the id it holds is above every committed record of
that row, and no other transaction holds an id for the row; without the lock the
invariant fails at `CommitReview`. `LearningCorrect`, from `AuditInv` and
`LearnInv`: a verdict or a root cause reaches its column only together with the
latest record of the log, so what a statement reads is the last word
(`LastIsTold`); and what a draft was told is of its similar incidents and of each
of them, so the provenance that `SaveAnalysis` stores names exactly those. `ReviewLifeCorrect`, from `LifeInv`: every commit maps
to one step of NotebookLife and every other statement to none.
`PagesCorrect`, from `CiteInv`: of each answer those ids are stored that its own
request numbered (`AnalysesCite`); evidence is
never removed, so a page that read it holds every item that the analysis of that
moment cites (`PageShows`), and only an analysis filed in between may cite more.
`TrustedCitations` follows a flag from the column, through `Without`, to the
answer. `NotebookTypesCorrect` is the types, among them that references refer.

**MetricsProofs.** `TrendKeepsShape`: for series and trends of any length the
picked positions start at the first, end at the last and ascend within the series
(the integer division in `Pick` is settled by `DivBounds` and `DivUnique`).
`TrendWithinBounds`: rounding is monotonic, so no point of a trend lies outside
the rounded extremes of its series. The lemma `SummaryIsFaithful` adds the mean,
by the induction of SelectionProofs on the running sum.

**CaptureProofs.** The inductive invariant `CaptureInv` says, beside the types,
of an inode that it
serves one key, whoever opened it first (`InodesApart`), of a key whose Puts never
overlapped that its file is one image and its writer has the temporary file to
itself (`Undisturbed`), and of a row that its image is stored and was the row's
own until another Put began (`ClaimsHold`). From it follow `CaptureTypesCorrect`,
`AttachmentsAreServed`, `LocalPutAtomic` and `ImagesStay`. `SummariesCorrect`
carries `SummaryIsFaithful` to every row on file. `PanelIsOfTheIncident` holds for
any alerts: the value that the merge has under a name is one that an alert of the
incident gives it (`MergedIsNamed`), so the two halves of a panel, or its URL, are
named by alerts (`PanelIsNamed`), and alerts never leave (`PanelInv`).

**StartupProofs.** `StartupTypeCorrect`, `AppliedCorrect` and
`ServesMigratedCorrect`, from `StartupInv`: what a process has still to do is the
end of its own list (`TodoIsRest`), a migration being applied is the next one of
all (`BodyIsNext`) and of one process only (`OneBody`), a process that is ready
has seen its list through (`ReadyIsMigrated`). A transaction without its client is
about the next one too, and then no process is in a transaction (`OrphanIsNext`).
It holds for any number of
processes of any releases, which start again at any time.

Only model-checked is liveness: `EveryJobFinishes`, `EventuallyPublished`,
`EventuallyNotified` and `AllComeUp`. It needs ENABLED for the fairness conditions
and well-founded arguments over behaviours, which the prover does not handle.

Attempts that failed changed the model in three places: `PipelineAssumption` did
not exclude a channel that is configured twice; the outcome of a range query was a
CASE whose guards overlapped, so that more than one status was possible where
`runRange` has one; and `SUBSET` of a difference, in a type, bound the wrong way.

## 5. What is not modelled, and the plan

Not modelled because it is input, output or layout: templates and pages, the
export formats, search and the list of incidents, the HTTP of providers,
channels and collectors, the text of the prompt, the parsing of an Alertmanager
payload, the choice of a PromQL query by the alert's name, the organisation and
the variables of a dashboard (a storage key has neither; it is modelled as the pair
of dashboard and panel, which the code joins by a dash), password hashing,
configuration. Users, sessions and intake sources are rows looked up by a key, and a session ends by a comparison in the query;
their concurrency is the plan's first item. Statuses `analyzing`,
`false_positive` and `deleted` are declared but never written by the code and do
not appear. In Pipeline the evidence has no content and similar incidents are
absent (Notebook has them); in Notebook an analysis has one claim and no text; in
Intake the request's authentication and the incident's severity level are left
out; in Capture a truncated image is one more image and each execution asks
Prometheus one query.

The code and its texts part in a few more places than the violated runs show:

* `store/analysis.go:22` speaks of "a stable handle E1, E2, … in capture order".
  The request numbers the items that are not flagged, the notebook all of them
  (`store/notebook.go:314`), so a handle in the model's prose may name another item
  to the reader. Citations are stored by id and do not depend on it.
* The README of the repository (line 57) "treats a missing integration as an honest
  gap", and so does the comment of `buildCollectors` (`main.go:229`). A collector
  that is not configured contributes no item, and with none at all nothing is
  saved, so the notebook shows no gap for it. Capture models it that way.
* `blob.go:14` says that a row's backend lets "old objects always resolve to where
  they were put"; the endpoint opens the store that is configured now
  (`web/attachments.go:32`). `ServedWhileConfigured` is restricted accordingly.
* `prometheus.go:237` drops the error of `json.Marshal`. An infinity among the
  samples makes an item with status ok and no result, where `core/collect.go:11`
  says of ok "captured, has data". `SummaryFaithful` allows it by its last disjunct.
* A re-run of an analysis replaces the one whose hypotheses the engineer judged;
  those verdicts reach no later analysis.
* `local.go:47` says "atomic write": of one writer. Overlapping Puts of a key share
  `<key>.tmp`, and the image kept may be a mixture of both.
* `core/collect.go:12` counts an unreachable source among the gaps; the
  Prometheus collector reports it as failed.

Next, in this order:

1. **Access**: provisioning of users at login, a role that changes under an open
   session, rotation of a source's token while deliveries arrive.
2. **Proofs**: Intake as a refinement of the steps `IngestCreates` and
   `SaveResolution` of Pipeline.
3. **Batches**: the Alertmanager adapter in front of Intake (groups, severities,
   resolved alerts), and several queries per execution in Capture.
