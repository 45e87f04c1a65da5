------------------------------- MODULE Capture -------------------------------
(***************************************************************************)
(* Executions of the collect job of one incident: its target is loaded     *)
(* (internal/store/incidents.go), the collectors that are configured run   *)
(* one after the other, Prometheus before Grafana (internal/core/          *)
(* collect.go), the panel's PNG goes to the blob store (internal/blob) and *)
(* then the items and the attachment rows to Postgres, in one transaction. *)
(*                                                                         *)
(* A job that is run again executes everything again, and under a lost     *)
(* claim two executions may overlap (JobQueue).  The file system is        *)
(* modelled by its inodes: a name refers to one, a rename moves the name,  *)
(* and a writer keeps writing to the inode it opened.                      *)
(***************************************************************************)
EXTENDS Metrics, FiniteSets

CONSTANTS
  MaxExecutions, \* bound: executions of the job
  Alerts,        \* alerts: their labels and annotations, by AliasKeys
  Answers,       \* what Prometheus may do: [outcome, matrix]
  None           \* nothing: a value that is empty, a file that is not there

(* Prometheus answers with a matrix of samples or not at all.              *)
ASSUME CaptureAssumption ==
  /\ MaxExecutions \in Nat /\ None \notin Nat
  /\ \A answer \in Answers :
       answer.matrix \in Seq(Seq(Int \cup {PosInf, NegInf, NaN, Junk}))

Executions == 1..MaxExecutions

Backends == {"local", "s3"}
Collectors == {"prometheus", "grafana"}

(* The names under which an alert may refer to Grafana, the first that has *)
(* a value counts.                                                         *)
UidKeys == <<"__dashboardUid__", "dashboard_uid", "grafana_dashboard_uid", "dashboardUID">>
PidKeys == <<"__panelId__", "panel_id", "grafana_panel_id", "panelId">>
UrlKeys == <<"grafana_panel_url", "dashboardURL", "__dashboard_url__">>
AliasKeys == ToSet(UidKeys) \cup ToSet(PidKeys) \cup ToSet(UrlKeys)

(* What an alert says under some names, and the panels that it refers to   *)
(* if b adds the panel's id.  A URL is its dashboard and its panel.        *)
Named(a, keys) == {a[k] : k \in DOMAIN a \cap ToSet(keys)} \ {None}

References(a, b) ==
  (Named(a, UidKeys) \X Named(b, PidKeys))
    \cup {<<url.uid, url.pid>> : url \in {u \in Named(a, UrlKeys) : None \notin {u.uid, u.pid}}}

(* Storage keys: snapshots/<incident>/<uid>-<panel>.png.                   *)
Keys == UNION {References(a, b) : a \in Alerts, b \in Alerts}

VARIABLES
  roles,    \* the collectors that are configured
  backend,  \* the blob store that is configured
  joined,   \* the alerts that have joined the incident
  exec,     \* where each execution stands, with its locals
  rows,     \* evidence_items with their attachments
  name,     \* the final name of each key in the local store: its inode
  tmp,      \* the name with .tmp
  bytes,    \* the images whose bytes are in each inode
  object,   \* the image in the S3 object of each key
  puts,     \* the Puts that began: <<backend, key, execution>> (history)
  overlaps  \* local keys of which two Puts were under way at once (history)

storeVars == <<name, tmp, bytes, object, puts, overlaps>>
configVars == <<roles, backend>>
captureVars == <<configVars, joined, exec, rows, storeVars>>

NotRun == [pc |-> "idle", panel |-> None, answer |-> None, snapshot |-> "none", inode |-> None]

CaptureTypeOK ==
  /\ roles \subseteq Collectors
  /\ backend \in Backends
  /\ joined \in (SUBSET Alerts) \ {{}}
  /\ exec \in [Executions ->
       [pc : {"idle", "metrics", "render", "open", "write", "rename", "save", "done", "dead"},
        panel : Keys \cup {None}, answer : Answers \cup {None},
        snapshot : {"none", "ok", "gap", "failed"}, inode : Executions \cup {None}]]
  /\ \A r \in rows :
       /\ r.by \in Executions
       /\ r.collector = "prometheus" => r.answer \in Answers /\ r.status \in {"ok", "gap", "failed"}
       /\ r.collector = "grafana" => r.key \in Keys \cup {None} /\ (r.key # None) = (r.status = "ok")
  /\ name \in [Keys -> Executions \cup {None}]
  /\ tmp \in [Keys -> Executions \cup {None}]
  /\ bytes \in [Executions -> SUBSET Executions]
  /\ object \in [Keys -> Executions \cup {None}]

CaptureInit ==
  /\ roles \in SUBSET Collectors
  /\ backend \in Backends
  /\ joined \in {{a} : a \in Alerts}
  /\ exec = [e \in Executions |-> NotRun]
  /\ rows = {}
  /\ name = [k \in Keys |-> None]
  /\ tmp = [k \in Keys |-> None]
  /\ bytes = [e \in Executions |-> {}]
  /\ object = [k \in Keys |-> None]
  /\ puts = <<>>
  /\ overlaps = {}

-----------------------------------------------------------------------------
(* The panel.                                                              *)

(* Labels and annotations of all alerts in one map, in the order in which  *)
(* the rows come: the last that has a name wins, with a value or without.  *)
Merged(order) ==
  [k \in AliasKeys |->
     LET having == {n \in DOMAIN order : k \in DOMAIN order[n]}
     IN  IF having = {} THEN None ELSE order[Max(having)][k]]

FirstNonEmpty(m, keys) ==
  LET found == {n \in DOMAIN keys : m[keys[n]] # None}
  IN  IF found = {} THEN None ELSE m[keys[Min(found)]]

ParsePanelURL(url) ==
  IF url.uid # None /\ url.pid # None THEN <<url.uid, url.pid>> ELSE None

(* Dashboard and panel ids, else a panel URL.                              *)
ResolvePanel(m) ==
  LET uid == FirstNonEmpty(m, UidKeys)
      pid == FirstNonEmpty(m, PidKeys)
      url == FirstNonEmpty(m, UrlKeys)
  IN  IF uid # None /\ pid # None THEN <<uid, pid>>
      ELSE IF url # None THEN ParsePanelURL(url) ELSE None

(* Intake adds an alert to the incident.                                   *)
JoinAlert ==
  /\ \E a \in Alerts \ joined : joined' = joined \cup {a}
  /\ UNCHANGED <<configVars, exec, rows, storeVars>>

-----------------------------------------------------------------------------
AtStep(e, pc) == exec[e].pc = pc

(* Variant: WHERE incident_id = $1 is missing.                             *)
AllAlertRows == Alerts

AlertRows == joined

(* LoadCollectTarget, for a first or a repeated run of the job.            *)
Start(e) ==
  /\ AtStep(e, "idle")
  /\ \A d \in Executions : d < e => ~AtStep(d, "idle")
  /\ \E order \in SetToSeqs(AlertRows) :
       exec' = [exec EXCEPT ![e] = [NotRun EXCEPT !.pc = "metrics", !.panel = ResolvePanel(Merged(order))]]
  /\ UNCHANGED <<configVars, joined, rows, storeVars>>

(* runRange: every way to go wrong is an item, and so is an empty answer.  *)
(* Without Prometheus in the configuration there is nothing to run.        *)
MetricStatus(answer) ==
  IF answer.outcome # "success" THEN "failed"
  ELSE IF answer.matrix = <<>> THEN "gap" ELSE "ok"

RunRange(e) ==
  /\ AtStep(e, "metrics")
  /\ \E answer \in IF "prometheus" \in roles THEN Answers ELSE {None} :
       exec' = [exec EXCEPT ![e] = [@ EXCEPT !.pc = "render", !.answer = answer]]
  /\ UNCHANGED <<configVars, joined, rows, storeVars>>

NoGrafana(e) ==
  /\ AtStep(e, "render") /\ "grafana" \notin roles
  /\ exec' = [exec EXCEPT ![e] = [@ EXCEPT !.pc = "save"]]
  /\ UNCHANGED <<configVars, joined, rows, storeVars>>

(* No panel is named: a gap.                                               *)
NoPanel(e) ==
  /\ AtStep(e, "render") /\ "grafana" \in roles /\ exec[e].panel = None
  /\ exec' = [exec EXCEPT ![e] = [@ EXCEPT !.pc = "save", !.snapshot = "gap"]]
  /\ UNCHANGED <<configVars, joined, rows, storeVars>>

(* An image, which is stored next, or an error and a failed item.          *)
FetchPNG(e) ==
  /\ AtStep(e, "render") /\ "grafana" \in roles /\ exec[e].panel # None
  /\ \/ exec' = [exec EXCEPT ![e] = [@ EXCEPT !.pc = "save", !.snapshot = "failed"]]
     \/ exec' = [exec EXCEPT ![e].pc = "open"]
  /\ UNCHANGED <<configVars, joined, rows, storeVars>>

-----------------------------------------------------------------------------
(* Put.                                                                    *)
Stored(e) == exec' = [exec EXCEPT ![e] = [@ EXCEPT !.pc = "save", !.snapshot = "ok"]]

(* Variant: the error of Put is not looked at.                             *)
PutErrorIgnored(e) == Stored(e)

PutFailed(e) == exec' = [exec EXCEPT ![e] = [@ EXCEPT !.pc = "save", !.snapshot = "failed"]]

BeganPut(e) == puts' = Append(puts, <<backend, exec[e].panel, e>>)

(* s3: PutObject replaces the object as a whole; the answer may be lost.   *)
PutObject(e) ==
  /\ AtStep(e, "open") /\ backend = "s3"
  /\ object' = [object EXCEPT ![exec[e].panel] = e]
  /\ BeganPut(e)
  /\ Stored(e) \/ PutFailed(e)
  /\ UNCHANGED <<configVars, joined, rows, name, tmp, bytes, overlaps>>

Writing(e) == exec[e].pc \in {"write", "rename"}

(* Variant: the file is opened under its final name.                       *)
OpenInPlace(e) ==
  LET k == exec[e].panel IN
  /\ AtStep(e, "open") /\ backend = "local"
  /\ name' = [name EXCEPT ![k] = e]
  /\ tmp' = [tmp EXCEPT ![k] = e]
  /\ exec' = [exec EXCEPT ![e] = [@ EXCEPT !.pc = "write", !.inode = e]]
  /\ BeganPut(e)
  /\ UNCHANGED <<configVars, joined, rows, bytes, object, overlaps>>

(* Variant: the file is not truncated.                                     *)
OpenToAppend(e) ==
  LET k == exec[e].panel
      inode == IF tmp[k] = None THEN e ELSE tmp[k]
  IN
  /\ AtStep(e, "open") /\ backend = "local"
  /\ tmp' = [tmp EXCEPT ![k] = inode]
  /\ exec' = [exec EXCEPT ![e] = [@ EXCEPT !.pc = "write", !.inode = inode]]
  /\ BeganPut(e)
  /\ UNCHANGED <<configVars, joined, rows, name, bytes, object, overlaps>>

(* local: WriteFile opens <key>.tmp, whoever left it there, and truncates. *)
OpenTmp(e) ==
  LET k == exec[e].panel
      inode == IF tmp[k] = None THEN e ELSE tmp[k]
  IN
  /\ AtStep(e, "open") /\ backend = "local"
  /\ tmp' = [tmp EXCEPT ![k] = inode]
  /\ bytes' = [bytes EXCEPT ![inode] = {}]
  /\ exec' = [exec EXCEPT ![e] = [@ EXCEPT !.pc = "write", !.inode = inode]]
  /\ BeganPut(e)
  /\ overlaps' = overlaps \cup
       {k2 \in {k} : \E d \in Executions \ {e} : Writing(d) /\ exec[d].panel = k}
  /\ UNCHANGED <<configVars, joined, rows, name, object>>

(* ... and writes to what it opened; bytes of another may show behind.     *)
WriteTmp(e) ==
  LET inode == exec[e].inode IN
  /\ AtStep(e, "write")
  /\ \E more \in {{}, bytes[inode]} : bytes' = [bytes EXCEPT ![inode] = more \cup {e}]
  /\ exec' = [exec EXCEPT ![e].pc = "rename"]
  /\ UNCHANGED <<configVars, joined, rows, name, tmp, object, puts, overlaps>>

(* Rename fails when another Put took the temporary file away.             *)
RenameTmp(e) ==
  LET k == exec[e].panel IN
  /\ AtStep(e, "rename")
  /\ IF tmp[k] = None
       THEN PutFailed(e) /\ UNCHANGED <<name, tmp>>
       ELSE /\ name' = [name EXCEPT ![k] = tmp[k]]
            /\ tmp' = [tmp EXCEPT ![k] = None]
            /\ Stored(e)
  /\ UNCHANGED <<configVars, joined, rows, bytes, object, puts, overlaps>>

(* The disk is full, the directory or the bucket refuses.                  *)
PutErrs(e) ==
  /\ exec[e].pc \in {"open", "write", "rename"}
  /\ PutFailed(e)
  /\ UNCHANGED <<configVars, joined, rows, storeVars>>

-----------------------------------------------------------------------------
(* Variant: the attachment row is written of a failed item, too.           *)
SnapshotItemsKeyed(e) ==
  {[by |-> e, collector |-> "grafana", status |-> s, key |-> exec[e].panel, backend |-> backend] :
     s \in {exec[e].snapshot} \ {"none"}}

SnapshotItems(e) ==
  {[by |-> e, collector |-> "grafana", status |-> s,
    key |-> IF s = "ok" THEN exec[e].panel ELSE None, backend |-> backend] :
     s \in {exec[e].snapshot} \ {"none"}}

(* The answer is kept for the properties; what is stored of an ok item is  *)
(* Summarize of it, or {} when that is lost.                               *)
MetricItems(e) ==
  {[by |-> e, collector |-> "prometheus", status |-> MetricStatus(a), answer |-> a] :
     a \in {exec[e].answer} \ {None}}

(* SaveEvidence: all items of the execution and their attachments, if any. *)
SaveEvidence(e) ==
  /\ AtStep(e, "save")
  /\ rows' = rows \cup MetricItems(e) \cup SnapshotItems(e)
  /\ exec' = [exec EXCEPT ![e] = [NotRun EXCEPT !.pc = "done"]]
  /\ UNCHANGED <<configVars, joined, storeVars>>

(* The transaction fails, or the worker dies anywhere: what is in the      *)
(* store stays there.                                                      *)
Die(e) ==
  /\ exec[e].pc \notin {"idle", "done", "dead"}
  /\ exec' = [exec EXCEPT ![e] = [NotRun EXCEPT !.pc = "dead"]]
  /\ UNCHANGED <<configVars, joined, rows, storeVars>>

(* buildCollectors, blob.New: the process starts again with something else *)
(* configured.                                                             *)
Reconfigure ==
  /\ \A e \in Executions : exec[e].pc \in {"idle", "done", "dead"}
  /\ roles' \in SUBSET Collectors
  /\ backend' \in Backends
  /\ UNCHANGED <<joined, exec, rows, storeVars>>

ExecutionStep(e) ==
  \/ Start(e) \/ RunRange(e) \/ NoGrafana(e) \/ NoPanel(e) \/ FetchPNG(e)
  \/ PutObject(e) \/ OpenTmp(e) \/ WriteTmp(e) \/ RenameTmp(e) \/ PutErrs(e)
  \/ SaveEvidence(e) \/ Die(e)

CaptureNext == JoinAlert \/ Reconfigure \/ \E e \in Executions : ExecutionStep(e)

CaptureSpec == CaptureInit /\ [][CaptureNext]_captureVars

-----------------------------------------------------------------------------
Attached == {r \in rows : r.collector = "grafana" /\ r.key # None}

(* What a store has under a key: the images whose bytes it would serve.    *)
Content(b, k) ==
  CASE b = "s3" /\ object[k] # None -> {object[k]}
    [] b = "local" /\ name[k] # None -> bytes[name[k]]
    [] OTHER -> {}

(* The attachment endpoint opens the key of the row in the store that is   *)
(* configured now, whatever backend the row names.                         *)
Opens(r) == IF backend = "s3" THEN object[r.key] # None ELSE name[r.key] # None

(* No attachment dangles: after any crash or failed Put, a row that is on  *)
(* file has its object, and the endpoint opens it for as long as the       *)
(* configured store is the one that the row names.                         *)
ServedWhileConfigured ==
  \A r \in Attached : r.backend = backend => Opens(r)

(* local.go:47, an atomic write: however a Put is interrupted, the file    *)
(* under a final name is the whole image of one execution - unless two     *)
(* Puts of the key overlapped, which share their temporary file.           *)
SnapshotsAreWhole ==
  \A k \in Keys : name[k] # None /\ k \notin overlaps => Cardinality(bytes[name[k]]) = 1

(* The image that a row's checksum was taken from stays what its key       *)
(* holds, until another execution stores under the same key: what a crash  *)
(* or a failed Put left behind never gets into it.                         *)
OverwrittenOnlyByRerun ==
  \A r \in Attached : r.key \notin overlaps =>
    \/ Content(r.backend, r.key) = {r.by}
    \/ \E m, n \in DOMAIN puts :
         m < n /\ puts[m] = <<r.backend, r.key, r.by>>
               /\ puts[n][1] = r.backend /\ puts[n][2] = r.key

(* The panel in the notebook is of this incident: its dashboard and its    *)
(* panel are named by alerts that had joined when the target was loaded,   *)
(* though any alert may join, and jobs run again, at any time.             *)
PanelOfTheIncident ==
  \A r \in Attached : \E a, b \in joined : r.key \in References(a, b)

(* grafana.go:1-5: "when an alert carries a Grafana panel reference ... it *)
(* renders that panel".  What is attached is a panel that an alert of the  *)
(* incident refers to.                                                     *)
PanelOfAnAlert ==
  \A r \in Attached : \E a \in joined : r.key \in References(a, a)

Numbers(vals) == {vals[i] : i \in DOMAIN vals} \cap Int

(* The summary tells of the series what the series was: nothing it shows   *)
(* lies outside of its extremes, and the trend runs from the first value   *)
(* to the last.  An ok item tells nothing only if the answer had no number *)
(* in a series that was looked at, or an infinity.                         *)
SummaryFaithful ==
  \A r \in rows : r.collector = "prometheus" /\ r.status = "ok" =>
    LET s == Summarize(r.answer.matrix)
        looked == {r.answer.matrix[i] : i \in 1..Min({Len(r.answer.matrix), MaxSeries})}
    IN  /\ \A i \in DOMAIN s.series :
             LET t == s.series[i] IN
             /\ \A v \in {t.avg, t.first, t.last} \cup ToSet(t.trend) : t.min <= v /\ v <= t.max
             /\ Head(t.trend) = t.first /\ Last(t.trend) = t.last
             /\ Len(t.trend) = Min({t.points, TrendPoints})
        /\ s.series = <<>> =>
             \/ \A vals \in looked : Numbers(vals) = {}
             \/ \E vals \in looked : {PosInf, NegInf} \cap ToSet(vals) # {}

(* README:28: raw captures are never edited or deleted.  The image whose   *)
(* checksum a row records is the image that is kept under its key.         *)
CaptureKept ==
  \A r \in Attached : Content(r.backend, r.key) = {r.by}
=============================================================================
