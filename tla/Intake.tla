------------------------------- MODULE Intake -------------------------------
(***************************************************************************)
(* Webhook deliveries turned into incidents: internal/web/intake.go calls  *)
(* Service.Ingest (internal/core/intake.go), which filters by severity and *)
(* hands the batch to IngestBatch (internal/store/incidents.go).           *)
(*                                                                         *)
(* Deliveries run concurrently, each in its own READ COMMITTED             *)
(* transaction.  The transaction is modelled by the points where another   *)
(* one can tell the difference: the SELECT takes its snapshot, FOR UPDATE  *)
(* waits for the row and tests it again, the INSERT is private until the   *)
(* COMMIT, which makes the incident, its alerts and its job visible at     *)
(* once.  opened_at is now(), the start of the transaction.                *)
(***************************************************************************)
EXTENDS Naturals, FiniteSets, FiniteSetsExt

CONSTANTS
  Deliveries,   \* webhook calls, each handled by its own goroutine
  Incidents,    \* incident ids (uuids) that can be created
  Batches,      \* what a source may send: [key, alerts]
  Threshold,    \* least severity that opens a notebook
  Free, Engineer, \* who may hold a row lock besides a delivery
  MaxRetries,   \* bound: transactions or replies that are lost
  MaxResolved   \* bound: incidents the engineer closes

SevUnknown == 0
SevInfo == 1
SevWarning == 2
SevHigh == 3
SevCritical == 4
Severities == SevUnknown..SevCritical

ASSUME IntakeAssumption ==
  /\ Free # Engineer /\ {Free, Engineer} \cap Deliveries = {}
  /\ Free \notin Incidents
  /\ Threshold \in Severities
  /\ MaxRetries \in Nat
  /\ MaxResolved \in Nat

VARIABLES
  batch,    \* the batch of each delivery
  at,       \* where its handler stands
  began,    \* start of its transaction
  knew,     \* the incidents that were committed when it took its snapshot
  matches,  \* the rows its SELECT saw, less those found changed since
  target,   \* the incident it writes to
  creates,  \* TRUE when it inserts that incident
  status,   \* incidents.status, "absent" until the INSERT commits
  key,      \* incidents.grouping_key
  recent,   \* opened_at > now() - window
  opened,   \* opened_at
  known,    \* the incidents its creator could see (history)
  alerts,   \* alert rows of each incident
  jobs,     \* how many collect jobs name the incident
  lock,     \* who holds the incident's row lock
  clock,    \* counts the transactions that began
  retries   \* how many deliveries had to be repeated

txVars == <<at, began, knew, matches, target, creates>>
rowVars == <<status, key, recent, opened, known, alerts, jobs>>
intakeVars == <<batch, txVars, rowVars, lock, clock, retries>>

Steps == {"received", "locking", "inserting", "storing", "committed", "accepted", "dropped"}

(* A source key no batch has.                                              *)
NoKey == "none"

IntakeTypeOK ==
  /\ batch \in [Deliveries -> Batches]
  /\ at \in [Deliveries -> Steps]
  /\ began \in [Deliveries -> Nat]
  /\ knew \in [Deliveries -> SUBSET Incidents]
  /\ matches \in [Deliveries -> SUBSET Incidents]
  /\ target \in [Deliveries -> Incidents \cup {Free}]
  /\ creates \in [Deliveries -> BOOLEAN]
  /\ status \in [Incidents -> {"absent", "open", "published", "resolved"}]
  /\ key \in [Incidents -> {b.key : b \in Batches} \cup {NoKey}]
  /\ recent \in [Incidents -> BOOLEAN]
  /\ opened \in [Incidents -> Nat]
  /\ known \in [Incidents -> SUBSET Incidents]
  /\ alerts \in [Incidents -> SUBSET UNION {b.alerts : b \in Batches}]
  /\ jobs \in [Incidents -> Nat]
  /\ lock \in [Incidents -> Deliveries \cup {Free, Engineer}]
  /\ clock \in Nat
  /\ retries \in 0..MaxRetries

IntakeInit ==
  /\ batch \in [Deliveries -> Batches]
  /\ at = [d \in Deliveries |-> "received"]
  /\ began = [d \in Deliveries |-> 0]
  /\ knew = [d \in Deliveries |-> {}]
  /\ matches = [d \in Deliveries |-> {}]
  /\ target = [d \in Deliveries |-> Free]
  /\ creates = [d \in Deliveries |-> FALSE]
  /\ status = [i \in Incidents |-> "absent"]
  /\ key = [i \in Incidents |-> NoKey]
  /\ recent = [i \in Incidents |-> FALSE]
  /\ opened = [i \in Incidents |-> 0]
  /\ known = [i \in Incidents |-> {}]
  /\ alerts = [i \in Incidents |-> {}]
  /\ jobs = [i \in Incidents |-> 0]
  /\ lock = [i \in Incidents |-> Free]
  /\ clock = 0
  /\ retries = 0

-----------------------------------------------------------------------------
(* The highest severity among firing alerts.                               *)
MaxSeverity(b) == Max({SevUnknown} \cup {a.severity : a \in {x \in b.alerts : x.firing}})

ClearsThreshold(b) == MaxSeverity(b) # SevUnknown /\ MaxSeverity(b) >= Threshold

(* Variant: a published notebook no longer takes alerts.                   *)
AbsorbsOpenOnly(i) == status[i] = "open"

(* activeStatuses.                                                         *)
Absorbs(i) == status[i] \in {"open", "published"}

(* ORDER BY opened_at DESC LIMIT 1.                                        *)
Newest(S) == {i \in S : \A k \in S : opened[k] <= opened[i]}

-----------------------------------------------------------------------------
(* Service.Ingest: below the threshold, or nothing firing.                 *)
Drop(d) ==
  /\ at[d] = "received"
  /\ ~ClearsThreshold(batch[d])
  /\ at' = [at EXCEPT ![d] = "dropped"]
  /\ UNCHANGED <<batch, began, knew, matches, target, creates, rowVars, lock, clock, retries>>

(* The SELECT of findOrCreate takes its snapshot of the committed rows.    *)
Lookup(d) ==
  LET seen == {i \in Incidents : Absorbs(i) /\ recent[i] /\ key[i] = batch[d].key} IN
  /\ at[d] = "received"
  /\ ClearsThreshold(batch[d])
  /\ clock' = clock + 1
  /\ began' = [began EXCEPT ![d] = clock + 1]
  /\ knew' = [knew EXCEPT ![d] = {i \in Incidents : status[i] # "absent"}]
  /\ matches' = [matches EXCEPT ![d] = seen]
  /\ at' = [at EXCEPT ![d] = IF seen = {} THEN "inserting" ELSE "locking"]
  /\ UNCHANGED <<batch, target, creates, rowVars, lock, retries>>

(* Variant: no FOR UPDATE, the row of the snapshot is taken as it is.      *)
TakeWithoutLock(d) ==
  /\ at[d] = "locking"
  /\ \E i \in Newest(matches[d]) :
       /\ target' = [target EXCEPT ![d] = i]
       /\ at' = [at EXCEPT ![d] = "storing"]
  /\ matches' = [matches EXCEPT ![d] = {}]
  /\ UNCHANGED <<batch, began, knew, creates, rowVars, lock, clock, retries>>

(* FOR UPDATE on the newest row: once its lock is free the row is tested   *)
(* again, and passed over if it no longer absorbs alerts.                  *)
LockRow(d) ==
  /\ at[d] = "locking"
  /\ \E i \in Newest(matches[d]) :
       /\ lock[i] = Free
       /\ IF Absorbs(i)
            THEN /\ lock' = [lock EXCEPT ![i] = d]
                 /\ target' = [target EXCEPT ![d] = i]
                 /\ matches' = [matches EXCEPT ![d] = {}]
                 /\ at' = [at EXCEPT ![d] = "storing"]
            ELSE /\ matches' = [matches EXCEPT ![d] = @ \ {i}]
                 /\ at' = [at EXCEPT ![d] = IF matches[d] = {i} THEN "inserting" ELSE "locking"]
                 /\ UNCHANGED <<lock, target>>
  /\ UNCHANGED <<batch, began, knew, creates, rowVars, clock, retries>>

(* gen_random_uuid(): any id no committed or pending row has.              *)
UnusedIds == {i \in Incidents : status[i] = "absent" /\ \A d \in Deliveries : target[d] # i}

(* INSERT INTO incidents: no other transaction sees the row yet, and no    *)
(* index on the grouping key keeps a second one out.                       *)
InsertIncident(d) ==
  /\ at[d] = "inserting"
  /\ UnusedIds # {}
  /\ target' = [target EXCEPT ![d] = CHOOSE i \in UnusedIds : TRUE]
  /\ creates' = [creates EXCEPT ![d] = TRUE]
  /\ at' = [at EXCEPT ![d] = "storing"]
  /\ UNCHANGED <<batch, began, knew, matches, rowVars, lock, clock, retries>>

(* INSERT ... ON CONFLICT (incident_id, fingerprint) DO UPDATE.            *)
Upserted(old, new) ==
  {a \in old : \A b \in new : b.fingerprint # a.fingerprint} \cup new

(* Variant: the collect job is inserted for every batch.                   *)
JobAlways(d) == jobs' = [jobs EXCEPT ![target[d]] = @ + 1]

(* if created: the collect job, in the same transaction.                   *)
JobIfCreated(d) ==
  jobs' = [jobs EXCEPT ![target[d]] = IF creates[d] THEN @ + 1 ELSE @]

(* Variant: ON CONFLICT DO NOTHING on the fingerprint alone.               *)
StoreUnlessKnown(d) ==
  alerts' = [alerts EXCEPT ![target[d]] =
    Upserted(@, {a \in batch[d].alerts :
      \A i \in Incidents \ {target[d]} : \A b \in alerts[i] : b.fingerprint # a.fingerprint})]

(* upsertAlert for each alert of the batch.                                *)
StoreAlerts(d) ==
  alerts' = [alerts EXCEPT ![target[d]] = Upserted(@, batch[d].alerts)]

(* COMMIT.                                                                 *)
Commit(d) ==
  LET i == target[d] IN
  /\ at[d] = "storing"
  /\ at' = [at EXCEPT ![d] = "committed"]
  /\ StoreAlerts(d)
  /\ JobIfCreated(d)
  /\ IF creates[d]
       THEN /\ status' = [status EXCEPT ![i] = "open"]
            /\ key' = [key EXCEPT ![i] = batch[d].key]
            /\ recent' = [recent EXCEPT ![i] = TRUE]
            /\ opened' = [opened EXCEPT ![i] = began[d]]
            /\ known' = [known EXCEPT ![i] = knew[d]]
            /\ UNCHANGED lock
       ELSE /\ lock' = [lock EXCEPT ![i] = Free]
            /\ UNCHANGED <<status, key, recent, opened, known>>
  /\ began' = [began EXCEPT ![d] = 0]
  /\ knew' = [knew EXCEPT ![d] = {}]
  /\ creates' = [creates EXCEPT ![d] = FALSE]
  /\ UNCHANGED <<batch, matches, target, clock, retries>>

(* 202 Accepted.                                                           *)
Reply(d) ==
  /\ at[d] = "committed"
  /\ at' = [at EXCEPT ![d] = "accepted"]
  /\ UNCHANGED <<batch, began, knew, matches, target, creates, rowVars, lock, clock, retries>>

(* A statement fails, or the process dies - before the COMMIT, which rolls *)
(* back, or after it and before the reply.  Without a 2xx the source sends *)
(* the same batch again.                                                   *)
Redeliver(d) ==
  /\ at[d] \in {"locking", "inserting", "storing", "committed"}
  /\ retries < MaxRetries
  /\ retries' = retries + 1
  /\ at' = [at EXCEPT ![d] = "received"]
  /\ began' = [began EXCEPT ![d] = 0]
  /\ knew' = [knew EXCEPT ![d] = {}]
  /\ matches' = [matches EXCEPT ![d] = {}]
  /\ target' = [target EXCEPT ![d] = Free]
  /\ creates' = [creates EXCEPT ![d] = FALSE]
  /\ lock' = [i \in Incidents |-> IF lock[i] = d THEN Free ELSE lock[i]]
  /\ UNCHANGED <<batch, rowVars, clock>>

-----------------------------------------------------------------------------
(* The rest of the system, as far as it writes incident rows.              *)

(* Variant: a status that the incident_status enum does not have.          *)
PublishAsAnalysed(i) ==
  /\ status[i] = "open" /\ lock[i] = Free
  /\ status' = [status EXCEPT ![i] = "analysed"]
  /\ UNCHANGED <<batch, txVars, key, recent, opened, known, alerts, jobs, lock, clock, retries>>

(* SaveAnalysis publishes.                                                 *)
PublishIncident(i) ==
  /\ status[i] = "open" /\ lock[i] = Free
  /\ status' = [status EXCEPT ![i] = "published"]
  /\ UNCHANGED <<batch, txVars, key, recent, opened, known, alerts, jobs, lock, clock, retries>>

(* SaveResolution holds the row from its first statement to its COMMIT.    *)
BeginResolve(i) ==
  /\ Absorbs(i) /\ lock[i] = Free
  /\ Cardinality({k \in Incidents : status[k] = "resolved" \/ lock[k] = Engineer}) < MaxResolved
  /\ lock' = [lock EXCEPT ![i] = Engineer]
  /\ UNCHANGED <<batch, txVars, rowVars, clock, retries>>

CommitResolve(i) ==
  /\ lock[i] = Engineer
  /\ lock' = [lock EXCEPT ![i] = Free]
  /\ status' = [status EXCEPT ![i] = "resolved"]
  /\ UNCHANGED <<batch, txVars, key, recent, opened, known, alerts, jobs, clock, retries>>

(* opened_at falls out of the window, the oldest first.                    *)
LeaveWindow(i) ==
  /\ recent[i]
  /\ \A k \in Incidents : recent[k] => opened[i] <= opened[k]
  /\ recent' = [recent EXCEPT ![i] = FALSE]
  /\ UNCHANGED <<batch, txVars, status, key, opened, known, alerts, jobs, lock, clock, retries>>

(* Every source has had its answer.                                        *)
AllAnswered ==
  /\ \A d \in Deliveries : at[d] \in {"accepted", "dropped"}
  /\ UNCHANGED intakeVars

HandlerStep(d) ==
  Drop(d) \/ Lookup(d) \/ LockRow(d) \/ InsertIncident(d) \/ Commit(d) \/ Reply(d)

IntakeNext ==
  \/ \E d \in Deliveries : HandlerStep(d) \/ Redeliver(d)
  \/ \E i \in Incidents : PublishIncident(i) \/ BeginResolve(i) \/ CommitResolve(i) \/ LeaveWindow(i)
  \/ AllAnswered

IntakeSpec == IntakeInit /\ [][IntakeNext]_intakeVars

-----------------------------------------------------------------------------
(* A notebook that alerts of its key are still due to join.                *)
TakesAlerts(i) == status[i] \in {"open", "published"} /\ recent[i]

(* One outage, one notebook - for deliveries that do not overlap.  Two     *)
(* notebooks of one key that both still take alerts come only from         *)
(* transactions that took their snapshots before the other committed: a    *)
(* storm that follows a committed incident always joins it.                *)
RivalsOverlap ==
  \A i, k \in Incidents :
    i # k /\ key[i] = key[k] /\ TakesAlerts(i) /\ TakesAlerts(k) => i \notin known[k]

(* A notebook that its engineer closed takes no more alerts: the next one  *)
(* starts a fresh notebook, even when it was looking up the old one while  *)
(* the resolution was being saved.                                         *)
ClosedTakesNoAlerts ==
  [][\A i \in Incidents : status[i] = "resolved" => alerts'[i] = alerts[i]]_intakeVars

(* A notebook is investigated once: each incident that exists has exactly  *)
(* one collect job, none is without, and repeats of the alert add none.    *)
OneCollectJob ==
  \A i \in Incidents : jobs[i] = (IF status[i] = "absent" THEN 0 ELSE 1)

(* What was answered with 202 is on file: every alert of the batch is a    *)
(* row of the incident named in the reply, which has the batch's key.      *)
AcceptedIsOnFile ==
  \A d \in Deliveries : at[d] \in {"committed", "accepted"} =>
    /\ key[target[d]] = batch[d].key
    /\ \A a \in batch[d].alerts :
         \E b \in alerts[target[d]] : b.fingerprint = a.fingerprint

(* 0001_init.sql:93: one outage = one row.                                 *)
OneOutageOneRow ==
  \A i, k \in Incidents :
    key[i] = key[k] /\ TakesAlerts(i) /\ TakesAlerts(k) => i = k
=============================================================================
