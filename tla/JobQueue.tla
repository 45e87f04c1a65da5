------------------------------ MODULE JobQueue ------------------------------
(***************************************************************************)
(* The jobs table of valaf and the workers that drain it                   *)
(* (internal/store/jobs.go, internal/worker/worker.go, 0003_jobs.sql).     *)
(*                                                                         *)
(* Every SQL statement is one action: Postgres makes each atomic.  A       *)
(* worker that lost its claim - its process died, its context was          *)
(* cancelled, or its closing UPDATE failed - leaves the row 'running'; a   *)
(* row that stays 'running' past staleRunning is handed to the next        *)
(* Dequeue, whether its worker is dead or merely slow.                     *)
(*                                                                         *)
(* Time is what the WHERE clauses of Dequeue can tell apart: due[j] is     *)
(* run_at <= now(), stale[j] is updated_at < now() - staleRunning, and     *)
(* earlier holds <<j, k>> when row j comes before row k in ORDER BY run_at.*)
(***************************************************************************)
EXTENDS Naturals, FiniteSets

CONSTANTS
  Jobs,         \* row ids that can be inserted
  Workers,      \* worker loops (one per `valaf worker` process)
  NoJob,        \* what an idle worker holds
  MaxAttempts,  \* the max_attempts column (default 3)
  MaxLost,      \* bound: how many claims are lost in a behaviour
  SlowHandlers  \* TRUE: a live handler may run for longer than staleRunning

ASSUME QueueAssumption ==
  /\ NoJob \notin Jobs
  /\ MaxAttempts \in Nat \ {0}
  /\ MaxLost \in Nat
  /\ SlowHandlers \in BOOLEAN

VARIABLES
  status,    \* job_status of each row, "absent" before its INSERT
  due,       \* run_at <= now()
  stale,     \* updated_at < now() - staleRunning
  attempts,  \* the attempts column
  earlier,   \* the order of the live rows by run_at
  held,      \* the job each worker is handling
  seen,      \* Job.Attempts in the worker's copy of the row
  lost,      \* how many claims were lost or overran so far
  overruns   \* history: how often a live handler of each row outlived staleRunning

rowVars == <<status, due, stale, attempts, earlier>>
workerVars == <<held, seen>>
faultVars == <<lost, overruns>>
queueVars == <<status, due, stale, attempts, earlier, held, seen, lost, overruns>>

JobStatus == {"absent", "pending", "running", "done", "failed"}

QueueTypeOK ==
  /\ status \in [Jobs -> JobStatus]
  /\ due \in [Jobs -> BOOLEAN]
  /\ stale \in [Jobs -> BOOLEAN]
  /\ attempts \in [Jobs -> Nat]
  /\ earlier \in SUBSET (Jobs \X Jobs)
  /\ held \in [Workers -> Jobs \cup {NoJob}]
  /\ seen \in [Workers -> Nat]
  /\ lost \in 0..MaxLost
  /\ overruns \in [Jobs -> Nat]

QueueInit ==
  /\ status = [j \in Jobs |-> "absent"]
  /\ due = [j \in Jobs |-> FALSE]
  /\ stale = [j \in Jobs |-> FALSE]
  /\ attempts = [j \in Jobs |-> 0]
  /\ earlier = {}
  /\ held = [w \in Workers |-> NoJob]
  /\ seen = [w \in Workers |-> 0]
  /\ lost = 0
  /\ overruns = [j \in Jobs |-> 0]

-----------------------------------------------------------------------------
(* The rows an UPDATE or an ORDER BY can still meet.                       *)
Live(j) == status[j] \in {"pending", "running"}

Without(j) == {p \in earlier : p[1] # j /\ p[2] # j}

(* Variants of the next definition, each a slip one could make in the       *)
(* query: no staleness test, no reclaim at all, given-up rows taken again. *)
RunnableAnyRunning ==
  {j \in Jobs : (status[j] = "pending" /\ due[j]) \/ status[j] = "running"}

RunnableNoReclaim ==
  {j \in Jobs : status[j] = "pending" /\ due[j]}

RunnableFailedToo ==
  {j \in Jobs : \/ status[j] \in {"pending", "failed"} /\ due[j]
                \/ status[j] = "running" /\ stale[j]}

(* The WHERE clause of Dequeue: pending and due, or running and stale.     *)
Runnable ==
  {j \in Jobs : \/ status[j] = "pending" /\ due[j]
                \/ status[j] = "running" /\ stale[j]}

(* ORDER BY run_at LIMIT 1.                                                *)
FirstRunnable ==
  {j \in Runnable : \A k \in Runnable : <<k, j>> \notin earlier}

(* INSERT INTO jobs: run_at defaults to now(), after every row that is     *)
(* due and before every row still backing off.                             *)
Enqueue(j) ==
  /\ status[j] = "absent"
  /\ status' = [status EXCEPT ![j] = "pending"]
  /\ due' = [due EXCEPT ![j] = TRUE]
  /\ earlier' = earlier \cup {<<k, j>> : k \in {k \in Jobs : Live(k) /\ due[k]}}
                        \cup {<<j, k>> : k \in {k \in Jobs : Live(k) /\ ~due[k]}}
  /\ UNCHANGED <<stale, attempts, workerVars, faultVars>>

(* Variant: RETURNING gives the attempts from before the increment.        *)
DequeueOldAttempts(w) ==
  /\ held[w] = NoJob
  /\ \E j \in FirstRunnable :
       /\ status' = [status EXCEPT ![j] = "running"]
       /\ attempts' = [attempts EXCEPT ![j] = @ + 1]
       /\ stale' = [stale EXCEPT ![j] = FALSE]
       /\ held' = [held EXCEPT ![w] = j]
       /\ seen' = [seen EXCEPT ![w] = attempts[j]]
  /\ UNCHANGED <<due, earlier, faultVars>>

(* One row is claimed: FOR UPDATE SKIP LOCKED makes the choice and the     *)
(* update one step.  Nothing here looks at max_attempts.                   *)
Dequeue(w) ==
  /\ held[w] = NoJob
  /\ \E j \in FirstRunnable :
       /\ status' = [status EXCEPT ![j] = "running"]
       /\ attempts' = [attempts EXCEPT ![j] = @ + 1]
       /\ stale' = [stale EXCEPT ![j] = FALSE]
       /\ held' = [held EXCEPT ![w] = j]
       /\ seen' = [seen EXCEPT ![w] = attempts[j] + 1]
  /\ UNCHANGED <<due, earlier, faultVars>>

(* The queue has nothing to run: the loop sleeps for idlePoll.             *)
IdlePoll(w) ==
  /\ held[w] = NoJob
  /\ Runnable = {}
  /\ UNCHANGED queueVars

(* UPDATE ... WHERE id = $1, whatever the row's status has become.         *)
Overwrite(w, newStatus) ==
  /\ held[w] # NoJob
  /\ status' = [status EXCEPT ![held[w]] = newStatus]
  /\ stale' = [stale EXCEPT ![held[w]] = FALSE]
  /\ held' = [held EXCEPT ![w] = NoJob]
  /\ seen' = [seen EXCEPT ![w] = 0]
  /\ UNCHANGED <<attempts, faultVars>>

(* The handler returned nil.                                               *)
Complete(w) ==
  /\ Overwrite(w, "done")
  /\ earlier' = Without(held[w])
  /\ UNCHANGED due

(* Variant: > instead of >= in the test of the attempts.                   *)
RetryOnceMore(w) ==
  /\ seen[w] <= MaxAttempts
  /\ Overwrite(w, "pending")
  /\ due' = [due EXCEPT ![held[w]] = FALSE]
  /\ earlier' = Without(held[w])
        \cup {<<k, held[w]>> : k \in {k \in Jobs : Live(k) /\ k # held[w]}}

(* The handler failed with attempts left: run_at = now + retryBackoff, the *)
(* latest run_at of all rows.                                              *)
Retry(w) ==
  /\ seen[w] < MaxAttempts
  /\ Overwrite(w, "pending")
  /\ due' = [due EXCEPT ![held[w]] = FALSE]
  /\ earlier' = Without(held[w])
        \cup {<<k, held[w]>> : k \in {k \in Jobs : Live(k) /\ k # held[w]}}

(* Variants: the job is given up on its first error; a status that the     *)
(* job_status enum does not have.                                          *)
FailAtOnce(w) ==
  /\ Overwrite(w, "failed")
  /\ earlier' = Without(held[w])
  /\ UNCHANGED due

FailAsDead(w) ==
  /\ seen[w] >= MaxAttempts
  /\ Overwrite(w, "dead")
  /\ earlier' = Without(held[w])
  /\ UNCHANGED due

(* The handler failed and its copy of attempts has reached max_attempts.   *)
Fail(w) ==
  /\ seen[w] >= MaxAttempts
  /\ Overwrite(w, "failed")
  /\ earlier' = Without(held[w])
  /\ UNCHANGED due

(* The worker goes without its closing UPDATE taking effect: the process   *)
(* died, the context was cancelled by a shutdown, or the UPDATE failed.    *)
Abandon(w) ==
  /\ held[w] # NoJob
  /\ lost < MaxLost
  /\ lost' = lost + 1
  /\ held' = [held EXCEPT ![w] = NoJob]
  /\ seen' = [seen EXCEPT ![w] = 0]
  /\ UNCHANGED <<rowVars, overruns>>

(* The clock passes run_at of a row that was backing off.                  *)
BackoffElapsed(j) ==
  /\ status[j] = "pending" /\ ~due[j]
  /\ \A k \in Jobs : Live(k) /\ ~due[k] => <<k, j>> \notin earlier
  /\ due' = [due EXCEPT ![j] = TRUE]
  /\ UNCHANGED <<status, stale, attempts, earlier, workerVars, faultVars>>

(* The clock passes updated_at + staleRunning of a row nobody handles.     *)
OrphanGoesStale(j) ==
  /\ status[j] = "running" /\ ~stale[j]
  /\ \A w \in Workers : held[w] # j
  /\ stale' = [stale EXCEPT ![j] = TRUE]
  /\ UNCHANGED <<status, due, attempts, earlier, workerVars, faultVars>>

(* The same clock passes while a worker is still in the handler.  No       *)
(* heartbeat renews updated_at, and smtp.SendMail and the database calls   *)
(* have no deadline of their own.                                          *)
HandlerOverruns(j) ==
  /\ SlowHandlers
  /\ status[j] = "running" /\ ~stale[j]
  /\ \E w \in Workers : held[w] = j
  /\ lost < MaxLost
  /\ lost' = lost + 1
  /\ overruns' = [overruns EXCEPT ![j] = @ + 1]
  /\ stale' = [stale EXCEPT ![j] = TRUE]
  /\ UNCHANGED <<status, due, attempts, earlier, workerVars>>

Finish(w) == Complete(w) \/ Retry(w) \/ Fail(w)

QueueNext ==
  \/ \E j \in Jobs : Enqueue(j)
  \/ \E w \in Workers : Dequeue(w)
  \/ \E w \in Workers : IdlePoll(w)
  \/ \E w \in Workers : Complete(w)
  \/ \E w \in Workers : Retry(w)
  \/ \E w \in Workers : Fail(w)
  \/ \E w \in Workers : Abandon(w)
  \/ \E j \in Jobs : BackoffElapsed(j)
  \/ \E j \in Jobs : OrphanGoesStale(j)
  \/ \E j \in Jobs : HandlerOverruns(j)

QueueSpec == QueueInit /\ [][QueueNext]_queueVars

(* The worker loop polls forever, every handler returns, and time passes.  *)
QueueFairness ==
  /\ \A w \in Workers : WF_queueVars(Dequeue(w)) /\ WF_queueVars(Finish(w))
  /\ \A j \in Jobs : /\ WF_queueVars(BackoffElapsed(j))
                     /\ WF_queueVars(OrphanGoesStale(j))

QueueFairSpec == QueueSpec /\ QueueFairness

-----------------------------------------------------------------------------
(* Dequeue's claim excludes: a job is handled by one worker at a time, and  *)
(* each worker more is paid for by a handler of that very job that outlived *)
(* staleRunning.  A lost claim, a retry or another job's overrun buys none. *)
Holders(j) == {w \in Workers : held[w] = j}

OneHandlerPerJob ==
  \A j \in Jobs : Cardinality(Holders(j)) <= 1 + overruns[j]

(* A worker's copy of its row is current until the worker lets go of it,    *)
(* unless that row was overrun: the closing UPDATEs, which look at nothing  *)
(* but the id, then never overwrite a later claim.                          *)
ClaimIsCurrent ==
  \A w \in Workers : held[w] # NoJob /\ overruns[held[w]] = 0 =>
    /\ status[held[w]] = "running"
    /\ attempts[held[w]] = seen[w]
    /\ ~stale[held[w]]

(* Claims beyond max_attempts are paid for by lost claims: a handler that  *)
(* only ever returns errors is run max_attempts times and no more.         *)
AttemptsPaidFor ==
  \A j \in Jobs : attempts[j] <= MaxAttempts + lost

(* Fail gives up on a job only after max_attempts claims (worker.go:76).   *)
FailedAfterAllAttempts ==
  \A j \in Jobs : status[j] = "failed" => attempts[j] >= MaxAttempts

(* A job that was finished - done or given up - is never run again: a late  *)
(* UPDATE can bring back only the row that its own handler overran, never   *)
(* another one, whatever order retries, reclaims and lost claims come in.   *)
FinishedStaysFinished ==
  [][\A j \in Jobs : status[j] \in {"done", "failed"} /\ overruns[j] = 0
        => status'[j] = status[j]]_queueVars

(* Every job is eventually done or given up, although claims are lost and  *)
(* their rows are left 'running'.                                          *)
EveryJobFinishes ==
  \A j \in Jobs : status[j] = "pending" ~> status[j] \in {"done", "failed"}
=============================================================================
