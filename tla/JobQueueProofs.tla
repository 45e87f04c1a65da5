--------------------------- MODULE JobQueueProofs ---------------------------
(***************************************************************************)
(* Proofs about JobQueue, for any rows, workers, max_attempts and any      *)
(* bound on the claims that are lost.                                      *)
(*                                                                         *)
(* All of it holds whatever the handlers do, those that outlive            *)
(* staleRunning included: an overrun is counted for its row, and what the  *)
(* claim of Dequeue promises is that nothing but the overruns of a row     *)
(* gives it another handler, and no row but that one suffers from it.      *)
(***************************************************************************)
EXTENDS JobQueue, FiniteSetTheorems, TLAPS

(* Every statement of the queue writes values of the columns' types.       *)
LEMMA QueueTypeStep ==
  ASSUME QueueTypeOK, [QueueNext]_queueVars
  PROVE  QueueTypeOK'
<1> USE QueueAssumption DEF QueueTypeOK, JobStatus
<1>1. ASSUME NEW j \in Jobs, Enqueue(j) PROVE QueueTypeOK'
  BY <1>1 DEF Enqueue, workerVars, faultVars
<1>2. ASSUME NEW w \in Workers, Dequeue(w) PROVE QueueTypeOK'
  <2>1. PICK j \in FirstRunnable :
          /\ status' = [status EXCEPT ![j] = "running"]
          /\ attempts' = [attempts EXCEPT ![j] = @ + 1]
          /\ stale' = [stale EXCEPT ![j] = FALSE]
          /\ held' = [held EXCEPT ![w] = j]
          /\ seen' = [seen EXCEPT ![w] = attempts[j] + 1]
    BY <1>2 DEF Dequeue, faultVars
  <2>2. j \in Jobs
    BY DEF FirstRunnable, Runnable
  <2> QED BY <1>2, <2>1, <2>2 DEF Dequeue, faultVars
<1>3. ASSUME NEW w \in Workers, IdlePoll(w) PROVE QueueTypeOK'
  BY <1>3 DEF IdlePoll, queueVars
<1>4. ASSUME NEW w \in Workers, Complete(w) PROVE QueueTypeOK'
  BY <1>4 DEF Complete, Overwrite, faultVars, Without
<1>5. ASSUME NEW w \in Workers, Retry(w) PROVE QueueTypeOK'
  <2>1. held[w] \in Jobs
    BY <1>5 DEF Retry, Overwrite, faultVars
  <2>2. earlier' \in SUBSET (Jobs \X Jobs)
    BY <1>5, <2>1 DEF Retry, Without
  <2> QED BY <1>5, <2>1, <2>2 DEF Retry, Overwrite, faultVars
<1>6. ASSUME NEW w \in Workers, Fail(w) PROVE QueueTypeOK'
  BY <1>6 DEF Fail, Overwrite, faultVars, Without
<1>7. ASSUME NEW w \in Workers, Abandon(w) PROVE QueueTypeOK'
  BY <1>7 DEF Abandon, rowVars
<1>8. ASSUME NEW j \in Jobs, BackoffElapsed(j) PROVE QueueTypeOK'
  BY <1>8 DEF BackoffElapsed, workerVars, faultVars
<1>9. ASSUME NEW j \in Jobs, OrphanGoesStale(j) PROVE QueueTypeOK'
  BY <1>9 DEF OrphanGoesStale, workerVars, faultVars
<1>10. ASSUME NEW j \in Jobs, HandlerOverruns(j) PROVE QueueTypeOK'
  BY <1>10 DEF HandlerOverruns, workerVars, faultVars
<1>11. CASE UNCHANGED queueVars
  BY <1>11 DEF queueVars
<1> QED
  BY <1>1, <1>2, <1>3, <1>4, <1>5, <1>6, <1>7, <1>8, <1>9, <1>10, <1>11
  DEF QueueNext

(* Every reachable state of the jobs table and of the workers has the      *)
(* types of the columns and of the Job struct.                             *)
THEOREM QueueTypeCorrect == QueueSpec => []QueueTypeOK
<1>1. QueueInit => QueueTypeOK
  BY QueueAssumption DEF QueueInit, QueueTypeOK, JobStatus
<1> QED
  BY <1>1, QueueTypeStep, PTL DEF QueueSpec

-----------------------------------------------------------------------------
(* A worker's copy of attempts never exceeds the column: the column only   *)
(* grows.  This is what ties `job.Attempts >= job.MaxAttempts`, tested on  *)
(* the copy, to the row.                                                   *)
CopyNotAhead ==
  \A w \in Workers : held[w] # NoJob => seen[w] <= attempts[held[w]]

GiveUpInv == QueueTypeOK /\ CopyNotAhead /\ FailedAfterAllAttempts

LEMMA GiveUpStep ==
  ASSUME GiveUpInv, [QueueNext]_queueVars
  PROVE  GiveUpInv'
<1> USE QueueAssumption DEF GiveUpInv
<1>0. QueueTypeOK'
  BY QueueTypeStep
<1>1. ASSUME NEW j \in Jobs, Enqueue(j) PROVE GiveUpInv'
  BY <1>0, <1>1 DEF Enqueue, workerVars, faultVars, CopyNotAhead, FailedAfterAllAttempts, QueueTypeOK
<1>2. ASSUME NEW w \in Workers, Dequeue(w) PROVE GiveUpInv'
  <2>1. PICK j \in Jobs :
          /\ status' = [status EXCEPT ![j] = "running"]
          /\ attempts' = [attempts EXCEPT ![j] = @ + 1]
          /\ held' = [held EXCEPT ![w] = j]
          /\ seen' = [seen EXCEPT ![w] = attempts[j] + 1]
    BY <1>2 DEF Dequeue, faultVars, FirstRunnable, Runnable
  <2>2. CopyNotAhead'
    BY <2>1 DEF CopyNotAhead, QueueTypeOK
  <2>3. FailedAfterAllAttempts'
    BY <2>1 DEF FailedAfterAllAttempts, QueueTypeOK
  <2> QED BY <1>0, <2>2, <2>3
<1>3. ASSUME NEW w \in Workers, Complete(w) PROVE GiveUpInv'
  BY <1>0, <1>3 DEF Complete, Overwrite, faultVars, CopyNotAhead, FailedAfterAllAttempts, QueueTypeOK
<1>4. ASSUME NEW w \in Workers, Retry(w) PROVE GiveUpInv'
  BY <1>0, <1>4 DEF Retry, Overwrite, faultVars, CopyNotAhead, FailedAfterAllAttempts, QueueTypeOK
<1>5. ASSUME NEW w \in Workers, Fail(w) PROVE GiveUpInv'
  <2>1. CopyNotAhead'
    BY <1>5 DEF Fail, Overwrite, faultVars, CopyNotAhead, QueueTypeOK
  <2>2. attempts[held[w]] >= MaxAttempts
    BY <1>5 DEF Fail, Overwrite, faultVars, CopyNotAhead, QueueTypeOK
  <2>3. FailedAfterAllAttempts'
    BY <1>5, <2>2 DEF Fail, Overwrite, faultVars, FailedAfterAllAttempts, QueueTypeOK
  <2> QED BY <1>0, <2>1, <2>3
<1>6. ASSUME NEW w \in Workers, Abandon(w) PROVE GiveUpInv'
  BY <1>0, <1>6 DEF Abandon, rowVars, CopyNotAhead, FailedAfterAllAttempts, QueueTypeOK
<1>7. ASSUME UNCHANGED <<status, attempts, held, seen>> PROVE GiveUpInv'
  BY <1>0, <1>7 DEF CopyNotAhead, FailedAfterAllAttempts
<1> QED
  BY <1>1, <1>2, <1>3, <1>4, <1>5, <1>6, <1>7
  DEF QueueNext, IdlePoll, BackoffElapsed, OrphanGoesStale, HandlerOverruns,
      queueVars, workerVars, faultVars

(* A job is given up (worker.go:76-78) only after it was claimed           *)
(* max_attempts times, even when several workers hold stale copies of it.  *)
THEOREM GiveUpCorrect == QueueSpec => []FailedAfterAllAttempts
<1>1. QueueInit => GiveUpInv
  BY QueueAssumption
  DEF QueueInit, GiveUpInv, QueueTypeOK, JobStatus, CopyNotAhead, FailedAfterAllAttempts
<1>2. GiveUpInv => FailedAfterAllAttempts
  BY DEF GiveUpInv
<1> QED
  BY <1>1, <1>2, GiveUpStep, PTL DEF QueueSpec

-----------------------------------------------------------------------------
(* Rows that no live handler outlived: one worker holds them and its copy  *)
(* is current.  What is overrun may be held by several, and the others do  *)
(* not notice: no statement reaches from one row to another.               *)
SoleHolder ==
  \A w, v \in Workers :
     held[w] # NoJob /\ held[w] = held[v] /\ overruns[held[w]] = 0 => w = v

ClaimInv ==
  /\ QueueTypeOK
  /\ SoleHolder
  /\ ClaimIsCurrent

(* The statements that only insert a row or let time pass: no worker's     *)
(* claim changes, and a held row that goes stale is counted as overrun.    *)
LEMMA ClaimTimeStep ==
  ASSUME ClaimInv, NEW j \in Jobs,
         \/ Enqueue(j) \/ BackoffElapsed(j)
         \/ OrphanGoesStale(j) \/ HandlerOverruns(j),
         QueueTypeOK'
  PROVE  ClaimInv'
<1> USE QueueAssumption DEF ClaimInv
<1>1. CASE Enqueue(j)
  BY <1>1 DEF Enqueue, workerVars, faultVars, ClaimIsCurrent, SoleHolder, QueueTypeOK
<1>2. CASE BackoffElapsed(j)
  BY <1>2 DEF BackoffElapsed, workerVars, faultVars, ClaimIsCurrent, SoleHolder
<1>3. CASE OrphanGoesStale(j)
  BY <1>3 DEF OrphanGoesStale, workerVars, faultVars, ClaimIsCurrent, SoleHolder, QueueTypeOK
<1>4. CASE HandlerOverruns(j)
  <2>1. /\ UNCHANGED <<status, attempts, held, seen>>
        /\ \A k \in Jobs : k # j => stale'[k] = stale[k] /\ overruns'[k] = overruns[k]
        /\ overruns'[j] = overruns[j] + 1 /\ overruns[j] \in Nat
    BY <1>4 DEF HandlerOverruns, workerVars, QueueTypeOK
  <2>2. \A w \in Workers : held'[w] # NoJob /\ overruns'[held'[w]] = 0 =>
          held[w] # j /\ held[w] \in Jobs /\ overruns[held[w]] = 0
    BY <2>1 DEF QueueTypeOK
  <2>3. SoleHolder'
    BY <2>1, <2>2 DEF SoleHolder
  <2>4. ClaimIsCurrent'
    BY <2>1, <2>2 DEF ClaimIsCurrent
  <2> QED BY <2>3, <2>4
<1> QED BY <1>1, <1>2, <1>3, <1>4

(* A claim takes a row that nobody holds, or one that was overrun: a       *)
(* pending row is not held because its copies are current, and a held one  *)
(* goes stale only by an overrun.                                          *)
LEMMA ClaimDequeueStep ==
  ASSUME ClaimInv, NEW w \in Workers, Dequeue(w), QueueTypeOK'
  PROVE  ClaimInv'
<1> USE QueueAssumption DEF ClaimInv
<1>1. PICK j \in Runnable :
        /\ status' = [status EXCEPT ![j] = "running"]
        /\ attempts' = [attempts EXCEPT ![j] = @ + 1]
        /\ stale' = [stale EXCEPT ![j] = FALSE]
        /\ held' = [held EXCEPT ![w] = j]
        /\ seen' = [seen EXCEPT ![w] = attempts[j] + 1]
  BY DEF Dequeue, FirstRunnable
<1>2. j \in Jobs /\ held[w] = NoJob /\ overruns' = overruns
  BY DEF Dequeue, Runnable, faultVars
<1>3. \A v \in Workers : held[v] = j => overruns[j] # 0
  BY <1>2 DEF Runnable, ClaimIsCurrent
<1>4. \A v \in Workers : held'[v] # NoJob /\ overruns'[held'[v]] = 0 =>
        \/ v = w /\ held'[v] = j
        \/ v # w /\ held'[v] = held[v] /\ held'[v] # j
  BY <1>1, <1>2, <1>3 DEF QueueTypeOK
<1>5. SoleHolder'
  BY <1>2, <1>4 DEF SoleHolder
<1>6. ClaimIsCurrent'
  BY <1>1, <1>2, <1>4 DEF ClaimIsCurrent, QueueTypeOK
<1> QED BY <1>5, <1>6

(* Letting go of a row - by a closing UPDATE or by losing the claim.       *)
LEMMA ClaimReleaseStep ==
  ASSUME ClaimInv, NEW w \in Workers,
         Complete(w) \/ Retry(w) \/ Fail(w) \/ Abandon(w), QueueTypeOK'
  PROVE  ClaimInv'
<1> USE QueueAssumption DEF ClaimInv
<1> DEFINE j == held[w]
<1>1. /\ j \in Jobs /\ j # NoJob
      /\ held' = [held EXCEPT ![w] = NoJob]
      /\ seen' = [seen EXCEPT ![w] = 0]
      /\ attempts' = attempts /\ overruns' = overruns
  BY DEF Complete, Retry, Fail, Abandon, Overwrite, rowVars, faultVars, QueueTypeOK
<1>2. \A k \in Jobs : k # j => status'[k] = status[k] /\ stale'[k] = stale[k]
  BY DEF Complete, Retry, Fail, Abandon, Overwrite, rowVars, QueueTypeOK
<1>3. \A v \in Workers : held'[v] # NoJob /\ overruns'[held'[v]] = 0 =>
        v # w /\ held'[v] = held[v] /\ held'[v] # j /\ seen'[v] = seen[v]
  BY <1>1 DEF SoleHolder, QueueTypeOK
<1>4. SoleHolder'
  BY <1>1, <1>3 DEF SoleHolder
<1>5. ClaimIsCurrent'
  BY <1>1, <1>2, <1>3 DEF ClaimIsCurrent, QueueTypeOK
<1> QED BY <1>4, <1>5

LEMMA ClaimStep ==
  ASSUME ClaimInv, [QueueNext]_queueVars
  PROVE  ClaimInv'
<1>1. QueueTypeOK'
  BY QueueTypeStep DEF ClaimInv
<1>2. CASE UNCHANGED queueVars
  BY <1>2 DEF queueVars, ClaimInv, QueueTypeOK, SoleHolder, ClaimIsCurrent
<1>3. CASE QueueNext
  BY <1>1, <1>2, <1>3, ClaimTimeStep, ClaimDequeueStep, ClaimReleaseStep
  DEF QueueNext, IdlePoll
<1> QED BY <1>2, <1>3

LEMMA ClaimInitially == QueueInit => ClaimInv
BY QueueAssumption
DEF QueueInit, ClaimInv, QueueTypeOK, JobStatus, SoleHolder, ClaimIsCurrent

(* Every closing UPDATE - Complete, Retry and Fail, which match on the id  *)
(* alone - meets the very claim it closes, but for rows that were overrun. *)
THEOREM ClaimsCorrect == QueueSpec => []ClaimIsCurrent
<1>1. ClaimInv => ClaimIsCurrent
  BY DEF ClaimInv
<1> QED
  BY <1>1, ClaimInitially, ClaimStep, PTL DEF QueueSpec

(* A job that is done or given up is never run again, unless its own       *)
(* handler outlived staleRunning.                                          *)
THEOREM FinalityCorrect == QueueSpec => FinishedStaysFinished
<1>1. ASSUME ClaimInv, [QueueNext]_queueVars
      PROVE  [\A j \in Jobs : status[j] \in {"done", "failed"} /\ overruns[j] = 0
                => status'[j] = status[j]]_queueVars
  <2> SUFFICES ASSUME NEW j \in Jobs, status[j] \in {"done", "failed"}, overruns[j] = 0,
                      QueueNext
               PROVE  status'[j] = status[j]
    BY <1>1
  <2>1. ASSUME NEW w \in Workers, Dequeue(w) PROVE status'[j] = status[j]
    BY <2>1, <1>1 DEF Dequeue, FirstRunnable, Runnable, ClaimInv, QueueTypeOK
  <2>2. ASSUME NEW w \in Workers, Complete(w) \/ Retry(w) \/ Fail(w)
        PROVE  status'[j] = status[j]
    <3>1. held[w] # NoJob /\ held[w] # j
      BY <2>2, <1>1 DEF Complete, Retry, Fail, Overwrite, ClaimInv, ClaimIsCurrent
    <3> QED BY <2>2, <3>1, <1>1 DEF Complete, Retry, Fail, Overwrite, ClaimInv, QueueTypeOK
  <2>3. ASSUME NEW k \in Jobs, Enqueue(k) PROVE status'[j] = status[j]
    BY <2>3, <1>1 DEF Enqueue, ClaimInv, QueueTypeOK
  <2> QED
    BY <2>1, <2>2, <2>3
    DEF QueueNext, IdlePoll, Abandon, BackoffElapsed, OrphanGoesStale, HandlerOverruns,
        queueVars, rowVars
<1> QED
  BY <1>1, ClaimInitially, ClaimStep, PTL DEF QueueSpec, FinishedStaysFinished

-----------------------------------------------------------------------------
(* A worker handles a row of the table.                                    *)
HeldInv ==
  \A w \in Workers : held[w] # NoJob => status[held[w]] # "absent"

(* The queue never forgets a row, and a claim takes one that is there.     *)
LEMMA QueueKeepsRows ==
  ASSUME QueueTypeOK, HeldInv, [QueueNext]_queueVars
  PROVE  /\ \A j \in Jobs : status[j] # "absent" => status'[j] # "absent"
         /\ HeldInv'
<1> USE QueueAssumption DEF QueueTypeOK, HeldInv
<1>1. ASSUME NEW j \in Jobs, Enqueue(j)
      PROVE  (\A k \in Jobs : status[k] # "absent" => status'[k] # "absent") /\ HeldInv'
  BY <1>1 DEF Enqueue, workerVars, faultVars
<1>2. ASSUME NEW w \in Workers, Dequeue(w)
      PROVE  (\A k \in Jobs : status[k] # "absent" => status'[k] # "absent") /\ HeldInv'
  BY <1>2 DEF Dequeue, faultVars, FirstRunnable, Runnable
<1>3. ASSUME NEW w \in Workers, Complete(w) \/ Retry(w) \/ Fail(w)
      PROVE  (\A k \in Jobs : status[k] # "absent" => status'[k] # "absent") /\ HeldInv'
  BY <1>3 DEF Complete, Retry, Fail, Overwrite, faultVars
<1>4. ASSUME NEW w \in Workers, Abandon(w)
      PROVE  (\A k \in Jobs : status[k] # "absent" => status'[k] # "absent") /\ HeldInv'
  BY <1>4 DEF Abandon, rowVars
<1>5. ASSUME UNCHANGED <<status, held>>
      PROVE  (\A k \in Jobs : status[k] # "absent" => status'[k] # "absent") /\ HeldInv'
  BY <1>5
<1> QED
  BY <1>1, <1>2, <1>3, <1>4, <1>5
  DEF QueueNext, IdlePoll, BackoffElapsed, OrphanGoesStale, HandlerOverruns,
      queueVars, workerVars, faultVars

-----------------------------------------------------------------------------
(* Bounds of the form "once, plus once for every fault" are kept as books: *)
(* what was used and who may still use something never exceed one right    *)
(* and the rights that were bought by faults.  Rights are held by the      *)
(* elements of two sets.                                                   *)
Balanced(used, bearers, waiting, spent) ==
  /\ IsFiniteSet(bearers) /\ IsFiniteSet(waiting)
  /\ used + Cardinality(bearers) + Cardinality(waiting) <= 1 + spent

(* One element more or less.                                               *)
LEMMA OneMore ==
  ASSUME NEW S, IsFiniteSet(S), NEW x
  PROVE  /\ IsFiniteSet(S \cup {x})
         /\ Cardinality(S) \in Nat /\ Cardinality(S \cup {x}) \in Nat
         /\ Cardinality(S \cup {x}) <= Cardinality(S) + 1
<1>1. /\ IsFiniteSet(S \cup {x})
      /\ Cardinality(S \cup {x}) = IF x \in S THEN Cardinality(S) ELSE Cardinality(S) + 1
  BY FS_AddElement
<1>2. Cardinality(S) \in Nat
  BY FS_CardinalityType
<1>3. Cardinality(S \cup {x}) \in Nat
  BY <1>1, FS_CardinalityType
<1> QED BY <1>1, <1>2, <1>3

LEMMA OneLess ==
  ASSUME NEW S, IsFiniteSet(S), NEW x \in S
  PROVE  /\ IsFiniteSet(S \ {x})
         /\ Cardinality(S) \in Nat /\ Cardinality(S \ {x}) \in Nat
         /\ Cardinality(S \ {x}) = Cardinality(S) - 1
<1>1. /\ IsFiniteSet(S \ {x})
      /\ Cardinality(S \ {x}) = IF x \in S THEN Cardinality(S) - 1 ELSE Cardinality(S)
  BY FS_RemoveElement
<1>2. Cardinality(S) \in Nat
  BY FS_CardinalityType
<1>3. Cardinality(S \ {x}) \in Nat
  BY <1>1, FS_CardinalityType
<1> QED BY <1>1, <1>2, <1>3

(* Five ways to keep the balance.                                          *)
LEMMA RightsLapse ==
  ASSUME NEW d \in Nat, NEW s \in Nat, NEW A, NEW B, Balanced(d, A, B, s),
         NEW A2 \in SUBSET A, NEW B2 \in SUBSET B
  PROVE  Balanced(d, A2, B2, s)
<1>1. /\ IsFiniteSet(A2) /\ Cardinality(A2) <= Cardinality(A)
      /\ IsFiniteSet(B2) /\ Cardinality(B2) <= Cardinality(B)
  BY FS_Subset DEF Balanced
<1>2. /\ Cardinality(A) \in Nat /\ Cardinality(B) \in Nat
      /\ Cardinality(A2) \in Nat /\ Cardinality(B2) \in Nat
  BY <1>1, FS_CardinalityType DEF Balanced
<1> QED BY <1>1, <1>2 DEF Balanced

LEMMA RightIsBought ==
  ASSUME NEW d \in Nat, NEW s \in Nat, NEW A, NEW B, Balanced(d, A, B, s),
         NEW j, NEW A2 \in SUBSET A, NEW B2 \in SUBSET (B \cup {j})
  PROVE  Balanced(d, A2, B2, s + 1)
<1>1. /\ IsFiniteSet(B \cup {j})
      /\ Cardinality(B) \in Nat /\ Cardinality(B \cup {j}) \in Nat
      /\ Cardinality(B \cup {j}) <= Cardinality(B) + 1
  BY OneMore DEF Balanced
<1>2. Cardinality(A) \in Nat
  BY FS_CardinalityType DEF Balanced
<1>3. Balanced(d, A, B \cup {j}, s + 1)
  BY <1>1, <1>2 DEF Balanced
<1> QED BY <1>3, RightsLapse

LEMMA RightIsTaken ==
  ASSUME NEW d \in Nat, NEW s \in Nat, NEW A, NEW B, Balanced(d, A, B, s),
         NEW j \in B, NEW w, NEW A2 \in SUBSET (A \cup {w}), NEW B2 \in SUBSET (B \ {j})
  PROVE  Balanced(d, A2, B2, s)
<1>1. /\ IsFiniteSet(A \cup {w})
      /\ Cardinality(A) \in Nat /\ Cardinality(A \cup {w}) \in Nat
      /\ Cardinality(A \cup {w}) <= Cardinality(A) + 1
  BY OneMore DEF Balanced
<1>2. /\ IsFiniteSet(B \ {j})
      /\ Cardinality(B) \in Nat /\ Cardinality(B \ {j}) \in Nat
      /\ Cardinality(B \ {j}) = Cardinality(B) - 1
  BY OneLess DEF Balanced
<1>3. Balanced(d, A \cup {w}, B \ {j}, s)
  BY <1>1, <1>2 DEF Balanced
<1> QED BY <1>3, RightsLapse

LEMMA RightIsPassedOn ==
  ASSUME NEW d \in Nat, NEW s \in Nat, NEW A, NEW B, Balanced(d, A, B, s),
         NEW w \in A, NEW j, NEW A2 \in SUBSET (A \ {w}), NEW B2 \in SUBSET (B \cup {j})
  PROVE  Balanced(d, A2, B2, s)
<1>1. /\ IsFiniteSet(B \cup {j})
      /\ Cardinality(B) \in Nat /\ Cardinality(B \cup {j}) \in Nat
      /\ Cardinality(B \cup {j}) <= Cardinality(B) + 1
  BY OneMore DEF Balanced
<1>2. /\ IsFiniteSet(A \ {w})
      /\ Cardinality(A) \in Nat /\ Cardinality(A \ {w}) \in Nat
      /\ Cardinality(A \ {w}) = Cardinality(A) - 1
  BY OneLess DEF Balanced
<1>3. Balanced(d, A \ {w}, B \cup {j}, s)
  BY <1>1, <1>2 DEF Balanced
<1> QED BY <1>3, RightsLapse

LEMMA RightIsUsed ==
  ASSUME NEW d \in Nat, NEW s \in Nat, NEW A, NEW B, Balanced(d, A, B, s),
         NEW w \in A, NEW A2 \in SUBSET (A \ {w}), NEW B2 \in SUBSET B
  PROVE  Balanced(d + 1, A2, B2, s)
<1>1. /\ IsFiniteSet(A \ {w})
      /\ Cardinality(A) \in Nat /\ Cardinality(A \ {w}) \in Nat
      /\ Cardinality(A \ {w}) = Cardinality(A) - 1
  BY OneLess DEF Balanced
<1>2. Cardinality(B) \in Nat
  BY FS_CardinalityType DEF Balanced
<1>3. Balanced(d + 1, A \ {w}, B, s)
  BY <1>1, <1>2 DEF Balanced
<1> QED BY <1>3, RightsLapse

LEMMA BalancedEitherWay ==
  ASSUME NEW d \in Nat, NEW s \in Nat, NEW A, NEW B, Balanced(d, A, B, s)
  PROVE  Balanced(d, B, A, s)
<1>1. Cardinality(A) \in Nat /\ Cardinality(B) \in Nat
  BY FS_CardinalityType DEF Balanced
<1> QED BY <1>1 DEF Balanced

LEMMA BalanceCarries ==
  ASSUME NEW d \in Nat, NEW s \in Nat, NEW A, NEW B, Balanced(d, A, B, s), NEW t \in {s, s + 1}
  PROVE  Balanced(d, A, B, t)
<1>1. Cardinality(A) \in Nat /\ Cardinality(B) \in Nat
  BY FS_CardinalityType DEF Balanced
<1> QED BY <1>1 DEF Balanced

(* A right bought for the first of the two sets.                           *)
LEMMA BoughtForFirst ==
  ASSUME NEW d \in Nat, NEW s \in Nat, NEW A, NEW B, Balanced(d, A, B, s),
         NEW j, NEW A2 \in SUBSET (A \cup {j}), NEW B2 \in SUBSET B
  PROVE  Balanced(d, A2, B2, s + 1)
<1>1. Balanced(d, B, A, s)
  BY BalancedEitherWay
<1>2. Balanced(d, B2, A2, s + 1)
  BY <1>1, RightIsBought
<1> QED BY <1>2, BalancedEitherWay

(* Nobody holds fewer than no rights.                                      *)
LEMMA RightsInHand ==
  ASSUME NEW d \in Nat, NEW s \in Nat, NEW A, NEW B, Balanced(d, A, B, s)
  PROVE  d <= 1 + s
<1>1. Cardinality(A) \in Nat /\ Cardinality(B) \in Nat
  BY FS_CardinalityType DEF Balanced
<1> QED BY <1>1 DEF Balanced

LEMMA EmptyBalance ==
  ASSUME NEW s \in Nat, NEW j
  PROVE  Balanced(0, {}, {j}, s)
<1>1. IsFiniteSet({}) /\ Cardinality({}) = 0
  BY FS_EmptySet
<1>2. IsFiniteSet({j}) /\ Cardinality({j}) = 1
  BY FS_Singleton
<1>3. 0 + Cardinality({}) + Cardinality({j}) <= 1 + s
  BY <1>1, <1>2
<1> QED BY <1>1, <1>2, <1>3 DEF Balanced

-----------------------------------------------------------------------------
(* Claims beyond max_attempts: AttemptsPaidFor, whatever the handlers do.  *)
(*                                                                         *)
(* Several workers may hold copies of one row, and an old copy lets its    *)
(* worker Retry a row that others claimed since.  What bounds the claims   *)
(* is the number of turns that are left: a row that may be claimed has     *)
(* one, and so has each worker whose copy is below max_attempts.  A claim  *)
(* turns the one into the other, until attempts comes to max_attempts;     *)
(* from there on each claim uses one up.                                   *)

(* The workers that may still Retry the job.                               *)
Strivers(j) == {w \in Workers : held[w] = j /\ seen[w] < MaxAttempts}

(* The row, if a Dequeue may come to take it.                              *)
Claimable(j) ==
  {k \in {j} : \/ status[k] = "pending"
               \/ /\ status[k] = "running"
                  /\ stale[k] \/ \A w \in Workers : held[w] # k}

(* The claims from the last allowed one on.                                *)
Excess(j) == IF attempts[j] < MaxAttempts THEN 0 ELSE (attempts[j] + 1) - MaxAttempts

TurnsInv ==
  /\ QueueTypeOK
  /\ HeldInv
  /\ \A j \in Jobs : status[j] = "absent" => attempts[j] = 0
  /\ \A j \in Jobs : Balanced(Excess(j), Claimable(j), Strivers(j), lost)

LEMMA ExcessTyped ==
  ASSUME QueueTypeOK, NEW j \in Jobs
  PROVE  Excess(j) \in Nat
<1>1. attempts[j] \in Nat /\ MaxAttempts \in Nat
  BY QueueAssumption DEF QueueTypeOK
<1> QED BY <1>1 DEF Excess

LEMMA TurnsStep ==
  ASSUME TurnsInv, [QueueNext]_queueVars
  PROVE  TurnsInv'
<1>1. QueueTypeOK' /\ HeldInv'
  BY QueueTypeStep, QueueKeepsRows DEF TurnsInv
<1>2. \A j \in Jobs : status'[j] = "absent" => attempts'[j] = 0
  <2>1. \A j \in Jobs : status'[j] = "absent" => status[j] = "absent"
    BY QueueKeepsRows DEF TurnsInv
  <2>2. ASSUME NEW w \in Workers, Dequeue(w), NEW j \in Jobs, status'[j] = "absent"
        PROVE  attempts'[j] = attempts[j]
    BY <2>2 DEF Dequeue, faultVars, FirstRunnable, Runnable, TurnsInv, QueueTypeOK
  <2>3. (\E w \in Workers : Dequeue(w)) \/ attempts' = attempts
    BY DEF QueueNext, Enqueue, IdlePoll, Complete, Retry, Fail, Overwrite, faultVars, Abandon, rowVars,
           BackoffElapsed, OrphanGoesStale, HandlerOverruns, queueVars
  <2> QED BY <2>1, <2>2, <2>3 DEF TurnsInv
<1> SUFFICES ASSUME NEW j \in Jobs
             PROVE  Balanced(Excess(j), Claimable(j), Strivers(j), lost)'
  BY <1>1, <1>2 DEF TurnsInv
<1> DEFINE A == Claimable(j)
           B == Strivers(j)
           d == Excess(j)
           s == lost
           Goal == Balanced(d, A, B, s)'
<1>3. /\ QueueTypeOK /\ HeldInv /\ NoJob \notin Jobs
      /\ MaxAttempts \in Nat \ {0} /\ lost \in Nat
  BY QueueAssumption DEF TurnsInv, QueueTypeOK
<1>4. d \in Nat /\ s \in Nat /\ Balanced(d, A, B, s)
  BY <1>3, ExcessTyped DEF TurnsInv
<1>5. A \subseteq {j} /\ A' \subseteq {j}
  BY DEF Claimable
<1>6. attempts'[j] = attempts[j] => d' = d
  BY DEF Excess
<1> HIDE DEF A, B, d, s
<1>7. ASSUME NEW k \in Jobs, Enqueue(k) PROVE Goal
  <2>1. UNCHANGED <<held, seen, lost, attempts, stale>> /\ d' = d /\ s' = s
    BY <1>6, <1>7 DEF Enqueue, workerVars, faultVars, s
  <2>2. B' = B
    BY <2>1 DEF B, Strivers
  <2>3. CASE k = j
    <3>1. status[j] = "absent" /\ attempts[j] = 0
      BY <1>7, <2>3 DEF Enqueue, TurnsInv
    <3>2. B = {} /\ d = 0
      BY <1>3, <3>1 DEF B, Strivers, HeldInv, d, Excess
    <3>3. Balanced(0, {}, {j}, s)
      BY <1>4, EmptyBalance
    <3>4. Balanced(0, {j}, {}, s)
      BY <1>4, <3>3, BalancedEitherWay
    <3>5. Balanced(0, A', {}, s)
      BY <1>4, <1>5, <3>4, RightsLapse
    <3> QED BY <2>1, <2>2, <3>2, <3>5 DEF Balanced
  <2>4. CASE k # j
    <3>1. status'[j] = status[j]
      BY <1>3, <1>7, <2>4 DEF Enqueue, QueueTypeOK
    <3>2. A' = A
      BY <2>1, <3>1 DEF A, Claimable
    <3> QED BY <1>4, <2>1, <2>2, <3>2 DEF Balanced
  <2> QED BY <2>3, <2>4
<1>8. ASSUME NEW w \in Workers, Dequeue(w) PROVE Goal
  <2>1. PICK k \in Runnable : /\ status' = [status EXCEPT ![k] = "running"]
                              /\ attempts' = [attempts EXCEPT ![k] = @ + 1]
                              /\ stale' = [stale EXCEPT ![k] = FALSE]
                              /\ held' = [held EXCEPT ![w] = k]
                              /\ seen' = [seen EXCEPT ![w] = attempts[k] + 1]
    BY <1>8 DEF Dequeue, faultVars, FirstRunnable
  <2>2. k \in Jobs /\ held[w] = NoJob /\ s' = s
    BY <1>8, <2>1 DEF Dequeue, faultVars, Runnable, s
  <2>3. CASE k # j
    <3>1. d' = d
      BY <1>3, <1>6, <2>1, <2>3 DEF QueueTypeOK
    <3>2. A' \in SUBSET A
      BY <1>3, <2>1, <2>2, <2>3 DEF A, Claimable, QueueTypeOK
    <3>3. B' \in SUBSET B
      BY <1>3, <2>1, <2>2, <2>3 DEF B, Strivers, QueueTypeOK
    <3>4. Balanced(d, A', B', s)
      BY <1>4, <3>2, <3>3, RightsLapse
    <3> QED BY <2>2, <3>1, <3>4 DEF Balanced
  <2>4. CASE k = j
    <3>1. j \in A
      BY <2>1, <2>4 DEF Runnable, A, Claimable
    <3>2. A' \in SUBSET (A \ {j})
      BY <1>3, <1>5, <2>1, <2>4 DEF A, Claimable, QueueTypeOK
    <3>3. B' \in SUBSET (B \cup {w})
      BY <1>3, <2>1, <2>4 DEF B, Strivers, QueueTypeOK
    <3>4. attempts'[j] = attempts[j] + 1 /\ seen'[w] = attempts[j] + 1 /\ attempts[j] \in Nat
      BY <1>3, <2>1, <2>4 DEF QueueTypeOK
    <3>5. CASE attempts[j] + 1 < MaxAttempts
      <4>1. d' = d
        BY <1>3, <3>4, <3>5 DEF d, Excess
      <4>2. Balanced(d, A', B', s)
        BY <1>4, <3>1, <3>2, <3>3, RightIsPassedOn
      <4> QED BY <2>2, <4>1, <4>2 DEF Balanced
    <3>6. CASE ~(attempts[j] + 1 < MaxAttempts)
      <4>1. d' = d + 1
        BY <1>3, <3>4, <3>6 DEF d, Excess
      <4>2. w \notin B'
        BY <1>3, <3>4, <3>6 DEF B, Strivers
      <4>3. B' \in SUBSET B
        BY <3>3, <4>2
      <4>4. Balanced(d + 1, A', B', s)
        BY <1>4, <3>1, <3>2, <4>3, RightIsUsed
      <4> QED BY <2>2, <4>1, <4>4 DEF Balanced
    <3> QED BY <3>5, <3>6
  <2> QED BY <2>3, <2>4
<1>9. ASSUME NEW w \in Workers, Complete(w) \/ Retry(w) \/ Fail(w) \/ Abandon(w) PROVE Goal
  <2>1. /\ held[w] \in Jobs
        /\ held' = [held EXCEPT ![w] = NoJob] /\ seen' = [seen EXCEPT ![w] = 0]
        /\ attempts' = attempts
    BY <1>3, <1>9 DEF Complete, Retry, Fail, Overwrite, faultVars, Abandon, rowVars, QueueTypeOK
  <2>2. d' = d
    BY <1>6, <2>1
  <2>3. B' \in SUBSET B /\ (held[w] = j => w \notin B')
    BY <1>3, <2>1 DEF B, Strivers, QueueTypeOK
  <2>4. ASSUME Complete(w) \/ Retry(w) \/ Fail(w) PROVE s' = s
    BY <2>4 DEF Complete, Retry, Fail, Overwrite, faultVars, s
  <2>5. CASE held[w] # j
    <3>1. status'[j] = status[j] /\ stale'[j] = stale[j]
      BY <1>3, <1>9, <2>1, <2>5
      DEF Complete, Retry, Fail, Overwrite, faultVars, Abandon, rowVars, QueueTypeOK
    <3>2. A' \in SUBSET A
      BY <1>3, <2>1, <2>5, <3>1 DEF A, Claimable, QueueTypeOK
    <3>3. Balanced(d, A', B', s)
      BY <1>4, <2>3, <3>2, RightsLapse
    <3>4. s' = s \/ s' = s + 1
      BY <1>9, <2>4 DEF Abandon, s
    <3> QED BY <1>4, <2>2, <3>3, <3>4, BalanceCarries
  <2>6. CASE held[w] = j /\ (Complete(w) \/ Fail(w))
    <3>1. status'[j] \in {"done", "failed"}
      BY <1>3, <2>6 DEF Complete, Fail, Overwrite, faultVars, QueueTypeOK
    <3>2. A' \in SUBSET A
      BY <3>1 DEF A, Claimable
    <3>3. Balanced(d, A', B', s)
      BY <1>4, <2>3, <3>2, RightsLapse
    <3> QED BY <2>2, <2>4, <2>6, <3>3 DEF Balanced
  <2>7. CASE held[w] = j /\ Retry(w)
    <3>1. w \in B
      BY <2>7 DEF Retry, B, Strivers
    <3>2. B' \in SUBSET (B \ {w}) /\ A' \in SUBSET (A \cup {j})
      BY <1>5, <2>3, <2>7
    <3>3. Balanced(d, B, A, s)
      BY <1>4, BalancedEitherWay
    <3>4. Balanced(d, B', A', s)
      BY <1>4, <3>1, <3>2, <3>3, RightIsPassedOn
    <3>5. Balanced(d, A', B', s)
      BY <1>4, <3>4, BalancedEitherWay
    <3> QED BY <2>2, <2>4, <2>7, <3>5 DEF Balanced
  <2>8. CASE held[w] = j /\ Abandon(w)
    <3>1. s' = s + 1
      BY <2>8 DEF Abandon, s
    <3>2. A' \in SUBSET (A \cup {j})
      BY <1>5
    <3> QED BY <1>4, <1>5, <2>2, <2>3, <3>1, <3>2, BoughtForFirst
  <2> QED BY <1>9, <2>5, <2>6, <2>7, <2>8
<1>10. ASSUME NEW k \in Jobs, BackoffElapsed(k) \/ OrphanGoesStale(k) PROVE Goal
  <2>1. UNCHANGED <<status, held, seen, attempts, lost>>
    BY <1>10 DEF BackoffElapsed, OrphanGoesStale, workerVars, faultVars
  <2>2. d' = d /\ s' = s /\ B' = B
    BY <1>6, <2>1 DEF s, B, Strivers
  <2>3. stale'[j] = stale[j] \/ (OrphanGoesStale(j) /\ k = j)
    BY <1>3, <1>10 DEF BackoffElapsed, OrphanGoesStale, QueueTypeOK
  <2>4. A' \in SUBSET A
    BY <2>1, <2>3 DEF A, Claimable, OrphanGoesStale
  <2>5. Balanced(d, A', B, s)
    BY <1>4, <2>4, RightsLapse
  <2> QED BY <2>2, <2>5 DEF Balanced
<1>11. ASSUME NEW k \in Jobs, HandlerOverruns(k) PROVE Goal
  <2>1. UNCHANGED <<status, held, seen, attempts>> /\ s' = s + 1
    BY <1>11 DEF HandlerOverruns, workerVars, faultVars, s
  <2>2. d' = d /\ B' \in SUBSET B
    BY <1>6, <2>1 DEF B, Strivers
  <2>3. A' \in SUBSET (A \cup {j})
    BY <1>5
  <2> QED BY <1>4, <2>1, <2>2, <2>3, BoughtForFirst
<1>12. ASSUME UNCHANGED queueVars PROVE Goal
  <2>1. d' = d /\ s' = s /\ A' = A /\ B' = B
    BY <1>12 DEF queueVars, d, s, A, B, Excess, Claimable, Strivers
  <2> QED BY <1>4, <2>1 DEF Balanced
<1>13. Goal
  BY <1>7, <1>8, <1>9, <1>10, <1>11, <1>12 DEF QueueNext, IdlePoll
<1> QED BY <1>13 DEF A, B, d, s

LEMMA TurnsInitially == QueueInit => TurnsInv
<1> SUFFICES ASSUME QueueInit PROVE TurnsInv
  OBVIOUS
<1>1. QueueTypeOK /\ HeldInv
  BY QueueAssumption DEF QueueInit, QueueTypeOK, JobStatus, HeldInv
<1>2. ASSUME NEW j \in Jobs PROVE Balanced(Excess(j), Claimable(j), Strivers(j), lost)
  <2>1. Claimable(j) = {} /\ Strivers(j) = {} /\ Excess(j) = 0 /\ lost = 0
    BY QueueAssumption DEF QueueInit, Claimable, Strivers, Excess
  <2>2. IsFiniteSet({}) /\ Cardinality({}) = 0
    BY FS_EmptySet
  <2> QED BY <2>1, <2>2 DEF Balanced
<1> QED BY <1>1, <1>2 DEF TurnsInv, QueueInit

LEMMA TurnsSuffice == TurnsInv => AttemptsPaidFor
<1> SUFFICES ASSUME TurnsInv, NEW j \in Jobs PROVE attempts[j] <= MaxAttempts + lost
  BY DEF AttemptsPaidFor
<1>1. attempts[j] \in Nat /\ lost \in Nat /\ MaxAttempts \in Nat
  BY QueueAssumption DEF TurnsInv, QueueTypeOK
<1>2. Excess(j) \in Nat
  BY ExcessTyped DEF TurnsInv
<1>3. Excess(j) <= 1 + lost
  BY <1>1, <1>2, RightsInHand DEF TurnsInv
<1> QED BY <1>1, <1>3 DEF Excess

(* Whatever handlers outlive staleRunning and however many workers hold    *)
(* copies of a row, a job is claimed at most max_attempts times, plus once *)
(* for every claim that was lost or overran.                               *)
THEOREM AttemptsCorrect == QueueSpec => []AttemptsPaidFor
BY TurnsInitially, TurnsStep, TurnsSuffice, PTL DEF QueueSpec

-----------------------------------------------------------------------------
(* Exclusion: the right to handle a row lies with the row, while a Dequeue *)
(* may take it, or with a worker that holds it; an overrun buys another.   *)
HolderInv ==
  /\ QueueTypeOK
  /\ HeldInv
  /\ \A j \in Jobs : Balanced(0, Claimable(j), Holders(j), overruns[j])

LEMMA HolderStep ==
  ASSUME HolderInv, [QueueNext]_queueVars
  PROVE  HolderInv'
<1>1. QueueTypeOK' /\ HeldInv'
  BY QueueTypeStep, QueueKeepsRows DEF HolderInv
<1> SUFFICES ASSUME NEW j \in Jobs
             PROVE  Balanced(0, Claimable(j), Holders(j), overruns[j])'
  BY <1>1 DEF HolderInv
<1> DEFINE A == Claimable(j)
           B == Holders(j)
           s == overruns[j]
           Goal == Balanced(0, A, B, s)'
<1>2. QueueTypeOK /\ HeldInv /\ NoJob \notin Jobs /\ s \in Nat
  BY QueueAssumption DEF HolderInv, QueueTypeOK
<1>3. Balanced(0, A, B, s)
  BY DEF HolderInv
<1>4. A \subseteq {j} /\ A' \subseteq {j}
  BY DEF Claimable
<1>5. ASSUME s' = s, Balanced(0, A', B', s) PROVE Goal
  BY <1>5 DEF Balanced
<1>6. ASSUME s' = s, A' \in SUBSET A, B' \in SUBSET B PROVE Goal
  <2>1. Balanced(0, A', B', s)
    BY <1>2, <1>3, <1>6, RightsLapse
  <2> QED BY <1>5, <1>6, <2>1
<1> HIDE DEF A, B, s, Goal
<1>7. ASSUME NEW k \in Jobs, Enqueue(k) PROVE Goal
  <2>1. UNCHANGED <<held, stale>> /\ s' = s /\ B' = B
    BY <1>7 DEF Enqueue, workerVars, faultVars, s, B, Holders
  <2>2. CASE k = j
    <3>1. B = {}
      BY <1>2, <1>7, <2>2 DEF Enqueue, B, Holders, HeldInv
    <3>2. Balanced(0, {j}, {}, s)
      BY <1>2, EmptyBalance, BalancedEitherWay
    <3>3. Balanced(0, A', B', s)
      BY <1>2, <1>4, <2>1, <3>1, <3>2, RightsLapse
    <3> QED BY <1>5, <2>1, <3>3
  <2>3. CASE k # j
    <3>1. A' \in SUBSET A
      BY <1>2, <1>7, <2>1, <2>3 DEF Enqueue, A, Claimable, QueueTypeOK
    <3> QED BY <1>6, <2>1, <3>1
  <2> QED BY <2>2, <2>3
<1>8. ASSUME NEW w \in Workers, Dequeue(w) PROVE Goal
  <2>1. PICK k \in Runnable : /\ status' = [status EXCEPT ![k] = "running"]
                              /\ stale' = [stale EXCEPT ![k] = FALSE]
                              /\ held' = [held EXCEPT ![w] = k]
    BY <1>8 DEF Dequeue, FirstRunnable
  <2>2. k \in Jobs /\ held[w] = NoJob /\ s' = s
    BY <1>8, <2>1 DEF Dequeue, Runnable, faultVars, s
  <2>3. CASE k # j
    <3>1. A' \in SUBSET A /\ B' \in SUBSET B
      BY <1>2, <2>1, <2>2, <2>3 DEF A, B, Claimable, Holders, QueueTypeOK
    <3> QED BY <1>6, <2>2, <3>1
  <2>4. CASE k = j
    <3>1. j \in A
      BY <2>1, <2>4 DEF Runnable, A, Claimable
    <3>2. A' \in SUBSET (A \ {j}) /\ B' \in SUBSET (B \cup {w})
      BY <1>2, <1>4, <2>1, <2>4 DEF A, B, Claimable, Holders, QueueTypeOK
    <3>3. Balanced(0, A', B', s)
      BY <1>2, <1>3, <3>1, <3>2, RightIsPassedOn
    <3> QED BY <1>5, <2>2, <3>3
  <2> QED BY <2>3, <2>4
<1>9. ASSUME NEW w \in Workers, Complete(w) \/ Retry(w) \/ Fail(w) \/ Abandon(w) PROVE Goal
  <2>1. /\ held[w] \in Jobs /\ held' = [held EXCEPT ![w] = NoJob] /\ s' = s
    BY <1>2, <1>9
    DEF Complete, Retry, Fail, Overwrite, Abandon, faultVars, s, QueueTypeOK
  <2>2. CASE held[w] # j
    <3>1. status'[j] = status[j] /\ stale'[j] = stale[j]
      BY <1>2, <1>9, <2>2
      DEF Complete, Retry, Fail, Overwrite, Abandon, rowVars, QueueTypeOK
    <3>2. A' \in SUBSET A /\ B' \in SUBSET B
      BY <1>2, <2>1, <2>2, <3>1 DEF A, B, Claimable, Holders, QueueTypeOK
    <3> QED BY <1>6, <2>1, <3>2
  <2>3. CASE held[w] = j
    <3>1. w \in B /\ B' \in SUBSET (B \ {w})
      BY <1>2, <2>1, <2>3 DEF B, Holders, QueueTypeOK
    <3>2. Balanced(0, B, A, s)
      BY <1>2, <1>3, BalancedEitherWay
    <3>3. A' \in SUBSET (A \cup {j})
      BY <1>4
    <3>4. Balanced(0, B', A', s)
      BY <1>2, <3>1, <3>2, <3>3, RightIsPassedOn
    <3>5. Balanced(0, A', B', s)
      BY <1>2, <3>4, BalancedEitherWay
    <3> QED BY <1>5, <2>1, <3>5
  <2> QED BY <2>2, <2>3
<1>10. ASSUME NEW k \in Jobs, BackoffElapsed(k) \/ OrphanGoesStale(k) PROVE Goal
  <2>1. UNCHANGED <<status, held>> /\ s' = s /\ B' = B
    BY <1>10 DEF BackoffElapsed, OrphanGoesStale, workerVars, faultVars, s, B, Holders
  <2>2. stale'[j] = stale[j] \/ (OrphanGoesStale(j) /\ k = j)
    BY <1>2, <1>10 DEF BackoffElapsed, OrphanGoesStale, QueueTypeOK
  <2>3. A' \in SUBSET A
    BY <2>1, <2>2 DEF A, Claimable, OrphanGoesStale
  <2> QED BY <1>6, <2>1, <2>3
<1>11. ASSUME NEW k \in Jobs, HandlerOverruns(k) PROVE Goal
  <2>1. /\ UNCHANGED <<status, held>> /\ B' = B
        /\ overruns' = [overruns EXCEPT ![k] = @ + 1]
        /\ stale' = [stale EXCEPT ![k] = TRUE]
    BY <1>11 DEF HandlerOverruns, workerVars, B, Holders
  <2>2. CASE k # j
    <3>1. A' \in SUBSET A /\ s' = s
      BY <1>2, <2>1, <2>2 DEF A, Claimable, s, QueueTypeOK
    <3> QED BY <1>6, <2>1, <3>1
  <2>3. CASE k = j
    <3>1. s' = s + 1
      BY <1>2, <2>1, <2>3 DEF s, QueueTypeOK
    <3>2. A' \in SUBSET (A \cup {j}) /\ B' \in SUBSET B
      BY <1>4, <2>1
    <3>3. Balanced(0, A', B', s + 1)
      BY <1>2, <1>3, <3>2, BoughtForFirst
    <3> QED BY <3>1, <3>3 DEF Goal, Balanced
  <2> QED BY <2>2, <2>3
<1>12. ASSUME UNCHANGED queueVars PROVE Goal
  <2>1. s' = s /\ A' = A /\ B' = B
    BY <1>12 DEF queueVars, s, A, B, Claimable, Holders
  <2> QED BY <1>6, <2>1
<1>13. Goal
  BY <1>7, <1>8, <1>9, <1>10, <1>11, <1>12 DEF QueueNext, IdlePoll
<1> QED BY <1>13 DEF Goal, A, B, s

LEMMA HoldersInitially == QueueInit => HolderInv
<1> SUFFICES ASSUME QueueInit PROVE HolderInv
  OBVIOUS
<1>1. QueueTypeOK /\ HeldInv
  BY QueueAssumption DEF QueueInit, QueueTypeOK, JobStatus, HeldInv
<1>2. ASSUME NEW j \in Jobs PROVE Balanced(0, Claimable(j), Holders(j), overruns[j])
  <2>1. Claimable(j) = {} /\ Holders(j) = {} /\ overruns[j] = 0
    BY QueueAssumption DEF QueueInit, Claimable, Holders
  <2>2. IsFiniteSet({}) /\ Cardinality({}) = 0
    BY FS_EmptySet
  <2> QED BY <2>1, <2>2 DEF Balanced
<1> QED BY <1>1, <1>2 DEF HolderInv

LEMMA HoldersCounted == HolderInv => OneHandlerPerJob
<1> SUFFICES ASSUME HolderInv, NEW j \in Jobs PROVE Cardinality(Holders(j)) <= 1 + overruns[j]
  BY DEF OneHandlerPerJob
<1>1. Balanced(0, Claimable(j), Holders(j), overruns[j]) /\ overruns[j] \in Nat
  BY DEF HolderInv, QueueTypeOK
<1>2. Cardinality(Claimable(j)) \in Nat /\ Cardinality(Holders(j)) \in Nat
  BY <1>1, FS_CardinalityType DEF Balanced
<1> QED BY <1>1, <1>2 DEF Balanced

(* A job has one handler, and one more for each time that a handler of it  *)
(* outlived staleRunning - whatever else was lost, retried or reclaimed.   *)
THEOREM ExclusionCorrect == QueueSpec => []OneHandlerPerJob
BY HoldersInitially, HolderStep, HoldersCounted, PTL DEF QueueSpec
=============================================================================
