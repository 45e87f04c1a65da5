---------------------------- MODULE IntakeProofs ----------------------------
(***************************************************************************)
(* Proofs about Intake, for any number of overlapping deliveries, any      *)
(* batches and any number of redeliveries.                                 *)
(*                                                                         *)
(* FileInv says what each transaction may rely on between its statements:  *)
(* an inserted row is its own until the commit, an attached one is locked  *)
(* and still absorbs alerts.  RivalInv says what the snapshot of the       *)
(* lookup is still worth when the transaction acts on it.                  *)
(***************************************************************************)
EXTENDS Intake, TLAPS

(* An UPDATE of one row keeps the type of its column.                      *)
LEMMA UpdateKeepsType ==
  ASSUME NEW S, NEW T, NEW f \in [S -> T], NEW x, NEW v, x \in S => v \in T
  PROVE  [f EXCEPT ![x] = v] \in [S -> T]
OBVIOUS

(* No action writes a value outside its column's type.                     *)
LEMMA IntakeTypeStep ==
  ASSUME IntakeTypeOK, [IntakeNext]_intakeVars
  PROVE  IntakeTypeOK'
<1> USE IntakeAssumption DEF IntakeTypeOK, Steps
<1>1. ASSUME NEW d \in Deliveries, Drop(d) PROVE IntakeTypeOK'
  BY <1>1 DEF Drop, rowVars
<1>2. ASSUME NEW d \in Deliveries, Lookup(d) PROVE IntakeTypeOK'
  BY <1>2 DEF Lookup, rowVars
<1>3. ASSUME NEW d \in Deliveries, LockRow(d) PROVE IntakeTypeOK'
  <2>1. PICK i \in matches[d] :
          /\ lock[i] = Free
          /\ IF Absorbs(i)
               THEN /\ lock' = [lock EXCEPT ![i] = d]
                    /\ target' = [target EXCEPT ![d] = i]
                    /\ matches' = [matches EXCEPT ![d] = {}]
                    /\ at' = [at EXCEPT ![d] = "storing"]
               ELSE /\ matches' = [matches EXCEPT ![d] = @ \ {i}]
                    /\ at' = [at EXCEPT ![d] = IF matches[d] = {i} THEN "inserting" ELSE "locking"]
                    /\ UNCHANGED <<lock, target>>
    BY <1>3 DEF LockRow, Newest
  <2>2. i \in Incidents
    OBVIOUS
  <2>3. /\ at' \in [Deliveries -> Steps]
        /\ matches' \in [Deliveries -> SUBSET Incidents]
        /\ target' \in [Deliveries -> Incidents \cup {Free}]
        /\ lock' \in [Incidents -> Deliveries \cup {Free, Engineer}]
    <3>1. CASE Absorbs(i)
      BY <2>1, <2>2, <3>1
    <3>2. CASE ~Absorbs(i)
      BY <2>1, <2>2, <3>2
    <3> QED BY <3>1, <3>2
  <2> QED BY <1>3, <2>3 DEF LockRow, rowVars
<1>4. ASSUME NEW d \in Deliveries, InsertIncident(d) PROVE IntakeTypeOK'
  <2>1. (CHOOSE i \in UnusedIds : TRUE) \in Incidents
    BY <1>4 DEF InsertIncident, UnusedIds
  <2> QED BY <1>4, <2>1 DEF InsertIncident, rowVars
<1>5. ASSUME NEW d \in Deliveries, Commit(d) PROVE IntakeTypeOK'
  <2> DEFINE Stored == Upserted(alerts[target[d]], batch[d].alerts)
  <2>1. alerts' = [alerts EXCEPT ![target[d]] = Stored]
    BY <1>5 DEF Commit, StoreAlerts
  <2>2. target[d] \in Incidents =>
          Stored \in SUBSET UNION {b.alerts : b \in Batches}
    <3>1. batch[d].alerts \in SUBSET UNION {b.alerts : b \in Batches}
      OBVIOUS
    <3> QED BY <3>1 DEF Upserted
  <2> HIDE DEF Stored
  <2>3. alerts' \in [Incidents -> SUBSET UNION {b.alerts : b \in Batches}]
    BY ONLY <2>1, <2>2, alerts \in [Incidents -> SUBSET UNION {b.alerts : b \in Batches}], UpdateKeepsType
  <2>4. jobs' \in [Incidents -> Nat]
    <3> DEFINE n == IF creates[d] THEN jobs[target[d]] + 1 ELSE jobs[target[d]]
    <3>1. jobs' = [jobs EXCEPT ![target[d]] = n]
      BY <1>5 DEF Commit, JobIfCreated
    <3>2. target[d] \in Incidents => n \in Nat
      OBVIOUS
    <3> QED BY <3>1, <3>2, UpdateKeepsType
  <2>5. key' \in [Incidents -> {b.key : b \in Batches} \cup {NoKey}]
    <3>1. batch[d].key \in {b.key : b \in Batches}
      OBVIOUS
    <3>2. key' = [key EXCEPT ![target[d]] = batch[d].key] \/ key' = key
      BY <1>5 DEF Commit
    <3> QED BY <3>1, <3>2
  <2>6. /\ status' \in [Incidents -> {"absent", "open", "published", "resolved"}]
        /\ recent' \in [Incidents -> BOOLEAN]
        /\ opened' \in [Incidents -> Nat]
    <3>1. \/ /\ status' = [status EXCEPT ![target[d]] = "open"]
             /\ recent' = [recent EXCEPT ![target[d]] = TRUE]
             /\ opened' = [opened EXCEPT ![target[d]] = began[d]]
          \/ UNCHANGED <<status, recent, opened>>
      BY <1>5 DEF Commit
    <3> QED BY <3>1, UpdateKeepsType
  <2>7. /\ known' \in [Incidents -> SUBSET Incidents]
        /\ lock' \in [Incidents -> Deliveries \cup {Free, Engineer}]
    <3>1. \/ known' = [known EXCEPT ![target[d]] = knew[d]] /\ lock' = lock
          \/ known' = known /\ lock' = [lock EXCEPT ![target[d]] = Free]
      BY <1>5 DEF Commit
    <3> QED BY <3>1
  <2>8. /\ at' \in [Deliveries -> Steps]
        /\ began' \in [Deliveries -> Nat]
        /\ knew' \in [Deliveries -> SUBSET Incidents]
        /\ creates' \in [Deliveries -> BOOLEAN]
        /\ UNCHANGED <<batch, matches, target, clock, retries>>
    BY <1>5 DEF Commit
  <2> QED BY <2>3, <2>4, <2>5, <2>6, <2>7, <2>8
<1>6. ASSUME NEW d \in Deliveries, Reply(d) PROVE IntakeTypeOK'
  BY <1>6 DEF Reply, rowVars
<1>7. ASSUME NEW d \in Deliveries, Redeliver(d) PROVE IntakeTypeOK'
  BY <1>7 DEF Redeliver, rowVars
<1>8. ASSUME NEW i \in Incidents,
             PublishIncident(i) \/ BeginResolve(i) \/ CommitResolve(i) \/ LeaveWindow(i)
      PROVE  IntakeTypeOK'
  BY <1>8 DEF PublishIncident, BeginResolve, CommitResolve, LeaveWindow, txVars, rowVars
<1>9. CASE UNCHANGED intakeVars
  BY <1>9 DEF intakeVars, txVars, rowVars
<1> QED
  BY <1>1, <1>2, <1>3, <1>4, <1>5, <1>6, <1>7, <1>8, <1>9
  DEF IntakeNext, HandlerStep, AllAnswered

(* Deliveries and rows only ever hold values of their types; a status is   *)
(* one of the incident_status enum.                                        *)
THEOREM IntakeTypeCorrect == IntakeSpec => []IntakeTypeOK
<1>1. IntakeInit => IntakeTypeOK
  BY IntakeAssumption DEF IntakeInit, IntakeTypeOK, Steps, SevUnknown
<1> QED
  BY <1>1, IntakeTypeStep, PTL DEF IntakeSpec

-----------------------------------------------------------------------------
Committed(i) == status[i] # "absent"

(* A delivery that has chosen a row, and those that have not.              *)
TargetInv ==
  \A d \in Deliveries :
    /\ at[d] \in {"received", "locking", "inserting", "dropped"} => target[d] = Free
    /\ at[d] \in {"storing", "committed", "accepted"} => target[d] \in Incidents
    /\ creates[d] => at[d] = "storing"

(* The lookup found committed rows of the batch's key.                     *)
MatchInv ==
  \A d \in Deliveries : \A i \in matches[d] : Committed(i) /\ key[i] = batch[d].key

(* An inserted row is nobody else's until it is committed.                 *)
InsertInv ==
  \A d \in Deliveries : creates[d] =>
    /\ ~Committed(target[d])
    /\ \A e \in Deliveries : e # d => target[e] # target[d]

(* The row a batch is attached to is locked for it and still absorbs.      *)
AttachInv ==
  \A d \in Deliveries : at[d] = "storing" /\ ~creates[d] =>
    /\ lock[target[d]] = d
    /\ Absorbs(target[d])
    /\ key[target[d]] = batch[d].key

(* The engineer's lock is on a row that is not closed yet.                 *)
ResolveInv ==
  \A i \in Incidents : lock[i] = Engineer => Absorbs(i)

ReplyInv ==
  \A d \in Deliveries : at[d] \in {"committed", "accepted"} => Committed(target[d])

FileInv ==
  /\ IntakeTypeOK
  /\ TargetInv
  /\ MatchInv
  /\ InsertInv
  /\ AttachInv
  /\ ResolveInv
  /\ ReplyInv
  /\ OneCollectJob
  /\ AcceptedIsOnFile

(* A delivery that only moves its own marks - no row is written, no lock   *)
(* taken, no target chosen.                                                *)
LEMMA FileMarkStep ==
  ASSUME FileInv, NEW d \in Deliveries, Drop(d) \/ Lookup(d) \/ Reply(d), IntakeTypeOK'
  PROVE  FileInv'
<1> USE IntakeAssumption DEF FileInv
<1>1. /\ UNCHANGED <<batch, target, creates, rowVars, lock>>
      /\ \A e \in Deliveries : e # d => at'[e] = at[e] /\ matches'[e] = matches[e]
  BY DEF Drop, Lookup, Reply, IntakeTypeOK
<1>2. \/ /\ at[d] = "received"
         /\ at'[d] \in {"locking", "inserting", "dropped"}
      \/ at[d] = "committed" /\ at'[d] = "accepted"
  BY DEF Drop, Lookup, Reply, IntakeTypeOK
<1>3. ~creates[d]
  BY <1>2 DEF TargetInv
<1>4. TargetInv'
  BY <1>1, <1>2, <1>3 DEF TargetInv
<1>5. MatchInv'
  <2>1. \A i \in matches'[d] : Committed(i) /\ key[i] = batch[d].key
    <3>1. CASE Lookup(d)
      <4>1. matches'[d] = {i \in Incidents : Absorbs(i) /\ recent[i] /\ key[i] = batch[d].key}
        BY <3>1 DEF Lookup, IntakeTypeOK
      <4> QED BY <4>1 DEF Committed, Absorbs
    <3>2. CASE Drop(d) \/ Reply(d)
      BY <3>2 DEF Drop, Reply, MatchInv
    <3> QED BY <3>1, <3>2
  <2> QED BY <1>1, <2>1 DEF MatchInv, Committed, rowVars
<1>6. InsertInv'
  BY <1>1 DEF InsertInv, Committed, rowVars
<1>7. AttachInv'
  BY <1>1, <1>2 DEF AttachInv, Absorbs, rowVars
<1>8. ResolveInv' /\ OneCollectJob'
  BY <1>1 DEF ResolveInv, OneCollectJob, Absorbs, rowVars
<1>9. ReplyInv' /\ AcceptedIsOnFile'
  BY <1>1, <1>2 DEF ReplyInv, AcceptedIsOnFile, Committed, rowVars
<1> QED BY <1>4, <1>5, <1>6, <1>7, <1>8, <1>9

(* FOR UPDATE: the row it takes was committed and, tested under its lock,  *)
(* still absorbs alerts.                                                   *)
LEMMA FileLockStep ==
  ASSUME FileInv, NEW d \in Deliveries, LockRow(d), IntakeTypeOK'
  PROVE  FileInv'
<1> USE IntakeAssumption DEF FileInv
<1>1. PICK i \in matches[d] :
        /\ lock[i] = Free
        /\ IF Absorbs(i)
             THEN /\ lock' = [lock EXCEPT ![i] = d]
                  /\ target' = [target EXCEPT ![d] = i]
                  /\ matches' = [matches EXCEPT ![d] = {}]
                  /\ at' = [at EXCEPT ![d] = "storing"]
             ELSE /\ matches' = [matches EXCEPT ![d] = @ \ {i}]
                  /\ at' = [at EXCEPT ![d] = IF matches[d] = {i} THEN "inserting" ELSE "locking"]
                  /\ UNCHANGED <<lock, target>>
  BY DEF LockRow, Newest
<1>2. i \in Incidents /\ Committed(i) /\ key[i] = batch[d].key
  BY DEF MatchInv, IntakeTypeOK
<1>3. at[d] = "locking" /\ target[d] = Free /\ ~creates[d]
  BY DEF LockRow, TargetInv
<1>4. UNCHANGED <<batch, creates, rowVars>>
  BY DEF LockRow
<1>5. OneCollectJob'
  BY <1>4 DEF OneCollectJob, rowVars
<1>6. CASE Absorbs(i)
  <2>1. /\ at'[d] = "storing" /\ target'[d] = i /\ matches'[d] = {} /\ lock'[i] = d
        /\ \A e \in Deliveries : e # d =>
              at'[e] = at[e] /\ target'[e] = target[e] /\ matches'[e] = matches[e]
        /\ \A k \in Incidents : k # i => lock'[k] = lock[k]
    BY <1>1, <1>2, <1>6 DEF IntakeTypeOK
  <2>2. TargetInv'
    BY <1>2, <1>3, <1>4, <2>1 DEF TargetInv
  <2>3. MatchInv'
    BY <1>4, <2>1 DEF MatchInv, Committed, rowVars
  <2>4. InsertInv'
    BY <1>2, <1>3, <1>4, <2>1 DEF InsertInv, Committed, rowVars
  <2>5. AttachInv'
    <3>1. \A e \in Deliveries : e # d /\ at[e] = "storing" /\ ~creates[e] => target[e] # i
      BY <1>1 DEF AttachInv
    <3>2. \A e \in Deliveries : at[e] = "storing" => target[e] \in Incidents
      BY DEF TargetInv
    <3> QED BY <1>2, <1>4, <1>6, <2>1, <3>1, <3>2 DEF AttachInv, Absorbs, rowVars
  <2>6. ResolveInv'
    BY <1>4, <2>1 DEF ResolveInv, Absorbs, rowVars
  <2>7. ReplyInv' /\ AcceptedIsOnFile'
    BY <1>4, <2>1 DEF ReplyInv, AcceptedIsOnFile, Committed, rowVars
  <2> QED BY <1>5, <2>2, <2>3, <2>4, <2>5, <2>6, <2>7
<1>7. CASE ~Absorbs(i)
  <2>1. /\ at'[d] \in {"inserting", "locking"} /\ matches'[d] \subseteq matches[d]
        /\ \A e \in Deliveries : e # d => at'[e] = at[e] /\ matches'[e] = matches[e]
        /\ UNCHANGED <<lock, target>>
    BY <1>1, <1>7 DEF IntakeTypeOK
  <2>2. TargetInv'
    BY <1>3, <1>4, <2>1 DEF TargetInv
  <2>3. MatchInv'
    BY <1>4, <2>1 DEF MatchInv, Committed, rowVars
  <2>4. InsertInv' /\ ResolveInv'
    BY <1>4, <2>1 DEF InsertInv, ResolveInv, Committed, Absorbs, rowVars
  <2>5. AttachInv'
    BY <1>4, <2>1 DEF AttachInv, Absorbs, rowVars
  <2>6. ReplyInv' /\ AcceptedIsOnFile'
    BY <1>4, <2>1 DEF ReplyInv, AcceptedIsOnFile, Committed, rowVars
  <2> QED BY <1>5, <2>2, <2>3, <2>4, <2>5, <2>6
<1> QED BY <1>6, <1>7

(* INSERT: a fresh uuid is no other transaction's row.                     *)
LEMMA FileInsertStep ==
  ASSUME FileInv, NEW d \in Deliveries, InsertIncident(d), IntakeTypeOK'
  PROVE  FileInv'
<1> USE IntakeAssumption DEF FileInv
<1>1. PICK i \in UnusedIds : target' = [target EXCEPT ![d] = i]
  BY DEF InsertIncident
<1>2. i \in Incidents /\ ~Committed(i) /\ \A e \in Deliveries : target[e] # i
  BY DEF UnusedIds, Committed
<1>3. /\ at[d] = "inserting" /\ at'[d] = "storing" /\ creates'[d] /\ target'[d] = i
      /\ \A e \in Deliveries : e # d =>
            at'[e] = at[e] /\ target'[e] = target[e] /\ creates'[e] = creates[e]
      /\ UNCHANGED <<batch, matches, rowVars, lock>>
  BY <1>1 DEF InsertIncident, IntakeTypeOK
<1>4. TargetInv'
  BY <1>2, <1>3 DEF TargetInv
<1>5. MatchInv' /\ ResolveInv' /\ OneCollectJob'
  BY <1>3 DEF MatchInv, ResolveInv, OneCollectJob, Committed, Absorbs, rowVars
<1>6. InsertInv'
  BY <1>2, <1>3 DEF InsertInv, Committed, rowVars
<1>7. AttachInv'
  BY <1>3 DEF AttachInv, Absorbs, rowVars
<1>8. ReplyInv' /\ AcceptedIsOnFile'
  BY <1>3 DEF ReplyInv, AcceptedIsOnFile, Committed, rowVars
<1> QED BY <1>4, <1>5, <1>6, <1>7, <1>8

(* COMMIT: the row becomes visible with its key, its job and the alerts,   *)
(* or the locked row gets the alerts and loses its lock.                   *)
LEMMA FileCommitStep ==
  ASSUME FileInv, NEW d \in Deliveries, Commit(d), IntakeTypeOK'
  PROVE  FileInv'
<1> USE IntakeAssumption DEF FileInv
<1> DEFINE i == target[d]
<1>1. at[d] = "storing" /\ i \in Incidents
  BY DEF Commit, TargetInv
<1>2. /\ UNCHANGED <<batch, matches, target>>
      /\ at'[d] = "committed" /\ ~creates'[d]
      /\ \A e \in Deliveries : e # d => at'[e] = at[e] /\ creates'[e] = creates[e]
  BY DEF Commit, IntakeTypeOK
<1>3. /\ alerts'[i] = Upserted(alerts[i], batch[d].alerts)
      /\ \A k \in Incidents : k # i =>
            /\ alerts'[k] = alerts[k] /\ jobs'[k] = jobs[k] /\ status'[k] = status[k]
            /\ key'[k] = key[k] /\ lock'[k] = lock[k]
  BY <1>1 DEF Commit, StoreAlerts, JobIfCreated, IntakeTypeOK
<1>4. \/ /\ creates[d] /\ ~Committed(i)
         /\ status'[i] = "open" /\ key'[i] = batch[d].key /\ lock'[i] = lock[i]
         /\ jobs'[i] = jobs[i] + 1
      \/ /\ ~creates[d] /\ Absorbs(i) /\ lock[i] = d /\ key[i] = batch[d].key
         /\ status'[i] = status[i] /\ key'[i] = key[i] /\ lock'[i] = Free
         /\ jobs'[i] = jobs[i]
  BY <1>1 DEF Commit, JobIfCreated, InsertInv, AttachInv, IntakeTypeOK
<1>5. status'[i] # "absent" /\ key'[i] = batch[d].key
  BY <1>4 DEF Absorbs
<1>6. \A e \in Deliveries : e # d /\ at[e] = "storing" => target[e] # i
  BY <1>1, <1>4 DEF InsertInv, AttachInv, Committed, Absorbs
<1>7. TargetInv'
  BY <1>1, <1>2 DEF TargetInv
<1>8. MatchInv'
  BY <1>1, <1>2, <1>3, <1>4 DEF MatchInv, Committed, Absorbs, IntakeTypeOK
<1>9. InsertInv'
  BY <1>1, <1>2, <1>3, <1>6 DEF InsertInv, TargetInv, Committed
<1>10. AttachInv'
  <2>1. ASSUME NEW e \in Deliveries, at'[e] = "storing", ~creates'[e]
        PROVE  lock'[target[e]] = e /\ Absorbs(target[e])' /\ key'[target[e]] = batch[e].key
    <3>1. e # d /\ at[e] = "storing" /\ ~creates[e] /\ target[e] # i /\ target[e] \in Incidents
      BY <1>2, <1>6, <2>1 DEF TargetInv
    <3> QED BY <1>2, <1>3, <3>1 DEF AttachInv, Absorbs
  <2> QED BY <1>2, <2>1 DEF AttachInv
<1>11. ResolveInv'
  BY <1>1, <1>3, <1>4 DEF ResolveInv, Absorbs, Committed
<1>12. OneCollectJob'
  BY <1>1, <1>3, <1>4 DEF OneCollectJob, Absorbs, Committed, IntakeTypeOK
<1>13. ReplyInv'
  BY <1>1, <1>2, <1>3, <1>5 DEF ReplyInv, TargetInv, Committed
<1>14. AcceptedIsOnFile'
  <2>1. ASSUME NEW e \in Deliveries, at'[e] \in {"committed", "accepted"},
               NEW a \in batch[e].alerts
        PROVE  /\ key'[target[e]] = batch[e].key
               /\ \E b \in alerts'[target[e]] : b.fingerprint = a.fingerprint
    <3>1. CASE e = d
      BY <1>3, <1>5, <2>1, <3>1 DEF Upserted
    <3>2. CASE e # d
      <4>1. /\ at[e] \in {"committed", "accepted"} /\ target[e] \in Incidents
            /\ Committed(target[e])
        BY <1>2, <2>1, <3>2 DEF TargetInv, ReplyInv
      <4>2. key'[target[e]] = batch[e].key
        BY <1>3, <1>4, <2>1, <4>1 DEF AcceptedIsOnFile, Committed
      <4>3. PICK b \in alerts[target[e]] : b.fingerprint = a.fingerprint
        BY <2>1, <4>1 DEF AcceptedIsOnFile
      <4>4. target[e] = i => \E c \in alerts'[i] : c.fingerprint = b.fingerprint
        BY <1>3, <4>3 DEF Upserted
      <4> QED BY <1>3, <4>1, <4>2, <4>3, <4>4
    <3> QED BY <3>1, <3>2
  <2>2. ASSUME NEW e \in Deliveries, at'[e] \in {"committed", "accepted"}
        PROVE  key'[target[e]] = batch[e].key
    BY <1>2, <1>3, <1>4, <1>5, <2>2 DEF TargetInv, ReplyInv, AcceptedIsOnFile, Committed
  <2> QED BY <1>2, <2>1, <2>2 DEF AcceptedIsOnFile
<1> QED BY <1>7, <1>8, <1>9, <1>10, <1>11, <1>12, <1>13, <1>14

(* A rollback gives the row back; what others committed stays.             *)
LEMMA FileRedeliverStep ==
  ASSUME FileInv, NEW d \in Deliveries, Redeliver(d), IntakeTypeOK'
  PROVE  FileInv'
<1> USE IntakeAssumption DEF FileInv
<1>1. /\ UNCHANGED <<batch, rowVars>>
      /\ at'[d] = "received" /\ matches'[d] = {} /\ target'[d] = Free /\ ~creates'[d]
      /\ \A e \in Deliveries : e # d =>
            /\ at'[e] = at[e] /\ matches'[e] = matches[e]
            /\ target'[e] = target[e] /\ creates'[e] = creates[e]
      /\ \A i \in Incidents : lock'[i] = IF lock[i] = d THEN Free ELSE lock[i]
  BY DEF Redeliver, IntakeTypeOK
<1>2. TargetInv'
  BY <1>1 DEF TargetInv
<1>3. MatchInv' /\ ResolveInv' /\ OneCollectJob'
  BY <1>1 DEF MatchInv, ResolveInv, OneCollectJob, Committed, Absorbs, rowVars
<1>4. InsertInv'
  BY <1>1 DEF InsertInv, TargetInv, Committed, rowVars
<1>5. AttachInv'
  BY <1>1 DEF AttachInv, TargetInv, Absorbs, rowVars
<1>6. ReplyInv' /\ AcceptedIsOnFile'
  BY <1>1 DEF ReplyInv, AcceptedIsOnFile, Committed, rowVars
<1> QED BY <1>2, <1>3, <1>4, <1>5, <1>6

(* Publishing, resolving and the passing of time respect the row locks.    *)
LEMMA FileRowStep ==
  ASSUME FileInv, NEW i \in Incidents,
         PublishIncident(i) \/ BeginResolve(i) \/ CommitResolve(i) \/ LeaveWindow(i),
         IntakeTypeOK'
  PROVE  FileInv'
<1> USE IntakeAssumption DEF FileInv
<1>1. UNCHANGED <<batch, at, matches, target, creates, key, alerts, jobs>>
  BY DEF PublishIncident, BeginResolve, CommitResolve, LeaveWindow, txVars, rowVars
<1>2. /\ \A k \in Incidents : k # i => status'[k] = status[k] /\ lock'[k] = lock[k]
      /\ \A k \in Incidents : Committed(k)' <=> Committed(k)
      /\ lock[i] \notin Deliveries \/ (status'[i] = status[i] /\ lock'[i] = lock[i])
      /\ lock'[i] = Engineer => Absorbs(i)'
  BY DEF PublishIncident, BeginResolve, CommitResolve, LeaveWindow, rowVars, ResolveInv,
         Absorbs, Committed, IntakeTypeOK
<1>3. TargetInv'
  BY <1>1 DEF TargetInv
<1>4. MatchInv'
  BY <1>1, <1>2 DEF MatchInv, IntakeTypeOK
<1>5. InsertInv'
  BY <1>1, <1>2 DEF InsertInv, TargetInv
<1>6. AttachInv'
  BY <1>1, <1>2 DEF AttachInv, TargetInv, Absorbs
<1>7. ResolveInv'
  BY <1>2 DEF ResolveInv, Absorbs
<1>8. OneCollectJob'
  BY <1>1, <1>2 DEF OneCollectJob, Committed
<1>9. ReplyInv' /\ AcceptedIsOnFile'
  BY <1>1, <1>2 DEF ReplyInv, AcceptedIsOnFile, TargetInv
<1> QED BY <1>3, <1>4, <1>5, <1>6, <1>7, <1>8, <1>9

LEMMA FileStep ==
  ASSUME FileInv, [IntakeNext]_intakeVars
  PROVE  FileInv'
<1>1. IntakeTypeOK'
  BY IntakeTypeStep DEF FileInv
<1>2. CASE UNCHANGED intakeVars
  BY <1>2 DEF FileInv, IntakeTypeOK, TargetInv, MatchInv, InsertInv, AttachInv, ResolveInv,
              ReplyInv, OneCollectJob, AcceptedIsOnFile, Committed, Absorbs,
              intakeVars, txVars, rowVars
<1>3. CASE IntakeNext
  BY <1>1, <1>2, <1>3, FileMarkStep, FileLockStep, FileInsertStep, FileCommitStep,
     FileRedeliverStep, FileRowStep
  DEF IntakeNext, HandlerStep, AllAnswered
<1> QED BY <1>2, <1>3

LEMMA FileInitially == IntakeInit => FileInv
BY IntakeAssumption
DEF IntakeInit, FileInv, IntakeTypeOK, Steps, SevUnknown, TargetInv, MatchInv, InsertInv,
    AttachInv, ResolveInv, ReplyInv, OneCollectJob, AcceptedIsOnFile

(* Every committed incident has exactly one collect job, whatever repeats, *)
(* overlaps or is rolled back.                                             *)
THEOREM OneCollectJobCorrect == IntakeSpec => []OneCollectJob
<1>1. FileInv => OneCollectJob
  BY DEF FileInv
<1> QED
  BY <1>1, FileInitially, FileStep, PTL DEF IntakeSpec

(* A 202 means that every alert of the batch is on file, under its key.    *)
THEOREM AcceptedCorrect == IntakeSpec => []AcceptedIsOnFile
<1>1. FileInv => AcceptedIsOnFile
  BY DEF FileInv
<1> QED
  BY <1>1, FileInitially, FileStep, PTL DEF IntakeSpec

(* No batch attaches to a closed incident, although its lookup may have    *)
(* seen the incident open.                                                 *)
THEOREM ClosedCorrect == IntakeSpec => ClosedTakesNoAlerts
<1>1. ASSUME FileInv, [IntakeNext]_intakeVars
      PROVE  [\A i \in Incidents : status[i] = "resolved" => alerts'[i] = alerts[i]]_intakeVars
  <2> SUFFICES ASSUME NEW i \in Incidents, status[i] = "resolved", IntakeNext
               PROVE  alerts'[i] = alerts[i]
    BY <1>1
  <2>1. ASSUME NEW d \in Deliveries, Commit(d) PROVE alerts'[i] = alerts[i]
    <3>1. target[d] # i
      BY <1>1, <2>1 DEF Commit, FileInv, InsertInv, AttachInv, Absorbs, Committed
    <3> QED BY <1>1, <2>1, <3>1 DEF Commit, StoreAlerts, FileInv, IntakeTypeOK
  <2> QED
    BY <2>1
    DEF IntakeNext, HandlerStep, Drop, Lookup, LockRow, InsertIncident, Reply, Redeliver,
        AllAnswered, PublishIncident, BeginResolve, CommitResolve, LeaveWindow,
        intakeVars, txVars, rowVars
<1> QED
  BY <1>1, FileInitially, FileStep, PTL DEF IntakeSpec, ClosedTakesNoAlerts

-----------------------------------------------------------------------------
(* What a snapshot is worth later: an incident that it showed and that     *)
(* still takes alerts is among the matches of a delivery that is locking,  *)
(* and there is none left once the delivery goes on to insert.             *)
SnapshotInv ==
  \A d \in Deliveries : \A i \in knew[d] :
    /\ Committed(i)
    /\ key[i] = batch[d].key /\ TakesAlerts(i) =>
         \/ at[d] = "locking" /\ i \in matches[d]
         \/ at[d] = "storing" /\ ~creates[d]

(* Those its creator knew had stopped taking alerts before it was created. *)
KnownInv ==
  \A k \in Incidents : Committed(k) =>
    \A i \in known[k] : Committed(i) /\ (key[i] = key[k] => ~TakesAlerts(i))

RivalInv == FileInv /\ SnapshotInv /\ KnownInv

(* Nothing but a commit makes an incident take alerts, and that one was    *)
(* not in any snapshot.                                                    *)
LEMMA RivalOtherStep ==
  ASSUME RivalInv, IntakeTypeOK',
         UNCHANGED <<batch, knew, key, known, at, matches, creates>>,
         \A i \in Incidents : Committed(i) <=> Committed(i)',
         \A i \in Incidents : TakesAlerts(i)' => TakesAlerts(i)
  PROVE  SnapshotInv' /\ KnownInv'
<1>1. SnapshotInv'
  BY DEF RivalInv, FileInv, IntakeTypeOK, SnapshotInv
<1>2. KnownInv'
  BY DEF RivalInv, FileInv, IntakeTypeOK, KnownInv
<1> QED BY <1>1, <1>2

LEMMA RivalDeliveryStep ==
  ASSUME RivalInv, NEW d \in Deliveries, IntakeTypeOK',
         HandlerStep(d) \/ Redeliver(d)
  PROVE  SnapshotInv' /\ KnownInv'
<1> USE IntakeAssumption DEF RivalInv, FileInv
<1>1. CASE Commit(d)
  <2> DEFINE k == target[d]
  <2>1. /\ at[d] = "storing" /\ k \in Incidents
        /\ at' = [at EXCEPT ![d] = "committed"]
        /\ knew' = [knew EXCEPT ![d] = {}]
        /\ creates' = [creates EXCEPT ![d] = FALSE]
        /\ UNCHANGED <<batch, matches>>
    BY <1>1 DEF Commit, TargetInv
  <2>2. CASE creates[d]
    <3>1. /\ ~Committed(k) /\ Committed(k)' /\ key'[k] = batch[d].key /\ known'[k] = knew[d]
          /\ \A i \in Incidents : i # k =>
                /\ key'[i] = key[i] /\ known'[i] = known[i]
                /\ Committed(i) <=> Committed(i)'
                /\ TakesAlerts(i) <=> TakesAlerts(i)'
      BY <1>1, <2>1, <2>2 DEF Commit, InsertInv, Committed, TakesAlerts, IntakeTypeOK
    <3>2. SnapshotInv'
      <4> SUFFICES ASSUME NEW e \in Deliveries, NEW i \in knew'[e]
                   PROVE  /\ Committed(i)'
                          /\ key'[i] = batch'[e].key /\ TakesAlerts(i)' =>
                               \/ at'[e] = "locking" /\ i \in matches'[e]
                               \/ at'[e] = "storing" /\ ~creates'[e]
        BY DEF SnapshotInv, Committed, TakesAlerts
      <4>1. e # d /\ i \in knew[e] /\ i \in Incidents
        BY <2>1 DEF IntakeTypeOK
      <4>2. i # k
        BY <3>1, <4>1 DEF SnapshotInv
      <4> QED BY <2>1, <3>1, <4>1, <4>2 DEF SnapshotInv, IntakeTypeOK
    <3>3. KnownInv'
      <4> SUFFICES ASSUME NEW n \in Incidents, Committed(n)', NEW i \in known'[n]
                   PROVE  Committed(i)' /\ (key'[i] = key'[n] => ~TakesAlerts(i)')
        BY DEF KnownInv
      <4>1. CASE n = k
        <5>1. i \in knew[d] /\ i \in Incidents /\ i # k
          BY <3>1, <4>1 DEF SnapshotInv, IntakeTypeOK
        <5> QED BY <2>1, <2>2, <3>1, <4>1, <5>1 DEF SnapshotInv
      <4>2. CASE n # k
        <5>1. Committed(n) /\ i \in known[n] /\ i \in Incidents
          BY <3>1, <4>2 DEF IntakeTypeOK
        <5>2. i # k
          BY <3>1, <5>1 DEF KnownInv
        <5> QED BY <3>1, <4>2, <5>1, <5>2 DEF KnownInv
      <4> QED BY <4>1, <4>2
    <3> QED BY <3>2, <3>3
  <2>3. CASE ~creates[d]
    <3>1. UNCHANGED <<status, key, recent, known>>
      BY <1>1, <2>3 DEF Commit
    <3>2. SnapshotInv'
      BY <2>1, <3>1 DEF SnapshotInv, Committed, TakesAlerts, IntakeTypeOK
    <3>3. KnownInv'
      BY <3>1 DEF KnownInv, Committed, TakesAlerts
    <3> QED BY <3>2, <3>3
  <2> QED BY <2>2, <2>3
<1>2. CASE Lookup(d)
  <2> DEFINE found == {i \in Incidents : Absorbs(i) /\ recent[i] /\ key[i] = batch[d].key}
  <2>1. /\ matches' = [matches EXCEPT ![d] = found]
        /\ knew' = [knew EXCEPT ![d] = {i \in Incidents : status[i] # "absent"}]
        /\ at' = [at EXCEPT ![d] = IF found = {} THEN "inserting" ELSE "locking"]
        /\ UNCHANGED <<batch, creates, rowVars>>
    BY <1>2 DEF Lookup
  <2>2. KnownInv'
    BY <2>1 DEF KnownInv, Committed, TakesAlerts, rowVars
  <2>3. \A i \in knew'[d] :
          /\ Committed(i)
          /\ key[i] = batch[d].key /\ TakesAlerts(i) =>
               at'[d] = "locking" /\ i \in matches'[d]
    BY <2>1 DEF Committed, Absorbs, TakesAlerts, IntakeTypeOK
  <2>4. \A e \in Deliveries : e # d =>
          at'[e] = at[e] /\ matches'[e] = matches[e] /\ knew'[e] = knew[e]
    BY <2>1 DEF IntakeTypeOK
  <2>5. \A i \in Incidents :
          /\ Committed(i)' <=> Committed(i)
          /\ TakesAlerts(i)' <=> TakesAlerts(i)
    BY <2>1 DEF Committed, TakesAlerts, rowVars
  <2>6. UNCHANGED <<key, batch, creates>>
    BY <2>1 DEF rowVars
  <2>7. ASSUME NEW e \in Deliveries, NEW i \in knew'[e]
        PROVE  /\ Committed(i)'
               /\ key'[i] = batch'[e].key /\ TakesAlerts(i)' =>
                    \/ at'[e] = "locking" /\ i \in matches'[e]
                    \/ at'[e] = "storing" /\ ~creates'[e]
    <3>1. i \in Incidents
      BY <2>7 DEF IntakeTypeOK
    <3>2. CASE e = d
      BY <2>3, <2>5, <2>6, <3>1, <3>2
    <3>3. CASE e # d
      <4>1. i \in knew[e]
        BY <2>4, <3>3
      <4> QED BY <2>4, <2>5, <2>6, <3>1, <3>3, <4>1 DEF SnapshotInv
    <3> QED BY <3>2, <3>3
  <2>8. SnapshotInv'
    BY <2>7 DEF SnapshotInv, Committed, TakesAlerts
  <2> QED BY <2>2, <2>8
<1>3. CASE LockRow(d)
  <2>1. PICK i \in matches[d] :
          IF Absorbs(i)
            THEN at' = [at EXCEPT ![d] = "storing"]
            ELSE /\ matches' = [matches EXCEPT ![d] = @ \ {i}]
                 /\ at' = [at EXCEPT ![d] = IF matches[d] = {i} THEN "inserting" ELSE "locking"]
    BY <1>3 DEF LockRow, Newest
  <2>2. UNCHANGED <<batch, creates, knew, rowVars>> /\ ~creates[d]
    BY <1>3 DEF LockRow, TargetInv
  <2>3. KnownInv'
    BY <2>2 DEF KnownInv, Committed, TakesAlerts, rowVars
  <2>4. \A e \in Deliveries : e # d => at'[e] = at[e] /\ matches'[e] = matches[e]
    BY <1>3 DEF LockRow, IntakeTypeOK
  <2>5. \A k \in knew[d] : key[k] = batch[d].key /\ TakesAlerts(k) => k \in matches[d]
    BY <1>3 DEF LockRow, SnapshotInv
  <2>6. \/ at'[d] = "storing"
        \/ /\ ~TakesAlerts(i)
           /\ matches'[d] = matches[d] \ {i}
           /\ at'[d] = IF matches[d] = {i} THEN "inserting" ELSE "locking"
    BY <2>1 DEF Absorbs, TakesAlerts, IntakeTypeOK
  <2>7. SnapshotInv'
    BY <2>2, <2>4, <2>5, <2>6 DEF SnapshotInv, Committed, TakesAlerts, rowVars
  <2> QED BY <2>3, <2>7
<1>4. CASE Drop(d) \/ InsertIncident(d) \/ Reply(d)
  <2>1. /\ UNCHANGED <<batch, knew, matches, rowVars>>
        /\ at[d] \notin {"locking", "storing"}
        /\ \A e \in Deliveries : e # d => at'[e] = at[e] /\ creates'[e] = creates[e]
    BY <1>4 DEF Drop, InsertIncident, Reply, IntakeTypeOK
  <2>2. KnownInv'
    BY <2>1 DEF KnownInv, Committed, TakesAlerts, rowVars
  <2>3. SnapshotInv'
    BY <2>1 DEF SnapshotInv, Committed, TakesAlerts, rowVars
  <2> QED BY <2>2, <2>3
<1>5. CASE Redeliver(d)
  <2>1. /\ UNCHANGED <<batch, rowVars>> /\ knew'[d] = {}
        /\ \A e \in Deliveries : e # d =>
              /\ at'[e] = at[e] /\ matches'[e] = matches[e]
              /\ knew'[e] = knew[e] /\ creates'[e] = creates[e]
    BY <1>5 DEF Redeliver, IntakeTypeOK
  <2>2. KnownInv'
    BY <2>1 DEF KnownInv, Committed, TakesAlerts, rowVars
  <2>3. SnapshotInv'
    BY <2>1 DEF SnapshotInv, Committed, TakesAlerts, rowVars
  <2> QED BY <2>2, <2>3
<1> QED BY <1>1, <1>2, <1>3, <1>4, <1>5 DEF HandlerStep

LEMMA RivalStep ==
  ASSUME RivalInv, [IntakeNext]_intakeVars
  PROVE  RivalInv'
<1>1. FileInv' /\ IntakeTypeOK'
  BY FileStep, IntakeTypeStep DEF RivalInv, FileInv
<1>2. ASSUME NEW i \in Incidents,
             PublishIncident(i) \/ BeginResolve(i) \/ CommitResolve(i) \/ LeaveWindow(i)
      PROVE  SnapshotInv' /\ KnownInv'
  <2>1. UNCHANGED <<batch, knew, key, known, at, matches, creates>>
    BY <1>2 DEF PublishIncident, BeginResolve, CommitResolve, LeaveWindow, txVars, rowVars
  <2>2. /\ \A k \in Incidents : Committed(k) <=> Committed(k)'
        /\ \A k \in Incidents : TakesAlerts(k)' => TakesAlerts(k)
    BY <1>2 DEF PublishIncident, BeginResolve, CommitResolve, LeaveWindow, rowVars,
                RivalInv, FileInv, ResolveInv, IntakeTypeOK, Committed, TakesAlerts, Absorbs
  <2> QED BY <1>1, <2>1, <2>2, RivalOtherStep
<1>3. ASSUME UNCHANGED intakeVars PROVE SnapshotInv' /\ KnownInv'
  <2>1. /\ UNCHANGED <<batch, knew, key, known, at, matches, creates>>
        /\ UNCHANGED <<status, recent>>
    BY <1>3 DEF intakeVars, txVars, rowVars
  <2> QED BY <1>1, <2>1, RivalOtherStep DEF Committed, TakesAlerts
<1> QED
  <2>1. CASE UNCHANGED intakeVars
    BY <1>1, <1>3, <2>1 DEF RivalInv
  <2>2. CASE IntakeNext
    BY <1>1, <1>2, <1>3, <2>2, RivalDeliveryStep DEF IntakeNext, AllAnswered, RivalInv
  <2> QED BY <2>1, <2>2

(* Two notebooks of one key that both take alerts were created by          *)
(* transactions that overlapped.                                           *)
THEOREM RivalsCorrect == IntakeSpec => []RivalsOverlap
<1>1. IntakeInit => RivalInv
  BY FileInitially DEF IntakeInit, RivalInv, SnapshotInv, KnownInv, Committed
<1>2. RivalInv => RivalsOverlap
  BY DEF RivalInv, KnownInv, RivalsOverlap, TakesAlerts, Committed
<1> QED
  BY <1>1, <1>2, RivalStep, PTL DEF IntakeSpec
=============================================================================
