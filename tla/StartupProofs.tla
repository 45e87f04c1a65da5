---------------------------- MODULE StartupProofs ----------------------------
(***************************************************************************)
(* Proofs about Startup, for any number of processes of any releases and   *)
(* any number of crashes.                                                  *)
(*                                                                         *)
(* What a process found pending is always the rest of its files from some  *)
(* version on that is at most one past the schema; the one process that is *)
(* in a transaction is about to apply the very next.                       *)
(***************************************************************************)
EXTENDS Startup, TLAPS

(* What is pending starts after a prefix of the applied versions.          *)
TodoIsRest ==
  \A p \in Migrating : todo[p] # {} =>
    \E k \in 0..Len(bodies) : k < Release[p] /\ todo[p] = (k + 1)..Release[p]

(* A transaction that is open applies the version after the last.          *)
BodyIsNext ==
  \A p \in Migrating : at[p] = "body" => Len(bodies) < Release[p] /\ todo[p] = (Len(bodies) + 1)..Release[p]

(* A transaction without its client is about that version too, and alone.  *)
OrphanIsNext ==
  \A v \in orphans : v = Len(bodies) + 1 /\ \A p \in Migrating : at[p] # "body"

OneBody == \A p, q \in Migrating : at[p] = "body" /\ at[q] = "body" => p = q

ReadyIsMigrated == \A p \in Migrating : at[p] = "ready" => Versions(p) \subseteq applied

StartupInv ==
  /\ StartupTypeOK
  /\ AppliedOnceInOrder
  /\ TodoIsRest
  /\ BodyIsNext
  /\ OneBody
  /\ OrphanIsNext
  /\ ReadyIsMigrated

-----------------------------------------------------------------------------
(* The least element of an interval that is not empty.                     *)
LEMMA LowestOfRest ==
  ASSUME NEW p \in Migrating, NEW k \in Nat, Release[p] \in Nat,
         k < Release[p], todo[p] = (k + 1)..Release[p]
  PROVE  Lowest(p) = k + 1
<1>1. k + 1 \in todo[p] /\ \A w \in todo[p] : k + 1 <= w
  OBVIOUS
<1>2. \A v \in todo[p] : (\A w \in todo[p] : v <= w) => v = k + 1
  <2> SUFFICES ASSUME NEW v \in todo[p], \A w \in todo[p] : v <= w PROVE v = k + 1
    OBVIOUS
  <2>1. v <= k + 1 BY <1>1
  <2>2. k + 1 <= v BY <1>1
  <2> QED BY <2>1, <2>2
<1>3. Lowest(p) \in todo[p] /\ \A w \in todo[p] : Lowest(p) <= w
  BY <1>1 DEF Lowest
<1> QED BY <1>2, <1>3

(* Init establishes the invariant.                                         *)
LEMMA StartupInitInv == ASSUME StartupInit PROVE StartupInv
<1> USE DEF StartupInit
<1>1. StartupTypeOK
  <2>1. applied \subseteq Nat /\ polled \subseteq Workers /\ table \in BOOLEAN
    OBVIOUS
  <2>6. bodies \in Seq(Nat)
    OBVIOUS
  <2>2. crashes \in 0..MaxCrashes
    BY StartupAssumption
  <2>3. at \in [Migrating -> {"down", "start", "create", "read", "apply", "body", "ready"}]
    OBVIOUS
  <2>4. \A p \in Migrating : at[p] = "start" /\ todo[p] = {}
    OBVIOUS
  <2>5. todo \in [Migrating -> SUBSET Nat]
    OBVIOUS
  <2> QED BY <2>1, <2>2, <2>3, <2>4, <2>5, <2>6 DEF StartupTypeOK
<1>2. AppliedOnceInOrder
  BY DEF AppliedOnceInOrder
<1>3. TodoIsRest /\ BodyIsNext /\ OneBody /\ OrphanIsNext /\ ReadyIsMigrated
  BY DEF TodoIsRest, BodyIsNext, OneBody, OrphanIsNext, ReadyIsMigrated
<1> QED BY <1>1, <1>2, <1>3 DEF StartupInv

(* A step of p that leaves the schema alone and ends in a state that is    *)
(* neither a transaction nor ready, with nothing pending.                  *)
LEMMA ExitKeepsInv ==
  ASSUME StartupInv, NEW p \in Migrating, Exit(p),
         UNCHANGED <<applied, bodies, polled>>, table' \in BOOLEAN, crashes' \in 0..MaxCrashes,
         UNCHANGED orphans \/ (at[p] = "body" /\ orphans' = orphans \cup {Lowest(p)})
  PROVE  StartupInv'
<1>1. at' = [at EXCEPT ![p] = "down"] /\ todo' = [todo EXCEPT ![p] = {}]
  BY DEF Exit, Goto
<1>2. at[p] = "body" => Lowest(p) = Len(bodies) + 1
  <2> SUFFICES ASSUME at[p] = "body" PROVE Lowest(p) = Len(bodies) + 1
    OBVIOUS
  <2>1. Len(bodies) \in Nat /\ Release[p] \in Nat
    BY StartupAssumption DEF StartupInv, StartupTypeOK
  <2>2. Len(bodies) < Release[p] /\ todo[p] = (Len(bodies) + 1)..Release[p]
    BY DEF StartupInv, BodyIsNext
  <2> QED BY <2>1, <2>2, LowestOfRest
<1>3. StartupTypeOK'
  <2>1. Len(bodies) + 1 \in Nat /\ orphans \subseteq Nat
    BY DEF StartupInv, StartupTypeOK
  <2>2. orphans' \subseteq Nat
    BY <1>2, <2>1
  <2> QED BY <1>1, <2>2 DEF StartupInv, StartupTypeOK, Versions
<1>4. AppliedOnceInOrder'
  BY DEF StartupInv, AppliedOnceInOrder
<1>5. TodoIsRest'
  BY <1>1 DEF StartupInv, TodoIsRest, StartupTypeOK
<1>6. BodyIsNext' /\ OneBody' /\ ReadyIsMigrated'
  BY <1>1 DEF StartupInv, BodyIsNext, OneBody, ReadyIsMigrated, StartupTypeOK, Versions
<1>7. OrphanIsNext'
  <2>1. \A q \in Migrating : at'[q] = "body" => at[q] = "body" /\ q # p
    BY <1>1 DEF StartupInv, StartupTypeOK
  <2>2. CASE UNCHANGED orphans
    BY <2>1, <2>2 DEF StartupInv, OrphanIsNext
  <2>3. CASE at[p] = "body" /\ orphans' = orphans \cup {Lowest(p)}
    <3>1. \A q \in Migrating : at'[q] # "body"
      BY <2>1, <2>3 DEF StartupInv, OneBody
    <3> QED BY <1>2, <2>3, <3>1 DEF StartupInv, OrphanIsNext
  <2> QED BY <2>2, <2>3
<1> QED BY <1>3, <1>4, <1>5, <1>6, <1>7 DEF StartupInv

(* The same for a step that only moves p to a state without obligations.   *)
LEMMA MoveKeepsInv ==
  ASSUME StartupInv, NEW p \in Migrating, NEW step \in {"start", "create", "read"}, Goto(p, step),
         todo[p] = {}, UNCHANGED <<applied, bodies, todo, polled, crashes, orphans>>, table' \in BOOLEAN
  PROVE  StartupInv'
<1>1. at' = [at EXCEPT ![p] = step]
  BY DEF Goto
<1>2. StartupTypeOK'
  BY <1>1 DEF StartupInv, StartupTypeOK, Versions
<1>3. AppliedOnceInOrder' /\ TodoIsRest'
  BY DEF StartupInv, AppliedOnceInOrder, TodoIsRest
<1>4. BodyIsNext' /\ OneBody' /\ OrphanIsNext' /\ ReadyIsMigrated'
  BY <1>1 DEF StartupInv, BodyIsNext, OneBody, OrphanIsNext, ReadyIsMigrated, StartupTypeOK, Versions
<1> QED BY <1>2, <1>3, <1>4 DEF StartupInv

(* What is read as pending is the rest of the process's files after the    *)
(* applied prefix.                                                         *)
LEMMA ReadKeepsInv ==
  ASSUME StartupInv, NEW p \in Migrating, ReadApplied(p) PROVE StartupInv'
<1> DEFINE n == Len(bodies)
<1>1. n \in Nat /\ Release[p] \in Nat /\ applied = 1..n
  BY StartupAssumption DEF StartupInv, StartupTypeOK, AppliedOnceInOrder
<1>2. Pending(p) = (n + 1)..Release[p]
  BY <1>1 DEF Pending, Versions
<1> HIDE DEF n
<1>3. CASE Pending(p) = {}
  <2>1. at' = [at EXCEPT ![p] = "ready"] /\ todo' = [todo EXCEPT ![p] = {}]
    BY <1>3 DEF ReadApplied, Goto
  <2>2. StartupTypeOK'
    BY <2>1 DEF StartupInv, StartupTypeOK, Versions, ReadApplied
  <2>3. AppliedOnceInOrder' /\ TodoIsRest'
    BY <2>1 DEF StartupInv, StartupTypeOK, AppliedOnceInOrder, TodoIsRest, ReadApplied
  <2>4. BodyIsNext' /\ OneBody' /\ OrphanIsNext'
    BY <2>1 DEF StartupInv, StartupTypeOK, BodyIsNext, OneBody, OrphanIsNext, ReadApplied
  <2>5. ReadyIsMigrated'
    BY <2>1, <1>3 DEF StartupInv, StartupTypeOK, ReadyIsMigrated, ReadApplied, Pending, Versions
  <2> QED BY <2>2, <2>3, <2>4, <2>5 DEF StartupInv
<1>4. CASE Pending(p) # {}
  <2>1. at' = [at EXCEPT ![p] = "apply"] /\ todo' = [todo EXCEPT ![p] = Pending(p)]
    BY <1>4 DEF ReadApplied, Goto
  <2>2. n < Release[p]
    BY <1>1, <1>2, <1>4
  <2>3. Pending(p) \subseteq Versions(p) /\ Pending(p) \subseteq Nat
    BY <1>1 DEF Pending, Versions
  <2>4. StartupTypeOK'
    BY <2>1, <2>3, <1>4 DEF StartupInv, StartupTypeOK, ReadApplied, Versions
  <2>5. AppliedOnceInOrder'
    BY DEF StartupInv, AppliedOnceInOrder, ReadApplied
  <2>6. TodoIsRest'
    <3> SUFFICES ASSUME NEW q \in Migrating, todo'[q] # {}
                 PROVE  \E k \in 0..Len(bodies) : k < Release[q] /\ todo'[q] = (k + 1)..Release[q]
      BY DEF TodoIsRest, ReadApplied
    <3>1. CASE q = p
      <4>1. todo'[q] = (n + 1)..Release[q] /\ n < Release[q]
        BY <3>1, <2>1, <2>2, <1>2 DEF StartupInv, StartupTypeOK
      <4>2. n \in 0..Len(bodies)
        BY <1>1 DEF n
      <4> QED BY <4>1, <4>2
    <3>2. CASE q # p
      BY <3>2, <2>1 DEF StartupInv, StartupTypeOK, TodoIsRest
    <3> QED BY <3>1, <3>2
  <2>7. BodyIsNext' /\ OneBody' /\ OrphanIsNext'
    BY <2>1 DEF StartupInv, StartupTypeOK, BodyIsNext, OneBody, OrphanIsNext, ReadApplied
  <2>8. ReadyIsMigrated'
    BY <2>1 DEF StartupInv, StartupTypeOK, ReadyIsMigrated, ReadApplied, Versions
  <2> QED BY <2>4, <2>5, <2>6, <2>7, <2>8 DEF StartupInv
<1> QED BY <1>3, <1>4

(* A transaction begins: its version is the next, and nobody has another   *)
(* one open, for that would be about the same version.                     *)
LEMMA BeginKeepsInv ==
  ASSUME StartupInv, NEW p \in Migrating, BeginApply(p), Lowest(p) \notin applied
  PROVE  StartupInv'
<1>1. at' = [at EXCEPT ![p] = "body"] /\ UNCHANGED <<table, applied, bodies, todo, polled, crashes, orphans>>
  BY DEF BeginApply, Goto
<1>2. Len(bodies) \in Nat /\ \A q \in Migrating : Release[q] \in Nat
  BY StartupAssumption DEF StartupInv, StartupTypeOK
<1>3. todo[p] # {}
  BY DEF BeginApply, StartupInv, StartupTypeOK
<1>4. PICK k \in 0..Len(bodies) : k < Release[p] /\ todo[p] = (k + 1)..Release[p]
  BY <1>3 DEF StartupInv, TodoIsRest
<1>5. Lowest(p) = k + 1
  BY <1>2, <1>4, LowestOfRest
<1>6. k = Len(bodies)
  BY <1>2, <1>4, <1>5 DEF StartupInv, AppliedOnceInOrder
<1>7. \A q \in Migrating : at[q] # "body"
  <2> SUFFICES ASSUME NEW q \in Migrating, at[q] = "body" PROVE FALSE
    OBVIOUS
  <2>1. q # p
    BY DEF BeginApply
  <2>2. Len(bodies) < Release[q] /\ todo[q] = (Len(bodies) + 1)..Release[q]
    BY DEF StartupInv, BodyIsNext
  <2>3. Lowest(q) = Len(bodies) + 1
    BY <2>2, <1>2, LowestOfRest
  <2> QED BY <2>1, <2>3, <1>5, <1>6 DEF BeginApply
<1>8. StartupTypeOK'
  BY <1>1 DEF StartupInv, StartupTypeOK, Versions, BeginApply
<1>9. AppliedOnceInOrder' /\ TodoIsRest'
  BY <1>1 DEF StartupInv, AppliedOnceInOrder, TodoIsRest
<1>10. BodyIsNext' /\ OneBody' /\ OrphanIsNext'
  <2>1. orphans' = {}
    <3>1. \A v \in orphans : v = Lowest(p)
      BY <1>5, <1>6 DEF StartupInv, OrphanIsNext
    <3> QED BY <1>1, <3>1 DEF BeginApply
  <2> QED BY <1>1, <1>4, <1>6, <1>7, <2>1 DEF StartupInv, StartupTypeOK, BodyIsNext, OneBody, OrphanIsNext
<1>11. ReadyIsMigrated'
  BY <1>1 DEF StartupInv, StartupTypeOK, ReadyIsMigrated, Versions
<1> QED BY <1>8, <1>9, <1>10, <1>11 DEF StartupInv

(* A commit appends the very next version, and what the others found       *)
(* pending still starts at most one past the schema.                       *)
LEMMA CommitKeepsInv ==
  ASSUME StartupInv, NEW p \in Migrating, CommitApply(p) PROVE StartupInv'
<1> DEFINE n == Len(bodies)
<1>1. n \in Nat /\ (\A q \in Migrating : Release[q] \in Nat) /\ applied = 1..n /\ bodies \in Seq(Nat)
  BY StartupAssumption DEF StartupInv, StartupTypeOK, AppliedOnceInOrder
<1>2. n < Release[p] /\ todo[p] = (n + 1)..Release[p]
  BY DEF CommitApply, StartupInv, BodyIsNext
<1>3. Lowest(p) = n + 1
  BY <1>1, <1>2, LowestOfRest
<1>4. bodies' = Append(bodies, n + 1) /\ applied' = applied \cup {n + 1}
  BY <1>3 DEF CommitApply
<1>5. /\ bodies' \in Seq(Nat) /\ Len(bodies') = n + 1
      /\ \A m \in 1..n : bodies'[m] = bodies[m]
      /\ bodies'[n + 1] = n + 1
  BY <1>1, <1>4
<1>6. todo' = [todo EXCEPT ![p] = (n + 2)..Release[p]]
  <2>1. ((n + 1)..Release[p]) \ {n + 1} = (n + 2)..Release[p]
    BY <1>1
  <2> QED BY <2>1, <1>2, <1>3 DEF CommitApply, Done, StartupInv, StartupTypeOK
<1>7. at' = [at EXCEPT ![p] = IF Release[p] = n + 1 THEN "ready" ELSE "apply"]
  <2>1. (todo[p] = {n + 1}) <=> (Release[p] = n + 1)
    BY <1>1, <1>2
  <2> QED BY <2>1, <1>3 DEF CommitApply, Done, Goto
<1>8. UNCHANGED <<table, polled, crashes, orphans>>
  BY DEF CommitApply
<1> HIDE DEF n
<1>9. AppliedOnceInOrder'
  <2>1. applied' = 1..Len(bodies')
    BY <1>1, <1>4, <1>5
  <2>2. \A m \in 1..n : bodies[m] = m
    BY <1>1 DEF StartupInv, AppliedOnceInOrder, n
  <2>3. DOMAIN bodies' = 1..(n + 1)
    BY <1>5
  <2> QED BY <1>1, <1>5, <2>1, <2>2, <2>3 DEF AppliedOnceInOrder
<1>10. StartupTypeOK'
  <2>1. applied' \subseteq Nat
    BY <1>1, <1>4
  <2>2. (n + 2)..Release[p] \subseteq Versions(p) /\ (n + 2)..Release[p] \subseteq Nat
    BY <1>1 DEF Versions
  <2>3. ((n + 2)..Release[p] # {}) <=> (Release[p] # n + 1)
    <3>1. Release[p] # n + 1 => n + 2 \in (n + 2)..Release[p]
      BY <1>1, <1>2
    <3>2. \A m \in (n + 2)..Release[p] : n + 1 < Release[p]
      BY <1>1
    <3> QED BY <3>1, <3>2, <1>1
  <2>4. at' \in [Migrating -> {"down", "start", "create", "read", "apply", "body", "ready"}]
    BY <1>7 DEF StartupInv, StartupTypeOK
  <2>5. todo' \in [Migrating -> SUBSET Nat]
    BY <1>6, <2>2 DEF StartupInv, StartupTypeOK
  <2>6. \A q \in Migrating : todo'[q] \subseteq Versions(q) /\ ((todo'[q] # {}) = (at'[q] \in {"apply", "body"}))
    BY <1>6, <1>7, <2>2, <2>3 DEF StartupInv, StartupTypeOK
  <2> QED BY <1>5, <1>8, <2>1, <2>4, <2>5, <2>6 DEF StartupInv, StartupTypeOK, Versions
<1>11. TodoIsRest'
  <2> SUFFICES ASSUME NEW q \in Migrating, todo'[q] # {}
               PROVE  \E k \in 0..Len(bodies') : k < Release[q] /\ todo'[q] = (k + 1)..Release[q]
    BY DEF TodoIsRest
  <2>1. CASE q = p
    <3>1. todo'[q] = (n + 1 + 1)..Release[q]
      BY <2>1, <1>6, <1>1 DEF StartupInv, StartupTypeOK
    <3>2. n + 1 < Release[q]
      <4>1. PICK m \in (n + 1 + 1)..Release[q] : TRUE
        BY <3>1
      <4> QED BY <4>1, <1>1
    <3>3. n + 1 \in 0..Len(bodies')
      BY <1>1, <1>5
    <3> QED BY <3>1, <3>2, <3>3
  <2>2. CASE q # p
    <3>1. todo'[q] = todo[q]
      BY <2>2, <1>6 DEF StartupInv, StartupTypeOK
    <3>2. PICK k \in 0..n : k < Release[q] /\ todo[q] = (k + 1)..Release[q]
      BY <3>1 DEF StartupInv, TodoIsRest, n
    <3>3. k \in 0..Len(bodies')
      BY <1>1, <1>5
    <3> QED BY <3>1, <3>2, <3>3
  <2> QED BY <2>1, <2>2
<1>12. \A q \in Migrating : at'[q] # "body"
  <2>1. \A q \in Migrating : at[q] = "body" => q = p
    BY DEF CommitApply, StartupInv, OneBody
  <2> QED BY <2>1, <1>7 DEF StartupInv, StartupTypeOK
<1>13. ReadyIsMigrated'
  <2> SUFFICES ASSUME NEW q \in Migrating, at'[q] = "ready" PROVE Versions(q) \subseteq applied'
    BY DEF ReadyIsMigrated, Versions
  <2>1. CASE q = p
    <3>1. Release[q] = n + 1
      BY <2>1, <1>7 DEF StartupInv, StartupTypeOK
    <3> QED BY <3>1, <1>1, <1>4 DEF Versions
  <2>2. CASE q # p
    <3>1. at[q] = "ready"
      BY <2>2, <1>7 DEF StartupInv, StartupTypeOK
    <3> QED BY <3>1, <1>4 DEF StartupInv, ReadyIsMigrated
  <2> QED BY <2>1, <2>2
<1>14. OrphanIsNext'
  <2>1. orphans = {}
    BY DEF CommitApply, StartupInv, OrphanIsNext
  <2> QED BY <2>1, <1>8 DEF OrphanIsNext
<1> QED BY <1>9, <1>10, <1>11, <1>12, <1>13, <1>14 DEF StartupInv, BodyIsNext, OneBody

(* A transaction that lost its client ends: the schema has one version     *)
(* more, and nobody is in a transaction, or it is as it was.               *)
LEMMA OrphanKeepsInv ==
  ASSUME StartupInv, NEW v \in orphans, OrphanEnds(v) PROVE StartupInv'
<1> DEFINE n == Len(bodies)
<1>1. n \in Nat /\ (\A q \in Migrating : Release[q] \in Nat) /\ applied = 1..n /\ bodies \in Seq(Nat)
  BY StartupAssumption DEF StartupInv, StartupTypeOK, AppliedOnceInOrder
<1>2. v = n + 1 /\ orphans' = {} /\ UNCHANGED <<table, at, todo, polled, crashes>>
  BY DEF StartupInv, OrphanIsNext, OrphanEnds
<1>3. \A q \in Migrating : at'[q] # "body"
  BY <1>2 DEF StartupInv, OrphanIsNext
<1>4. BodyIsNext' /\ OneBody' /\ OrphanIsNext'
  BY <1>2, <1>3 DEF BodyIsNext, OneBody, OrphanIsNext
<1>5. CASE UNCHANGED <<bodies, applied>>
  <2>1. StartupTypeOK'
    BY <1>2, <1>5 DEF StartupInv, StartupTypeOK, Versions
  <2>2. AppliedOnceInOrder' /\ TodoIsRest' /\ ReadyIsMigrated'
    BY <1>2, <1>5 DEF StartupInv, AppliedOnceInOrder, TodoIsRest, ReadyIsMigrated, Versions
  <2> QED BY <1>4, <2>1, <2>2 DEF StartupInv
<1>6. CASE bodies' = Append(bodies, v) /\ applied' = applied \cup {v}
  <2>1. /\ bodies' \in Seq(Nat) /\ Len(bodies') = n + 1
        /\ \A m \in 1..n : bodies'[m] = bodies[m]
        /\ bodies'[n + 1] = n + 1 /\ DOMAIN bodies' = 1..(n + 1)
    BY <1>1, <1>2, <1>6
  <2>2. \A m \in 1..n : bodies[m] = m
    BY <1>1 DEF StartupInv, AppliedOnceInOrder
  <2> HIDE DEF n
  <2>3. applied' = 1..(n + 1)
    BY <1>1, <1>2, <1>6
  <2>4. AppliedOnceInOrder'
    BY <1>1, <2>1, <2>2, <2>3 DEF AppliedOnceInOrder
  <2>5. StartupTypeOK'
    BY <1>1, <1>2, <2>1, <2>3 DEF StartupInv, StartupTypeOK, Versions
  <2>6. TodoIsRest'
    <3> SUFFICES ASSUME NEW q \in Migrating, todo'[q] # {}
                 PROVE  \E k \in 0..Len(bodies') : k < Release[q] /\ todo'[q] = (k + 1)..Release[q]
      BY DEF TodoIsRest
    <3>1. PICK k \in 0..n : k < Release[q] /\ todo[q] = (k + 1)..Release[q]
      BY <1>2 DEF StartupInv, TodoIsRest, n
    <3>2. k \in 0..Len(bodies')
      BY <1>1, <2>1
    <3> QED BY <1>2, <3>1, <3>2
  <2>7. ReadyIsMigrated'
    BY <1>2, <1>6 DEF StartupInv, ReadyIsMigrated, Versions
  <2> QED BY <1>4, <2>4, <2>5, <2>6, <2>7 DEF StartupInv
<1> QED BY <1>5, <1>6 DEF OrphanEnds

(* Every step keeps the invariant.                                         *)
LEMMA StartupStepInv == ASSUME StartupInv, [StartupNext]_startupVars PROVE StartupInv'
<1>1. ASSUME NEW p \in Migrating, LookForTable(p) PROVE StartupInv'
  <2>1. todo[p] = {}
    BY <1>1 DEF LookForTable, StartupInv, StartupTypeOK
  <2>2. table' \in BOOLEAN
    BY <1>1 DEF LookForTable, StartupInv, StartupTypeOK
  <2>3. CASE table
    BY <1>1, <2>1, <2>2, <2>3, MoveKeepsInv DEF LookForTable
  <2>4. CASE ~table
    BY <1>1, <2>1, <2>2, <2>4, MoveKeepsInv DEF LookForTable
  <2> QED BY <2>3, <2>4
<1>2. ASSUME NEW p \in Migrating, CreateTable(p) PROVE StartupInv'
  <2>1. todo[p] = {} /\ crashes \in 0..MaxCrashes
    BY <1>2 DEF CreateTable, StartupInv, StartupTypeOK
  <2>2. table' \in BOOLEAN
    BY <1>2 DEF CreateTable
  <2>3. CASE table
    BY <1>2, <2>1, <2>2, <2>3, ExitKeepsInv DEF CreateTable
  <2>4. CASE ~table
    BY <1>2, <2>1, <2>2, <2>4, MoveKeepsInv DEF CreateTable
  <2> QED BY <2>3, <2>4
<1>3. ASSUME NEW p \in Migrating, ReadApplied(p) PROVE StartupInv'
  BY <1>3, ReadKeepsInv
<1>4. ASSUME NEW p \in Migrating, BeginApply(p) PROVE StartupInv'
  <2>1. CASE Lowest(p) \in applied
    <3>1. Exit(p) /\ UNCHANGED <<table, applied, bodies, polled, crashes, orphans>>
      BY <1>4, <2>1 DEF BeginApply
    <3>2. table \in BOOLEAN /\ crashes \in 0..MaxCrashes
      BY DEF StartupInv, StartupTypeOK
    <3> QED BY <3>1, <3>2, ExitKeepsInv
  <2>2. CASE Lowest(p) \notin applied
    BY <1>4, <2>2, BeginKeepsInv
  <2> QED BY <2>1, <2>2
<1>5. ASSUME NEW p \in Migrating, CommitApply(p) PROVE StartupInv'
  BY <1>5, CommitKeepsInv
<1>6. ASSUME NEW p \in Migrating, Restart(p) PROVE StartupInv'
  <2>1. todo[p] = {} /\ table \in BOOLEAN
    BY <1>6 DEF Restart, StartupInv, StartupTypeOK
  <2> QED BY <1>6, <2>1, MoveKeepsInv DEF Restart
<1>7. ASSUME NEW p \in Migrating, Crash(p) PROVE StartupInv'
  <2>1. table \in BOOLEAN /\ crashes' \in 0..MaxCrashes
    BY <1>7, StartupAssumption DEF Crash, StartupInv, StartupTypeOK
  <2> QED BY <1>7, <2>1, ExitKeepsInv DEF Crash
<1>8. ASSUME NEW w \in Workers, Poll(w) PROVE StartupInv'
  <2>1. StartupTypeOK'
    BY <1>8 DEF Poll, StartupInv, StartupTypeOK, Versions
  <2>2. AppliedOnceInOrder' /\ TodoIsRest' /\ BodyIsNext' /\ OneBody' /\ OrphanIsNext' /\ ReadyIsMigrated'
    BY <1>8 DEF Poll, StartupInv, AppliedOnceInOrder, TodoIsRest, BodyIsNext, OneBody, OrphanIsNext,
                ReadyIsMigrated, Versions
  <2> QED BY <2>1, <2>2 DEF StartupInv
<1>9. CASE UNCHANGED startupVars
  <2>1. StartupTypeOK'
    BY <1>9 DEF startupVars, StartupInv, StartupTypeOK, Versions
  <2>2. AppliedOnceInOrder' /\ TodoIsRest' /\ BodyIsNext' /\ OneBody' /\ OrphanIsNext' /\ ReadyIsMigrated'
    BY <1>9 DEF startupVars, StartupInv, AppliedOnceInOrder, TodoIsRest, BodyIsNext, OneBody,
                OrphanIsNext, ReadyIsMigrated, Versions
  <2> QED BY <2>1, <2>2 DEF StartupInv
<1>10. ASSUME NEW v \in orphans, OrphanEnds(v) PROVE StartupInv'
  BY <1>10, OrphanKeepsInv
<1> QED BY <1>1, <1>2, <1>3, <1>4, <1>5, <1>6, <1>7, <1>8, <1>9, <1>10 DEF StartupNext, ProcessStep

(* The invariant holds in every reachable state.                           *)
LEMMA StartupInvariant == StartupSpec => []StartupInv
<1>1. StartupInit => StartupInv
  BY StartupInitInv
<1>2. StartupInv /\ [StartupNext]_startupVars => StartupInv'
  BY StartupStepInv
<1> QED BY <1>1, <1>2, PTL DEF StartupSpec

-----------------------------------------------------------------------------
(* schema_migrations and what the processes remember keep their types.     *)
THEOREM StartupTypeCorrect == StartupSpec => []StartupTypeOK
<1>1. StartupInv => StartupTypeOK
  BY DEF StartupInv
<1> QED BY <1>1, StartupInvariant, PTL

(* However many processes of whatever releases start and are killed, each  *)
(* migration takes effect once, in order, and its version is recorded.     *)
THEOREM AppliedCorrect == StartupSpec => []AppliedOnceInOrder
<1>1. StartupInv => AppliedOnceInOrder
  BY DEF StartupInv
<1> QED BY <1>1, StartupInvariant, PTL

(* No server answers requests before its tables are there.                 *)
THEOREM ServesMigratedCorrect == StartupSpec => []ServesMigrated
<1>1. StartupInv => ServesMigrated
  BY DEF StartupInv, ReadyIsMigrated, ServesMigrated, Migrating
<1> QED BY <1>1, StartupInvariant, PTL
=============================================================================
