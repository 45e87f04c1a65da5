---------------------------- MODULE CaptureProofs ----------------------------
(***************************************************************************)
(* Proofs about Capture, for any number of executions, any alerts and any  *)
(* answers of Prometheus: what is on file has its snapshot, snapshots are  *)
(* whole, and the summaries are faithful.                                  *)
(*                                                                         *)
(* The snapshots are the hard part.  An inode serves one key, whoever      *)
(* opened it first; so what an execution that died left behind under a     *)
(* temporary name can only get into files of that key, and the next Put of *)
(* the key truncates it.  Unless two Puts overlap, the one that is under   *)
(* way is the last that began.                                             *)
(***************************************************************************)
EXTENDS Capture, MetricsProofs, FiniteSetTheorems

USE DEF configVars

Execution ==
  [pc : {"idle", "metrics", "render", "open", "write", "rename", "save", "done", "dead"},
   panel : Keys \cup {None}, answer : Answers \cup {None},
   snapshot : {"none", "ok", "gap", "failed"}, inode : Executions \cup {None}]

MetricRow ==
  [by : Executions, collector : {"prometheus"}, status : {"ok", "gap", "failed"}, answer : Answers]

SnapshotRow ==
  [by : Executions, collector : {"grafana"}, status : {"ok", "gap", "failed"},
   key : Keys \cup {None}, backend : Backends]

StoreIsTyped ==
  /\ name \in [Keys -> Executions \cup {None}]
  /\ tmp \in [Keys -> Executions \cup {None}]
  /\ bytes \in [Executions -> SUBSET Executions]
  /\ object \in [Keys -> Executions \cup {None}]
  /\ puts \in Seq(Backends \X Keys \X Executions)

(* Locals that are read were written.                                      *)
RunIsTyped(x) ==
  /\ x.pc \in {"open", "write", "rename"} => x.panel # None
  /\ x.pc \in {"write", "rename"} => x.inode \in Executions /\ backend = "local"
  /\ x.pc # "save" => x.snapshot = "none"
  /\ x.snapshot = "ok" => x.panel # None

RowIsTyped(r) ==
  /\ exec[r.by].pc = "done"
  /\ r.collector = "prometheus" => r.status = MetricStatus(r.answer)
  /\ r.collector = "grafana" => (r.key # None) = (r.status = "ok")

TypeInv ==
  /\ roles \subseteq Collectors
  /\ backend \in Backends
  /\ joined \in (SUBSET Alerts) \ {{}} /\ IsFiniteSet(joined)
  /\ exec \in [Executions -> Execution]
  /\ \A e \in Executions : RunIsTyped(exec[e])
  /\ rows \subseteq MetricRow \cup SnapshotRow
  /\ \A r \in rows : RowIsTyped(r)
  /\ StoreIsTyped

-----------------------------------------------------------------------------
(* Inodes.                                                                 *)
Unopened(e) == exec[e].pc \in {"idle", "metrics", "render", "open"}

(* Each inode belongs to one key, and an execution that has not opened its *)
(* file yet has an inode that nobody uses.                                 *)
Owned(owner) ==
  /\ \A k \in Keys : name[k] # None => owner[name[k]] = k
  /\ \A k \in Keys : tmp[k] # None => owner[tmp[k]] = k /\ tmp[k] # name[k]
  /\ \A e \in Executions : Writing(e) => owner[exec[e].inode] = exec[e].panel
  /\ \A e \in Executions : Unopened(e) =>
       /\ \A k \in Keys : name[k] # e /\ tmp[k] # e
       /\ \A d \in Executions : Writing(d) => exec[d].inode # e

InodesApart == \E owner \in [Executions -> Keys \cup {None}] : Owned(owner)

Began(b, k, e) == \E n \in DOMAIN puts : puts[n] = <<b, k, e>>

(* The Put of e is the last of the key in this store.                      *)
LastPut(b, k, e) ==
  \E n \in DOMAIN puts :
    /\ puts[n] = <<b, k, e>>
    /\ \A m \in DOMAIN puts : puts[m][1] = b /\ puts[m][2] = k => m <= n

(* The one writer of a key has its temporary file for itself.              *)
WritesAlone(e, k) ==
  /\ \A d \in Executions : Writing(d) /\ exec[d].panel = k => d = e
  /\ tmp[k] = exec[e].inode
  /\ bytes[exec[e].inode] = IF AtStep(e, "write") THEN {} ELSE {e}
  /\ LastPut("local", k, e)

Undisturbed ==
  \A k \in Keys \ overlaps :
    /\ name[k] # None => \E n \in Executions : bytes[name[k]] = {n}
    /\ \A e \in Executions : Writing(e) /\ exec[e].panel = k => WritesAlone(e, k)

-----------------------------------------------------------------------------
(* What is on file, or about to be, of the store.                          *)
Claim(b, k, e) ==
  \/ \E r \in Attached : r.backend = b /\ r.key = k /\ r.by = e
  \/ AtStep(e, "save") /\ exec[e].snapshot = "ok" /\ b = backend /\ k = exec[e].panel

Holds(b, k) == IF b = "s3" THEN object[k] # None ELSE name[k] # None

Superseded(b, k, e) ==
  \E m, n \in DOMAIN puts :
    m < n /\ puts[m] = <<b, k, e>> /\ puts[n][1] = b /\ puts[n][2] = k

ClaimsHold ==
  \A b \in Backends, k \in Keys, e \in Executions : Claim(b, k, e) =>
    /\ Holds(b, k)
    /\ k \notin overlaps =>
         Began(b, k, e) /\ (Content(b, k) = {e} \/ Superseded(b, k, e))

CaptureInv == TypeInv /\ InodesApart /\ Undisturbed /\ ClaimsHold

(* The panel of an execution is of the incident.                           *)
NamedByAlerts(k) == \E a, b \in joined : k \in References(a, b)

PanelInv ==
  /\ \A e \in Executions : exec[e].panel # None => NamedByAlerts(exec[e].panel)
  /\ PanelOfTheIncident

-----------------------------------------------------------------------------
(* The panel.  The last alert that has a name says its value.              *)
LEMMA MergedIsNamed ==
  ASSUME NEW m \in Nat, NEW S, NEW order \in [1..m -> S], NEW k \in AliasKeys, Merged(order)[k] # None
  PROVE  \E a \in S : k \in DOMAIN a /\ Merged(order)[k] = a[k]
<1> DEFINE having == {n \in 1..m : k \in DOMAIN order[n]}
<1>1. Merged(order)[k] = IF having = {} THEN None ELSE order[Max(having)][k]
  BY DEF Merged
<1>2. having # {}
  BY <1>1
<1>3. \E x \in having : \A y \in having : y <= x
  <2> HIDE DEF having
  <2>1. having \subseteq 1..m
    BY DEF having
  <2> QED BY <1>2, <2>1, GreatestExists
<1>4. Max(having) \in having
  <2>1. \E x \in having : \A y \in having : x >= y
    BY <1>3
  <2> HIDE DEF having
  <2> QED BY <2>1 DEF Max
<1> DEFINE n == Max(having)
<1>5. n \in 1..m /\ k \in DOMAIN order[n]
  BY <1>4
<1> HIDE DEF n
<1>6. Merged(order)[k] = order[n][k]
  BY <1>1, <1>2 DEF n
<1> QED BY <1>5, <1>6

(* The first name that has a value has one.                                *)
LEMMA FirstIsNamed ==
  ASSUME NEW m \in Nat, NEW S, NEW order \in [1..m -> S],
         NEW keys \in {UidKeys, PidKeys, UrlKeys},
         FirstNonEmpty(Merged(order), keys) # None
  PROVE  \E a \in S : FirstNonEmpty(Merged(order), keys) \in Named(a, keys)
<1> DEFINE all == Merged(order)
           found == {n \in DOMAIN keys : all[keys[n]] # None}
<1>1. FirstNonEmpty(all, keys) = IF found = {} THEN None ELSE all[keys[Min(found)]]
  BY DEF FirstNonEmpty
<1>2. found # {}
  BY <1>1
<1>3. DOMAIN keys \subseteq 1..4 /\ ToSet(keys) \subseteq AliasKeys
  <2>1. DOMAIN UidKeys = 1..4 /\ DOMAIN PidKeys = 1..4 /\ DOMAIN UrlKeys = 1..3
    BY DEF UidKeys, PidKeys, UrlKeys
  <2>2. \/ ToSet(keys) = ToSet(UidKeys) /\ DOMAIN keys = 1..4
        \/ ToSet(keys) = ToSet(PidKeys) /\ DOMAIN keys = 1..4
        \/ ToSet(keys) = ToSet(UrlKeys) /\ DOMAIN keys = 1..3
    BY <2>1
  <2> QED BY <2>2 DEF AliasKeys
<1>4. Min(found) \in found
  <2> HIDE DEF found
  <2>1. found \subseteq 1..4
    BY <1>3 DEF found
  <2>2. \E x \in found : \A y \in found : x <= y
    <3>1. CASE 1 \in found
      BY <2>1, <3>1
    <3>2. CASE 1 \notin found /\ 2 \in found
      BY <2>1, <3>2
    <3>3. CASE 1 \notin found /\ 2 \notin found /\ 3 \in found
      BY <2>1, <3>3
    <3>4. CASE 1 \notin found /\ 2 \notin found /\ 3 \notin found
      <4>1. PICK x \in found : TRUE
        BY <1>2 DEF found
      <4>2. \A y \in found : y = 4
        BY <2>1, <3>4
      <4> QED BY <4>1, <4>2
    <3> QED BY <3>1, <3>2, <3>3, <3>4
  <2> QED BY <2>2 DEF Min
<1> DEFINE n == Min(found)
<1>5. n \in DOMAIN keys /\ all[keys[n]] # None
  BY <1>4
<1> HIDE DEF n
<1>6. FirstNonEmpty(all, keys) = all[keys[n]]
  BY <1>1, <1>2 DEF n
<1>7. keys[n] \in ToSet(keys) /\ keys[n] \in AliasKeys
  BY <1>3, <1>5 DEF ToSet
<1>8. PICK a \in S : keys[n] \in DOMAIN a /\ all[keys[n]] = a[keys[n]]
  BY <1>5, <1>7, MergedIsNamed
<1> QED BY <1>5, <1>6, <1>7, <1>8 DEF Named

(* Whatever names the alerts use and in whatever order they come, both     *)
(* parts of the panel are said by some of them.                            *)
LEMMA PanelIsNamed ==
  ASSUME NEW m \in Nat, NEW S, NEW order \in [1..m -> S],
         ResolvePanel(Merged(order)) # None
  PROVE  \E a, b \in S : ResolvePanel(Merged(order)) \in References(a, b)
<1> DEFINE all == Merged(order)
           uid == FirstNonEmpty(all, UidKeys)
           pid == FirstNonEmpty(all, PidKeys)
           url == FirstNonEmpty(all, UrlKeys)
<1>1. /\ uid # None => \E a \in S : uid \in Named(a, UidKeys)
      /\ pid # None => \E a \in S : pid \in Named(a, PidKeys)
      /\ url # None => \E a \in S : url \in Named(a, UrlKeys)
  BY FirstIsNamed
<1>2. ResolvePanel(all) = IF uid # None /\ pid # None THEN <<uid, pid>>
                          ELSE IF url # None THEN ParsePanelURL(url) ELSE None
  BY DEF ResolvePanel
<1> HIDE DEF uid, pid, url
<1>3. CASE uid # None /\ pid # None
  BY <1>1, <1>2, <1>3 DEF References
<1>4. CASE ~(uid # None /\ pid # None)
  <2>1. url # None /\ ParsePanelURL(url) # None /\ ResolvePanel(all) = ParsePanelURL(url)
    BY <1>2, <1>4
  <2>2. None \notin {url.uid, url.pid} /\ ResolvePanel(all) = <<url.uid, url.pid>>
    BY <2>1 DEF ParsePanelURL
  <2>3. PICK a \in S : url \in Named(a, UrlKeys)
    BY <1>1, <2>1
  <2> QED BY <2>2, <2>3 DEF References
<1> QED BY <1>3, <1>4

(* So the panel is a key of the store.                                     *)
LEMMA PanelIsKey ==
  ASSUME NEW m \in Nat, NEW S \in SUBSET Alerts, NEW order \in [1..m -> S]
  PROVE  ResolvePanel(Merged(order)) \in Keys \cup {None}
<1>1. CASE ResolvePanel(Merged(order)) # None
  <2>1. PICK a \in S, b \in S : ResolvePanel(Merged(order)) \in References(a, b)
    BY <1>1, PanelIsNamed
  <2> QED BY <2>1 DEF Keys
<1> QED BY <1>1

(* The rows of the alerts come in some order.                              *)
LEMMA OrderOfAlerts ==
  ASSUME TypeInv, NEW order \in SetToSeqs(joined)
  PROVE  /\ Cardinality(joined) \in Nat
         /\ order \in [1..Cardinality(joined) -> joined]
<1>1. Cardinality(joined) \in Nat
  BY FS_CardinalityType DEF TypeInv
<1>2. order \in [1..Cardinality(joined) -> joined]
  BY DEF SetToSeqs
<1> QED BY <1>1, <1>2

-----------------------------------------------------------------------------
(* Types.                                                                  *)

(* An execution is a record of its locals.                                 *)
LEMMA RunRecord ==
  ASSUME TypeInv, NEW e \in Executions
  PROVE  /\ exec[e] \in Execution
         /\ exec[e] = [pc |-> exec[e].pc, panel |-> exec[e].panel, answer |-> exec[e].answer,
                       snapshot |-> exec[e].snapshot, inode |-> exec[e].inode]
         /\ RunIsTyped(exec[e])
<1>1. exec[e] \in Execution /\ RunIsTyped(exec[e])
  BY DEF TypeInv
<1> QED BY <1>1 DEF Execution

(* What the execution e is after a step, field by field.                   *)
Moves(e, pc, panel, answer, snapshot, inode) ==
  exec' = [exec EXCEPT ![e] = [pc |-> pc, panel |-> panel, answer |-> answer,
                               snapshot |-> snapshot, inode |-> inode]]

(* What each step writes of the locals.                                    *)
LEMMA HowRunsMove ==
  ASSUME TypeInv, NEW e \in Executions
  PROVE  LET x == exec[e] IN
         /\ Start(e) => \E m \in Nat : \E order \in [1..m -> joined] :
              Moves(e, "metrics", ResolvePanel(Merged(order)), None, "none", None)
         /\ RunRange(e) => \E answer \in Answers \cup {None} :
              Moves(e, "render", x.panel, answer, x.snapshot, x.inode)
         /\ NoGrafana(e) => Moves(e, "save", x.panel, x.answer, x.snapshot, x.inode)
         /\ NoPanel(e) => Moves(e, "save", x.panel, x.answer, "gap", x.inode)
         /\ FetchPNG(e) => \/ Moves(e, "save", x.panel, x.answer, "failed", x.inode)
                           \/ Moves(e, "open", x.panel, x.answer, x.snapshot, x.inode)
         /\ Stored(e) => Moves(e, "save", x.panel, x.answer, "ok", x.inode)
         /\ PutFailed(e) => Moves(e, "save", x.panel, x.answer, "failed", x.inode)
         /\ \A inode : exec' = [exec EXCEPT ![e] = [@ EXCEPT !.pc = "write", !.inode = inode]] =>
              Moves(e, "write", x.panel, x.answer, x.snapshot, inode)
         /\ WriteTmp(e) => Moves(e, "rename", x.panel, x.answer, x.snapshot, x.inode)
         /\ SaveEvidence(e) => Moves(e, "done", None, None, "none", None)
         /\ Die(e) => Moves(e, "dead", None, None, "none", None)
<1> DEFINE x == exec[e]
<1>1. x = [pc |-> x.pc, panel |-> x.panel, answer |-> x.answer,
           snapshot |-> x.snapshot, inode |-> x.inode]
  BY RunRecord
<1>2. NotRun = [pc |-> "idle", panel |-> None, answer |-> None, snapshot |-> "none", inode |-> None]
  BY DEF NotRun
<1>3. DOMAIN exec = Executions
  BY DEF TypeInv
<1>4. ASSUME Start(e)
      PROVE  \E m \in Nat : \E order \in [1..m -> joined] :
               Moves(e, "metrics", ResolvePanel(Merged(order)), None, "none", None)
  <2>1. PICK order \in SetToSeqs(joined) :
          exec' = [exec EXCEPT ![e] = [NotRun EXCEPT !.pc = "metrics", !.panel = ResolvePanel(Merged(order))]]
    BY <1>4 DEF Start, AlertRows
  <2>2. Cardinality(joined) \in Nat /\ order \in [1..Cardinality(joined) -> joined]
    BY OrderOfAlerts
  <2> DEFINE p == ResolvePanel(Merged(order))
  <2>3. exec' = [exec EXCEPT ![e] = [NotRun EXCEPT !.pc = "metrics", !.panel = p]]
    BY <2>1
  <2> HIDE DEF p
  <2>4. Moves(e, "metrics", p, None, "none", None)
    <3> DEFINE q == [NotRun EXCEPT !.pc = "metrics"]
    <3>1. q = [pc |-> "metrics", panel |-> None, answer |-> None, snapshot |-> "none", inode |-> None]
      BY DEF NotRun
    <3>2. [NotRun EXCEPT !.pc = "metrics", !.panel = p] = [q EXCEPT !.panel = p]
      OBVIOUS
    <3> HIDE DEF q
    <3>3. [q EXCEPT !.panel = p] =
          [pc |-> "metrics", panel |-> p, answer |-> None, snapshot |-> "none", inode |-> None]
      BY <3>1
    <3> QED BY <2>3, <3>2, <3>3 DEF Moves
  <2> QED BY <2>2, <2>4 DEF p
<1>5. RunRange(e) => \E answer \in Answers \cup {None} :
        Moves(e, "render", x.panel, answer, x.snapshot, x.inode)
  <2> SUFFICES ASSUME RunRange(e)
               PROVE  \E answer \in Answers \cup {None} :
                        Moves(e, "render", x.panel, answer, x.snapshot, x.inode)
    OBVIOUS
  <2>1. PICK answer \in Answers \cup {None} :
          exec' = [exec EXCEPT ![e] = [@ EXCEPT !.pc = "render", !.answer = answer]]
    BY DEF RunRange
  <2>2. Moves(e, "render", x.panel, answer, x.snapshot, x.inode)
    <3>1. exec' = [exec EXCEPT ![e] = [x EXCEPT !.pc = "render", !.answer = answer]]
      BY <1>3, <2>1
    <3> HIDE DEF x
    <3>2. [x EXCEPT !.pc = "render", !.answer = answer] =
          [pc |-> "render", panel |-> x.panel, answer |-> answer,
           snapshot |-> x.snapshot, inode |-> x.inode]
      <4> DEFINE y == [x EXCEPT !.pc = "render"]
      <4>1. y = [pc |-> "render", panel |-> x.panel, answer |-> x.answer,
                 snapshot |-> x.snapshot, inode |-> x.inode]
        BY <1>1
      <4>2. [x EXCEPT !.pc = "render", !.answer = answer] = [y EXCEPT !.answer = answer]
        OBVIOUS
      <4> HIDE DEF y
      <4> QED BY <4>1, <4>2
    <3> QED BY <3>1, <3>2 DEF Moves
  <2> QED BY <2>2
<1>6. /\ NoGrafana(e) => Moves(e, "save", x.panel, x.answer, x.snapshot, x.inode)
      /\ NoPanel(e) => Moves(e, "save", x.panel, x.answer, "gap", x.inode)
  BY <1>1, <1>3 DEF NoGrafana, NoPanel, Moves
<1>7. FetchPNG(e) => \/ Moves(e, "save", x.panel, x.answer, "failed", x.inode)
                    \/ Moves(e, "open", x.panel, x.answer, x.snapshot, x.inode)
  BY <1>1, <1>3 DEF FetchPNG, Moves
<1>8. /\ Stored(e) => Moves(e, "save", x.panel, x.answer, "ok", x.inode)
      /\ PutFailed(e) => Moves(e, "save", x.panel, x.answer, "failed", x.inode)
  BY <1>1, <1>3 DEF Stored, PutFailed, Moves
<1>9. \A inode : exec' = [exec EXCEPT ![e] = [@ EXCEPT !.pc = "write", !.inode = inode]] =>
        Moves(e, "write", x.panel, x.answer, x.snapshot, inode)
  BY <1>1, <1>3 DEF Moves
<1>10. WriteTmp(e) => Moves(e, "rename", x.panel, x.answer, x.snapshot, x.inode)
  BY <1>1, <1>3 DEF WriteTmp, Moves
<1>11. /\ SaveEvidence(e) => Moves(e, "done", None, None, "none", None)
       /\ Die(e) => Moves(e, "dead", None, None, "none", None)
  BY <1>2 DEF SaveEvidence, Die, Moves
<1> QED BY <1>4, <1>5, <1>6, <1>7, <1>8, <1>9, <1>10, <1>11

(* One execution moves and the others stay.                                *)
LEMMA MoveIsLocal ==
  ASSUME TypeInv, NEW e \in Executions, NEW pc, NEW panel, NEW answer, NEW snapshot, NEW inode,
         Moves(e, pc, panel, answer, snapshot, inode)
  PROVE  /\ exec'[e].pc = pc /\ exec'[e].panel = panel /\ exec'[e].answer = answer
         /\ exec'[e].snapshot = snapshot /\ exec'[e].inode = inode
         /\ \A d \in Executions : d # e => exec'[d] = exec[d]
BY DEF Moves, TypeInv

(* It keeps the types if what it writes is typed.                          *)
LEMMA MoveKeepsTypes ==
  ASSUME TypeInv, NEW e \in Executions, exec[e].pc # "done",
         NEW pc \in {"idle", "metrics", "render", "open", "write", "rename", "save", "dead"},
         NEW panel \in Keys \cup {None}, NEW answer \in Answers \cup {None},
         NEW snapshot \in {"none", "ok", "gap", "failed"}, NEW inode \in Executions \cup {None},
         pc \in {"open", "write", "rename"} => panel # None,
         pc \in {"write", "rename"} => inode \in Executions /\ backend = "local",
         pc # "save" => snapshot = "none",
         snapshot = "ok" => panel # None,
         Moves(e, pc, panel, answer, snapshot, inode),
         UNCHANGED <<configVars, joined, rows>>, StoreIsTyped'
  PROVE  TypeInv'
<1> DEFINE x == [pc |-> pc, panel |-> panel, answer |-> answer, snapshot |-> snapshot, inode |-> inode]
<1>1. x \in Execution /\ RunIsTyped(x)
  BY DEF Execution, RunIsTyped
<1>2. exec' = [exec EXCEPT ![e] = x]
  BY DEF Moves
<1> HIDE DEF x
<1>3. /\ exec' \in [Executions -> Execution]
      /\ exec'[e] = x
      /\ \A d \in Executions : d # e => exec'[d] = exec[d]
  BY <1>1, <1>2 DEF TypeInv
<1>4. \A d \in Executions : RunIsTyped(exec[d])'
  BY <1>1, <1>3 DEF TypeInv, RunIsTyped
<1>5. \A r \in rows : RowIsTyped(r)'
  <2>1. \A r \in rows : r.by \in Executions
    BY DEF TypeInv, MetricRow, SnapshotRow
  <2> QED BY <1>3, <2>1 DEF TypeInv, RowIsTyped
<1> QED BY <1>3, <1>4, <1>5 DEF TypeInv

(* What an execution saves, if anything.                                   *)
LEMMA WhatIsStored ==
  ASSUME TypeInv, NEW e \in Executions, SaveEvidence(e)
  PROVE  \E M \in SUBSET MetricRow, N \in SUBSET SnapshotRow :
           /\ rows' = rows \cup M \cup N
           /\ \A r \in M : r.by = e /\ r.status = MetricStatus(r.answer)
           /\ \A r \in N :
                /\ r.by = e /\ r.status = exec[e].snapshot /\ r.backend = backend
                /\ r.key = IF exec[e].snapshot = "ok" THEN exec[e].panel ELSE None
<1> DEFINE x == exec[e]
           m == [by |-> e, collector |-> "prometheus", status |-> MetricStatus(x.answer), answer |-> x.answer]
           s == [by |-> e, collector |-> "grafana", status |-> x.snapshot,
                 key |-> IF x.snapshot = "ok" THEN x.panel ELSE None, backend |-> backend]
           M == MetricItems(e)
           N == SnapshotItems(e)
<1>1. rows' = rows \cup M \cup N
  BY DEF SaveEvidence
<1>2. /\ x.answer \in Answers \cup {None} /\ x.panel \in Keys \cup {None}
      /\ x.snapshot \in {"none", "ok", "gap", "failed"}
  BY RunRecord DEF Execution
<1>3. \A r \in M : r = m /\ x.answer # None
  BY DEF MetricItems
<1>4. \A r \in N : r = s /\ x.snapshot # "none"
  BY DEF SnapshotItems
<1>5. MetricStatus(x.answer) \in {"ok", "gap", "failed"}
  BY DEF MetricStatus
<1> HIDE DEF x, M, N
<1>6. x.answer # None => m \in MetricRow
  BY <1>2, <1>5 DEF MetricRow
<1>7. x.snapshot # "none" => s \in SnapshotRow
  BY <1>2 DEF SnapshotRow, TypeInv
<1>8. /\ m.by = e /\ m.status = MetricStatus(m.answer)
      /\ s.by = e /\ s.status = x.snapshot /\ s.backend = backend
      /\ s.key = IF x.snapshot = "ok" THEN x.panel ELSE None
  OBVIOUS
<1> HIDE DEF m, s
<1>9. M \in SUBSET MetricRow /\ N \in SUBSET SnapshotRow
  BY <1>3, <1>4, <1>6, <1>7
<1>10. \A r \in M : r.by = e /\ r.status = MetricStatus(r.answer)
  BY <1>3, <1>8
<1>11. \A r \in N : /\ r.by = e /\ r.status = x.snapshot /\ r.backend = backend
                     /\ r.key = IF x.snapshot = "ok" THEN x.panel ELSE None
  BY <1>4, <1>8
<1> QED BY <1>1, <1>9, <1>10, <1>11 DEF x

(* Saving keeps the types.                                                 *)
LEMMA SaveKeepsTypes ==
  ASSUME TypeInv, NEW e \in Executions, SaveEvidence(e)
  PROVE  TypeInv'
<1> DEFINE x == exec[e]
<1>1. PICK M \in SUBSET MetricRow, N \in SUBSET SnapshotRow :
        /\ rows' = rows \cup M \cup N
        /\ \A r \in M : r.by = e /\ r.status = MetricStatus(r.answer)
        /\ \A r \in N :
             /\ r.by = e /\ r.status = exec[e].snapshot /\ r.backend = backend
             /\ r.key = IF exec[e].snapshot = "ok" THEN exec[e].panel ELSE None
  BY WhatIsStored
<1>2. x.pc = "save" /\ UNCHANGED <<configVars, joined, storeVars>>
  BY DEF SaveEvidence, AtStep
<1>3. Moves(e, "done", None, None, "none", None)
  BY HowRunsMove
<1>4. RunIsTyped(x)
  BY RunRecord
<1>5. /\ exec'[e].pc = "done" /\ exec'[e].snapshot = "none"
      /\ \A d \in Executions : d # e => exec'[d] = exec[d]
  BY <1>3, MoveIsLocal
<1>6. exec' \in [Executions -> Execution]
  <2>1. [pc |-> "done", panel |-> None, answer |-> None, snapshot |-> "none", inode |-> None] \in Execution
    BY DEF Execution
  <2> QED BY <1>3, <2>1 DEF Moves, TypeInv
<1>7. \A d \in Executions : RunIsTyped(exec[d])'
  BY <1>2, <1>5 DEF TypeInv, RunIsTyped
<1>8. ASSUME NEW r \in rows' PROVE RowIsTyped(r)'
  <2>1. CASE r \in rows
    <3>1. r.by \in Executions /\ RowIsTyped(r)
      BY <2>1 DEF TypeInv, MetricRow, SnapshotRow
    <3>2. exec'[r.by].pc = "done"
      BY <1>5, <3>1 DEF RowIsTyped
    <3> QED BY <3>1, <3>2 DEF RowIsTyped
  <2>2. CASE r \in M
    <3>1. r.collector = "prometheus"
      BY <2>2 DEF MetricRow
    <3> QED BY <1>1, <1>5, <2>2, <3>1 DEF RowIsTyped
  <2>3. CASE r \in N
    <3>1. r.collector = "grafana"
      BY <2>3 DEF SnapshotRow
    <3> QED BY <1>1, <1>4, <1>5, <2>3, <3>1 DEF RowIsTyped, RunIsTyped
  <2> QED BY <1>1, <1>8, <2>1, <2>2, <2>3
<1>9. rows' \subseteq MetricRow \cup SnapshotRow
  BY <1>1 DEF TypeInv
<1>10. StoreIsTyped'
  BY <1>2 DEF TypeInv, StoreIsTyped, storeVars
<1> QED BY <1>2, <1>6, <1>7, <1>8, <1>9, <1>10 DEF TypeInv

(* The steps of an execution keep the types.                               *)
LEMMA ExecutionKeepsTypes ==
  ASSUME TypeInv, NEW e \in Executions, ExecutionStep(e)
  PROVE  TypeInv'
<1> DEFINE x == exec[e]
<1>1. x \in Execution /\ RunIsTyped(x)
  BY RunRecord
<1>2. /\ x.panel \in Keys \cup {None} /\ x.answer \in Answers \cup {None}
      /\ x.snapshot \in {"none", "ok", "gap", "failed"} /\ x.inode \in Executions \cup {None}
  BY <1>1 DEF Execution
<1>3. ASSUME UNCHANGED storeVars PROVE StoreIsTyped'
  BY <1>3 DEF TypeInv, StoreIsTyped, storeVars
<1>4. CASE Start(e)
  <2>0. PICK m \in Nat : \E order \in [1..m -> joined] :
          Moves(e, "metrics", ResolvePanel(Merged(order)), None, "none", None)
    BY <1>4, HowRunsMove
  <2>1. PICK order \in [1..m -> joined] :
          Moves(e, "metrics", ResolvePanel(Merged(order)), None, "none", None)
    BY <2>0
  <2> DEFINE p == ResolvePanel(Merged(order))
  <2>2. p \in Keys \cup {None}
    BY PanelIsKey DEF TypeInv
  <2>3. x.pc = "idle" /\ UNCHANGED <<configVars, joined, rows, storeVars>>
    BY <1>4 DEF Start, AtStep
  <2>4. Moves(e, "metrics", p, None, "none", None)
    BY <2>1
  <2> HIDE DEF p
  <2> QED BY <1>3, <2>2, <2>3, <2>4, MoveKeepsTypes
<1>5. CASE RunRange(e)
  <2>1. PICK answer \in Answers \cup {None} : Moves(e, "render", x.panel, answer, x.snapshot, x.inode)
    BY <1>5, HowRunsMove
  <2>2. x.pc = "metrics" /\ UNCHANGED <<configVars, joined, rows, storeVars>>
    BY <1>5 DEF RunRange, AtStep
  <2> QED BY <1>1, <1>2, <1>3, <2>1, <2>2, MoveKeepsTypes DEF RunIsTyped
<1>6. CASE NoGrafana(e) \/ NoPanel(e)
  <2>1. \/ Moves(e, "save", x.panel, x.answer, x.snapshot, x.inode)
        \/ Moves(e, "save", x.panel, x.answer, "gap", x.inode)
    BY <1>6, HowRunsMove
  <2>2. x.pc = "render" /\ UNCHANGED <<configVars, joined, rows, storeVars>>
    BY <1>6 DEF NoGrafana, NoPanel, AtStep
  <2>3. x.snapshot = "none"
    BY <1>1, <2>2 DEF RunIsTyped
  <2> QED BY <1>2, <1>3, <2>1, <2>2, <2>3, MoveKeepsTypes
<1>7. CASE FetchPNG(e)
  <2>1. \/ Moves(e, "save", x.panel, x.answer, "failed", x.inode)
        \/ Moves(e, "open", x.panel, x.answer, x.snapshot, x.inode)
    BY <1>7, HowRunsMove
  <2>2. x.pc = "render" /\ x.panel # None /\ UNCHANGED <<configVars, joined, rows, storeVars>>
    BY <1>7 DEF FetchPNG, AtStep
  <2> QED BY <1>1, <1>2, <1>3, <2>1, <2>2, MoveKeepsTypes DEF RunIsTyped
<1>8. ASSUME BeganPut(e), x.pc = "open"
      PROVE  puts' \in Seq(Backends \X Keys \X Executions) /\ x.panel \in Keys /\ x.panel # None
  <2>1. x.panel \in Keys /\ x.panel # None
    BY <1>1, <1>2, <1>8 DEF RunIsTyped
  <2>2. <<backend, x.panel, e>> \in Backends \X Keys \X Executions
    BY <2>1 DEF TypeInv
  <2> QED BY <1>8, <2>1, <2>2 DEF BeganPut, TypeInv, StoreIsTyped
<1>9. CASE PutObject(e)
  <2>1. /\ x.pc = "open" /\ (Stored(e) \/ PutFailed(e)) /\ BeganPut(e)
        /\ object' = [object EXCEPT ![x.panel] = e]
        /\ UNCHANGED <<configVars, joined, rows, name, tmp, bytes>>
    BY <1>9 DEF PutObject, AtStep
  <2>2. \/ Moves(e, "save", x.panel, x.answer, "ok", x.inode)
        \/ Moves(e, "save", x.panel, x.answer, "failed", x.inode)
    BY <2>1, HowRunsMove
  <2>3. StoreIsTyped'
    BY <1>8, <2>1 DEF TypeInv, StoreIsTyped
  <2>4. x.panel # None
    BY <1>8, <2>1
  <2>5. CASE Moves(e, "save", x.panel, x.answer, "ok", x.inode)
    BY <1>2, <2>1, <2>3, <2>4, <2>5, MoveKeepsTypes
  <2>6. CASE Moves(e, "save", x.panel, x.answer, "failed", x.inode)
    BY <1>2, <2>1, <2>3, <2>6, MoveKeepsTypes
  <2> QED BY <2>2, <2>5, <2>6
<1>10. CASE OpenTmp(e)
  <2> DEFINE inode == IF tmp[x.panel] = None THEN e ELSE tmp[x.panel]
  <2>1. /\ x.pc = "open" /\ backend = "local" /\ BeganPut(e)
        /\ tmp' = [tmp EXCEPT ![x.panel] = inode]
        /\ bytes' = [bytes EXCEPT ![inode] = {}]
        /\ exec' = [exec EXCEPT ![e] = [@ EXCEPT !.pc = "write", !.inode = inode]]
        /\ UNCHANGED <<configVars, joined, rows, name, object>>
    BY <1>10 DEF OpenTmp, AtStep
  <2>2. Moves(e, "write", x.panel, x.answer, x.snapshot, inode)
    BY <2>1, HowRunsMove
  <2>3. inode \in Executions
    BY <1>8, <2>1 DEF TypeInv, StoreIsTyped
  <2> HIDE DEF inode
  <2>4. StoreIsTyped'
    BY <1>8, <2>1, <2>3 DEF TypeInv, StoreIsTyped
  <2>5. x.snapshot = "none" /\ x.panel # None
    BY <1>1, <1>8, <2>1 DEF RunIsTyped
  <2>6. UNCHANGED <<configVars, joined, rows>> /\ x.pc # "done" /\ backend = "local"
    BY <2>1
  <2>7. inode \in Executions \cup {None} /\ x.panel \in Keys \cup {None}
        /\ x.answer \in Answers \cup {None}
    BY <1>2, <2>3
  <2> HIDE DEF x
  <2> QED BY <2>2, <2>3, <2>4, <2>5, <2>6, <2>7, MoveKeepsTypes DEF x
<1>11. CASE WriteTmp(e)
  <2>1. /\ x.pc = "write" /\ UNCHANGED <<configVars, joined, rows, name, tmp, object, puts>>
        /\ \E more \in {{}, bytes[x.inode]} : bytes' = [bytes EXCEPT ![x.inode] = more \cup {e}]
    BY <1>11 DEF WriteTmp, AtStep
  <2>2. Moves(e, "rename", x.panel, x.answer, x.snapshot, x.inode)
    BY <1>11, HowRunsMove
  <2>3. x.inode \in Executions
    BY <1>1, <2>1 DEF RunIsTyped
  <2>4. StoreIsTyped'
    BY <2>1, <2>3 DEF TypeInv, StoreIsTyped
  <2>5. x.snapshot = "none" /\ x.panel # None /\ backend = "local"
    BY <1>1, <2>1 DEF RunIsTyped
  <2>6. UNCHANGED <<configVars, joined, rows>> /\ x.pc # "done"
    BY <2>1
  <2>7. x.inode \in Executions \cup {None} /\ x.panel \in Keys \cup {None}
        /\ x.answer \in Answers \cup {None}
    BY <1>2, <2>3
  <2> HIDE DEF x
  <2> QED BY <2>2, <2>3, <2>4, <2>5, <2>6, <2>7, MoveKeepsTypes DEF x
<1>12. CASE RenameTmp(e)
  <2>1. /\ x.pc = "rename" /\ UNCHANGED <<configVars, joined, rows, bytes, object, puts>>
        /\ \/ PutFailed(e) /\ UNCHANGED <<name, tmp>>
           \/ /\ name' = [name EXCEPT ![x.panel] = tmp[x.panel]]
              /\ tmp' = [tmp EXCEPT ![x.panel] = None]
              /\ Stored(e)
    BY <1>12 DEF RenameTmp, AtStep
  <2>2. \/ Moves(e, "save", x.panel, x.answer, "failed", x.inode)
        \/ Moves(e, "save", x.panel, x.answer, "ok", x.inode)
    BY <2>1, HowRunsMove
  <2>3. x.panel \in Keys /\ x.panel # None
    BY <1>1, <1>2, <2>1 DEF RunIsTyped
  <2>4. StoreIsTyped'
    BY <2>1, <2>3 DEF TypeInv, StoreIsTyped
  <2>5. UNCHANGED <<configVars, joined, rows>> /\ x.pc # "done"
    BY <2>1
  <2> HIDE DEF x
  <2>6. CASE Moves(e, "save", x.panel, x.answer, "failed", x.inode)
    BY <1>2, <2>4, <2>5, <2>6, MoveKeepsTypes DEF x
  <2>7. CASE Moves(e, "save", x.panel, x.answer, "ok", x.inode)
    BY <1>2, <2>3, <2>4, <2>5, <2>7, MoveKeepsTypes DEF x
  <2> QED BY <2>2, <2>6, <2>7
<1>13. CASE PutErrs(e)
  <2>1. x.pc \in {"open", "write", "rename"} /\ PutFailed(e) /\ UNCHANGED <<configVars, joined, rows, storeVars>>
    BY <1>13 DEF PutErrs
  <2>2. Moves(e, "save", x.panel, x.answer, "failed", x.inode)
    BY <2>1, HowRunsMove
  <2>3. UNCHANGED <<configVars, joined, rows>> /\ x.pc # "done" /\ StoreIsTyped'
    BY <1>3, <2>1
  <2> HIDE DEF x
  <2> QED BY <1>2, <2>2, <2>3, MoveKeepsTypes DEF x
<1>14. CASE Die(e)
  <2>1. x.pc # "done" /\ UNCHANGED <<configVars, joined, rows, storeVars>>
    BY <1>14 DEF Die
  <2>2. Moves(e, "dead", None, None, "none", None)
    BY <1>14, HowRunsMove
  <2> QED BY <1>3, <2>1, <2>2, MoveKeepsTypes
<1>15. CASE SaveEvidence(e)
  BY <1>15, SaveKeepsTypes
<1> QED
  BY <1>4, <1>5, <1>6, <1>7, <1>9, <1>10, <1>11, <1>12, <1>13, <1>14, <1>15 DEF ExecutionStep

(* So does every step.                                                     *)
LEMMA TypeStep ==
  ASSUME TypeInv, [CaptureNext]_captureVars
  PROVE  TypeInv'
<1>1. ASSUME UNCHANGED <<exec, rows, storeVars>>,
             backend' \in Backends /\ roles' \subseteq Collectors,
             joined' \in (SUBSET Alerts) \ {{}} /\ IsFiniteSet(joined'),
             \A e \in Executions : RunIsTyped(exec[e])'
      PROVE  TypeInv'
  BY <1>1 DEF TypeInv, StoreIsTyped, RowIsTyped, storeVars
<1>2. CASE JoinAlert
  <2>1. PICK a \in Alerts \ joined : joined' = joined \cup {a}
    BY <1>2 DEF JoinAlert
  <2>2. IsFiniteSet(joined')
    BY <2>1, FS_AddElement DEF TypeInv
  <2>3. joined' \in (SUBSET Alerts) \ {{}}
    BY <2>1 DEF TypeInv
  <2>4. UNCHANGED <<configVars, exec, rows, storeVars>>
    BY <1>2 DEF JoinAlert
  <2>5. \A e \in Executions : RunIsTyped(exec[e])'
    BY <2>4 DEF TypeInv, RunIsTyped
  <2>6. backend' \in Backends /\ roles' \subseteq Collectors
    BY <2>4 DEF TypeInv
  <2> QED BY <1>1, <2>2, <2>3, <2>4, <2>5, <2>6
<1>3. CASE Reconfigure
  <2>1. /\ UNCHANGED <<joined, exec, rows, storeVars>>
        /\ backend' \in Backends /\ roles' \subseteq Collectors
        /\ \A e \in Executions : exec[e].pc \in {"idle", "done", "dead"}
    BY <1>3 DEF Reconfigure
  <2>2. \A e \in Executions : RunIsTyped(exec[e])'
    BY <2>1 DEF TypeInv, RunIsTyped
  <2>3. joined' \in (SUBSET Alerts) \ {{}} /\ IsFiniteSet(joined')
    BY <2>1 DEF TypeInv
  <2> QED BY <1>1, <2>1, <2>2, <2>3
<1>4. CASE \E e \in Executions : ExecutionStep(e)
  BY <1>4, ExecutionKeepsTypes
<1>5. CASE UNCHANGED captureVars
  <2>1. UNCHANGED <<configVars, joined, exec, rows, storeVars>>
    BY <1>5 DEF captureVars
  <2>2. \A e \in Executions : RunIsTyped(exec[e])'
    BY <2>1 DEF TypeInv, RunIsTyped
  <2>3. /\ joined' \in (SUBSET Alerts) \ {{}} /\ IsFiniteSet(joined')
        /\ backend' \in Backends /\ roles' \subseteq Collectors
    BY <2>1 DEF TypeInv
  <2> QED BY <1>1, <2>1, <2>2, <2>3
<1> QED BY <1>2, <1>3, <1>4, <1>5 DEF CaptureNext

(* Nothing has run at first.                                               *)
LEMMA TypesInitially == CaptureInit => TypeInv
<1> SUFFICES ASSUME CaptureInit PROVE TypeInv
  OBVIOUS
<1> USE DEF CaptureInit
<1>1. NotRun \in Execution /\ NotRun.pc = "idle" /\ NotRun.snapshot = "none"
  BY DEF NotRun, Execution
<1>2. exec \in [Executions -> Execution] /\ \A e \in Executions : RunIsTyped(exec[e])
  BY <1>1 DEF RunIsTyped
<1>3. StoreIsTyped
  BY DEF StoreIsTyped
<1>4. joined \in (SUBSET Alerts) \ {{}} /\ IsFiniteSet(joined)
  <2>1. PICK a \in Alerts : joined = {a}
    OBVIOUS
  <2> QED BY <2>1, FS_Singleton
<1> QED BY <1>2, <1>3, <1>4 DEF TypeInv

-----------------------------------------------------------------------------
(* Snapshots.                                                              *)

(* Only SaveEvidence writes rows and finishes an execution.                *)
LEMMA OthersSaveNothing ==
  ASSUME TypeInv, NEW e \in Executions, ExecutionStep(e), ~SaveEvidence(e)
  PROVE  /\ UNCHANGED <<backend, rows>>
         /\ exec'[e].pc # "done"
         /\ \A d \in Executions : d # e => exec'[d] = exec[d]
<1> DEFINE Quietly == /\ exec'[e].pc # "done"
                      /\ \A d \in Executions : d # e => exec'[d] = exec[d]
<1>1. UNCHANGED <<backend, rows>>
  BY DEF ExecutionStep, Start, RunRange, NoGrafana, NoPanel, FetchPNG, PutObject, OpenTmp, WriteTmp,
         RenameTmp, PutErrs, Die
<1>2. ASSUME NEW pc, pc # "done", NEW panel, NEW answer, NEW snapshot, NEW inode,
             Moves(e, pc, panel, answer, snapshot, inode)
      PROVE  Quietly
  BY <1>2, MoveIsLocal
<1>3. CASE Start(e) \/ RunRange(e)
  BY <1>1, <1>2, <1>3, HowRunsMove
<1>4. CASE NoGrafana(e) \/ NoPanel(e) \/ FetchPNG(e) \/ WriteTmp(e) \/ Die(e)
  BY <1>1, <1>2, <1>4, HowRunsMove
<1>5. CASE PutObject(e) \/ RenameTmp(e) \/ PutErrs(e)
  <2>1. Stored(e) \/ PutFailed(e)
    BY <1>5 DEF PutObject, RenameTmp, PutErrs
  <2> QED BY <1>1, <1>2, <2>1, HowRunsMove
<1>6. CASE OpenTmp(e)
  <2>1. \E inode : exec' = [exec EXCEPT ![e] = [@ EXCEPT !.pc = "write", !.inode = inode]]
    BY <1>6 DEF OpenTmp
  <2> QED BY <1>1, <1>2, <2>1, HowRunsMove
<1> QED BY <1>1, <1>3, <1>4, <1>5, <1>6 DEF ExecutionStep

StoreInv == InodesApart /\ Undisturbed /\ ClaimsHold

(* A step of e that touches neither store: it has no file open afterwards, *)
(* and claims nothing that was not claimed.                                *)
Quiet(e) ==
  /\ UNCHANGED storeVars
  /\ \A d \in Executions : d # e => exec'[d] = exec[d]
  /\ exec'[e].pc \notin {"write", "rename"}
  /\ Unopened(e)' => Unopened(e)
  /\ \A b \in Backends, k \in Keys, d \in Executions : Claim(b, k, d)' => Claim(b, k, d)

(* It keeps the invariants of the stores.                                  *)
LEMMA QuietKeepsStore ==
  ASSUME TypeInv, StoreInv, NEW e \in Executions, Quiet(e)
  PROVE  StoreInv'
<1> USE DEF StoreInv
<1>1. /\ UNCHANGED <<name, tmp, bytes, object, puts, overlaps>>
      /\ \A d \in Executions : d # e => exec'[d] = exec[d]
  BY DEF Quiet, storeVars
<1>2. ASSUME NEW d \in Executions, Writing(d)' PROVE Writing(d) /\ exec'[d] = exec[d]
  BY <1>1, <1>2 DEF Quiet, Writing
<1>3. \A d \in Executions : Unopened(d)' => Unopened(d)
  BY <1>1 DEF Quiet, Unopened
<1>4. InodesApart'
  <2>1. PICK owner \in [Executions -> Keys \cup {None}] : Owned(owner)
    BY DEF InodesApart
  <2>2. Owned(owner)'
    BY <1>1, <1>2, <1>3, <2>1 DEF Owned
  <2> QED BY <2>2 DEF InodesApart
<1>5. Undisturbed'
  BY <1>1, <1>2 DEF Undisturbed, WritesAlone, LastPut, AtStep
<1>6. ClaimsHold'
  <2>1. \A b, k : Content(b, k)' = Content(b, k)
    BY <1>1 DEF Content
  <2> QED BY <1>1, <2>1 DEF Quiet, ClaimsHold, Holds, Began, Superseded
<1> QED BY <1>4, <1>5, <1>6

(* The claims of a step that saves no evidence are those of the others and *)
(* perhaps one of its own.                                                 *)
LEMMA ClaimsOfOthers ==
  ASSUME TypeInv, NEW e \in Executions, ExecutionStep(e), ~SaveEvidence(e),
         NEW b \in Backends, NEW k \in Keys, NEW d \in Executions, Claim(b, k, d)'
  PROVE  \/ Claim(b, k, d) /\ (d = e => exec[e].pc = "done")
         \/ d = e /\ exec'[e].pc = "save" /\ exec'[e].snapshot = "ok"
                  /\ b = backend /\ k = exec'[e].panel
<1>1. /\ UNCHANGED <<backend, rows>>
      /\ \A c \in Executions : c # e => exec'[c] = exec[c]
  BY OthersSaveNothing
<1>2. CASE \E r \in Attached' : r.backend = b /\ r.key = k /\ r.by = d
  <2>1. PICK r \in Attached : r.backend = b /\ r.key = k /\ r.by = d
    BY <1>1, <1>2 DEF Attached
  <2>2. exec[d].pc = "done"
    BY <2>1 DEF Attached, TypeInv, RowIsTyped
  <2> QED BY <2>1, <2>2 DEF Claim
<1>3. CASE AtStep(d, "save")' /\ exec'[d].snapshot = "ok" /\ b = backend' /\ k = exec'[d].panel
  BY <1>1, <1>3 DEF Claim, AtStep
<1> QED BY <1>2, <1>3 DEF Claim

(* A Put that fails, before or at the rename.                              *)
PutFails(e) == PutErrs(e) \/ (RenameTmp(e) /\ tmp[exec[e].panel] = None)

(* Most steps are quiet.                                                   *)
LEMMA QuietSteps ==
  ASSUME TypeInv, StoreInv, NEW e \in Executions,
         \/ Start(e)
         \/ RunRange(e)
         \/ NoGrafana(e)
         \/ NoPanel(e)
         \/ FetchPNG(e)
         \/ PutFails(e)
         \/ Die(e)
  PROVE  Quiet(e)
<1> DEFINE x == exec[e]
<1>1. ASSUME ExecutionStep(e), UNCHANGED storeVars,
             exec'[e].pc \notin {"write", "rename", "done"},
             Unopened(e)' => Unopened(e),
             exec'[e].pc = "save" => exec'[e].snapshot # "ok"
      PROVE  Quiet(e)
  <2>1. ~SaveEvidence(e)
    <3>1. Moves(e, "done", None, None, "none", None) => exec'[e].pc = "done"
      BY MoveIsLocal
    <3> QED BY <1>1, <3>1, HowRunsMove
  <2>2. \A d \in Executions : d # e => exec'[d] = exec[d]
    BY <1>1, <2>1, OthersSaveNothing
  <2>3. \A b \in Backends, k \in Keys, d \in Executions : Claim(b, k, d)' => Claim(b, k, d)
    BY <1>1, <2>1, ClaimsOfOthers
  <2> QED BY <1>1, <2>2, <2>3 DEF Quiet
<1>2. CASE Start(e)
  <2>1. PICK m \in Nat : \E order \in [1..m -> joined] :
          Moves(e, "metrics", ResolvePanel(Merged(order)), None, "none", None)
    BY <1>2, HowRunsMove
  <2>2. PICK p : Moves(e, "metrics", p, None, "none", None)
    BY <2>1
  <2>3. exec'[e].pc = "metrics"
    BY <2>2, MoveIsLocal
  <2>4. x.pc = "idle" /\ UNCHANGED storeVars
    BY <1>2 DEF Start, AtStep
  <2>5. ExecutionStep(e)
    BY <1>2 DEF ExecutionStep
  <2> QED BY <1>1, <2>3, <2>4, <2>5 DEF Unopened
<1>3. CASE RunRange(e)
  <2>1. PICK answer \in Answers \cup {None} : Moves(e, "render", x.panel, answer, x.snapshot, x.inode)
    BY <1>3, HowRunsMove
  <2>2. exec'[e].pc = "render"
    BY <2>1, MoveIsLocal
  <2>3. x.pc = "metrics" /\ UNCHANGED storeVars
    BY <1>3 DEF RunRange, AtStep
  <2>4. ExecutionStep(e)
    BY <1>3 DEF ExecutionStep
  <2> QED BY <1>1, <2>2, <2>3, <2>4 DEF Unopened
<1>4. CASE NoGrafana(e) \/ NoPanel(e)
  <2>1. exec'[e].pc = "save" /\ exec'[e].snapshot # "ok"
    <3>1. x.snapshot = "none"
      <4>1. RunIsTyped(x) /\ x.pc = "render"
        BY <1>4, RunRecord DEF NoGrafana, NoPanel, AtStep
      <4> QED BY <4>1 DEF RunIsTyped
    <3>2. \/ Moves(e, "save", x.panel, x.answer, x.snapshot, x.inode)
          \/ Moves(e, "save", x.panel, x.answer, "gap", x.inode)
      BY <1>4, HowRunsMove
    <3> QED BY <3>1, <3>2, MoveIsLocal
  <2>2. ExecutionStep(e) /\ UNCHANGED storeVars
    BY <1>4 DEF ExecutionStep, NoGrafana, NoPanel
  <2> QED BY <1>1, <2>1, <2>2 DEF Unopened
<1>5. CASE FetchPNG(e)
  <2>1. \/ exec'[e].pc = "save" /\ exec'[e].snapshot = "failed"
        \/ exec'[e].pc = "open"
    <3>1. \/ Moves(e, "save", x.panel, x.answer, "failed", x.inode)
          \/ Moves(e, "open", x.panel, x.answer, x.snapshot, x.inode)
      BY <1>5, HowRunsMove
    <3> QED BY <3>1, MoveIsLocal
  <2>2. ExecutionStep(e) /\ UNCHANGED storeVars /\ x.pc = "render"
    BY <1>5 DEF ExecutionStep, FetchPNG, AtStep
  <2> QED BY <1>1, <2>1, <2>2 DEF Unopened
<1>6. CASE PutFails(e)
  <2>1. exec'[e].pc = "save" /\ exec'[e].snapshot = "failed"
    <3>1. PutFailed(e)
      BY <1>6 DEF PutFails, PutErrs, RenameTmp
    <3>2. Moves(e, "save", x.panel, x.answer, "failed", x.inode)
      BY <3>1, HowRunsMove
    <3> QED BY <3>2, MoveIsLocal
  <2>2. ExecutionStep(e) /\ UNCHANGED storeVars
    BY <1>6 DEF ExecutionStep, PutFails, PutErrs, RenameTmp, storeVars
  <2> QED BY <1>1, <2>1, <2>2 DEF Unopened
<1>7. CASE Die(e)
  <2>1. exec'[e].pc = "dead"
    <3>1. Moves(e, "dead", None, None, "none", None)
      BY <1>7, HowRunsMove
    <3> QED BY <3>1, MoveIsLocal
  <2>2. ExecutionStep(e) /\ UNCHANGED storeVars
    BY <1>7 DEF ExecutionStep, Die
  <2> QED BY <1>1, <2>1, <2>2 DEF Unopened
<1> QED BY <1>2, <1>3, <1>4, <1>5, <1>6, <1>7

(* The claim of an execution becomes that of its row.                      *)
LEMMA SaveIsQuiet ==
  ASSUME TypeInv, StoreInv, NEW e \in Executions, SaveEvidence(e)
  PROVE  Quiet(e)
<1>1. PICK M \in SUBSET MetricRow, N \in SUBSET SnapshotRow :
        /\ rows' = rows \cup M \cup N
        /\ \A r \in N : /\ r.by = e /\ r.backend = backend
                       /\ r.key = IF exec[e].snapshot = "ok" THEN exec[e].panel ELSE None
  BY WhatIsStored
<1>2. exec[e].pc = "save" /\ UNCHANGED <<backend, storeVars>>
  BY DEF SaveEvidence, AtStep
<1>3. /\ exec'[e].pc = "done"
      /\ \A d \in Executions : d # e => exec'[d] = exec[d]
  <2>1. Moves(e, "done", None, None, "none", None)
    BY HowRunsMove
  <2> QED BY <2>1, MoveIsLocal
<1>4. ASSUME NEW b \in Backends, NEW k \in Keys, NEW d \in Executions, Claim(b, k, d)'
      PROVE  Claim(b, k, d)
  <2>1. CASE \E r \in Attached' : r.backend = b /\ r.key = k /\ r.by = d
    <3>1. PICK r \in rows' : r.collector = "grafana" /\ r.key # None /\ r.backend = b /\ r.key = k /\ r.by = d
      BY <2>1 DEF Attached
    <3>2. CASE r \in rows
      BY <3>1, <3>2 DEF Claim, Attached
    <3>3. CASE r \in N
      <4>1. exec[e].snapshot = "ok" /\ k = exec[e].panel /\ d = e /\ b = backend
        BY <1>1, <3>1, <3>3
      <4> QED BY <1>2, <4>1 DEF Claim, AtStep
    <3>4. r \notin M
      BY <3>1 DEF MetricRow
    <3> QED BY <1>1, <3>1, <3>2, <3>3, <3>4
  <2>2. CASE AtStep(d, "save")' /\ exec'[d].snapshot = "ok" /\ b = backend' /\ k = exec'[d].panel
    <3>1. d # e
      BY <1>3, <2>2 DEF AtStep
    <3> QED BY <1>2, <1>3, <2>2, <3>1 DEF Claim, AtStep
  <2> QED BY <1>4, <2>1, <2>2 DEF Claim
<1> QED BY <1>2, <1>3, <1>4 DEF Quiet, Unopened

(* A Put that begins is the last of its key, and supersedes those before.  *)
LEMMA PutsGrow ==
  ASSUME TypeInv, NEW e \in Executions, BeganPut(e),
         NEW b \in Backends, b = backend, NEW k \in Keys, k = exec[e].panel
  PROVE  /\ LastPut(b, k, e)' /\ Began(b, k, e)'
         /\ \A d \in Executions : Began(b, k, d) => Superseded(b, k, d)'
         /\ \A c \in Backends, j \in Keys, d \in Executions :
              /\ Began(c, j, d) => Began(c, j, d)'
              /\ Superseded(c, j, d) => Superseded(c, j, d)'
              /\ c # b \/ j # k => (LastPut(c, j, d) => LastPut(c, j, d)')
<1> DEFINE last == Len(puts) + 1
           p == <<b, k, e>>
<1>1. puts \in Seq(Backends \X Keys \X Executions) /\ p \in Backends \X Keys \X Executions
  BY DEF TypeInv, StoreIsTyped
<1>2. p[1] = b /\ p[2] = k /\ p = <<b, k, e>>
  OBVIOUS
<1>3. puts' = Append(puts, p)
  BY DEF BeganPut
<1> HIDE DEF p
<1>4. /\ last \in Nat /\ last >= 1 /\ DOMAIN puts = 1..(last - 1) /\ DOMAIN puts' = 1..last
      /\ puts'[last] = p
      /\ \A n \in DOMAIN puts : puts'[n] = puts[n] /\ n \in DOMAIN puts' /\ n < last
  BY <1>1, <1>3
<1> HIDE DEF last
<1>5. /\ last \in DOMAIN puts'
      /\ \A n \in DOMAIN puts' : n <= last /\ (n = last \/ n \in DOMAIN puts)
  BY <1>4
<1>6. LastPut(b, k, e)' /\ Began(b, k, e)'
  BY <1>2, <1>4, <1>5 DEF LastPut, Began
<1>7. ASSUME NEW d \in Executions, Began(b, k, d) PROVE Superseded(b, k, d)'
  <2>1. PICK m \in DOMAIN puts : puts[m] = <<b, k, d>>
    BY <1>7 DEF Began
  <2>2. m < last /\ puts'[m] = <<b, k, d>> /\ m \in DOMAIN puts'
    BY <1>4, <2>1
  <2> QED BY <1>2, <1>4, <1>5, <2>2 DEF Superseded
<1>8. ASSUME NEW c \in Backends, NEW j \in Keys, NEW d \in Executions
      PROVE  /\ Began(c, j, d) => Began(c, j, d)'
             /\ Superseded(c, j, d) => Superseded(c, j, d)'
  BY <1>4 DEF Began, Superseded
<1>9. ASSUME NEW c \in Backends, NEW j \in Keys, NEW d \in Executions, c # b \/ j # k, LastPut(c, j, d)
      PROVE  LastPut(c, j, d)'
  <2>1. PICK n \in DOMAIN puts : /\ puts[n] = <<c, j, d>>
                                 /\ \A m \in DOMAIN puts : puts[m][1] = c /\ puts[m][2] = j => m <= n
    BY <1>9 DEF LastPut
  <2>2. \A m \in DOMAIN puts' : puts'[m][1] = c /\ puts'[m][2] = j => m <= n
    BY <1>2, <1>4, <1>5, <1>9, <2>1
  <2> QED BY <1>4, <2>1, <2>2 DEF LastPut
<1> QED BY <1>6, <1>7, <1>8, <1>9

(* An execution that puts has a panel, and an inode once it has opened.    *)
LEMMA PutterIsTyped ==
  ASSUME TypeInv, NEW e \in Executions, exec[e].pc \in {"open", "write", "rename"}
  PROVE  /\ exec[e].panel \in Keys
         /\ Writing(e) => exec[e].inode \in Executions /\ backend = "local"
         /\ None \notin Executions
<1>1. RunIsTyped(exec[e]) /\ exec[e].panel \in Keys \cup {None}
  BY RunRecord DEF Execution
<1>2. None \notin Executions
  BY CaptureAssumption DEF Executions
<1> QED BY <1>1, <1>2 DEF RunIsTyped, Writing

(* s3: the object is replaced, and the Puts before this one are superseded. *)
LEMMA PutObjectStep ==
  ASSUME TypeInv, StoreInv, NEW e \in Executions, PutObject(e)
  PROVE  StoreInv'
<1>0. PICK k \in Keys : k = exec[e].panel
  BY PutterIsTyped DEF PutObject, AtStep
<1>1. /\ exec[e].pc = "open" /\ backend = "s3" /\ BeganPut(e) /\ (Stored(e) \/ PutFailed(e))
      /\ object' = [object EXCEPT ![k] = e]
      /\ UNCHANGED <<configVars, joined, rows, name, tmp, bytes, overlaps>>
  BY <1>0 DEF PutObject, AtStep
<1>2. None \notin Executions /\ "s3" \in Backends
  BY <1>1, PutterIsTyped DEF Backends
<1>3. /\ exec'[e].pc = "save" /\ exec'[e].panel = k
      /\ \A d \in Executions : d # e => exec'[d] = exec[d]
  <2>1. \/ Moves(e, "save", k, exec[e].answer, "ok", exec[e].inode)
        \/ Moves(e, "save", k, exec[e].answer, "failed", exec[e].inode)
    BY <1>0, <1>1, HowRunsMove
  <2> QED BY <2>1, MoveIsLocal
<1>4. ExecutionStep(e) /\ ~SaveEvidence(e)
  BY <1>1 DEF ExecutionStep, SaveEvidence, AtStep
<1>5. object \in [Keys -> Executions \cup {None}]
  BY DEF TypeInv, StoreIsTyped
<1>6. /\ LastPut("s3", k, e)' /\ Began("s3", k, e)'
      /\ \A d \in Executions : Began("s3", k, d) => Superseded("s3", k, d)'
      /\ \A c \in Backends, j \in Keys, d \in Executions :
           /\ Began(c, j, d) => Began(c, j, d)'
           /\ Superseded(c, j, d) => Superseded(c, j, d)'
           /\ c # "s3" \/ j # k => (LastPut(c, j, d) => LastPut(c, j, d)')
  BY <1>0, <1>1, <1>2, PutsGrow
<1>7. \A d \in Executions : /\ Writing(d)' => Writing(d) /\ d # e
                            /\ Unopened(d)' => Unopened(d) /\ d # e
  BY <1>3 DEF Writing, Unopened
<1>8. InodesApart'
  <2>1. PICK owner \in [Executions -> Keys \cup {None}] : Owned(owner)
    BY DEF StoreInv, InodesApart
  <2>2. Owned(owner)'
    BY <1>1, <1>3, <1>7, <2>1 DEF Owned
  <2> QED BY <2>2 DEF InodesApart
<1>9. Undisturbed'
  <2>1. ASSUME NEW j \in Keys \ overlaps', NEW d \in Executions, Writing(d)', exec'[d].panel = j
        PROVE  WritesAlone(d, j)'
    <3>1. Writing(d) /\ exec'[d] = exec[d] /\ WritesAlone(d, j)
      BY <1>1, <1>3, <1>7, <2>1 DEF StoreInv, Undisturbed
    <3>2. LastPut("local", j, d)'
      BY <1>6, <3>1 DEF WritesAlone, Backends
    <3> QED BY <1>1, <1>3, <1>7, <3>1, <3>2 DEF WritesAlone, AtStep
  <2> QED BY <1>1, <2>1 DEF StoreInv, Undisturbed
<1>10. ASSUME NEW b \in Backends, NEW j \in Keys, NEW d \in Executions, Claim(b, j, d)'
       PROVE  /\ Holds(b, j)'
              /\ j \notin overlaps' =>
                   Began(b, j, d)' /\ (Content(b, j)' = {d} \/ Superseded(b, j, d)')
  <2>1. CASE Claim(b, j, d)
    <3>1. /\ Holds(b, j)
          /\ j \notin overlaps => Began(b, j, d) /\ (Content(b, j) = {d} \/ Superseded(b, j, d))
      BY <2>1 DEF StoreInv, ClaimsHold
    <3>2. Holds(b, j)'
      BY <1>1, <1>2, <1>5, <3>1 DEF Holds
    <3>3. b # "s3" \/ j # k => Content(b, j)' = Content(b, j)
      BY <1>1, <1>5 DEF Content
    <3> QED BY <1>1, <1>6, <3>1, <3>2, <3>3
  <2>2. CASE d = e /\ b = "s3" /\ j = k
    <3>1. object'[k] = e
      BY <1>1, <1>2, <1>5
    <3>2. Holds(b, j)' /\ Content(b, j)' = {d}
      BY <1>2, <2>2, <3>1 DEF Holds, Content
    <3> QED BY <1>6, <2>2, <3>2
  <2> QED BY <1>1, <1>3, <1>4, <1>10, <2>1, <2>2, ClaimsOfOthers
<1>11. ClaimsHold'
  BY <1>10 DEF ClaimsHold
<1> QED BY <1>8, <1>9, <1>11 DEF StoreInv

(* local: whatever was left under the temporary name is truncated.  It was *)
(* of this key, and so it is not in the file of any other.                 *)
LEMMA OpenTmpStep ==
  ASSUME TypeInv, StoreInv, NEW e \in Executions, OpenTmp(e)
  PROVE  StoreInv'
<1>1. PICK k \in Keys : k = exec[e].panel
  BY PutterIsTyped DEF OpenTmp, AtStep
<1>2. PICK inode \in Executions : inode = IF tmp[k] = None THEN e ELSE tmp[k]
  BY DEF TypeInv, StoreIsTyped
<1>3. /\ exec[e].pc = "open" /\ backend = "local" /\ BeganPut(e)
      /\ tmp' = [tmp EXCEPT ![k] = inode]
      /\ bytes' = [bytes EXCEPT ![inode] = {}]
      /\ exec' = [exec EXCEPT ![e] = [@ EXCEPT !.pc = "write", !.inode = inode]]
      /\ overlaps' = overlaps \cup
           {j \in {k} : \E d \in Executions \ {e} : Writing(d) /\ exec[d].panel = k}
      /\ UNCHANGED <<configVars, joined, rows, name, object>>
  BY <1>1, <1>2 DEF OpenTmp, AtStep
<1>4. None \notin Executions /\ "local" \in Backends
  BY <1>3, PutterIsTyped DEF Backends
<1>5. /\ exec'[e].pc = "write" /\ exec'[e].panel = k /\ exec'[e].inode = inode
      /\ \A d \in Executions : d # e => exec'[d] = exec[d]
  <2>1. Moves(e, "write", k, exec[e].answer, exec[e].snapshot, inode)
    BY <1>1, <1>3, HowRunsMove
  <2> QED BY <2>1, MoveIsLocal
<1>6. /\ LastPut("local", k, e)' /\ Began("local", k, e)'
      /\ \A d \in Executions : Began("local", k, d) => Superseded("local", k, d)'
      /\ \A c \in Backends, j \in Keys, d \in Executions :
           /\ Began(c, j, d) => Began(c, j, d)'
           /\ Superseded(c, j, d) => Superseded(c, j, d)'
           /\ c # "local" \/ j # k => (LastPut(c, j, d) => LastPut(c, j, d)')
  BY <1>1, <1>3, <1>4, PutsGrow
<1>7. /\ tmp \in [Keys -> Executions \cup {None}] /\ bytes \in [Executions -> SUBSET Executions]
      /\ name \in [Keys -> Executions \cup {None}]
  BY DEF TypeInv, StoreIsTyped
<1>8. /\ tmp'[k] = inode /\ bytes'[inode] = {}
      /\ \A j \in Keys : j # k => tmp'[j] = tmp[j]
      /\ \A i \in Executions : i # inode => bytes'[i] = bytes[i]
  BY <1>3, <1>7
<1>9. /\ Unopened(e)
      /\ \A d \in Executions : /\ Writing(d)' => d = e \/ Writing(d)
                               /\ Unopened(d)' => Unopened(d) /\ d # e
  BY <1>3, <1>5 DEF Writing, Unopened
<1>10. PICK owner \in [Executions -> Keys \cup {None}] : Owned(owner)
  BY DEF StoreInv, InodesApart
<1>11. inode = e \/ owner[inode] = k
  BY <1>2, <1>10 DEF Owned
<1>12. /\ \A j \in Keys : name[j] = inode => j = k
       /\ name[k] # inode
       /\ \A j \in Keys : tmp[j] = inode => j = k
       /\ \A d \in Executions : Writing(d) /\ exec[d].inode = inode => exec[d].panel = k
  BY <1>2, <1>4, <1>9, <1>10, <1>11 DEF Owned
<1>13. PICK owner2 \in [Executions -> Keys \cup {None}] : owner2 = [owner EXCEPT ![inode] = k]
  OBVIOUS
<1>14. owner2[inode] = k /\ \A i \in Executions : i # inode => owner2[i] = owner[i]
  BY <1>13
<1>15. InodesApart'
  <2>1. \A j \in Keys : name'[j] # None => owner2[name'[j]] = j
    BY <1>3, <1>7, <1>10, <1>12, <1>14 DEF Owned
  <2>2. \A j \in Keys : tmp'[j] # None => owner2[tmp'[j]] = j /\ tmp'[j] # name'[j]
    BY <1>3, <1>7, <1>8, <1>10, <1>12, <1>14 DEF Owned
  <2>3. \A d \in Executions : Writing(d)' => owner2[exec'[d].inode] = exec'[d].panel
    <3>1. ASSUME NEW d \in Executions, Writing(d)', d # e
          PROVE  owner2[exec'[d].inode] = exec'[d].panel
      <4>1. Writing(d) /\ exec'[d] = exec[d] /\ exec[d].inode \in Executions
        BY <1>5, <1>9, <3>1, PutterIsTyped DEF Writing
      <4>2. owner[exec[d].inode] = exec[d].panel
        BY <1>10, <4>1 DEF Owned
      <4> QED BY <1>12, <1>14, <4>1, <4>2
    <3> QED BY <1>5, <1>14, <3>1
  <2>4. ASSUME NEW d \in Executions, Unopened(d)'
        PROVE  /\ \A j \in Keys : name'[j] # d /\ tmp'[j] # d
               /\ \A c \in Executions : Writing(c)' => exec'[c].inode # d
    <3>1. /\ d # e
          /\ \A j \in Keys : name[j] # d /\ tmp[j] # d
          /\ \A c \in Executions : Writing(c) => exec[c].inode # d
      BY <1>9, <1>10, <2>4 DEF Owned
    <3>2. inode # d
      BY <1>2, <3>1
    <3> QED BY <1>3, <1>5, <1>8, <1>9, <3>1, <3>2
  <2>5. Owned(owner2)'
    BY <2>1, <2>2, <2>3, <2>4 DEF Owned
  <2> QED BY <2>5 DEF InodesApart
<1>16. \A j \in Keys : name[j] # None => bytes'[name'[j]] = bytes[name[j]]
  BY <1>3, <1>7, <1>8, <1>12
<1>17. Undisturbed'
  <2>1. ASSUME NEW j \in Keys \ overlaps', NEW d \in Executions, Writing(d)', exec'[d].panel = j, j # k
        PROVE  WritesAlone(d, j)'
    <3>1. Writing(d) /\ d # e /\ exec'[d] = exec[d] /\ exec[d].inode \in Executions
      BY <1>5, <1>9, <2>1, PutterIsTyped DEF Writing
    <3>2. WritesAlone(d, j)
      BY <1>3, <2>1, <3>1 DEF StoreInv, Undisturbed
    <3>3. exec[d].inode # inode
      BY <1>12, <2>1, <3>1
    <3>4. LastPut("local", j, d)'
      BY <1>4, <1>6, <2>1, <3>2 DEF WritesAlone
    <3>5. \A c \in Executions : Writing(c)' /\ exec'[c].panel = j => c = d
      BY <1>5, <1>9, <2>1, <3>2 DEF WritesAlone
    <3>6. tmp'[j] = exec'[d].inode
      BY <1>8, <2>1, <3>1, <3>2 DEF WritesAlone
    <3>7. bytes'[exec'[d].inode] = IF AtStep(d, "write")' THEN {} ELSE {d}
      BY <1>8, <3>1, <3>2, <3>3 DEF WritesAlone, AtStep
    <3> QED BY <3>4, <3>5, <3>6, <3>7 DEF WritesAlone
  <2>2. ASSUME k \notin overlaps', NEW d \in Executions, Writing(d)', exec'[d].panel = k
        PROVE  WritesAlone(d, k)'
    <3>1. \A c \in Executions : Writing(c) /\ exec[c].panel = k => c = e
      BY <1>3, <2>2
    <3>2. \A c \in Executions : Writing(c)' /\ exec'[c].panel = k => c = e
      BY <1>5, <1>9, <3>1
    <3>3. d = e
      BY <2>2, <3>2
    <3> QED BY <1>5, <1>6, <1>8, <3>2, <3>3 DEF WritesAlone, AtStep
  <2>3. ASSUME NEW j \in Keys \ overlaps', name'[j] # None
        PROVE  \E n \in Executions : bytes'[name'[j]] = {n}
    <3>1. j \in Keys \ overlaps /\ name[j] # None
      BY <1>3, <2>3
    <3>2. \E n \in Executions : bytes[name[j]] = {n}
      BY <3>1 DEF StoreInv, Undisturbed
    <3> QED BY <1>16, <3>1, <3>2
  <2> QED BY <2>1, <2>2, <2>3 DEF Undisturbed
<1>18. ASSUME NEW b \in Backends, NEW j \in Keys, NEW d \in Executions, Claim(b, j, d)'
       PROVE  /\ Holds(b, j)'
              /\ j \notin overlaps' =>
                   Began(b, j, d)' /\ (Content(b, j)' = {d} \/ Superseded(b, j, d)')
  <2>1. ExecutionStep(e) /\ ~SaveEvidence(e)
    BY <1>3 DEF ExecutionStep, SaveEvidence, AtStep
  <2>2. Claim(b, j, d)
    BY <1>5, <1>18, <2>1, ClaimsOfOthers
  <2>3. /\ Holds(b, j)
        /\ j \notin overlaps => Began(b, j, d) /\ (Content(b, j) = {d} \/ Superseded(b, j, d))
    BY <2>2 DEF StoreInv, ClaimsHold
  <2>4. Holds(b, j)' /\ Content(b, j)' = Content(b, j)
    BY <1>3, <1>16, <2>3 DEF Holds, Content
  <2> QED BY <1>3, <1>6, <2>3, <2>4
<1>19. ClaimsHold'
  BY <1>18 DEF ClaimsHold
<1> QED BY <1>15, <1>17, <1>19 DEF StoreInv

(* ... and written: only the one file, which is not served yet.            *)
LEMMA WriteTmpStep ==
  ASSUME TypeInv, StoreInv, NEW e \in Executions, WriteTmp(e)
  PROVE  StoreInv'
<1>1. /\ exec[e].pc = "write" /\ UNCHANGED <<configVars, joined, rows, name, tmp, object, puts, overlaps>>
      /\ \E more \in {{}, bytes[exec[e].inode]} :
           bytes' = [bytes EXCEPT ![exec[e].inode] = more \cup {e}]
  BY DEF WriteTmp, AtStep
<1>2. PICK k \in Keys : k = exec[e].panel
  BY <1>1, PutterIsTyped
<1>3. PICK inode \in Executions : inode = exec[e].inode
  BY <1>1, PutterIsTyped DEF Writing
<1>4. /\ exec'[e].pc = "rename" /\ exec'[e].panel = k /\ exec'[e].inode = inode
      /\ \A d \in Executions : d # e => exec'[d] = exec[d]
  <2>1. Moves(e, "rename", k, exec[e].answer, exec[e].snapshot, inode)
    BY <1>2, <1>3, HowRunsMove
  <2> QED BY <2>1, MoveIsLocal
<1>5. /\ name \in [Keys -> Executions \cup {None}] /\ bytes \in [Executions -> SUBSET Executions]
      /\ None \notin Executions
  BY <1>1, PutterIsTyped DEF TypeInv, StoreIsTyped
<1>6. /\ bytes[inode] = {} => bytes'[inode] = {e}
      /\ \A i \in Executions : i # inode => bytes'[i] = bytes[i]
  BY <1>1, <1>3, <1>5
<1>7. /\ Writing(e)
      /\ \A d \in Executions : /\ Writing(d)' => Writing(d)
                               /\ Unopened(d)' => Unopened(d)
      /\ \A d \in Executions : exec'[d].panel = exec[d].panel /\ exec'[d].inode = exec[d].inode
  BY <1>1, <1>2, <1>3, <1>4 DEF Writing, Unopened
<1>8. PICK owner \in [Executions -> Keys \cup {None}] : Owned(owner)
  BY DEF StoreInv, InodesApart
<1>9. InodesApart'
  <2>1. Owned(owner)'
    BY <1>1, <1>7, <1>8 DEF Owned
  <2> QED BY <2>1 DEF InodesApart
<1>10. owner[inode] = k
  BY <1>2, <1>3, <1>7, <1>8 DEF Owned
<1>11. k \notin overlaps => WritesAlone(e, k)
  BY <1>2, <1>7 DEF StoreInv, Undisturbed
<1>12. \A j \in Keys \ overlaps : name[j] # inode
  <2>1. \A j \in Keys : j # k => name[j] # inode
    BY <1>5, <1>8, <1>10 DEF Owned
  <2>2. k \notin overlaps => name[k] # inode
    BY <1>3, <1>5, <1>8, <1>11 DEF Owned, WritesAlone
  <2> QED BY <2>1, <2>2
<1>13. \A j \in Keys \ overlaps : name[j] # None => bytes'[name[j]] = bytes[name[j]]
  BY <1>5, <1>6, <1>12
<1>14. Undisturbed'
  <2>1. ASSUME NEW j \in Keys \ overlaps', NEW d \in Executions, Writing(d)', exec'[d].panel = j
        PROVE  WritesAlone(d, j)'
    <3>1. WritesAlone(d, j) /\ Writing(d) /\ j = exec[d].panel
      BY <1>1, <1>7, <2>1 DEF StoreInv, Undisturbed
    <3>2. LastPut("local", j, d)'
      BY <1>1, <3>1 DEF WritesAlone, LastPut
    <3>3. /\ \A c \in Executions : Writing(c)' /\ exec'[c].panel = j => c = d
          /\ tmp'[j] = exec'[d].inode
      BY <1>1, <1>7, <3>1 DEF WritesAlone
    <3>4. bytes'[exec'[d].inode] = IF AtStep(d, "write")' THEN {} ELSE {d}
      <4>1. CASE d = e
        BY <1>1, <1>3, <1>4, <1>6, <3>1, <4>1 DEF WritesAlone, AtStep
      <4>2. CASE d # e
        <5>1. exec[d].inode \in Executions
          BY <3>1, PutterIsTyped DEF Writing
        <5>2. owner[exec[d].inode] = j
          BY <1>8, <3>1 DEF Owned
        <5>3. j # k
          BY <1>2, <1>7, <3>1, <4>2 DEF WritesAlone
        <5> QED BY <1>4, <1>6, <1>10, <3>1, <4>2, <5>1, <5>2, <5>3 DEF WritesAlone, AtStep
      <4> QED BY <4>1, <4>2
    <3> QED BY <3>2, <3>3, <3>4 DEF WritesAlone
  <2>2. ASSUME NEW j \in Keys \ overlaps', name'[j] # None
        PROVE  \E n \in Executions : bytes'[name'[j]] = {n}
    <3>1. j \in Keys \ overlaps /\ name[j] # None /\ name'[j] = name[j]
      BY <1>1, <2>2
    <3>2. \E n \in Executions : bytes[name[j]] = {n}
      BY <3>1 DEF StoreInv, Undisturbed
    <3> QED BY <1>13, <3>1, <3>2
  <2> QED BY <2>1, <2>2 DEF Undisturbed
<1>15. ASSUME NEW b \in Backends, NEW j \in Keys, NEW d \in Executions, Claim(b, j, d)'
       PROVE  /\ Holds(b, j)'
              /\ j \notin overlaps' =>
                   Began(b, j, d)' /\ (Content(b, j)' = {d} \/ Superseded(b, j, d)')
  <2>1. ExecutionStep(e) /\ ~SaveEvidence(e)
    BY <1>1 DEF ExecutionStep, SaveEvidence, AtStep
  <2>2. Claim(b, j, d)
    BY <1>4, <1>15, <2>1, ClaimsOfOthers
  <2>3. /\ Holds(b, j)
        /\ j \notin overlaps => Began(b, j, d) /\ (Content(b, j) = {d} \/ Superseded(b, j, d))
    BY <2>2 DEF StoreInv, ClaimsHold
  <2>4. Holds(b, j)' /\ (j \notin overlaps => Content(b, j)' = Content(b, j))
    BY <1>1, <1>13, <2>3 DEF Holds, Content
  <2> QED BY <1>1, <2>3, <2>4 DEF Began, Superseded
<1>16. ClaimsHold'
  BY <1>15 DEF ClaimsHold
<1> QED BY <1>9, <1>14, <1>16 DEF StoreInv

(* ... and renamed: what was served before is superseded by the last Put.  *)
LEMMA RenameTmpStep ==
  ASSUME TypeInv, StoreInv, NEW e \in Executions, RenameTmp(e), tmp[exec[e].panel] # None
  PROVE  StoreInv'
<1>1. PICK k \in Keys : k = exec[e].panel
  BY PutterIsTyped DEF RenameTmp, AtStep
<1>2. /\ exec[e].pc = "rename" /\ Stored(e) /\ UNCHANGED <<configVars, joined, rows, bytes, object, puts, overlaps>>
      /\ name' = [name EXCEPT ![k] = tmp[k]]
      /\ tmp' = [tmp EXCEPT ![k] = None]
  BY <1>1 DEF RenameTmp, AtStep
<1>3. /\ exec'[e].pc = "save" /\ exec'[e].panel = k
      /\ \A d \in Executions : d # e => exec'[d] = exec[d]
  <2>1. Moves(e, "save", k, exec[e].answer, "ok", exec[e].inode)
    BY <1>1, <1>2, HowRunsMove
  <2> QED BY <2>1, MoveIsLocal
<1>4. /\ name \in [Keys -> Executions \cup {None}] /\ tmp \in [Keys -> Executions \cup {None}]
      /\ tmp[k] \in Executions /\ None \notin Executions /\ backend = "local"
  BY <1>1, <1>2, PutterIsTyped DEF TypeInv, StoreIsTyped, Writing
<1>5. /\ name'[k] = tmp[k] /\ tmp'[k] = None
      /\ \A j \in Keys : j # k => name'[j] = name[j] /\ tmp'[j] = tmp[j]
  BY <1>2, <1>4
<1>6. /\ Writing(e)
      /\ \A d \in Executions : /\ Writing(d)' => Writing(d) /\ d # e
                               /\ Unopened(d)' => Unopened(d) /\ d # e
  BY <1>2, <1>3 DEF Writing, Unopened
<1>7. InodesApart'
  <2>1. PICK owner \in [Executions -> Keys \cup {None}] : Owned(owner)
    BY DEF StoreInv, InodesApart
  <2>2. /\ \A j \in Keys : name'[j] # None => owner[name'[j]] = j
        /\ \A j \in Keys : tmp'[j] # None => owner[tmp'[j]] = j /\ tmp'[j] # name'[j]
    BY <1>4, <1>5, <2>1 DEF Owned
  <2>3. \A d \in Executions : Writing(d)' => owner[exec'[d].inode] = exec'[d].panel
    BY <1>3, <1>6, <2>1 DEF Owned
  <2>4. ASSUME NEW d \in Executions, Unopened(d)'
        PROVE  /\ \A j \in Keys : name'[j] # d /\ tmp'[j] # d
               /\ \A c \in Executions : Writing(c)' => exec'[c].inode # d
    <3>1. /\ \A j \in Keys : name[j] # d /\ tmp[j] # d
          /\ \A c \in Executions : Writing(c) => exec[c].inode # d
      BY <1>6, <2>1, <2>4 DEF Owned
    <3> QED BY <1>3, <1>4, <1>5, <1>6, <3>1
  <2>5. Owned(owner)'
    BY <2>2, <2>3, <2>4 DEF Owned
  <2> QED BY <2>5 DEF InodesApart
<1>8. k \notin overlaps => WritesAlone(e, k) /\ bytes[tmp[k]] = {e}
  <2>1. k \notin overlaps => WritesAlone(e, k)
    BY <1>1, <1>6 DEF StoreInv, Undisturbed
  <2> QED BY <1>2, <2>1 DEF WritesAlone, AtStep
<1>9. Undisturbed'
  <2>1. ASSUME NEW j \in Keys \ overlaps', NEW d \in Executions, Writing(d)', exec'[d].panel = j
        PROVE  WritesAlone(d, j)'
    <3>1. Writing(d) /\ d # e /\ exec'[d] = exec[d] /\ WritesAlone(d, j)
      BY <1>2, <1>3, <1>6, <2>1 DEF StoreInv, Undisturbed
    <3>2. j # k
      BY <1>1, <1>6, <3>1 DEF WritesAlone
    <3>3. LastPut("local", j, d)'
      BY <1>2, <3>1 DEF WritesAlone, LastPut
    <3> QED BY <1>2, <1>3, <1>5, <1>6, <3>1, <3>2, <3>3 DEF WritesAlone, AtStep
  <2>2. ASSUME NEW j \in Keys \ overlaps', name'[j] # None
        PROVE  \E n \in Executions : bytes'[name'[j]] = {n}
    <3>1. CASE j = k
      BY <1>2, <1>5, <1>8, <2>2, <3>1
    <3>2. CASE j # k
      <4>1. j \in Keys \ overlaps /\ name[j] # None /\ name'[j] = name[j]
        BY <1>2, <1>5, <2>2, <3>2
      <4>2. \E n \in Executions : bytes[name[j]] = {n}
        BY <4>1 DEF StoreInv, Undisturbed
      <4> QED BY <1>2, <4>1, <4>2
    <3> QED BY <3>1, <3>2
  <2> QED BY <2>1, <2>2 DEF Undisturbed
<1>10. ASSUME k \notin overlaps, NEW d \in Executions, d # e, Began("local", k, d)
       PROVE  Superseded("local", k, d)
  <2>1. PICK m \in DOMAIN puts : puts[m] = <<"local", k, d>>
    BY <1>10 DEF Began
  <2>2. PICK n \in DOMAIN puts :
          /\ puts[n] = <<"local", k, e>>
          /\ \A i \in DOMAIN puts : puts[i][1] = "local" /\ puts[i][2] = k => i <= n
    BY <1>8, <1>10 DEF WritesAlone, LastPut
  <2>3. m <= n /\ m # n
    BY <1>10, <2>1, <2>2
  <2>4. m \in Int /\ n \in Int
    BY DEF TypeInv, StoreIsTyped
  <2>5. m < n
    BY <2>3, <2>4
  <2> QED BY <2>1, <2>2, <2>5 DEF Superseded
<1>11. ASSUME NEW b \in Backends, NEW j \in Keys, NEW d \in Executions, Claim(b, j, d)'
       PROVE  /\ Holds(b, j)'
              /\ j \notin overlaps' =>
                   Began(b, j, d)' /\ (Content(b, j)' = {d} \/ Superseded(b, j, d)')
  <2>1. ExecutionStep(e) /\ ~SaveEvidence(e)
    BY <1>2 DEF ExecutionStep, SaveEvidence, AtStep
  <2>2. Began(b, j, d) => Began(b, j, d)'
    BY <1>2 DEF Began
  <2>3. Superseded(b, j, d) => Superseded(b, j, d)'
    BY <1>2 DEF Superseded
  <2>4. CASE Claim(b, j, d) /\ d # e
    <3>1. /\ Holds(b, j)
          /\ j \notin overlaps => Began(b, j, d) /\ (Content(b, j) = {d} \/ Superseded(b, j, d))
      BY <2>4 DEF StoreInv, ClaimsHold
    <3>2. Holds(b, j)'
      BY <1>2, <1>4, <1>5, <3>1 DEF Holds
    <3>3. b = "s3" \/ j # k => Content(b, j)' = Content(b, j)
      BY <1>2, <1>5 DEF Content
    <3>4. b = "s3" \/ b = "local"
      BY DEF Backends
    <3>5. b = "local" /\ j = k => (k \notin overlaps => Superseded(b, j, d))
      BY <1>10, <2>4, <3>1
    <3> QED BY <1>2, <2>2, <2>3, <3>1, <3>2, <3>3, <3>4, <3>5
  <2>5. CASE d = e /\ b = "local" /\ j = k
    <3>1. Holds(b, j)'
      BY <1>4, <1>5, <2>5 DEF Holds
    <3>2. k \notin overlaps => Content(b, j)' = {d}
      <4>1. Content("local", k)' = bytes[tmp[k]]
        BY <1>2, <1>4, <1>5 DEF Content
      <4> QED BY <1>8, <2>5, <4>1
    <3>3. k \notin overlaps => Began(b, j, d)
      BY <1>8, <2>5 DEF WritesAlone, LastPut, Began
    <3> QED BY <1>2, <2>2, <2>5, <3>1, <3>2, <3>3
  <2> QED BY <1>2, <1>3, <1>4, <1>11, <2>1, <2>4, <2>5, ClaimsOfOthers
<1>12. ClaimsHold'
  BY <1>11 DEF ClaimsHold
<1> QED BY <1>7, <1>9, <1>12 DEF StoreInv

(* Every step keeps what is known of the stores.  No snapshot waits to be  *)
(* saved while the process starts again.                                   *)
LEMMA StoreStep ==
  ASSUME TypeInv, StoreInv, [CaptureNext]_captureVars
  PROVE  StoreInv'
<1>1. ASSUME NEW e \in Executions, ExecutionStep(e) PROVE StoreInv'
  <2>1. CASE SaveEvidence(e)
    BY <2>1, SaveIsQuiet, QuietKeepsStore
  <2>2. CASE RenameTmp(e)
    <3>1. CASE tmp[exec[e].panel] # None
      BY <2>2, <3>1, RenameTmpStep
    <3>2. CASE tmp[exec[e].panel] = None
      BY <2>2, <3>2, QuietSteps, QuietKeepsStore DEF PutFails
    <3> QED BY <3>1, <3>2
  <2>3. CASE PutObject(e) \/ OpenTmp(e) \/ WriteTmp(e)
    BY <2>3, PutObjectStep, OpenTmpStep, WriteTmpStep
  <2>4. CASE Start(e) \/ RunRange(e) \/ NoGrafana(e) \/ NoPanel(e) \/ FetchPNG(e) \/ Die(e)
    BY <2>4, QuietSteps, QuietKeepsStore
  <2>5. CASE PutErrs(e)
    BY <2>5, QuietSteps, QuietKeepsStore DEF PutFails
  <2> QED BY <1>1, <2>1, <2>2, <2>3, <2>4, <2>5 DEF ExecutionStep
<1>2. ASSUME UNCHANGED <<exec, rows, storeVars>>,
             \A b \in Backends, k \in Keys, e \in Executions : Claim(b, k, e)' => Claim(b, k, e)
      PROVE  StoreInv'
  <2>1. InodesApart'
    BY <1>2 DEF StoreInv, InodesApart, Owned, Writing, Unopened, storeVars
  <2>2. Undisturbed'
    BY <1>2 DEF StoreInv, Undisturbed, WritesAlone, LastPut, Writing, AtStep, storeVars
  <2>3. ClaimsHold'
    BY <1>2 DEF StoreInv, ClaimsHold, Holds, Began, Superseded, Content, storeVars
  <2> QED BY <2>1, <2>2, <2>3 DEF StoreInv
<1>3. CASE Reconfigure
  <2>1. /\ UNCHANGED <<exec, rows, storeVars>>
        /\ \A e \in Executions : exec[e].pc # "save"
    BY <1>3 DEF Reconfigure
  <2>2. \A b \in Backends, k \in Keys, e \in Executions : Claim(b, k, e)' => Claim(b, k, e)
    BY <2>1 DEF Claim, AtStep, Attached
  <2> QED BY <1>2, <2>1, <2>2
<1>4. CASE JoinAlert \/ UNCHANGED captureVars
  <2>1. UNCHANGED <<backend, exec, rows, storeVars>>
    BY <1>4 DEF JoinAlert, captureVars
  <2>2. \A b \in Backends, k \in Keys, e \in Executions : Claim(b, k, e)' => Claim(b, k, e)
    BY <2>1 DEF Claim, AtStep, Attached
  <2> QED BY <1>2, <2>1, <2>2
<1> QED BY <1>1, <1>3, <1>4 DEF CaptureNext

(* The stores are empty at first.                                          *)
LEMMA CaptureInvInitially == CaptureInit => CaptureInv
<1> SUFFICES ASSUME CaptureInit PROVE CaptureInv
  OBVIOUS
<1>1. TypeInv
  BY TypesInitially
<1>2. \A e \in Executions : exec[e].pc = "idle"
  BY DEF CaptureInit, NotRun
<1>3. rows = {} /\ name = [k \in Keys |-> None] /\ tmp = [k \in Keys |-> None]
  BY DEF CaptureInit
<1>4. None \notin Executions
  BY CaptureAssumption DEF Executions
<1>6. Undisturbed
  BY <1>2, <1>3 DEF Undisturbed, Writing
<1>7. ClaimsHold
  BY <1>2, <1>3 DEF ClaimsHold, Claim, Attached, AtStep
<1>8. InodesApart
  <2> DEFINE owner == [e \in Executions |-> None]
  <2>3. owner \in [Executions -> Keys \cup {None}]
    OBVIOUS
  <2>4. Owned(owner)
    BY <1>2, <1>3, <1>4 DEF Owned, Writing
  <2> QED BY <2>3, <2>4 DEF InodesApart
<1> QED BY <1>1, <1>6, <1>7, <1>8 DEF CaptureInv

LEMMA CaptureInvariant == CaptureSpec => []CaptureInv
<1>1. CaptureInv /\ [CaptureNext]_captureVars => CaptureInv'
  BY TypeStep, StoreStep DEF CaptureInv, StoreInv
<1> QED BY <1>1, CaptureInvInitially, PTL DEF CaptureSpec

(* Locals and rows are well typed.                                         *)
THEOREM CaptureTypesCorrect == CaptureSpec => []CaptureTypeOK
<1>1. ASSUME TypeInv PROVE CaptureTypeOK
  <2>1. \A r \in rows : r \in MetricRow \/ r \in SnapshotRow
    BY <1>1 DEF TypeInv
  <2>2. ASSUME NEW r \in rows
        PROVE  /\ r.by \in Executions
               /\ r.collector = "prometheus" => r.answer \in Answers /\ r.status \in {"ok", "gap", "failed"}
               /\ r.collector = "grafana" =>
                    r.key \in Keys \cup {None} /\ (r.key # None) = (r.status = "ok")
    <3>1. RowIsTyped(r)
      BY <1>1 DEF TypeInv
    <3> QED BY <2>1, <3>1 DEF MetricRow, SnapshotRow, RowIsTyped
  <2>3. exec \in [Executions ->
          [pc : {"idle", "metrics", "render", "open", "write", "rename", "save", "done", "dead"},
           panel : Keys \cup {None}, answer : Answers \cup {None},
           snapshot : {"none", "ok", "gap", "failed"}, inode : Executions \cup {None}]]
    BY <1>1 DEF TypeInv, Execution
  <2> QED BY <1>1, <2>2, <2>3 DEF CaptureTypeOK, TypeInv, StoreIsTyped
<1>2. CaptureInv => CaptureTypeOK
  BY <1>1 DEF CaptureInv
<1> QED BY <1>2, CaptureInvariant, PTL

(* What a row on file attaches is what its execution claims.               *)
LEMMA RowsClaim ==
  ASSUME TypeInv, NEW r \in Attached
  PROVE  r.backend \in Backends /\ r.key \in Keys /\ r.by \in Executions /\ Claim(r.backend, r.key, r.by)
<1>1. r \in SnapshotRow /\ r.key # None
  BY DEF Attached, TypeInv, MetricRow
<1> QED BY <1>1 DEF SnapshotRow, Claim

(* No attachment dangles: the object is there before its row is, and no    *)
(* crash, failed or repeated Put takes it away.                            *)
THEOREM AttachmentsAreServed == CaptureSpec => []ServedWhileConfigured
<1>1. ASSUME TypeInv, ClaimsHold PROVE ServedWhileConfigured
  BY <1>1, RowsClaim DEF ServedWhileConfigured, ClaimsHold, Holds, Opens
<1>2. CaptureInv => ServedWhileConfigured
  BY <1>1 DEF CaptureInv
<1> QED BY <1>2, CaptureInvariant, PTL

(* Put of the local store is atomic, whatever dies where, as long as no    *)
(* two Puts of the key overlap.                                            *)
THEOREM LocalPutAtomic == CaptureSpec => []SnapshotsAreWhole
<1>1. ASSUME TypeInv, Undisturbed PROVE SnapshotsAreWhole
  <2>1. ASSUME NEW k \in Keys, name[k] # None /\ k \notin overlaps
        PROVE  Cardinality(bytes[name[k]]) = 1
    <3>1. PICK n \in Executions : bytes[name[k]] = {n}
      BY <1>1, <2>1 DEF Undisturbed
    <3> QED BY <3>1, FS_Singleton
  <2> QED BY <2>1 DEF SnapshotsAreWhole
<1>2. CaptureInv => SnapshotsAreWhole
  BY <1>1 DEF CaptureInv
<1> QED BY <1>2, CaptureInvariant, PTL

(* The image that a row's checksum was taken from is there until another   *)
(* execution stores its own under the same key.                            *)
THEOREM ImagesStay == CaptureSpec => []OverwrittenOnlyByRerun
<1>1. ASSUME TypeInv, ClaimsHold PROVE OverwrittenOnlyByRerun
  <2>1. ASSUME NEW r \in Attached, r.key \notin overlaps
        PROVE  Content(r.backend, r.key) = {r.by} \/ Superseded(r.backend, r.key, r.by)
    BY <1>1, <2>1, RowsClaim DEF ClaimsHold
  <2> QED BY <2>1 DEF OverwrittenOnlyByRerun, Superseded
<1>2. CaptureInv => OverwrittenOnlyByRerun
  BY <1>1 DEF CaptureInv
<1> QED BY <1>2, CaptureInvariant, PTL

-----------------------------------------------------------------------------
(* The panel of an execution is fixed when it starts.                      *)
LEMMA PanelStays ==
  ASSUME TypeInv, NEW e \in Executions, ExecutionStep(e), ~Start(e)
  PROVE  exec'[e].panel \in {exec[e].panel, None} /\ \A d \in Executions : d # e => exec'[d] = exec[d]
<1> DEFINE x == exec[e]
<1>1. ASSUME NEW pc, NEW panel \in {exec[e].panel, None}, NEW answer, NEW snapshot, NEW inode,
             Moves(e, pc, panel, answer, snapshot, inode)
      PROVE  exec'[e].panel \in {exec[e].panel, None} /\ \A d \in Executions : d # e => exec'[d] = exec[d]
  BY <1>1, MoveIsLocal
<1>2. CASE RunRange(e)
  <2>1. PICK answer \in Answers \cup {None} : Moves(e, "render", x.panel, answer, x.snapshot, x.inode)
    BY <1>2, HowRunsMove
  <2> QED BY <1>1, <2>1
<1>3. CASE NoGrafana(e) \/ NoPanel(e) \/ FetchPNG(e) \/ WriteTmp(e) \/ Die(e) \/ SaveEvidence(e)
  <2>1. \/ \E pc, snapshot : Moves(e, pc, x.panel, x.answer, snapshot, x.inode)
        \/ \E pc : Moves(e, pc, None, None, "none", None)
    BY <1>3, HowRunsMove
  <2> QED BY <1>1, <2>1
<1>4. CASE PutObject(e) \/ RenameTmp(e) \/ PutErrs(e)
  <2>1. Stored(e) \/ PutFailed(e)
    BY <1>4 DEF PutObject, RenameTmp, PutErrs
  <2>2. \E pc, snapshot : Moves(e, pc, x.panel, x.answer, snapshot, x.inode)
    BY <2>1, HowRunsMove
  <2> QED BY <1>1, <2>2
<1>5. CASE OpenTmp(e)
  <2>1. \E inode : exec' = [exec EXCEPT ![e] = [@ EXCEPT !.pc = "write", !.inode = inode]]
    BY <1>5 DEF OpenTmp
  <2>2. \E inode : Moves(e, "write", x.panel, x.answer, x.snapshot, inode)
    BY <2>1, HowRunsMove
  <2> QED BY <1>1, <2>2
<1> QED BY <1>2, <1>3, <1>4, <1>5 DEF ExecutionStep

(* It is of the incident, and so is what is attached of it.                *)
LEMMA PanelStep ==
  ASSUME TypeInv, PanelInv, [CaptureNext]_captureVars
  PROVE  PanelInv'
<1>0. joined \subseteq joined'
  <2>1. ASSUME NEW e \in Executions, ExecutionStep(e) PROVE joined' = joined
    BY <2>1 DEF ExecutionStep, Start, RunRange, NoGrafana, NoPanel, FetchPNG, PutObject, OpenTmp,
                WriteTmp, RenameTmp, PutErrs, SaveEvidence, Die
  <2> QED BY <2>1 DEF CaptureNext, JoinAlert, Reconfigure, captureVars
<1>1. ASSUME UNCHANGED rows, \A e \in Executions : exec'[e].panel # None => NamedByAlerts(exec'[e].panel)
      PROVE  PanelInv'
  BY <1>0, <1>1 DEF PanelInv, PanelOfTheIncident, Attached, NamedByAlerts
<1>2. ASSUME NEW e \in Executions, Start(e) PROVE PanelInv'
  <2>1. PICK m \in Nat : \E order \in [1..m -> joined] :
          Moves(e, "metrics", ResolvePanel(Merged(order)), None, "none", None)
    BY <1>2, HowRunsMove
  <2>2. PICK order \in [1..m -> joined] :
          Moves(e, "metrics", ResolvePanel(Merged(order)), None, "none", None)
    BY <2>1
  <2>3. PICK p : p = ResolvePanel(Merged(order))
    OBVIOUS
  <2>4. p # None => NamedByAlerts(p)
    BY <2>3, PanelIsNamed DEF NamedByAlerts
  <2>5. Moves(e, "metrics", p, None, "none", None)
    BY <2>2, <2>3
  <2>6. exec'[e].panel = p /\ \A d \in Executions : d # e => exec'[d] = exec[d]
    BY <2>5, MoveIsLocal
  <2>7. UNCHANGED rows
    BY <1>2 DEF Start
  <2> QED BY <1>1, <2>4, <2>6, <2>7 DEF PanelInv
<1>3. ASSUME NEW e \in Executions, ExecutionStep(e), ~Start(e) PROVE PanelInv'
  <2>1. \A d \in Executions : exec'[d].panel # None => NamedByAlerts(exec'[d].panel)
    BY <1>3, PanelStays DEF PanelInv
  <2>2. CASE SaveEvidence(e)
    <3>1. PICK M \in SUBSET MetricRow, N \in SUBSET SnapshotRow :
            /\ rows' = rows \cup M \cup N
            /\ \A r \in N : r.key = IF exec[e].snapshot = "ok" THEN exec[e].panel ELSE None
      BY <2>2, WhatIsStored
    <3>2. ASSUME NEW r \in Attached' PROVE NamedByAlerts(r.key)
      <4>1. r \in rows' /\ r.collector = "grafana" /\ r.key # None
        BY <3>2 DEF Attached
      <4>2. CASE r \in rows
        BY <4>1, <4>2 DEF PanelInv, PanelOfTheIncident, Attached, NamedByAlerts
      <4>3. CASE r \in N
        BY <3>1, <4>1, <4>3 DEF PanelInv
      <4>4. r \notin M
        BY <4>1 DEF MetricRow
      <4> QED BY <3>1, <4>1, <4>2, <4>3, <4>4
    <3> QED BY <1>0, <2>1, <3>2 DEF PanelInv, PanelOfTheIncident, NamedByAlerts
  <2>3. CASE ~SaveEvidence(e)
    BY <1>1, <1>3, <2>1, <2>3, OthersSaveNothing
  <2> QED BY <2>2, <2>3
<1>4. CASE JoinAlert \/ Reconfigure \/ UNCHANGED captureVars
  BY <1>1, <1>4 DEF JoinAlert, Reconfigure, captureVars, PanelInv
<1> QED BY <1>2, <1>3, <1>4 DEF CaptureNext

(* The panel in the notebook is of this incident, whatever alerts join and *)
(* in whatever order their rows come: a dashboard and a panel under any of *)
(* the names that resolvePanel tries, from alerts that had joined when the *)
(* execution loaded its target, or a URL of one of them.                   *)
THEOREM PanelIsOfTheIncident == CaptureSpec => []PanelOfTheIncident
<1>1. CaptureInit => PanelInv
  BY DEF CaptureInit, PanelInv, PanelOfTheIncident, Attached, NotRun
<1>2. CaptureInv /\ PanelInv /\ [CaptureNext]_captureVars => PanelInv'
  BY PanelStep DEF CaptureInv
<1>3. PanelInv => PanelOfTheIncident
  BY DEF PanelInv
<1> QED BY <1>1, <1>2, <1>3, CaptureInvariant, PTL DEF CaptureSpec

-----------------------------------------------------------------------------
(* The summary that is stored with an ok item tells of each series what it *)
(* was: mean, ends and trend lie within its extremes, and the trend runs   *)
(* from end to end.  An ok item tells nothing only if no series had a      *)
(* number, or one an infinity.                                             *)
THEOREM SummariesCorrect == CaptureSpec => []SummaryFaithful
<1>1. ASSUME TypeInv PROVE SummaryFaithful
  <2>1. ASSUME NEW r \in rows, r.collector = "prometheus"
        PROVE  LET s == Summarize(r.answer.matrix)
                   looked == {r.answer.matrix[i] : i \in 1..Min({Len(r.answer.matrix), MaxSeries})}
               IN  /\ \A i \in DOMAIN s.series :
                        LET t == s.series[i] IN
                        /\ \A v \in {t.avg, t.first, t.last} \cup ToSet(t.trend) : t.min <= v /\ v <= t.max
                        /\ Head(t.trend) = t.first /\ Last(t.trend) = t.last
                        /\ Len(t.trend) = Min({t.points, TrendPoints})
                   /\ s.series = <<>> =>
                        \/ \A vals \in looked : Numbers(vals) = {}
                        \/ \E vals \in looked : {PosInf, NegInf} \cap ToSet(vals) # {}
    <3>1. PICK matrix \in Seq(Seq(Sample)) : matrix = r.answer.matrix
      <4>1. r.answer \in Answers
        BY <1>1, <2>1 DEF TypeInv, MetricRow, SnapshotRow
      <4> QED BY <4>1, CaptureAssumption DEF Sample
    <3>2. PICK s : s = Summarize(matrix)
      OBVIOUS
    <3>3. /\ \A i \in DOMAIN s.series : \E vals \in Seq(Int) : vals # <<>> /\ s.series[i] = SeriesSummary(vals)
          /\ s.series = <<>> =>
               \/ \A samples \in Looked(matrix) : ToSet(samples) \cap Int = {}
               \/ \E samples \in Looked(matrix) : {PosInf, NegInf} \cap ToSet(samples) # {}
      BY <3>2, SummaryIsFaithful
    <3>4. ASSUME NEW i \in DOMAIN s.series, NEW t, t = s.series[i]
          PROVE  /\ \A v \in {t.avg, t.first, t.last} \cup ToSet(t.trend) : t.min <= v /\ v <= t.max
                 /\ Head(t.trend) = t.first /\ Last(t.trend) = t.last
                 /\ Len(t.trend) = Min({t.points, TrendPoints})
      BY <3>3, <3>4, SeriesFaithful
    <3>5. \A vals : Numbers(vals) = ToSet(vals) \cap Int
      BY DEF Numbers, ToSet
    <3>6. Looked(matrix) = {r.answer.matrix[i] : i \in 1..Min({Len(r.answer.matrix), MaxSeries})}
      BY <3>1 DEF Looked
    <3>7. s = Summarize(r.answer.matrix)
      BY <3>1, <3>2
    <3> QED BY <3>3, <3>4, <3>5, <3>6, <3>7
  <2> QED BY <2>1 DEF SummaryFaithful
<1>2. CaptureInv => SummaryFaithful
  BY <1>1 DEF CaptureInv
<1> QED BY <1>2, CaptureInvariant, PTL
=============================================================================
