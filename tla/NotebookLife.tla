---------------------------- MODULE NotebookLife ----------------------------
(***************************************************************************)
(* What valaf promises about the life of one notebook per incident, with   *)
(* no queue, worker or transaction in sight.                               *)
(*                                                                         *)
(* A notebook is opened, its evidence only ever grows, and it is published *)
(* together with its first analysis.  It may be analysed again.  Once an   *)
(* engineer has resolved it, it stays resolved: later analyses are filed   *)
(* without reopening it.  Evidence that was flagged stays flagged.         *)
(***************************************************************************)
EXTENDS Naturals

CONSTANTS Incidents, Items

VARIABLES
  phase,     \* where the notebook of each incident stands
  captured,  \* the evidence recorded for it
  distrusted,\* the evidence an engineer flagged
  analysed   \* how many analyses were filed

lifeVars == <<phase, captured, distrusted, analysed>>

Phases == {"absent", "open", "published", "resolved"}

LifeInit ==
  /\ phase = [i \in Incidents |-> "absent"]
  /\ captured = [i \in Incidents |-> {}]
  /\ distrusted = [i \in Incidents |-> {}]
  /\ analysed = [i \in Incidents |-> 0]

Open(i) ==
  /\ phase[i] = "absent"
  /\ phase' = [phase EXCEPT ![i] = "open"]
  /\ UNCHANGED <<captured, distrusted, analysed>>

Capture(i) ==
  /\ phase[i] # "absent"
  /\ \E new \in SUBSET (Items \ UNION {captured[k] : k \in Incidents}) :
       captured' = [captured EXCEPT ![i] = @ \cup new]
  /\ UNCHANGED <<phase, distrusted, analysed>>

Distrust(i) ==
  /\ \E e \in captured[i] : distrusted' = [distrusted EXCEPT ![i] = @ \cup {e}]
  /\ UNCHANGED <<phase, captured, analysed>>

FileAnalysis(i) ==
  /\ phase[i] # "absent"
  /\ phase' = [phase EXCEPT ![i] = IF @ = "resolved" THEN @ ELSE "published"]
  /\ analysed' = [analysed EXCEPT ![i] = @ + 1]
  /\ UNCHANGED <<captured, distrusted>>

Resolve(i) ==
  /\ phase[i] # "absent"
  /\ phase' = [phase EXCEPT ![i] = "resolved"]
  /\ UNCHANGED <<captured, distrusted, analysed>>

LifeNext ==
  \E i \in Incidents :
    Open(i) \/ Capture(i) \/ Distrust(i) \/ FileAnalysis(i) \/ Resolve(i)

LifeSpec == LifeInit /\ [][LifeNext]_lifeVars
=============================================================================
