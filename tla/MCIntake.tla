------------------------------ MODULE MCIntake ------------------------------
(* Intake on small instances: the batches the sources may send.            *)
EXTENDS Intake, TLC

Firing(f, s) == [fingerprint |-> f, severity |-> s, firing |-> TRUE]
Ended(f, s) == [fingerprint |-> f, severity |-> s, firing |-> FALSE]

(* Two batches of one outage that share an alert (one carries its end),    *)
(* one of another outage that shares a fingerprint, and noise.             *)
MixedBatches ==
  {[key |-> "outage", alerts |-> {Firing("f1", SevHigh)}],
   [key |-> "outage", alerts |-> {Ended("f1", SevHigh), Firing("f2", SevCritical)}],
   [key |-> "other", alerts |-> {Firing("f1", SevCritical)}],
   [key |-> "outage", alerts |-> {Firing("f1", SevWarning), Ended("f2", SevCritical)}]}

(* Deliveries of one key only, for the run about the race.                 *)
OneOutage ==
  {[key |-> "outage", alerts |-> {Firing("f1", SevHigh)}]}

(* Deliveries are interchangeable: sound for the safety properties.        *)
DeliverySymmetry == Permutations(Deliveries)
=============================================================================
