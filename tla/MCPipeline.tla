----------------------------- MODULE MCPipeline -----------------------------
(* The pipeline on small instances: channel lists for the configurations.  *)
EXTENDS Pipeline, TLC

OneChannel == <<"slack">>
TwoChannels == <<"slack", "email">>

(* Workers are interchangeable: sound for invariants and safety properties.*)
WorkerSymmetry == Permutations(Workers)
=============================================================================
