----------------------------- MODULE MCJobQueue -----------------------------
(* The job queue on small sets of rows and workers.                        *)
EXTENDS JobQueue
=============================================================================
