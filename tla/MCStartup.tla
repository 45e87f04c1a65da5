------------------------------ MODULE MCStartup ------------------------------
(* Startup on a small instance.                                            *)
EXTENDS Startup

CONSTANTS new, other, old

(* The server of the release before starts again while two processes of    *)
(* the new one migrate.                                                    *)
Releases == [p \in Migrating |-> IF p = old THEN 2 ELSE 4]
=============================================================================
