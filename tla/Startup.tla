------------------------------- MODULE Startup -------------------------------
(***************************************************************************)
(* How processes start (cmd/valaf/main.go): serve and migrate apply the    *)
(* pending migrations (internal/migrate/migrate.go), any number of         *)
(* processes at the same time and possibly of different releases; the      *)
(* worker applies none and polls until there is a queue to poll.           *)
(*                                                                         *)
(* The file of a migration and the INSERT of its version are one           *)
(* transaction.  Of two transactions that apply the same version the       *)
(* second waits at the first object both create, or at the primary key,    *)
(* for the first to end.                                                   *)
(***************************************************************************)
EXTENDS Naturals, Sequences, FiniteSets

CONSTANTS
  Servers,      \* processes of the command serve
  Migrators,    \* processes of the command migrate
  Workers,      \* processes of the command worker
  Release,      \* the number of migrations that a process embeds
  JobsVersion,  \* the migration that creates the table jobs
  MaxCrashes    \* bound: processes that are killed

Migrating == Servers \cup Migrators

ASSUME StartupAssumption ==
  /\ Servers \cap Migrators = {} /\ Workers \cap Migrating = {}
  /\ Release \in [Migrating -> Nat]
  /\ JobsVersion \in Nat /\ MaxCrashes \in Nat

VARIABLES
  table,   \* schema_migrations exists
  applied, \* its rows
  bodies,  \* the migration files whose effects are committed, in order
  at,      \* where each process stands
  todo,    \* the versions that a process found pending
  polled,  \* the workers whose last Dequeue succeeded
  crashes, \* counts to MaxCrashes
  orphans  \* versions whose transaction is open on the server, its client dead

startupVars == <<table, applied, bodies, at, todo, polled, crashes, orphans>>

(* The embedded files, in lexical order.                                   *)
Versions(p) == 1..Release[p]

StartupTypeOK ==
  /\ table \in BOOLEAN
  /\ applied \subseteq Nat
  /\ bodies \in Seq(Nat)
  /\ at \in [Migrating -> {"down", "start", "create", "read", "apply", "body", "ready"}]
  /\ todo \in [Migrating -> SUBSET Nat]
  /\ \A p \in Migrating :
       /\ todo[p] \subseteq Versions(p)
       /\ (todo[p] # {}) = (at[p] \in {"apply", "body"})
  /\ polled \subseteq Workers
  /\ crashes \in 0..MaxCrashes
  /\ orphans \subseteq Nat

StartupInit ==
  /\ table = FALSE
  /\ applied = {}
  /\ bodies = <<>>
  /\ at = [p \in Migrating |-> "start"]
  /\ todo = [p \in Migrating |-> {}]
  /\ polled = {}
  /\ crashes = 0
  /\ orphans = {}

-----------------------------------------------------------------------------
Goto(p, step) == at' = [at EXCEPT ![p] = step]

(* CREATE TABLE IF NOT EXISTS looks for the table ...                      *)
LookForTable(p) ==
  /\ at[p] = "start"
  /\ Goto(p, IF table THEN "read" ELSE "create")
  /\ UNCHANGED <<table, applied, bodies, todo, polled, crashes, orphans>>

(* Variant: what was pending is remembered.                                *)
ExitKeepsTodo(p) == Goto(p, "down") /\ UNCHANGED todo

(* Run fails, and the process exits with its error.                        *)
Exit(p) ==
  /\ Goto(p, "down")
  /\ todo' = [todo EXCEPT ![p] = {}]

(* ... and fails if another process has created it since.                  *)
CreateTable(p) ==
  /\ at[p] = "create"
  /\ IF table THEN Exit(p) ELSE Goto(p, "read") /\ UNCHANGED todo
  /\ table' = TRUE
  /\ UNCHANGED <<applied, bodies, polled, crashes, orphans>>

(* Variant: versions that are applied are not left out.                    *)
AllEmbedded(p) == Versions(p)

Pending(p) == Versions(p) \ applied

ReadApplied(p) ==
  /\ at[p] = "read"
  /\ todo' = [todo EXCEPT ![p] = Pending(p)]
  /\ Goto(p, IF Pending(p) = {} THEN "ready" ELSE "apply")
  /\ UNCHANGED <<table, applied, bodies, polled, crashes, orphans>>

Lowest(p) == CHOOSE v \in todo[p] : \A w \in todo[p] : v <= w

(* BEGIN and the file, once no other transaction applies it.               *)
BeginApply(p) ==
  /\ at[p] = "apply"
  /\ \A q \in Migrating \ {p} : at[q] = "body" => Lowest(q) # Lowest(p)
  /\ Lowest(p) \notin orphans
  /\ IF Lowest(p) \in applied THEN Exit(p) ELSE Goto(p, "body") /\ UNCHANGED todo
  /\ UNCHANGED <<table, applied, bodies, polled, crashes, orphans>>

Done(p) ==
  /\ todo' = [todo EXCEPT ![p] = @ \ {Lowest(p)}]
  /\ Goto(p, IF todo[p] = {Lowest(p)} THEN "ready" ELSE "apply")

(* Variant: the file is committed before its version is recorded.          *)
CommitBodyFirst(p) ==
  /\ at[p] = "body"
  /\ IF Lowest(p) \in {bodies[n] : n \in DOMAIN bodies}
       THEN applied' = applied \cup {Lowest(p)} /\ Done(p) /\ UNCHANGED bodies
       ELSE bodies' = Append(bodies, Lowest(p)) /\ UNCHANGED <<applied, at, todo>>
  /\ UNCHANGED <<table, polled, crashes, orphans>>

(* INSERT of the version and COMMIT; the loop goes on with the next one.   *)
CommitApply(p) ==
  /\ at[p] = "body"
  /\ bodies' = Append(bodies, Lowest(p))
  /\ applied' = applied \cup {Lowest(p)}
  /\ Done(p)
  /\ UNCHANGED <<table, polled, crashes, orphans>>

-----------------------------------------------------------------------------
(* A process is killed, or loses the database.  The transaction it had     *)
(* begun is one message that the server has: it is rolled back at once, or *)
(* goes on without its client, and may outlive the restart.                *)
Crash(p) ==
  /\ at[p] # "down" /\ crashes < MaxCrashes
  /\ crashes' = crashes + 1
  /\ \/ UNCHANGED orphans
     \/ at[p] = "body" /\ orphans' = orphans \cup {Lowest(p)}
  /\ Exit(p)
  /\ UNCHANGED <<table, applied, bodies, polled>>

(* Such a transaction commits, or fails.                                   *)
OrphanEnds(v) ==
  /\ orphans' = orphans \ {v}
  /\ \/ bodies' = Append(bodies, v) /\ applied' = applied \cup {v}
     \/ UNCHANGED <<bodies, applied>>
  /\ UNCHANGED <<table, at, todo, polled, crashes>>

(* Variant: the command serve goes on when the migrations failed.          *)
ServeAnyway(p) ==
  /\ at[p] = "down"
  /\ Goto(p, "ready")
  /\ UNCHANGED <<table, applied, bodies, todo, polled, crashes, orphans>>

(* restart: unless-stopped, or the operator tries again.                   *)
Restart(p) ==
  /\ at[p] = "down"
  /\ Goto(p, "start")
  /\ UNCHANGED <<table, applied, bodies, todo, polled, crashes, orphans>>

(* Dequeue: without the table an error, which is logged, and another try.  *)
Poll(w) ==
  /\ polled' = IF JobsVersion \in applied THEN polled \cup {w} ELSE polled \ {w}
  /\ UNCHANGED <<table, applied, bodies, at, todo, crashes, orphans>>

ProcessStep(p) ==
  LookForTable(p) \/ CreateTable(p) \/ ReadApplied(p) \/ BeginApply(p) \/ CommitApply(p) \/ Restart(p)

StartupNext ==
  \/ \E p \in Migrating : ProcessStep(p) \/ Crash(p)
  \/ \E v \in orphans : OrphanEnds(v)
  \/ \E w \in Workers : Poll(w)

(* Every process runs, an exited one is started again, a transaction ends, *)
(* a worker polls.                                                         *)
StartupFairness ==
  /\ \A p \in Migrating : WF_startupVars(ProcessStep(p))
  /\ WF_startupVars(\E v \in orphans : OrphanEnds(v))
  /\ \A w \in Workers : WF_startupVars(Poll(w))

StartupSpec == StartupInit /\ [][StartupNext]_startupVars

FairStartupSpec == StartupSpec /\ StartupFairness

-----------------------------------------------------------------------------
(* "Safe to call on every startup": however many processes start, race and *)
(* are killed, each migration takes effect once, in lexical order, and     *)
(* schema_migrations says exactly which did.                               *)
AppliedOnceInOrder ==
  /\ applied = 1..Len(bodies)
  /\ \A n \in DOMAIN bodies : bodies[n] = n

(* A server that answers requests finds every table its release knows.     *)
ServesMigrated == \A p \in Servers : at[p] = "ready" => Versions(p) \subseteq applied

(* Processes that start together fail each other, but not for ever: every  *)
(* server comes up and stays, and every worker gets to poll its queue,     *)
(* though nothing makes it wait for the migrations.                        *)
AllComeUp ==
  /\ <>[](\A p \in Servers : at[p] = "ready")
  /\ <>[]((\E p \in Servers : Release[p] >= JobsVersion /\ JobsVersion > 0) => polled = Workers)
=============================================================================
