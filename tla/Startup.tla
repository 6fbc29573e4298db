------------------------------- MODULE Startup --------------------------------
(***************************************************************************)
(* Replicas starting on one database: main.go, config.Load, and migrate    *)
(* and runMigration of internal/store/migration.go.  Nothing coordinates   *)
(* replicas that migrate at the same time but the database itself.         *)
(*                                                                         *)
(*   down -Load-> create -FindTracking, CreateTracking-> select            *)
(*   select -SelectApplied-> migrate -Execute-> record -Record-> commit    *)
(*   commit -Commit-> migrate;  migrate, all applied -Serve-> serving      *)
(*   any error -> exited;  a crash -> down                                 *)
(*                                                                         *)
(* A migration file creates one table, in a transaction of its own that    *)
(* also records its number.  Postgres keeps a second CREATE of a table     *)
(* waiting while the first is uncommitted, and refuses it afterwards.      *)
(***************************************************************************)
EXTENDS Integers

CONSTANTS
  Replicas,       \* processes started on the database
  NumMigrations,  \* migrations/*.sql, numbered from 1
  Faults          \* "db" and "crash", see Envelopes

ASSUME StartupAssumption ==
  /\ NumMigrations \in Nat
  /\ Faults \subseteq {"db", "crash"}

VARIABLES
  config,    \* config[r]: what the environment of r makes of Load
  pc,        \* where main of r is
  applied,   \* applied[r]: migrations r takes for applied
  tracking,  \* is there a table _migrations
  recorded,  \* its committed rows
  tables,    \* the committed tables of the migrations
  open,      \* open[r]: the migration whose transaction r has open, 0 for none
  struck     \* history: a statement failed or a process crashed

database == <<tracking, recorded, tables>>
vars == <<config, pc, applied, database, open, struck>>

MigrationIds == 1..NumMigrations

\* refused: a retry limit below 0, a multiplier below 1 or a batch below 1.
\* tickless: a QUEUE_POLL_INTERVAL of zero or less, which Load accepts.
Configs == {"good", "refused", "tickless"}

\* The database has been migrated up to some release, perhaps by nobody.
Init ==
  /\ config \in [Replicas -> Configs]
  /\ pc = [r \in Replicas |-> "down"]
  /\ applied = [r \in Replicas |-> {}]
  /\ tracking \in BOOLEAN
  /\ recorded \in {1..n : n \in IF tracking THEN 0..NumMigrations ELSE {0}}
  /\ tables = recorded
  /\ open = [r \in Replicas |-> 0]
  /\ struck = FALSE

Goto(r, from, to) == pc[r] = from /\ pc' = [pc EXCEPT ![r] = to]

\* os.Exit(1).  The open transaction is rolled back.
Exit(r) ==
  /\ pc' = [pc EXCEPT ![r] = "exited"]
  /\ open' = [open EXCEPT ![r] = 0]

\* Is m the migration r turns to: the first file that is not applied?
NextMigration(r, m) == m \notin applied[r] /\ 1..(m - 1) \subseteq applied[r]

-----------------------------------------------------------------------------

\* config.Load.  A process that exited or crashed may be started again.
Load(r) ==
  /\ pc[r] \in {"down", "exited"}
  /\ pc' = [pc EXCEPT ![r] = IF config[r] = "refused" THEN "exited" ELSE "create"]
  /\ UNCHANGED <<config, applied, database, open, struck>>

\* CREATE TABLE IF NOT EXISTS _migrations looks for the table ...
FindTracking(r) ==
  /\ Goto(r, "create", IF tracking THEN "select" ELSE "creating")
  /\ UNCHANGED <<config, applied, database, open, struck>>

\* ... and creates it when it saw none, an error when there is one by now.
CreateTracking(r) ==
  /\ pc[r] = "creating"
  /\ IF tracking
     THEN Exit(r) /\ UNCHANGED tracking
     ELSE Goto(r, "creating", "select") /\ tracking' = TRUE /\ UNCHANGED open
  /\ UNCHANGED <<config, applied, recorded, tables, struck>>

\* Wrong on purpose: applied migrations are looked up in an empty set.
SelectNothing(r) ==
  /\ Goto(r, "select", "migrate")
  /\ applied' = [applied EXCEPT ![r] = {}]
  /\ UNCHANGED <<config, database, open, struck>>

\* SELECT id FROM _migrations, once.
SelectApplied(r) ==
  /\ Goto(r, "select", "migrate")
  /\ applied' = [applied EXCEPT ![r] = recorded]
  /\ UNCHANGED <<config, database, open, struck>>

\* Wrong on purpose: a migration outside a transaction.
ExecuteAlone(r) ==
  /\ \E m \in MigrationIds :
       /\ NextMigration(r, m)
       /\ \/ m \in tables /\ pc[r] = "migrate" /\ Exit(r) /\ UNCHANGED tables
          \/ /\ m \notin tables /\ Goto(r, "migrate", "record")
             /\ open' = [open EXCEPT ![r] = m]
             /\ tables' = tables \cup {m}
  /\ UNCHANGED <<config, applied, tracking, recorded, struck>>

\* Wrong on purpose: a migration another replica began is not run again.
ExecuteOrSkip(r) ==
  /\ pc[r] = "migrate"
  /\ \E m \in MigrationIds :
       /\ NextMigration(r, m)
       /\ IF m \in tables \/ \E s \in Replicas : open[s] = m
          THEN applied' = [applied EXCEPT ![r] = @ \cup {m}] /\ UNCHANGED <<pc, open>>
          ELSE /\ Goto(r, "migrate", "record")
               /\ open' = [open EXCEPT ![r] = m]
               /\ UNCHANGED applied
  /\ UNCHANGED <<config, database, struck>>

\* runMigration begins and executes the file.  It waits for a replica that
\* executed the same one and has not committed yet.
Execute(r) ==
  /\ pc[r] = "migrate"
  /\ \E m \in MigrationIds :
       /\ NextMigration(r, m)
       /\ \A s \in Replicas : open[s] # m
       /\ IF m \in tables
          THEN Exit(r)
          ELSE /\ Goto(r, "migrate", "record")
               /\ open' = [open EXCEPT ![r] = m]
  /\ UNCHANGED <<config, applied, database, struck>>

\* INSERT INTO _migrations, in the transaction.
Record(r) ==
  /\ pc[r] = "record"
  /\ IF open[r] \in recorded
     THEN Exit(r)
     ELSE Goto(r, "record", "commit") /\ UNCHANGED open
  /\ UNCHANGED <<config, applied, database, struck>>

TakeEffect(r) ==
  /\ tables' = tables \cup {open[r]}
  /\ recorded' = recorded \cup {open[r]}
  /\ UNCHANGED tracking

Commit(r) ==
  /\ Goto(r, "commit", "migrate")
  /\ TakeEffect(r)
  /\ applied' = [applied EXCEPT ![r] = @ \cup {open[r]}]
  /\ open' = [open EXCEPT ![r] = 0]
  /\ UNCHANGED <<config, struck>>

\* main goes on to start ProcessQueue and the API.  time.NewTicker panics on
\* an interval that is not positive, and takes the process with it.
Serve(r) ==
  /\ pc[r] = "migrate" /\ MigrationIds \subseteq applied[r]
  /\ pc' = [pc EXCEPT ![r] = IF config[r] = "tickless" THEN "exited" ELSE "serving"]
  /\ UNCHANGED <<config, applied, database, open, struck>>

\* Wrong on purpose: the loop goes on to the next file after an error.
FailsAndGoesOn(r) ==
  /\ "db" \in Faults
  /\ Goto(r, "record", "migrate")
  /\ applied' = [applied EXCEPT ![r] = @ \cup {open[r]}]
  /\ open' = [open EXCEPT ![r] = 0]
  /\ struck' = TRUE
  /\ UNCHANGED <<config, database>>

\* A statement fails; the replica exits.  A commit may have taken effect.
Fails(r) ==
  /\ "db" \in Faults
  /\ pc[r] \in {"create", "creating", "select", "migrate", "record", "commit"}
  /\ Exit(r)
  /\ \/ UNCHANGED database
     \/ pc[r] = "commit" /\ TakeEffect(r)
     \/ pc[r] = "creating" /\ tracking' = TRUE /\ UNCHANGED <<recorded, tables>>
  /\ struck' = TRUE
  /\ UNCHANGED <<config, applied>>

Crash(r) ==
  /\ "crash" \in Faults
  /\ pc[r] \notin {"down", "exited"}
  /\ pc' = [pc EXCEPT ![r] = "down"]
  /\ open' = [open EXCEPT ![r] = 0]
  /\ struck' = TRUE
  /\ UNCHANGED <<config, applied, database>>

-----------------------------------------------------------------------------

MainStep(r) ==
  \/ FindTracking(r) \/ CreateTracking(r) \/ SelectApplied(r)
  \/ Execute(r) \/ Record(r) \/ Commit(r) \/ Serve(r)

Next == \E r \in Replicas : Load(r) \/ MainStep(r) \/ Fails(r) \/ Crash(r)

Spec == Init /\ [][Next]_vars

\* Every replica is started once at least, and main goes on.
FairSpec ==
  /\ Spec
  /\ \A r \in Replicas : WF_vars(MainStep(r)) /\ WF_vars(pc[r] = "down" /\ Load(r))

-----------------------------------------------------------------------------

\* A table exists exactly when its migration is recorded, whatever replica
\* dies or loses a race where: a migration that is half done would be
\* refused at every later start.
SchemaMatches == tables = recorded

\* Migrations are applied in the order of their numbers, none left out.
AppliedInOrder == \A m \in recorded : 1..m \subseteq recorded

\* The worker and the API only run on the whole schema, also when another
\* replica has just migrated.
ServingHasSchema == \A r \in Replicas : pc[r] = "serving" => MigrationIds \subseteq tables

\* Replicas that start together make each other exit, but never all: one of
\* them serves, when each has a configuration it can serve with or none and
\* nothing fails.
OneServes ==
  (/\ \A r \in Replicas : config[r] # "tickless"
   /\ \E r \in Replicas : config[r] = "good")
    => <>(struck \/ \E r \in Replicas : pc[r] = "serving")
=============================================================================
