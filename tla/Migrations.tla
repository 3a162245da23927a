----------------------------- MODULE Migrations -----------------------------
(***************************************************************************)
(* Migrate of several processes on one database file                         *)
(* (internal/store/sqlite/migrate.go).  serve, migrate and repo all run it   *)
(* first thing, and nothing but SQLite keeps two of them apart.               *)
(*                                                                            *)
(* A migration is its place in file name order.  A transaction takes SQLite's *)
(* write lock with its first statement, waits for it at most busy_timeout,     *)
(* and sees the schema as the lock's last holder left it.                       *)
(***************************************************************************)
EXTENDS Naturals, FiniteSets

CONSTANTS Processes,
          Last,       \* the number of migrations embedded in the binary
          NoProcess

ASSUME MigrationConstants == Last \in Nat \ {0} /\ NoProcess \notin Processes

VARIABLES schema,     \* the migrations whose tables exist
          recorded,   \* the rows of schema_migrations
          writer,     \* who holds the write lock
          migrate     \* the Migrate call of each process

migVars == <<schema, recorded, writer, migrate>>

MigrateSteps == {"idle", "read", "apply", "insert", "commit", "done", "failed"}
Running == {"read", "apply", "insert", "commit"}
InTx == {"insert", "commit"}
MigrateFrame == [step : MigrateSteps, applied : SUBSET (1..Last), at : 1..(Last + 1)]
NoMigrate == [step |-> "idle", applied |-> {}, at |-> 1]

MigInit ==
    /\ schema = {} /\ recorded = {}
    /\ writer = NoProcess
    /\ migrate = [p \in Processes |-> NoMigrate]

MigrateTo(p, s) == migrate' = [migrate EXCEPT ![p].step = s]

\* CREATE TABLE IF NOT EXISTS schema_migrations: whoever comes second finds it.
CallMigrate(p) ==
    /\ migrate[p].step = "idle"
    /\ MigrateTo(p, "read")
    /\ UNCHANGED <<schema, recorded, writer>>

ReadApplied(p) ==
    /\ migrate[p].step = "read"
    /\ migrate' = [migrate EXCEPT ![p].applied = recorded, ![p].step = "apply"]
    /\ UNCHANGED <<schema, recorded, writer>>

\* The loop passes over what was applied when the call read the table.
SkipApplied(p) ==
    /\ migrate[p].step = "apply"
    /\ migrate[p].at \in migrate[p].applied
    /\ migrate' = [migrate EXCEPT ![p].at = @ + 1]
    /\ UNCHANGED <<schema, recorded, writer>>

Pending(p) ==
    /\ migrate[p].step = "apply"
    /\ migrate[p].at \in (1..Last) \ migrate[p].applied
    /\ writer = NoProcess

\* A plain CREATE TABLE fails on a table that is there.
TableExists(p) == migrate[p].at \in schema

\* Mutant: the statements run outside the transaction, each committed on its own.
RunStatementsOutsideTx(p) ==
    /\ Pending(p) /\ ~TableExists(p)
    /\ schema' = schema \cup {migrate[p].at}
    /\ writer' = p
    /\ MigrateTo(p, "insert")
    /\ UNCHANGED recorded

\* The statements of the migration run, uncommitted.
RunStatements(p) ==
    /\ Pending(p) /\ ~TableExists(p)
    /\ writer' = p
    /\ MigrateTo(p, "insert")
    /\ UNCHANGED <<schema, recorded>>

StatementsFail(p) ==
    /\ Pending(p) /\ TableExists(p)
    /\ MigrateTo(p, "failed")
    /\ UNCHANGED <<schema, recorded, writer>>

InsertRecord(p) ==
    /\ migrate[p].step = "insert"
    /\ MigrateTo(p, "commit")
    /\ UNCHANGED <<schema, recorded, writer>>

CommitMigration(p) ==
    /\ migrate[p].step = "commit"
    /\ schema' = schema \cup {migrate[p].at}
    /\ recorded' = recorded \cup {migrate[p].at}
    /\ writer' = NoProcess
    /\ migrate' = [migrate EXCEPT ![p].at = @ + 1, ![p].step = "apply"]

Unlocked(p) == IF writer = p THEN NoProcess ELSE writer

\* Mutant: a failed transaction is not rolled back.
MigrateFailsLocked(p) ==
    /\ migrate[p].step \in Running
    /\ MigrateTo(p, "failed")
    /\ UNCHANGED <<schema, recorded, writer>>

\* A statement fails, the wait for the lock times out or the context is
\* cancelled by a signal; the deferred rollback follows.
MigrateFails(p) ==
    /\ migrate[p].step \in Running
    /\ MigrateTo(p, "failed")
    /\ writer' = Unlocked(p)
    /\ UNCHANGED <<schema, recorded>>

MigrateReturns(p) ==
    /\ migrate[p].step = "apply" /\ migrate[p].at = Last + 1
    /\ MigrateTo(p, "done")
    /\ UNCHANGED <<schema, recorded, writer>>

MigrateStep(p) ==
    \/ ReadApplied(p) \/ SkipApplied(p) \/ RunStatements(p) \/ StatementsFail(p)
    \/ InsertRecord(p) \/ CommitMigration(p) \/ MigrateFails(p) \/ MigrateReturns(p)

\* The process ends, at its own time or killed; SQLite drops its lock.  The next
\* process starts afresh.
MigrateEnds(p) ==
    /\ migrate' = [migrate EXCEPT ![p] = NoMigrate]
    /\ writer' = Unlocked(p)
    /\ UNCHANGED <<schema, recorded>>

MigNext == \E p \in Processes : CallMigrate(p) \/ MigrateStep(p) \/ MigrateEnds(p)

MigSpec == MigInit /\ [][MigNext]_migVars

-----------------------------------------------------------------------------
\* Every variable has its type.
MigTypeOK ==
    /\ schema \subseteq 1..Last /\ recorded \subseteq 1..Last
    /\ writer \in Processes \cup {NoProcess}
    /\ migrate \in [Processes -> MigrateFrame]

\* migrate.go:15-21: after failures and kills at any point and with any number of
\* processes at it, the tables that exist are those the next Migrate will skip, and
\* they are the first ones in file name order.  A migration half applied, unrecorded
\* or out of turn would fail every later start.
SchemaIsAPrefix ==
    /\ recorded = schema
    /\ \A n \in schema : 1..n \subseteq schema

\* A Migrate that returned nil leaves nothing pending, whoever applied it.
ReturnedMeansApplied == \A p \in Processes : migrate[p].step = "done" => schema = 1..Last

\* migrate.go:97-110: the lock every other writer waits for belongs to a transaction
\* in progress; a migration that failed, ended or died has let go of it.
OnlyATransactionLocks == writer # NoProcess => migrate[writer].step \in InTx
=============================================================================
