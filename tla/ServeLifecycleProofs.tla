------------------------- MODULE ServeLifecycleProofs -------------------------
(***************************************************************************)
(* The life of the processes, for any number of processes, ports, uploads     *)
(* and migrations; first Migrate by itself, then the processes that call it.   *)
(*                                                                            *)
(* Of Migrate, what has to be known besides the properties: every call has     *)
(* everything before its place applied, skips only what is applied, and holds   *)
(* the lock while it is in a transaction.                                       *)
(*                                                                            *)
(* Seen from the database every step is a step of Migrations or none, so its   *)
(* invariant carries over.  An upload's name, once removed, never comes back,   *)
(* because names are drawn once; that is what makes the sweep's work final.     *)
(***************************************************************************)
EXTENDS ServeLifecycle, TLAPS

MigInv ==
    /\ MigTypeOK
    /\ SchemaIsAPrefix
    /\ OnlyATransactionLocks
    /\ \A p \in Processes :
        /\ migrate[p].applied \subseteq schema
        /\ 1..(migrate[p].at - 1) \subseteq schema
        /\ migrate[p].step \in InTx =>
            /\ writer = p
            /\ migrate[p].at \in (1..Last) \ schema
        /\ migrate[p].step = "done" => migrate[p].at = Last + 1

LEMMA InitMigInv == MigInit => MigInv
  BY MigrationConstants DEF MigInit, MigInv, MigTypeOK, SchemaIsAPrefix, OnlyATransactionLocks, MigrateFrame,
     NoMigrate, MigrateSteps, InTx

\* Every step of a call, its end and the start of the next keep the invariant.
LEMMA StepMigInv == MigInv /\ [MigNext]_migVars => MigInv'
<1> SUFFICES ASSUME MigInv, [MigNext]_migVars PROVE MigInv'
  OBVIOUS
<1> USE MigrationConstants DEF MigInv, MigTypeOK, SchemaIsAPrefix, OnlyATransactionLocks, MigrateFrame, NoMigrate,
      MigrateSteps, InTx, MigrateTo, Running, Unlocked, Pending, TableExists
<1>1. ASSUME NEW p \in Processes, CallMigrate(p) PROVE MigInv'
  BY <1>1 DEF CallMigrate
<1>2. ASSUME NEW p \in Processes, ReadApplied(p) PROVE MigInv'
  BY <1>2 DEF ReadApplied
<1>3. ASSUME NEW p \in Processes, SkipApplied(p) PROVE MigInv'
  BY <1>3 DEF SkipApplied
<1>4. ASSUME NEW p \in Processes, RunStatements(p) PROVE MigInv'
  BY <1>4 DEF RunStatements
<1>5. ASSUME NEW p \in Processes, StatementsFail(p) PROVE MigInv'
  BY <1>5 DEF StatementsFail
<1>6. ASSUME NEW p \in Processes, InsertRecord(p) PROVE MigInv'
  BY <1>6 DEF InsertRecord
<1>7. ASSUME NEW p \in Processes, CommitMigration(p) PROVE MigInv'
  BY <1>7 DEF CommitMigration
<1>8. ASSUME NEW p \in Processes, MigrateFails(p) PROVE MigInv'
  BY <1>8 DEF MigrateFails
<1>9. ASSUME NEW p \in Processes, MigrateReturns(p) PROVE MigInv'
  BY <1>9 DEF MigrateReturns
<1>10. ASSUME NEW p \in Processes, MigrateEnds(p) PROVE MigInv'
  BY <1>10 DEF MigrateEnds
<1>11. CASE UNCHANGED migVars
  BY <1>11 DEF migVars
<1>12. QED
  BY <1>1, <1>2, <1>3, <1>4, <1>5, <1>6, <1>7, <1>8, <1>9, <1>10, <1>11
  DEF MigNext, MigrateStep

\* migrate.go:22-50: the invariant holds for every number of processes.
THEOREM MigrationsInvariant == MigSpec => []MigInv
  BY InitMigInv, StepMigInv, PTL DEF MigSpec

\* migrate.go:15-21: whatever fails or dies, what exists is what is recorded, and it
\* is the first migrations in file name order.
THEOREM MigrationsSchemaIsAPrefix == MigSpec => []SchemaIsAPrefix
  BY MigrationsInvariant, PTL DEF MigInv

\* migrate.go:97-110: nobody but a transaction in progress keeps the others waiting.
THEOREM MigrationsOnlyATransactionLocks == MigSpec => []OnlyATransactionLocks
  BY MigrationsInvariant, PTL DEF MigInv

\* A call that came to its end passed every migration.
LEMMA DoneMeansApplied == MigInv => ReturnedMeansApplied
<1> SUFFICES ASSUME MigInv, NEW p \in Processes, migrate[p].step = "done"
             PROVE  schema = 1..Last
  BY DEF ReturnedMeansApplied
<1>1. migrate[p].at - 1 = Last
  BY MigrationConstants DEF MigInv
<1>2. 1..Last \subseteq schema /\ schema \subseteq 1..Last
  BY <1>1 DEF MigInv, MigTypeOK
<1>3. QED
  BY <1>2

\* migrate.go:41-49: a Migrate that returned nil leaves nothing pending.
THEOREM MigrationsReturnedMeansApplied == MigSpec => []ReturnedMeansApplied
  BY DoneMeansApplied, MigrationsInvariant, PTL

------------------------------------------------------------------------------
\* Types, without those of Migrations.
LifeTypes ==
    /\ proc \in [Processes -> Process]
    /\ bound \in [Ports -> Processes \cup {NoProcess}]
    /\ upload \in [Uploads -> Upload]
    /\ told \subseteq Processes /\ named \subseteq Uploads /\ opened \subseteq Uploads

FilesInv == \A u \in Uploads :
    /\ upload[u].step \in {"receive", "read"} => u \in opened
    /\ upload[u].step \in {"none", "accepted"} => u \notin named

SweepInv == \A p \in Processes : \A u \in proc[p].listed :
    /\ upload[u].step \notin {"none", "accepted"}
    /\ u \notin proc[p].left => u \notin named
    /\ proc[p].sweep = "whole" => u \notin proc[p].left

ServingInv == \A p \in Processes :
    proc[p].command = "serve" /\ proc[p].phase \notin {"down", "boot", "close"} =>
        schema = 1..Last

LifeInv == MigInv /\ LifeTypes /\ FilesInv /\ SweepInv /\ ServingInv

-----------------------------------------------------------------------------
\* What the database sees of a step is a step of Migrations, or nothing.
LEMMA LifeIsMigrations == [LifeNext]_lifeVars => [MigNext]_migVars
<1> SUFFICES ASSUME [LifeNext]_lifeVars PROVE [MigNext]_migVars
  OBVIOUS
<1> USE DEF Unmigrated, MigNext
<1>1. ASSUME NEW p \in Processes, ProcessStep(p) PROVE [MigNext]_migVars
  BY <1>1 DEF ProcessStep, MigrateRuns, Migrated, NotMigrated, SweepList, SweepListFails, SweepRemove,
     SweepFails, SweepEnds, Bind, BindFails, BeginDrain, DrainEnds, DrainTimesOut, Exit, Gone
<1>2. ASSUME NEW p \in Processes, Outside(p) PROVE [MigNext]_migVars
  BY <1>2 DEF Outside, Start, Signal, ServeFails, Kill, Gone
<1>3. ASSUME NEW u \in Uploads, HandlerStep(u) PROVE [MigNext]_migVars
  BY <1>3 DEF HandlerStep, Accept, CreateUpload, EndWithoutFile, Received, Discard, Elsewhere, migVars
<1>4. CASE UNCHANGED lifeVars
  BY <1>4 DEF lifeVars, migVars
<1>5. QED
  BY <1>1, <1>2, <1>3, <1>4 DEF LifeNext

\* No step takes a table away.
LEMMA SchemaGrows == [MigNext]_migVars => schema \subseteq schema'
  BY DEF MigNext, migVars, CallMigrate, MigrateStep, ReadApplied, SkipApplied, RunStatements,
     StatementsFail, InsertRecord, CommitMigration, MigrateFails, MigrateReturns, MigrateEnds

LEMMA DownIsAProcess ==
    /\ Down \in Process /\ Down.phase = "down"
    /\ Down.listed = {} /\ Down.left = {} /\ Down.sweep = "none"
  BY LifeConstants DEF Down, Fresh, Process, Phases, Commands

\* A process begins with a sweep only if it was told not to migrate.
Begins(p, command) == \E f \in Process :
    /\ proc' = [proc EXCEPT ![p] = f]
    /\ f.phase \in {"boot", "sweep"} /\ f.command = command
    /\ f.phase = "sweep" => command = "serve --no-migrate"
    /\ f.listed = {} /\ f.left = {} /\ f.sweep = "none"

LEMMA StartBegins ==
    ASSUME NEW p, NEW command \in Commands, NEW port \in Ports, Start(p, command, port)
    PROVE  Begins(p, command)
<1> USE DEF Begins
<1>1. ASSUME NEW phase \in {"boot", "sweep"}
      PROVE  /\ Fresh(phase, command, port) \in Process
             /\ Fresh(phase, command, port).phase = phase
             /\ Fresh(phase, command, port).command = command
             /\ Fresh(phase, command, port).listed = {} /\ Fresh(phase, command, port).left = {}
             /\ Fresh(phase, command, port).sweep = "none"
  BY DEF Fresh, Process, Phases, Commands
<1>2. CASE command = "serve --no-migrate"
  <2>1. proc' = [proc EXCEPT ![p] = Fresh("sweep", command, port)]
    BY <1>2 DEF Start
  <2>2. QED
    BY <1>1, <1>2, <2>1
<1>3. CASE command # "serve --no-migrate"
  <2>1. proc' = [proc EXCEPT ![p] = Fresh("boot", command, port)]
    BY <1>3 DEF Start
  <2>2. QED
    BY <1>1, <1>3, <2>1
<1>4. QED
  BY <1>2, <1>3

LEMMA InitLifeInv == LifeInit => LifeInv
<1> SUFFICES ASSUME LifeInit PROVE LifeInv
  OBVIOUS
<1>1. MigInv
  BY InitMigInv DEF LifeInit
<1>2. QED
  BY <1>1, DownIsAProcess, MigrationConstants
  DEF LifeInit, LifeInv, LifeTypes, FilesInv, SweepInv, ServingInv,
      Unowned, Upload, UploadSteps

\* Every step keeps the types.
LEMMA StepTypes == LifeInv /\ [LifeNext]_lifeVars => LifeTypes'
<1> SUFFICES ASSUME LifeInv, [LifeNext]_lifeVars PROVE LifeTypes'
  OBVIOUS
<1>1. ASSUME NEW p \in Processes, NEW command \in Commands, NEW port \in Ports,
             Start(p, command, port)
      PROVE LifeTypes'
  <2>1. /\ proc[p].phase = "down"
        /\ UNCHANGED <<told, bound, upload, named, opened>>
    BY <1>1 DEF Start, Alone
  <2>2. Begins(p, command)
    BY <1>1, StartBegins
  <2>3. PICK f \in Process :
          /\ proc' = [proc EXCEPT ![p] = f]
          /\ f.phase \in {"boot", "sweep"} /\ f.command = command
          /\ f.phase = "sweep" => command = "serve --no-migrate"
          /\ f.listed = {} /\ f.left = {} /\ f.sweep = "none"
    BY <2>2 DEF Begins
  <2>4. proc'[p] = f /\ \A q \in Processes \ {p} : proc'[q] = proc[q]
    BY <2>3 DEF LifeInv, LifeTypes
  <2>5. QED
    BY <2>1, <2>3, <2>4, MigrationConstants
    DEF LifeInv, LifeTypes, Process, Upload, UploadSteps, Phases, Commands
<1> USE DownIsAProcess, MigrationConstants
    DEF LifeInv, LifeTypes, Process, Upload, UploadSteps, Phases, Commands, Enter, Alone, Files
<1>2. ASSUME NEW p \in Processes, Signal(p) PROVE LifeTypes'
  BY <1>2 DEF Signal
<1>3. ASSUME NEW p \in Processes, MigrateRuns(p) PROVE LifeTypes'
  BY <1>3 DEF MigrateRuns
<1>4. ASSUME NEW p \in Processes, Migrated(p) PROVE LifeTypes'
  BY <1>4 DEF Migrated
<1>5. ASSUME NEW p \in Processes, NotMigrated(p) PROVE LifeTypes'
  BY <1>5 DEF NotMigrated
<1>6. ASSUME NEW p \in Processes, SweepList(p) PROVE LifeTypes'
  <2> DEFINE f == [proc[p] EXCEPT !.phase = "remove", !.listed = named, !.left = named]
  <2>1. f \in Process
    OBVIOUS
  <2>2. proc' = [proc EXCEPT ![p] = f]
    BY <1>6 DEF SweepList
  <2> HIDE DEF f
  <2>3. proc' \in [Processes -> Process]
    BY <2>1, <2>2
  <2>4. QED
    BY <1>6, <2>3 DEF SweepList
<1>7. ASSUME NEW p \in Processes, SweepListFails(p) PROVE LifeTypes'
  BY <1>7 DEF SweepListFails
<1>8. ASSUME NEW p \in Processes, NEW u \in Uploads, SweepRemove(p, u) PROVE LifeTypes'
  BY <1>8 DEF SweepRemove
<1>9. ASSUME NEW p \in Processes, NEW u \in Uploads, SweepFails(p, u) PROVE LifeTypes'
  BY <1>9 DEF SweepFails
<1>10. ASSUME NEW p \in Processes, SweepEnds(p) PROVE LifeTypes'
  BY <1>10 DEF SweepEnds
<1>11. ASSUME NEW p \in Processes, Bind(p) PROVE LifeTypes'
  BY <1>11 DEF Bind
<1>12. ASSUME NEW p \in Processes, BindFails(p) PROVE LifeTypes'
  BY <1>12 DEF BindFails
<1>13. ASSUME NEW p \in Processes, BeginDrain(p) PROVE LifeTypes'
  BY <1>13 DEF BeginDrain, Released
<1>14. ASSUME NEW p \in Processes, DrainEnds(p) PROVE LifeTypes'
  BY <1>14 DEF DrainEnds
<1>15. ASSUME NEW p \in Processes, DrainTimesOut(p) PROVE LifeTypes'
  BY <1>15 DEF DrainTimesOut
<1>16. ASSUME NEW p \in Processes, ServeFails(p) PROVE LifeTypes'
  BY <1>16 DEF ServeFails, Released
<1>17. ASSUME NEW p \in Processes, Gone(p) PROVE LifeTypes'
  BY <1>17 DEF Gone, Released, InFlight, Unowned
<1>18. ASSUME NEW p \in Processes, NEW u \in Uploads, Accept(p, u) PROVE LifeTypes'
  BY <1>18 DEF Accept, Elsewhere
<1>19. ASSUME NEW u \in Uploads, CreateUpload(u) PROVE LifeTypes'
  BY <1>19 DEF CreateUpload, Elsewhere
<1>20. ASSUME NEW u \in Uploads, EndWithoutFile(u) PROVE LifeTypes'
  BY <1>20 DEF EndWithoutFile, Elsewhere, Unowned
<1>21. ASSUME NEW u \in Uploads, Received(u) PROVE LifeTypes'
  BY <1>21 DEF Received, Elsewhere
<1>22. ASSUME NEW u \in Uploads, Discard(u) PROVE LifeTypes'
  BY <1>22 DEF Discard, Elsewhere, Unowned
<1>23. CASE UNCHANGED lifeVars
  BY <1>23 DEF lifeVars
<1>24. QED
  BY <1>1, <1>2, <1>3, <1>4, <1>5, <1>6, <1>7, <1>8, <1>9, <1>10, <1>11, <1>12, <1>13,
     <1>14, <1>15, <1>16, <1>17, <1>18, <1>19, <1>20, <1>21, <1>22, <1>23
  DEF LifeNext, ProcessStep, Outside, HandlerStep, Exit, Kill

\* A handler's descriptor is open until it ends, and a name is used once.
LEMMA StepFiles == LifeInv /\ [LifeNext]_lifeVars => FilesInv'
<1> SUFFICES ASSUME LifeInv, [LifeNext]_lifeVars PROVE FilesInv'
  OBVIOUS
<1>1. ASSUME NEW p \in Processes, NEW command \in Commands, NEW port \in Ports,
             Start(p, command, port)
      PROVE FilesInv'
  <2>1. /\ proc[p].phase = "down"
        /\ UNCHANGED <<told, bound, upload, named, opened>>
    BY <1>1 DEF Start, Alone
  <2>2. Begins(p, command)
    BY <1>1, StartBegins
  <2>3. PICK f \in Process :
          /\ proc' = [proc EXCEPT ![p] = f]
          /\ f.phase \in {"boot", "sweep"} /\ f.command = command
          /\ f.phase = "sweep" => command = "serve --no-migrate"
          /\ f.listed = {} /\ f.left = {} /\ f.sweep = "none"
    BY <2>2 DEF Begins
  <2>4. proc'[p] = f /\ \A q \in Processes \ {p} : proc'[q] = proc[q]
    BY <2>3 DEF LifeInv, LifeTypes
  <2>5. QED
    BY <2>1, <2>3, <2>4, MigrationConstants
    DEF LifeInv, LifeTypes, Process, Upload, UploadSteps, FilesInv
<1> USE DownIsAProcess, MigrationConstants
    DEF LifeInv, LifeTypes, Process, Upload, UploadSteps, FilesInv, Enter, Alone, Files
<1>2. ASSUME NEW p \in Processes, Signal(p) PROVE FilesInv'
  BY <1>2 DEF Signal
<1>3. ASSUME NEW p \in Processes, MigrateRuns(p) PROVE FilesInv'
  BY <1>3 DEF MigrateRuns
<1>4. ASSUME NEW p \in Processes, Migrated(p) PROVE FilesInv'
  BY <1>4 DEF Migrated
<1>5. ASSUME NEW p \in Processes, NotMigrated(p) PROVE FilesInv'
  BY <1>5 DEF NotMigrated
<1>6. ASSUME NEW p \in Processes, SweepList(p) PROVE FilesInv'
  BY <1>6 DEF SweepList
<1>7. ASSUME NEW p \in Processes, SweepListFails(p) PROVE FilesInv'
  BY <1>7 DEF SweepListFails
<1>8. ASSUME NEW p \in Processes, NEW u \in Uploads, SweepRemove(p, u) PROVE FilesInv'
  BY <1>8 DEF SweepRemove
<1>9. ASSUME NEW p \in Processes, NEW u \in Uploads, SweepFails(p, u) PROVE FilesInv'
  BY <1>9 DEF SweepFails
<1>10. ASSUME NEW p \in Processes, SweepEnds(p) PROVE FilesInv'
  BY <1>10 DEF SweepEnds
<1>11. ASSUME NEW p \in Processes, Bind(p) PROVE FilesInv'
  BY <1>11 DEF Bind
<1>12. ASSUME NEW p \in Processes, BindFails(p) PROVE FilesInv'
  BY <1>12 DEF BindFails
<1>13. ASSUME NEW p \in Processes, BeginDrain(p) PROVE FilesInv'
  BY <1>13 DEF BeginDrain, Released
<1>14. ASSUME NEW p \in Processes, DrainEnds(p) PROVE FilesInv'
  BY <1>14 DEF DrainEnds
<1>15. ASSUME NEW p \in Processes, DrainTimesOut(p) PROVE FilesInv'
  BY <1>15 DEF DrainTimesOut
<1>16. ASSUME NEW p \in Processes, ServeFails(p) PROVE FilesInv'
  BY <1>16 DEF ServeFails, Released
<1>17. ASSUME NEW p \in Processes, Gone(p) PROVE FilesInv'
  BY <1>17 DEF Gone, Released, InFlight, Unowned
<1>18. ASSUME NEW p \in Processes, NEW u \in Uploads, Accept(p, u) PROVE FilesInv'
  BY <1>18 DEF Accept, Elsewhere
<1>19. ASSUME NEW u \in Uploads, CreateUpload(u) PROVE FilesInv'
  BY <1>19 DEF CreateUpload, Elsewhere
<1>20. ASSUME NEW u \in Uploads, EndWithoutFile(u) PROVE FilesInv'
  BY <1>20 DEF EndWithoutFile, Elsewhere, Unowned
<1>21. ASSUME NEW u \in Uploads, Received(u) PROVE FilesInv'
  BY <1>21 DEF Received, Elsewhere
<1>22. ASSUME NEW u \in Uploads, Discard(u) PROVE FilesInv'
  BY <1>22 DEF Discard, Elsewhere, Unowned
<1>23. CASE UNCHANGED lifeVars
  BY <1>23 DEF lifeVars
<1>24. QED
  BY <1>1, <1>2, <1>3, <1>4, <1>5, <1>6, <1>7, <1>8, <1>9, <1>10, <1>11, <1>12, <1>13,
     <1>14, <1>15, <1>16, <1>17, <1>18, <1>19, <1>20, <1>21, <1>22, <1>23
  DEF LifeNext, ProcessStep, Outside, HandlerStep, Exit, Kill

\* What a sweep has gone past has no name, and gets none.
LEMMA StepSweep == LifeInv /\ [LifeNext]_lifeVars => SweepInv'
<1> SUFFICES ASSUME LifeInv, [LifeNext]_lifeVars PROVE SweepInv'
  OBVIOUS
<1>1. ASSUME NEW p \in Processes, NEW command \in Commands, NEW port \in Ports,
             Start(p, command, port)
      PROVE SweepInv'
  <2>1. /\ proc[p].phase = "down"
        /\ UNCHANGED <<told, bound, upload, named, opened>>
    BY <1>1 DEF Start, Alone
  <2>2. Begins(p, command)
    BY <1>1, StartBegins
  <2>3. PICK f \in Process :
          /\ proc' = [proc EXCEPT ![p] = f]
          /\ f.phase \in {"boot", "sweep"} /\ f.command = command
          /\ f.phase = "sweep" => command = "serve --no-migrate"
          /\ f.listed = {} /\ f.left = {} /\ f.sweep = "none"
    BY <2>2 DEF Begins
  <2>4. proc'[p] = f /\ \A q \in Processes \ {p} : proc'[q] = proc[q]
    BY <2>3 DEF LifeInv, LifeTypes
  <2>5. QED
    BY <2>1, <2>3, <2>4, MigrationConstants
    DEF LifeInv, LifeTypes, Process, Upload, UploadSteps, FilesInv, SweepInv
<1> USE DownIsAProcess, MigrationConstants
    DEF LifeInv, LifeTypes, Process, Upload, UploadSteps, FilesInv, SweepInv, Enter, Alone, Files
<1>2. ASSUME NEW p \in Processes, Signal(p) PROVE SweepInv'
  BY <1>2 DEF Signal
<1>3. ASSUME NEW p \in Processes, MigrateRuns(p) PROVE SweepInv'
  BY <1>3 DEF MigrateRuns
<1>4. ASSUME NEW p \in Processes, Migrated(p) PROVE SweepInv'
  BY <1>4 DEF Migrated
<1>5. ASSUME NEW p \in Processes, NotMigrated(p) PROVE SweepInv'
  BY <1>5 DEF NotMigrated
<1>6. ASSUME NEW p \in Processes, SweepList(p) PROVE SweepInv'
  BY <1>6 DEF SweepList
<1>7. ASSUME NEW p \in Processes, SweepListFails(p) PROVE SweepInv'
  BY <1>7 DEF SweepListFails
<1>8. ASSUME NEW p \in Processes, NEW u \in Uploads, SweepRemove(p, u) PROVE SweepInv'
  BY <1>8 DEF SweepRemove
<1>9. ASSUME NEW p \in Processes, NEW u \in Uploads, SweepFails(p, u) PROVE SweepInv'
  BY <1>9 DEF SweepFails
<1>10. ASSUME NEW p \in Processes, SweepEnds(p) PROVE SweepInv'
  BY <1>10 DEF SweepEnds
<1>11. ASSUME NEW p \in Processes, Bind(p) PROVE SweepInv'
  BY <1>11 DEF Bind
<1>12. ASSUME NEW p \in Processes, BindFails(p) PROVE SweepInv'
  BY <1>12 DEF BindFails
<1>13. ASSUME NEW p \in Processes, BeginDrain(p) PROVE SweepInv'
  BY <1>13 DEF BeginDrain, Released
<1>14. ASSUME NEW p \in Processes, DrainEnds(p) PROVE SweepInv'
  BY <1>14 DEF DrainEnds
<1>15. ASSUME NEW p \in Processes, DrainTimesOut(p) PROVE SweepInv'
  BY <1>15 DEF DrainTimesOut
<1>16. ASSUME NEW p \in Processes, ServeFails(p) PROVE SweepInv'
  BY <1>16 DEF ServeFails, Released
<1>17. ASSUME NEW p \in Processes, Gone(p) PROVE SweepInv'
  BY <1>17 DEF Gone, Released, InFlight, Unowned
<1>18. ASSUME NEW p \in Processes, NEW u \in Uploads, Accept(p, u) PROVE SweepInv'
  BY <1>18 DEF Accept, Elsewhere
<1>19. ASSUME NEW u \in Uploads, CreateUpload(u) PROVE SweepInv'
  BY <1>19 DEF CreateUpload, Elsewhere
<1>20. ASSUME NEW u \in Uploads, EndWithoutFile(u) PROVE SweepInv'
  BY <1>20 DEF EndWithoutFile, Elsewhere, Unowned
<1>21. ASSUME NEW u \in Uploads, Received(u) PROVE SweepInv'
  BY <1>21 DEF Received, Elsewhere
<1>22. ASSUME NEW u \in Uploads, Discard(u) PROVE SweepInv'
  BY <1>22 DEF Discard, Elsewhere, Unowned
<1>23. CASE UNCHANGED lifeVars
  BY <1>23 DEF lifeVars
<1>24. QED
  BY <1>1, <1>2, <1>3, <1>4, <1>5, <1>6, <1>7, <1>8, <1>9, <1>10, <1>11, <1>12, <1>13,
     <1>14, <1>15, <1>16, <1>17, <1>18, <1>19, <1>20, <1>21, <1>22, <1>23
  DEF LifeNext, ProcessStep, Outside, HandlerStep, Exit, Kill

\* A serve passes its migrations before it goes on.
LEMMA StepServing == LifeInv /\ [LifeNext]_lifeVars => ServingInv'
<1> SUFFICES ASSUME LifeInv, [LifeNext]_lifeVars PROVE ServingInv'
  OBVIOUS
<1>1. schema \subseteq schema' /\ schema' \subseteq 1..Last
  BY LifeIsMigrations, StepMigInv, SchemaGrows DEF LifeInv, MigInv, MigTypeOK
<1>2. \A q \in Processes : migrate[q].step = "done" => schema = 1..Last
  BY DoneMeansApplied DEF LifeInv, ReturnedMeansApplied
<1>3. ASSUME NEW p \in Processes, NEW command \in Commands, NEW port \in Ports,
             Start(p, command, port)
      PROVE ServingInv'
  <2>1. /\ proc[p].phase = "down"
        /\ UNCHANGED <<told, bound, upload, named, opened>>
    BY <1>1, <1>2, <1>3 DEF Start, Alone
  <2>2. Begins(p, command)
    BY <1>3, StartBegins
  <2>3. PICK f \in Process :
          /\ proc' = [proc EXCEPT ![p] = f]
          /\ f.phase \in {"boot", "sweep"} /\ f.command = command
          /\ f.phase = "sweep" => command = "serve --no-migrate"
          /\ f.listed = {} /\ f.left = {} /\ f.sweep = "none"
    BY <2>2 DEF Begins
  <2>4. proc'[p] = f /\ \A q \in Processes \ {p} : proc'[q] = proc[q]
    BY <2>3 DEF LifeInv, LifeTypes
  <2>5. QED
    BY <1>1, <1>2, <2>1, <2>3, <2>4, MigrationConstants
    DEF LifeInv, LifeTypes, Process, ServingInv
<1> USE DownIsAProcess, MigrationConstants
    DEF LifeInv, LifeTypes, Process, ServingInv, Enter, Alone, Files
<1>4. ASSUME NEW p \in Processes, Signal(p) PROVE ServingInv'
  BY <1>1, <1>2, <1>4 DEF Signal
<1>5. ASSUME NEW p \in Processes, MigrateRuns(p) PROVE ServingInv'
  BY <1>1, <1>2, <1>5 DEF MigrateRuns
<1>6. ASSUME NEW p \in Processes, Migrated(p) PROVE ServingInv'
  BY <1>1, <1>2, <1>6 DEF Migrated
<1>7. ASSUME NEW p \in Processes, NotMigrated(p) PROVE ServingInv'
  BY <1>1, <1>2, <1>7 DEF NotMigrated
<1>8. ASSUME NEW p \in Processes, SweepList(p) PROVE ServingInv'
  BY <1>1, <1>2, <1>8 DEF SweepList
<1>9. ASSUME NEW p \in Processes, SweepListFails(p) PROVE ServingInv'
  BY <1>1, <1>2, <1>9 DEF SweepListFails
<1>10. ASSUME NEW p \in Processes, NEW u \in Uploads, SweepRemove(p, u) PROVE ServingInv'
  BY <1>1, <1>2, <1>10 DEF SweepRemove
<1>11. ASSUME NEW p \in Processes, NEW u \in Uploads, SweepFails(p, u) PROVE ServingInv'
  BY <1>1, <1>2, <1>11 DEF SweepFails
<1>12. ASSUME NEW p \in Processes, SweepEnds(p) PROVE ServingInv'
  BY <1>1, <1>2, <1>12 DEF SweepEnds
<1>13. ASSUME NEW p \in Processes, Bind(p) PROVE ServingInv'
  BY <1>1, <1>2, <1>13 DEF Bind
<1>14. ASSUME NEW p \in Processes, BindFails(p) PROVE ServingInv'
  BY <1>1, <1>2, <1>14 DEF BindFails
<1>15. ASSUME NEW p \in Processes, BeginDrain(p) PROVE ServingInv'
  BY <1>1, <1>2, <1>15 DEF BeginDrain, Released
<1>16. ASSUME NEW p \in Processes, DrainEnds(p) PROVE ServingInv'
  BY <1>1, <1>2, <1>16 DEF DrainEnds
<1>17. ASSUME NEW p \in Processes, DrainTimesOut(p) PROVE ServingInv'
  BY <1>1, <1>2, <1>17 DEF DrainTimesOut
<1>18. ASSUME NEW p \in Processes, ServeFails(p) PROVE ServingInv'
  BY <1>1, <1>2, <1>18 DEF ServeFails, Released
<1>19. ASSUME NEW p \in Processes, Gone(p) PROVE ServingInv'
  BY <1>1, <1>2, <1>19 DEF Gone, Released, InFlight, Unowned
<1>20. ASSUME NEW p \in Processes, NEW u \in Uploads, Accept(p, u) PROVE ServingInv'
  BY <1>1, <1>2, <1>20 DEF Accept, Elsewhere
<1>21. ASSUME NEW u \in Uploads, CreateUpload(u) PROVE ServingInv'
  BY <1>1, <1>2, <1>21 DEF CreateUpload, Elsewhere
<1>22. ASSUME NEW u \in Uploads, EndWithoutFile(u) PROVE ServingInv'
  BY <1>1, <1>2, <1>22 DEF EndWithoutFile, Elsewhere, Unowned
<1>23. ASSUME NEW u \in Uploads, Received(u) PROVE ServingInv'
  BY <1>1, <1>2, <1>23 DEF Received, Elsewhere
<1>24. ASSUME NEW u \in Uploads, Discard(u) PROVE ServingInv'
  BY <1>1, <1>2, <1>24 DEF Discard, Elsewhere, Unowned
<1>25. CASE UNCHANGED lifeVars
  BY <1>1, <1>2, <1>25 DEF lifeVars
<1>26. QED
  BY <1>3, <1>4, <1>5, <1>6, <1>7, <1>8, <1>9, <1>10, <1>11, <1>12, <1>13, <1>14, <1>15,
     <1>16, <1>17, <1>18, <1>19, <1>20, <1>21, <1>22, <1>23, <1>24, <1>25
  DEF LifeNext, ProcessStep, Outside, HandlerStep, Exit, Kill

-----------------------------------------------------------------------------
\* The invariant of the processes of one data directory.
THEOREM LifeInvariant == LifeSpec => []LifeInv
<1>1. LifeInv /\ [LifeNext]_lifeVars => LifeInv'
  <2> SUFFICES ASSUME LifeInv, [LifeNext]_lifeVars PROVE LifeInv'
    OBVIOUS
  <2>1. MigInv'
    BY LifeIsMigrations, StepMigInv DEF LifeInv
  <2>2. QED
    BY <2>1, StepTypes, StepFiles, StepSweep, StepServing DEF LifeInv
<1>2. QED
  BY InitLifeInv, <1>1, PTL DEF LifeSpec

\* Type correctness.
THEOREM LifeTypeCorrect == LifeSpec => []LifeTypeOK
<1>1. LifeInv => LifeTypeOK
  BY DEF LifeInv, MigInv, LifeTypes, LifeTypeOK
<1>2. QED
  BY <1>1, LifeInvariant, PTL

\* publish.go:167-173, 262-282: no sweep takes a file from the handler reading it.
THEOREM LifeUploadsSurviveSweeps == LifeSpec => []UploadsSurviveSweeps
<1>1. LifeInv => UploadsSurviveSweeps
  BY DEF LifeInv, FilesInv, UploadsSurviveSweeps
<1>2. QED
  BY <1>1, LifeInvariant, PTL

\* publish.go:262-282: what a sweep without an error has seen is gone for good.
THEOREM LifeSweptMeansGone == LifeSpec => []SweptMeansGone
<1>1. LifeInv => SweptMeansGone
  BY DEF LifeInv, SweepInv, SweptMeansGone
<1>2. QED
  BY <1>1, LifeInvariant, PTL

\* serve.go:46-50: who serves without --no-migrate finds every table.
THEOREM LifeServesOnlyMigrated == LifeSpec => []ServesOnlyMigrated
<1>1. LifeInv => ServesOnlyMigrated
  BY DEF LifeInv, ServingInv, ServesOnlyMigrated
<1>2. QED
  BY <1>1, LifeInvariant, PTL
=============================================================================
