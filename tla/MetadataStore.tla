---------------------------- MODULE MetadataStore ----------------------------
(***************************************************************************)
(* The SQLite metadata store (internal/store/sqlite/store.go): CreateVersion *)
(* as a transaction of four statements on the one pooled connection          *)
(* (SetMaxOpenConns(1)), the unique constraint that decides a conflict, and   *)
(* the read of the winning row that follows it.                               *)
(*                                                                            *)
(* One process owns the database here.  A row of the versions table is         *)
(* represented by its digest, the one column readers compare; the repository  *)
(* a package belongs to is part of the package.                               *)
(***************************************************************************)
EXTENDS StoreCallers

CONSTANTS Packages,   \* (repository, identity) pairs
          Versions,   \* version strings
          NoDigest,   \* no row, or a digest the store could not read
          Free        \* the pooled connection is idle

ASSUME MetaConstants == NoDigest \notin Digests /\ Free \notin Callers

VARIABLES db,     \* the committed tables
          work,   \* the tables as the open transaction sees them
          conn,   \* who holds the one pooled connection
          call    \* the frame of each caller's CreateVersion

metaVars == <<db, work, conn, call>>

Tuples == Packages \X Versions

Tables == [packages : SUBSET Packages, blobs : SUBSET Digests,
           versions : [Tuples -> Digests \cup {NoDigest}]]

EmptyTables == [packages |-> {}, blobs |-> {},
                versions |-> [t \in Tuples |-> NoDigest]]

TxSteps == {"package", "blob", "version", "commit"}
Results == {"created", "conflict", "error"}
CallSteps == {"idle", "begin", "conflict_package", "conflict_version"}
                 \cup TxSteps \cup Results

\* previous is ConflictError.PreviousDigest.
CallFrame == [step : CallSteps, tuple : Tuples \cup {NoDigest},
              digest : Digests \cup {NoDigest}, previous : Digests \cup {NoDigest}]

NoCall == [step |-> "idle", tuple |-> NoDigest, digest |-> NoDigest, previous |-> NoDigest]

MetaInit ==
    /\ db = EmptyTables
    /\ work = EmptyTables
    /\ conn = Free
    /\ call = [c \in Callers |-> NoCall]

Goto(c, s) == call' = [call EXCEPT ![c].step = s]

-----------------------------------------------------------------------------
\* What a query outside a transaction can do: it needs the connection for the
\* time it runs, and reads committed rows.
CanQuery == conn = Free
HasPackage(t) == t[1] \in db.packages
RowOf(t) == db.versions[t]

CallCreate(c, t, d) ==
    /\ call[c].step = "idle"
    /\ call' = [call EXCEPT ![c] =
                  [step |-> "begin", tuple |-> t, digest |-> d, previous |-> NoDigest]]
    /\ UNCHANGED <<db, work, conn>>

\* BeginTx waits for the connection.
BeginTx(c) ==
    /\ call[c].step = "begin"
    /\ conn = Free
    /\ conn' = c
    /\ work' = db
    /\ Goto(c, "package")
    /\ UNCHANGED db

\* Mutant: the package is inserted outside the transaction.
UpsertPackageOutsideTx(c) ==
    /\ call[c].step = "package"
    /\ db' = [db EXCEPT !.packages = @ \cup {call[c].tuple[1]}]
    /\ work' = [work EXCEPT !.packages = @ \cup {call[c].tuple[1]}]
    /\ Goto(c, "blob")
    /\ UNCHANGED conn

\* Mutant: the package is looked up through the pool, whose one connection BeginTx took.
UpsertPackageThroughPool(c) ==
    /\ call[c].step = "package"
    /\ CanQuery
    /\ work' = [work EXCEPT !.packages = @ \cup {call[c].tuple[1]}]
    /\ Goto(c, "blob")
    /\ UNCHANGED <<db, conn>>

\* upsertPackage: select the package, insert it when there is none.
UpsertPackage(c) ==
    /\ call[c].step = "package"
    /\ work' = [work EXCEPT !.packages = @ \cup {call[c].tuple[1]}]
    /\ Goto(c, "blob")
    /\ UNCHANGED <<db, conn>>

\* INSERT OR IGNORE INTO blobs.
RecordBlob(c) ==
    /\ call[c].step = "blob"
    /\ work' = [work EXCEPT !.blobs = @ \cup {call[c].digest}]
    /\ Goto(c, "version")
    /\ UNCHANGED <<db, conn>>

\* Mutant: INSERT OR REPLACE.
RecordVersionReplaces(c) ==
    /\ call[c].step = "version"
    /\ work' = [work EXCEPT !.versions[call[c].tuple] = call[c].digest]
    /\ Goto(c, "commit")
    /\ UNCHANGED <<db, conn>>

\* INSERT INTO versions satisfies UNIQUE (package_id, version).
RecordVersion(c) ==
    /\ call[c].step = "version"
    /\ work.versions[call[c].tuple] = NoDigest
    /\ work' = [work EXCEPT !.versions[call[c].tuple] = call[c].digest]
    /\ Goto(c, "commit")
    /\ UNCHANGED <<db, conn>>

\* Mutant: conflictFor runs before the deferred rollback.
RecordConflictKeepsConn(c) ==
    /\ call[c].step = "version"
    /\ work.versions[call[c].tuple] # NoDigest
    /\ Goto(c, "conflict_package")
    /\ UNCHANGED <<db, work, conn>>

\* The constraint fires: roll back, which frees the connection conflictFor needs.
RecordConflict(c) ==
    /\ call[c].step = "version"
    /\ work.versions[call[c].tuple] # NoDigest
    /\ work' = db
    /\ conn' = Free
    /\ Goto(c, "conflict_package")
    /\ UNCHANGED db

Commit(c) ==
    /\ call[c].step = "commit"
    /\ db' = work
    /\ conn' = Free
    /\ Goto(c, "created")
    /\ UNCHANGED work

\* A statement or the commit fails: the deferred Rollback runs.
TxFail(c) ==
    /\ call[c].step \in TxSteps
    /\ work' = db
    /\ conn' = Free
    /\ Goto(c, "error")
    /\ UNCHANGED db

\* BeginTx gives up: the caller's context ended while it waited.
BeginFail(c) ==
    /\ call[c].step = "begin"
    /\ Goto(c, "error")
    /\ UNCHANGED <<db, work, conn>>

\* conflictFor, GetVersion's first query: the package of the winning row.
ConflictPackage(c) ==
    /\ call[c].step = "conflict_package"
    /\ CanQuery
    /\ Goto(c, IF HasPackage(call[c].tuple) THEN "conflict_version" ELSE "conflict")
    /\ UNCHANGED <<db, work, conn>>

\* Mutant: the conflict reports the digest that lost.
ConflictVersionOfLoser(c) ==
    /\ call[c].step = "conflict_version"
    /\ CanQuery
    /\ call' = [call EXCEPT ![c].step = "conflict", ![c].previous = call[c].digest]
    /\ UNCHANGED <<db, work, conn>>

\* conflictFor, GetVersion's second query: the winning row itself.
ConflictVersion(c) ==
    /\ call[c].step = "conflict_version"
    /\ CanQuery
    /\ call' = [call EXCEPT ![c].step = "conflict", ![c].previous = RowOf(call[c].tuple)]
    /\ UNCHANGED <<db, work, conn>>

\* Either query fails: conflictFor drops the error, the conflict names no digest.
ConflictReadFails(c) ==
    /\ call[c].step \in {"conflict_package", "conflict_version"}
    /\ Goto(c, "conflict")
    /\ UNCHANGED <<db, work, conn>>

CreateStep(c) ==
    \/ BeginTx(c) \/ UpsertPackage(c) \/ RecordBlob(c)
    \/ RecordVersion(c) \/ RecordConflict(c) \/ Commit(c)
    \/ ConflictPackage(c) \/ ConflictVersion(c)

CreateFails(c) == BeginFail(c) \/ TxFail(c) \/ ConflictReadFails(c)

\* The caller takes the result and may call again.
CreateReturn(c) ==
    /\ call[c].step \in Results
    /\ call' = [call EXCEPT ![c] = NoCall]
    /\ UNCHANGED <<db, work, conn>>

\* The process dies: SQLite rolls the open transaction back on recovery.  The
\* frames of calls that had returned are kept as history.
MetaCrash ==
    /\ work' = db
    /\ conn' = Free
    /\ call' = [c \in Callers |-> IF call[c].step \in Results THEN call[c] ELSE NoCall]
    /\ UNCHANGED db

MetaNext ==
    \/ \E c \in Callers, t \in Tuples, d \in Digests : CallCreate(c, t, d)
    \/ \E c \in Callers : CreateStep(c) \/ CreateFails(c) \/ CreateReturn(c)
    \/ MetaCrash

\* A statement in progress ends, and database/sql hands the freed connection to
\* a waiter: no call is passed over for ever.
MetaFairness == \A c \in Callers : SF_metaVars(CreateStep(c))

MetaSpec == MetaInit /\ [][MetaNext]_metaVars /\ MetaFairness

-----------------------------------------------------------------------------
\* Every variable of the store has its type.
MetaTypeOK ==
    /\ db \in Tables
    /\ work \in Tables
    /\ conn \in Callers \cup {Free}
    /\ call \in [Callers -> CallFrame]

\* A published tuple is never replaced and never removed (TR-08, ADR-0008),
\* whichever transactions interleave, fail or die.
VersionsAreFinal ==
    [][\A t \in Tuples : db.versions[t] # NoDigest => db'.versions[t] = db.versions[t]]_metaVars

\* The tables agree after every commit, rollback and crash: packages and blobs
\* have a row exactly for the versions that need one.  A failed first publish
\* must leave no empty package, which the listing would answer with 200 and [].
TablesAgree ==
    LET live == {t \in Tuples : db.versions[t] # NoDigest} IN
    /\ db.packages = {t[1] : t \in live}
    /\ db.blobs = {db.versions[t] : t \in live}

\* A caller told "created" is the one whose bytes the registry serves, and the
\* only one told so for that tuple.
CreatedIsTheWinner ==
    \A c \in Callers : call[c].step = "created" =>
        /\ db.versions[call[c].tuple] = call[c].digest
        /\ \A e \in Callers \ {c} : call[e].step = "created" => call[e].tuple # call[c].tuple

\* A conflict names the digest that won, or none when reading it back failed; it
\* is never raised for a tuple that is free (FR-11).
ConflictNamesWinnerOrNothing ==
    \A c \in Callers : call[c].step = "conflict" =>
        /\ db.versions[call[c].tuple] # NoDigest
        /\ call[c].previous \in {NoDigest, db.versions[call[c].tuple]}

\* Every CreateVersion returns: no call holds the only connection while it waits
\* for a second one, and a rolled back transaction gives it back.
EveryCallReturns ==
    \A c \in Callers : call[c].step = "begin" ~> call[c].step \in Results \cup {"idle"}
=============================================================================
