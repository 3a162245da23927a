------------------------- MODULE MetadataStoreProofs -------------------------
(***************************************************************************)
(* The safety of the metadata store, for any number of callers, packages,   *)
(* versions and digests.  The lemmas are about single steps, so that         *)
(* RegistryProofs and CatalogueProofs can use them.                          *)
(***************************************************************************)
EXTENDS MetadataStore, TLAPS

\* The tables as a caller's transaction leaves them after each statement.
WithPackage(c) == [db EXCEPT !.packages = @ \cup {call[c].tuple[1]}]
WithBlob(c) == [WithPackage(c) EXCEPT !.blobs = @ \cup {call[c].digest}]
WithVersion(c) == [WithBlob(c) EXCEPT !.versions[call[c].tuple] = call[c].digest]

CallsAreTyped ==
    \A c \in Callers : call[c].step # "idle" =>
        call[c].tuple \in Tuples /\ call[c].digest \in Digests

\* The connection is held exactly by the caller whose transaction is open.
HolderHasTheTx == \A c \in Callers : call[c].step \in TxSteps <=> conn = c

\* The open transaction sees the committed tables and its own writes.
TxView ==
    \A c \in Callers :
        /\ call[c].step = "package" => work = db
        /\ call[c].step = "blob" => work = WithPackage(c)
        /\ call[c].step = "version" => work = WithBlob(c)
        /\ call[c].step = "commit" =>
              work = WithVersion(c) /\ db.versions[call[c].tuple] = NoDigest

\* A call that met a conflict met a committed row.
ConflictsAreReal ==
    \A c \in Callers :
        /\ call[c].step \in {"conflict_package", "conflict_version"} =>
              db.versions[call[c].tuple] # NoDigest
        /\ call[c].step # "conflict" => call[c].previous = NoDigest

MetaInv ==
    /\ MetaTypeOK
    /\ CallsAreTyped
    /\ HolderHasTheTx
    /\ TxView
    /\ ConflictsAreReal
    /\ TablesAgree
    /\ CreatedIsTheWinner
    /\ ConflictNamesWinnerOrNothing

\* The steps that leave the committed tables alone: all but Commit.
QuietStep(c) ==
    \/ BeginTx(c) \/ UpsertPackage(c) \/ RecordBlob(c)
    \/ RecordVersion(c) \/ RecordConflict(c)
    \/ ConflictPackage(c) \/ ConflictVersion(c) \/ CreateFails(c)

\* The empty database satisfies the invariant.
LEMMA MetaInitInv == MetaInit => MetaInv
<1> SUFFICES ASSUME MetaInit PROVE MetaInv
  OBVIOUS
<1> USE MetaConstants DEF MetaInit, NoCall, EmptyTables
<1>1. MetaTypeOK
  BY DEF MetaTypeOK, Tables, CallFrame, CallSteps, TxSteps, Results
<1>2. CallsAreTyped /\ HolderHasTheTx /\ TxView /\ ConflictsAreReal
  BY DEF CallsAreTyped, HolderHasTheTx, TxView, ConflictsAreReal, TxSteps
<1>3. TablesAgree
  BY DEF TablesAgree
<1>4. CreatedIsTheWinner /\ ConflictNamesWinnerOrNothing
  BY DEF CreatedIsTheWinner, ConflictNamesWinnerOrNothing
<1>5. QED
  BY <1>1, <1>2, <1>3, <1>4 DEF MetaInv

\* The tables agree as long as nothing is committed.
LEMMA SameTables ==
  ASSUME TablesAgree, db' = db
  PROVE  TablesAgree'
  BY DEF TablesAgree

\* A call that has only been made owns nothing yet.
LEMMA CallCreateInv ==
  ASSUME MetaInv, NEW c \in Callers, NEW t \in Tuples, NEW d \in Digests, CallCreate(c, t, d)
  PROVE  MetaInv'
<1> USE MetaConstants DEF CallCreate, MetaInv
<1>1. MetaTypeOK'
  BY DEF MetaTypeOK, CallFrame, CallSteps, TxSteps, Results
<1>2. CallsAreTyped'
  BY DEF CallsAreTyped, MetaTypeOK
<1>3. HolderHasTheTx'
  BY DEF HolderHasTheTx, MetaTypeOK, TxSteps
<1>4. TxView'
  BY DEF TxView, MetaTypeOK, WithPackage, WithBlob, WithVersion
<1>5. ConflictsAreReal'
  BY DEF ConflictsAreReal, MetaTypeOK
<1>6. TablesAgree'
  BY SameTables
<1>7. CreatedIsTheWinner' /\ ConflictNamesWinnerOrNothing'
  BY DEF CreatedIsTheWinner, ConflictNamesWinnerOrNothing, MetaTypeOK
<1>8. QED
  BY <1>1, <1>2, <1>3, <1>4, <1>5, <1>6, <1>7

\* A step that does not commit keeps the invariant.
LEMMA QuietStepInv ==
  ASSUME MetaInv, NEW c \in Callers, QuietStep(c)
  PROVE  MetaInv' /\ db' = db
<1> USE MetaConstants DEF MetaInv, Goto
<1>0. /\ db \in Tables /\ work \in Tables /\ call[c] \in CallFrame
      /\ call[c].step # "idle" => call[c].tuple \in Tuples /\ call[c].digest \in Digests
  BY DEF MetaTypeOK, CallsAreTyped
<1>a. call[c].step # "idle" => call[c].tuple[1] \in Packages
  BY <1>0 DEF Tuples
<1>1. CASE BeginTx(c)
  <2> USE <1>1 DEF BeginTx
  <2>1. MetaTypeOK'
    BY DEF MetaTypeOK, CallFrame, CallSteps, TxSteps, Results
  <2>2. CallsAreTyped'
    BY DEF CallsAreTyped, MetaTypeOK, TxSteps
  <2>3. HolderHasTheTx'
    BY DEF HolderHasTheTx, MetaTypeOK, TxSteps, CanQuery
  <2>4. TxView'
    <3>1. call'[c] = [call[c] EXCEPT !.step = "package"]
      BY DEF MetaTypeOK
    <3>2. work' = db'
      OBVIOUS
    <3>3. \A e \in Callers \ {c} : call'[e].step \notin TxSteps
      BY <2>3 DEF HolderHasTheTx, MetaTypeOK, TxSteps
    <3>4. QED
      BY <1>0, <3>1, <3>2, <3>3 DEF TxView, TxSteps, CallFrame
  <2>5. ConflictsAreReal'
    BY DEF ConflictsAreReal, MetaTypeOK, CallFrame
  <2>6. TablesAgree'
    BY SameTables
  <2>7. CreatedIsTheWinner' /\ ConflictNamesWinnerOrNothing'
    BY DEF CreatedIsTheWinner, ConflictNamesWinnerOrNothing, ConflictsAreReal, MetaTypeOK, TxSteps, RowOf
  <2>8. QED
    BY <2>1, <2>2, <2>3, <2>4, <2>5, <2>6, <2>7
<1>2. CASE UpsertPackage(c)
  <2> USE <1>2 DEF UpsertPackage
  <2>1. MetaTypeOK'
    <3>1. work' \in Tables
      BY <1>0, <1>a DEF Tables
    <3>2. QED
      BY <3>1 DEF MetaTypeOK, CallFrame, CallSteps, TxSteps, Results
  <2>2. CallsAreTyped'
    BY DEF CallsAreTyped, MetaTypeOK, TxSteps
  <2>3. HolderHasTheTx'
    BY DEF HolderHasTheTx, MetaTypeOK, TxSteps, CanQuery
  <2>4. TxView'
    <3>1. call'[c] = [call[c] EXCEPT !.step = "blob"]
      BY DEF MetaTypeOK
    <3>2. work' = WithPackage(c)'
      <4>1. call'[c].tuple = call[c].tuple
        BY <1>0, <3>1 DEF CallFrame
      <4>2. work = db
        BY DEF TxView
      <4>3. QED
        BY <4>1, <4>2 DEF WithPackage
    <3>3. \A e \in Callers \ {c} : call'[e].step \notin TxSteps
      BY <2>3 DEF HolderHasTheTx, MetaTypeOK, TxSteps
    <3>4. QED
      BY <1>0, <3>1, <3>2, <3>3 DEF TxView, TxSteps, CallFrame
  <2>5. ConflictsAreReal'
    BY DEF ConflictsAreReal, MetaTypeOK, CallFrame
  <2>6. TablesAgree'
    BY SameTables
  <2>7. CreatedIsTheWinner' /\ ConflictNamesWinnerOrNothing'
    BY DEF CreatedIsTheWinner, ConflictNamesWinnerOrNothing, ConflictsAreReal, MetaTypeOK, TxSteps, RowOf
  <2>8. QED
    BY <2>1, <2>2, <2>3, <2>4, <2>5, <2>6, <2>7
<1>3. CASE RecordBlob(c)
  <2> USE <1>3 DEF RecordBlob
  <2>1. MetaTypeOK'
    <3>1. work' \in Tables
      BY <1>0, <1>a DEF Tables
    <3>2. QED
      BY <3>1 DEF MetaTypeOK, CallFrame, CallSteps, TxSteps, Results
  <2>2. CallsAreTyped'
    BY DEF CallsAreTyped, MetaTypeOK, TxSteps
  <2>3. HolderHasTheTx'
    BY DEF HolderHasTheTx, MetaTypeOK, TxSteps, CanQuery
  <2>4. TxView'
    <3>1. call'[c] = [call[c] EXCEPT !.step = "version"]
      BY DEF MetaTypeOK
    <3>2. work' = WithBlob(c)'
      <4>1. call'[c].tuple = call[c].tuple /\ call'[c].digest = call[c].digest
        BY <1>0, <3>1 DEF CallFrame
      <4>2. work = WithPackage(c)
        BY DEF TxView
      <4>3. WithPackage(c)' = WithPackage(c)
        BY <4>1 DEF WithPackage
      <4>4. QED
        BY <4>1, <4>2, <4>3 DEF WithBlob
    <3>3. \A e \in Callers \ {c} : call'[e].step \notin TxSteps
      BY <2>3 DEF HolderHasTheTx, MetaTypeOK, TxSteps
    <3>4. QED
      BY <1>0, <3>1, <3>2, <3>3 DEF TxView, TxSteps, CallFrame
  <2>5. ConflictsAreReal'
    BY DEF ConflictsAreReal, MetaTypeOK, CallFrame
  <2>6. TablesAgree'
    BY SameTables
  <2>7. CreatedIsTheWinner' /\ ConflictNamesWinnerOrNothing'
    BY DEF CreatedIsTheWinner, ConflictNamesWinnerOrNothing, ConflictsAreReal, MetaTypeOK, TxSteps, RowOf
  <2>8. QED
    BY <2>1, <2>2, <2>3, <2>4, <2>5, <2>6, <2>7
<1>4. CASE RecordVersion(c)
  <2> USE <1>4 DEF RecordVersion
  <2>1. MetaTypeOK'
    <3>1. work' \in Tables
      BY <1>0, <1>a DEF Tables
    <3>2. QED
      BY <3>1 DEF MetaTypeOK, CallFrame, CallSteps, TxSteps, Results
  <2>2. CallsAreTyped'
    BY DEF CallsAreTyped, MetaTypeOK, TxSteps
  <2>3. HolderHasTheTx'
    BY DEF HolderHasTheTx, MetaTypeOK, TxSteps, CanQuery
  <2>4. TxView'
    <3>1. call'[c] = [call[c] EXCEPT !.step = "commit"]
      BY DEF MetaTypeOK
    <3>2. work' = WithVersion(c)' /\ db'.versions[call'[c].tuple] = NoDigest
      <4>1. call'[c].tuple = call[c].tuple /\ call'[c].digest = call[c].digest
        BY <1>0, <3>1 DEF CallFrame
      <4>2. work = WithBlob(c)
        BY DEF TxView
      <4>3. WithBlob(c)' = WithBlob(c) /\ WithBlob(c).versions = db.versions
        BY <1>0, <4>1 DEF WithPackage, WithBlob, Tables
      <4>4. QED
        BY <4>1, <4>2, <4>3 DEF WithVersion
    <3>3. \A e \in Callers \ {c} : call'[e].step \notin TxSteps
      BY <2>3 DEF HolderHasTheTx, MetaTypeOK, TxSteps
    <3>4. QED
      BY <1>0, <3>1, <3>2, <3>3 DEF TxView, TxSteps, CallFrame
  <2>5. ConflictsAreReal'
    BY DEF ConflictsAreReal, MetaTypeOK, CallFrame
  <2>6. TablesAgree'
    BY SameTables
  <2>7. CreatedIsTheWinner' /\ ConflictNamesWinnerOrNothing'
    BY DEF CreatedIsTheWinner, ConflictNamesWinnerOrNothing, ConflictsAreReal, MetaTypeOK, TxSteps, RowOf
  <2>8. QED
    BY <2>1, <2>2, <2>3, <2>4, <2>5, <2>6, <2>7
<1>5. CASE RecordConflict(c)
  <2> USE <1>5 DEF RecordConflict
  <2>1. MetaTypeOK'
    BY DEF MetaTypeOK, CallFrame, CallSteps, TxSteps, Results
  <2>2. CallsAreTyped'
    BY DEF CallsAreTyped, MetaTypeOK, TxSteps
  <2>3. HolderHasTheTx'
    BY DEF HolderHasTheTx, MetaTypeOK, TxSteps, CanQuery
  <2>4. TxView'
    <3>1. \A e \in Callers : call'[e].step \notin TxSteps
      BY <2>3 DEF HolderHasTheTx, MetaTypeOK
    <3>2. QED
      BY <3>1 DEF TxView, TxSteps
  <2>5. ConflictsAreReal'
    <3>1. work.versions = db.versions
      BY <1>0 DEF TxView, WithPackage, WithBlob, Tables
    <3>2. QED
      BY <3>1 DEF ConflictsAreReal, MetaTypeOK, CallFrame
  <2>6. TablesAgree'
    BY SameTables
  <2>7. CreatedIsTheWinner' /\ ConflictNamesWinnerOrNothing'
    BY DEF CreatedIsTheWinner, ConflictNamesWinnerOrNothing, ConflictsAreReal, MetaTypeOK, TxSteps, RowOf
  <2>8. QED
    BY <2>1, <2>2, <2>3, <2>4, <2>5, <2>6, <2>7
<1>6. CASE ConflictPackage(c)
  <2> USE <1>6 DEF ConflictPackage
  <2>1. MetaTypeOK'
    BY DEF MetaTypeOK, CallFrame, CallSteps, TxSteps, Results
  <2>2. CallsAreTyped'
    BY DEF CallsAreTyped, MetaTypeOK, TxSteps
  <2>3. HolderHasTheTx'
    BY DEF HolderHasTheTx, MetaTypeOK, TxSteps, CanQuery
  <2>4. TxView'
    <3>1. call'[c].step \notin TxSteps
      BY <1>0 DEF MetaTypeOK, CallFrame, TxSteps
    <3>2. \A e \in Callers \ {c} : call'[e] = call[e]
      BY DEF MetaTypeOK
    <3>3. \A e \in Callers \ {c} : /\ WithPackage(e)' = WithPackage(e)
                                   /\ WithBlob(e)' = WithBlob(e)
                                   /\ WithVersion(e)' = WithVersion(e)
      BY <3>2 DEF WithPackage, WithBlob, WithVersion
    <3>4. QED
      BY <3>1, <3>2, <3>3 DEF TxView, TxSteps
  <2>5. ConflictsAreReal'
    BY DEF ConflictsAreReal, MetaTypeOK, CallFrame
  <2>6. TablesAgree'
    BY SameTables
  <2>7. CreatedIsTheWinner' /\ ConflictNamesWinnerOrNothing'
    BY DEF CreatedIsTheWinner, ConflictNamesWinnerOrNothing, ConflictsAreReal, MetaTypeOK, TxSteps, RowOf
  <2>8. QED
    BY <2>1, <2>2, <2>3, <2>4, <2>5, <2>6, <2>7
<1>7. CASE ConflictVersion(c)
  <2> USE <1>7 DEF ConflictVersion
  <2>1. MetaTypeOK'
    <3>1. RowOf(call[c].tuple) \in Digests \cup {NoDigest}
      BY <1>0 DEF Tables, RowOf
    <3>2. [call[c] EXCEPT !.step = "conflict", !.previous = RowOf(call[c].tuple)] \in CallFrame
      BY <1>0, <3>1 DEF CallFrame, CallSteps, Results
    <3>3. call' = [call EXCEPT ![c] =
                     [call[c] EXCEPT !.step = "conflict", !.previous = RowOf(call[c].tuple)]]
      OBVIOUS
    <3>4. QED
      BY <3>2, <3>3 DEF MetaTypeOK
  <2>2. CallsAreTyped'
    BY DEF CallsAreTyped, MetaTypeOK, TxSteps
  <2>3. HolderHasTheTx'
    BY DEF HolderHasTheTx, MetaTypeOK, TxSteps, CanQuery
  <2>4. TxView'
    <3>1. call'[c].step \notin TxSteps
      BY <1>0 DEF MetaTypeOK, CallFrame, TxSteps
    <3>2. \A e \in Callers \ {c} : call'[e] = call[e]
      BY DEF MetaTypeOK
    <3>3. \A e \in Callers \ {c} : /\ WithPackage(e)' = WithPackage(e)
                                   /\ WithBlob(e)' = WithBlob(e)
                                   /\ WithVersion(e)' = WithVersion(e)
      BY <3>2 DEF WithPackage, WithBlob, WithVersion
    <3>4. QED
      BY <3>1, <3>2, <3>3 DEF TxView, TxSteps
  <2>5. ConflictsAreReal'
    BY DEF ConflictsAreReal, MetaTypeOK, CallFrame
  <2>6. TablesAgree'
    BY SameTables
  <2>7. CreatedIsTheWinner' /\ ConflictNamesWinnerOrNothing'
    BY DEF CreatedIsTheWinner, ConflictNamesWinnerOrNothing, ConflictsAreReal, MetaTypeOK, TxSteps, RowOf
  <2>8. QED
    BY <2>1, <2>2, <2>3, <2>4, <2>5, <2>6, <2>7
<1>8. CASE BeginFail(c)
  <2> USE <1>8 DEF BeginFail
  <2>1. MetaTypeOK'
    BY DEF MetaTypeOK, CallFrame, CallSteps, TxSteps, Results
  <2>2. CallsAreTyped'
    BY DEF CallsAreTyped, MetaTypeOK, TxSteps
  <2>3. HolderHasTheTx'
    BY DEF HolderHasTheTx, MetaTypeOK, TxSteps, CanQuery
  <2>4. TxView'
    <3>1. call'[c].step \notin TxSteps
      BY <1>0 DEF MetaTypeOK, CallFrame, TxSteps
    <3>2. \A e \in Callers \ {c} : call'[e] = call[e]
      BY DEF MetaTypeOK
    <3>3. \A e \in Callers \ {c} : /\ WithPackage(e)' = WithPackage(e)
                                   /\ WithBlob(e)' = WithBlob(e)
                                   /\ WithVersion(e)' = WithVersion(e)
      BY <3>2 DEF WithPackage, WithBlob, WithVersion
    <3>4. QED
      BY <3>1, <3>2, <3>3 DEF TxView, TxSteps
  <2>5. ConflictsAreReal'
    BY DEF ConflictsAreReal, MetaTypeOK, CallFrame
  <2>6. TablesAgree'
    BY SameTables
  <2>7. CreatedIsTheWinner' /\ ConflictNamesWinnerOrNothing'
    BY DEF CreatedIsTheWinner, ConflictNamesWinnerOrNothing, ConflictsAreReal, MetaTypeOK, TxSteps, RowOf
  <2>8. QED
    BY <2>1, <2>2, <2>3, <2>4, <2>5, <2>6, <2>7
<1>9. CASE TxFail(c)
  <2> USE <1>9 DEF TxFail
  <2>1. MetaTypeOK'
    BY DEF MetaTypeOK, CallFrame, CallSteps, TxSteps, Results
  <2>2. CallsAreTyped'
    BY DEF CallsAreTyped, MetaTypeOK, TxSteps
  <2>3. HolderHasTheTx'
    BY DEF HolderHasTheTx, MetaTypeOK, TxSteps, CanQuery
  <2>4. TxView'
    <3>1. \A e \in Callers : call'[e].step \notin TxSteps
      BY <2>3 DEF HolderHasTheTx, MetaTypeOK
    <3>2. QED
      BY <3>1 DEF TxView, TxSteps
  <2>5. ConflictsAreReal'
    BY DEF ConflictsAreReal, MetaTypeOK, CallFrame, TxSteps
  <2>6. TablesAgree'
    BY SameTables
  <2>7. CreatedIsTheWinner' /\ ConflictNamesWinnerOrNothing'
    BY DEF CreatedIsTheWinner, ConflictNamesWinnerOrNothing, ConflictsAreReal, MetaTypeOK, TxSteps, RowOf
  <2>8. QED
    BY <2>1, <2>2, <2>3, <2>4, <2>5, <2>6, <2>7
<1>10. CASE ConflictReadFails(c)
  <2> USE <1>10 DEF ConflictReadFails
  <2>1. MetaTypeOK'
    BY DEF MetaTypeOK, CallFrame, CallSteps, TxSteps, Results
  <2>2. CallsAreTyped'
    BY DEF CallsAreTyped, MetaTypeOK, TxSteps
  <2>3. HolderHasTheTx'
    BY DEF HolderHasTheTx, MetaTypeOK, TxSteps, CanQuery
  <2>4. TxView'
    <3>1. call'[c].step \notin TxSteps
      BY <1>0 DEF MetaTypeOK, CallFrame, TxSteps
    <3>2. \A e \in Callers \ {c} : call'[e] = call[e]
      BY DEF MetaTypeOK
    <3>3. \A e \in Callers \ {c} : /\ WithPackage(e)' = WithPackage(e)
                                   /\ WithBlob(e)' = WithBlob(e)
                                   /\ WithVersion(e)' = WithVersion(e)
      BY <3>2 DEF WithPackage, WithBlob, WithVersion
    <3>4. QED
      BY <3>1, <3>2, <3>3 DEF TxView, TxSteps
  <2>5. ConflictsAreReal'
    BY DEF ConflictsAreReal, MetaTypeOK, CallFrame
  <2>6. TablesAgree'
    BY SameTables
  <2>7. CreatedIsTheWinner' /\ ConflictNamesWinnerOrNothing'
    BY DEF CreatedIsTheWinner, ConflictNamesWinnerOrNothing, ConflictsAreReal, MetaTypeOK, TxSteps, RowOf
  <2>8. QED
    BY <2>1, <2>2, <2>3, <2>4, <2>5, <2>6, <2>7
<1>11. QED
  BY <1>1, <1>2, <1>3, <1>4, <1>5, <1>6, <1>7, <1>8, <1>9, <1>10, QuietStep(c) DEF QuietStep, CreateFails

\* What Commit does to the tables: one free tuple gets its row, and its package
\* and blob their own.
LEMMA CommitAddsOneRow ==
  ASSUME MetaInv, NEW c \in Callers, Commit(c)
  PROVE  /\ call[c].tuple \in Tuples /\ call[c].digest \in Digests
         /\ db.versions[call[c].tuple] = NoDigest
         /\ db'.versions = [db.versions EXCEPT ![call[c].tuple] = call[c].digest]
         /\ db'.packages = db.packages \cup {call[c].tuple[1]}
         /\ db'.blobs = db.blobs \cup {call[c].digest}
<1>1. db \in Tables /\ call[c].tuple \in Tuples /\ call[c].digest \in Digests
  BY DEF Commit, MetaInv, MetaTypeOK, CallsAreTyped
<1>2. db' = WithVersion(c) /\ db.versions[call[c].tuple] = NoDigest
  BY DEF Commit, MetaInv, TxView
<1>3. QED
  BY <1>1, <1>2 DEF WithVersion, WithBlob, WithPackage, Tables

\* The committed tables still agree: the transaction wrote all three or none.
LEMMA CommitAgrees ==
  ASSUME MetaInv, NEW c \in Callers, Commit(c)
  PROVE  TablesAgree'
<1> DEFINE t == call[c].tuple
           d == call[c].digest
<1>1. /\ t \in Tuples /\ d \in Digests
      /\ db.versions[t] = NoDigest
      /\ db'.versions = [db.versions EXCEPT ![t] = d]
      /\ db'.packages = db.packages \cup {t[1]}
      /\ db'.blobs = db.blobs \cup {d}
  BY CommitAddsOneRow
<1>2. db.versions \in [Tuples -> Digests \cup {NoDigest}] /\ TablesAgree
  BY DEF MetaInv, MetaTypeOK, Tables
<1> DEFINE live == {u \in Tuples : db.versions[u] # NoDigest}
           live1 == {u \in Tuples : db'.versions[u] # NoDigest}
<1>3. live1 = live \cup {t}
  BY <1>1, <1>2, MetaConstants
<1>4. /\ db.packages = {u[1] : u \in live}
      /\ db.blobs = {db.versions[u] : u \in live}
  BY <1>2 DEF TablesAgree
<1>5. \A u \in live : db'.versions[u] = db.versions[u]
  BY <1>1, <1>2
<1>6. db'.versions[t] = d
  BY <1>1, <1>2
<1>7. db'.packages = {u[1] : u \in live1}
  BY <1>1, <1>3, <1>4
<1>8. db'.blobs = {db'.versions[u] : u \in live1}
  <2> HIDE DEF t, d, live, live1
  <2>1. QED
    BY <1>1, <1>3, <1>4, <1>5, <1>6
<1>9. QED
  BY <1>7, <1>8 DEF TablesAgree

\* The commit publishes one row, with its package and its blob.
LEMMA CommitInv ==
  ASSUME MetaInv, NEW c \in Callers, Commit(c)
  PROVE  MetaInv'
<1> USE DEF Goto
<1>0. /\ MetaTypeOK /\ db \in Tables /\ call[c] \in CallFrame
      /\ call[c].step = "commit"
      /\ call' = [call EXCEPT ![c] = [call[c] EXCEPT !.step = "created"]]
  BY DEF MetaInv, MetaTypeOK, Commit
<1>1. MetaTypeOK'
  BY DEF MetaInv, MetaTypeOK, CallFrame, CallSteps, Results, Commit
<1>2. CallsAreTyped'
  BY <1>0 DEF MetaInv, CallsAreTyped, MetaTypeOK
<1>3. HolderHasTheTx'
  BY MetaConstants, <1>0 DEF MetaInv, HolderHasTheTx, MetaTypeOK, TxSteps, Commit
<1>4. TxView'
  <2>1. \A e \in Callers : call'[e].step \notin TxSteps
    BY <1>3, MetaConstants DEF HolderHasTheTx, Commit
  <2>2. QED
    BY <2>1 DEF TxView, TxSteps
<1>5. /\ call[c].tuple \in Tuples /\ call[c].digest \in Digests
      /\ db.versions[call[c].tuple] = NoDigest
      /\ db'.versions = [db.versions EXCEPT ![call[c].tuple] = call[c].digest]
      /\ db.versions \in [Tuples -> Digests \cup {NoDigest}]
  BY CommitAddsOneRow, <1>0 DEF Tables
<1>6. ConflictsAreReal'
  BY <1>0, <1>5, MetaConstants DEF MetaInv, ConflictsAreReal, CallsAreTyped, MetaTypeOK, CallFrame
<1>7. TablesAgree'
  BY CommitAgrees
<1>8. CreatedIsTheWinner'
  BY <1>0, <1>5, MetaConstants DEF MetaInv, CreatedIsTheWinner, CallsAreTyped, MetaTypeOK, CallFrame
<1>9. ConflictNamesWinnerOrNothing'
  BY <1>0, <1>5, MetaConstants
     DEF MetaInv, ConflictNamesWinnerOrNothing, CallsAreTyped, MetaTypeOK, CallFrame
<1>10. QED
  BY <1>1, <1>2, <1>3, <1>4, <1>6, <1>7, <1>8, <1>9 DEF MetaInv

\* Losing the process loses the open transaction and nothing else.
LEMMA MetaCrashInv ==
  ASSUME MetaInv, MetaCrash
  PROVE  MetaInv'
<1>1. /\ \A e \in Callers : call'[e] = IF call[e].step \in Results THEN call[e] ELSE NoCall
      /\ db' = db /\ work' = db /\ conn' = Free
      /\ NoCall \in CallFrame
  BY DEF MetaCrash, NoCall, CallFrame, CallSteps
<1>2. \A e \in Callers : call'[e].step \in Results \cup {"idle"}
  BY <1>1 DEF NoCall
<1>3. MetaTypeOK'
  BY <1>1 DEF MetaInv, MetaTypeOK, MetaCrash
<1>4. CallsAreTyped'
  BY <1>1 DEF MetaInv, CallsAreTyped, NoCall, Results
<1>5. HolderHasTheTx' /\ TxView'
  BY <1>1, <1>2, MetaConstants DEF HolderHasTheTx, TxView, TxSteps, Results
<1>6. ConflictsAreReal'
  BY <1>1, <1>2 DEF MetaInv, ConflictsAreReal, NoCall, Results
<1>7. TablesAgree'
  BY <1>1, SameTables DEF MetaInv
<1>8. CreatedIsTheWinner' /\ ConflictNamesWinnerOrNothing'
  BY <1>1 DEF MetaInv, CreatedIsTheWinner, ConflictNamesWinnerOrNothing, NoCall, Results
<1>9. QED
  BY <1>3, <1>4, <1>5, <1>6, <1>7, <1>8 DEF MetaInv

\* The invariant speaks of the store's variables only.
LEMMA MetaStutterInv ==
  ASSUME MetaInv, UNCHANGED metaVars
  PROVE  MetaInv'
<1>1. TablesAgree'
  BY SameTables DEF MetaInv, metaVars
<1>2. TxView'
  BY DEF MetaInv, metaVars, TxView, WithPackage, WithBlob, WithVersion
<1>3. QED
  BY <1>1, <1>2 DEF MetaInv, metaVars, MetaTypeOK, CallsAreTyped, HolderHasTheTx,
     ConflictsAreReal, CreatedIsTheWinner, ConflictNamesWinnerOrNothing

\* No row is replaced or removed by a step.
RowsStay == \A t \in Tuples : db.versions[t] # NoDigest => db'.versions[t] = db.versions[t]

\* Every step of a CreateVersion keeps the invariant and every row.
LEMMA MetaStepInv ==
  ASSUME MetaInv, NEW c \in Callers, CreateStep(c) \/ CreateFails(c)
  PROVE  MetaInv' /\ RowsStay
<1>1. CASE QuietStep(c)
  BY <1>1, QuietStepInv DEF RowsStay
<1>2. CASE Commit(c)
  <2>1. db.versions \in [Tuples -> Digests \cup {NoDigest}]
    BY DEF MetaInv, MetaTypeOK, Tables
  <2>2. RowsStay
    BY <1>2, <2>1, CommitAddsOneRow DEF RowsStay
  <2>3. QED
    BY <1>2, <2>2, CommitInv
<1>3. QED
  BY <1>1, <1>2 DEF CreateStep, QuietStep

\* Returning forgets the frame of a call that is over.
LEMMA CreateReturnInv ==
  ASSUME MetaInv, NEW c \in Callers, CreateReturn(c)
  PROVE  MetaInv' /\ RowsStay
<1> USE DEF CreateReturn, MetaInv
<1>1. /\ call' = [call EXCEPT ![c] = NoCall] /\ db' = db /\ work' = work /\ conn' = conn
      /\ call[c].step \in Results /\ NoCall \in CallFrame
  BY DEF NoCall, CallFrame, CallSteps
<1>2. MetaTypeOK' /\ CallsAreTyped'
  BY <1>1 DEF MetaTypeOK, CallsAreTyped, NoCall
<1>3. HolderHasTheTx'
  BY <1>1 DEF HolderHasTheTx, MetaTypeOK, NoCall, TxSteps, Results
<1>4. TxView'
  <2>1. \A e \in Callers \ {c} : /\ call'[e] = call[e]
                                 /\ WithPackage(e)' = WithPackage(e)
                                 /\ WithBlob(e)' = WithBlob(e)
                                 /\ WithVersion(e)' = WithVersion(e)
    BY <1>1 DEF MetaTypeOK, WithPackage, WithBlob, WithVersion
  <2>2. call'[c].step = "idle"
    BY <1>1 DEF MetaTypeOK, NoCall
  <2>3. QED
    BY <1>1, <2>1, <2>2 DEF TxView
<1>5. ConflictsAreReal' /\ CreatedIsTheWinner' /\ ConflictNamesWinnerOrNothing'
  BY <1>1 DEF ConflictsAreReal, CreatedIsTheWinner, ConflictNamesWinnerOrNothing, MetaTypeOK, NoCall
<1>6. TablesAgree'
  BY SameTables
<1>7. QED
  BY <1>1, <1>2, <1>3, <1>4, <1>5, <1>6 DEF RowsStay

\* Every step of the store keeps the invariant and every row.
LEMMA MetaNextInv ==
  ASSUME MetaInv, [MetaNext]_metaVars
  PROVE  MetaInv' /\ RowsStay
<1>1. CASE \E c \in Callers, t \in Tuples, d \in Digests : CallCreate(c, t, d)
  BY <1>1, CallCreateInv DEF CallCreate, RowsStay
<1>2. CASE \E c \in Callers : CreateStep(c) \/ CreateFails(c)
  BY <1>2, MetaStepInv
<1>3. CASE \E c \in Callers : CreateReturn(c)
  BY <1>3, CreateReturnInv
<1>4. CASE MetaCrash
  BY <1>4, MetaCrashInv DEF MetaCrash, RowsStay
<1>5. CASE UNCHANGED metaVars
  BY <1>5, MetaStutterInv DEF metaVars, RowsStay
<1>6. QED
  BY <1>1, <1>2, <1>3, <1>4, <1>5 DEF MetaNext

\* The invariant holds in every reachable state.
LEMMA MetaInvariance == MetaSpec => []MetaInv
<1>1. MetaInv /\ [MetaNext]_metaVars => MetaInv'
  BY MetaNextInv
<1>2. QED
  BY <1>1, MetaInitInv, PTL DEF MetaSpec

\* The committed tables, what a transaction sees and the frame of every call are of
\* their types (store.go:199-260).
THEOREM MetaTypeCorrect == MetaSpec => []MetaTypeOK
  BY MetaInvariance, PTL DEF MetaInv

\* The tables agree after every commit, rollback and crash: a failed first publish
\* leaves neither an empty package nor a blob row (store.go:207-247).
THEOREM MetaTablesAgree == MetaSpec => []TablesAgree
  BY MetaInvariance, PTL DEF MetaInv

\* Whoever was told "created" has its digest in the table (store.go:246).
THEOREM MetaCreatedIsTheWinner == MetaSpec => []CreatedIsTheWinner
  BY MetaInvariance, PTL DEF MetaInv

\* A conflict is raised only for a published tuple, and names its digest or none
\* (store.go:231-260).
THEOREM MetaConflictNamesWinnerOrNothing == MetaSpec => []ConflictNamesWinnerOrNothing
  BY MetaInvariance, PTL DEF MetaInv

\* TR-08: a published tuple is never replaced and never removed.
THEOREM MetaVersionsAreFinal == MetaSpec => VersionsAreFinal
<1>1. MetaInv /\ [MetaNext]_metaVars
        => [\A t \in Tuples : db.versions[t] # NoDigest => db'.versions[t] = db.versions[t]]_metaVars
  BY MetaNextInv DEF RowsStay
<1>2. QED
  BY <1>1, MetaInvariance, PTL DEF MetaSpec, VersionsAreFinal

=============================================================================
