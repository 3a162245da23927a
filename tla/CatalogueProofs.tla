--------------------------- MODULE CatalogueProofs ---------------------------
(***************************************************************************)
(* What a listing answers, for any number of publishes, listings, packages  *)
(* and repositories.  The metadata store's own invariant is MetadataStoreProofs'; *)
(* what is added here ties its tables to the rows a listing reads.            *)
(***************************************************************************)
EXTENDS Catalogue, MetadataStoreProofs, FiniteSetTheorems, SequenceTheorems

\* The rows are those of the committed table.
RowsAreTheTable ==
    \A t \in Tuples : db.versions[t] # NoDigest <=> \E i \in DOMAIN rows : rows[i].tuple = t

\* A clock reading was made after the commits it counts, and none reads the future.
StampsInv ==
    \A c \in Callers :
        /\ stamp[c].at <= now
        /\ stamp[c].since <= Len(rows)
        /\ \A m \in 1..stamp[c].since : rows[m].at <= stamp[c].at

RowStampsInv ==
    \A i \in DOMAIN rows :
        /\ rows[i].at <= now
        /\ rows[i].since < i
        /\ \A m \in 1..rows[i].since : rows[m].at <= rows[i].at

\* A package is only in a repository that exists, and so is a publish.
HomesExist ==
    /\ \A p \in db.packages : Home[p] \in repos
    /\ \A c \in Callers : call[c].step # "idle" => Home[call[c].tuple[1]] \in repos

\* Where a listing is, and what it has found.
ListsInv ==
    \A k \in Listers :
        /\ list[k].known <= Len(rows)
        /\ list[k].step # "idle" => list[k].package \in Packages
        /\ list[k].step # "listed" => list[k].result = <<>>
        /\ list[k].step = "rows" => list[k].package \in db.packages
        /\ \A n \in DOMAIN list[k].result : list[k].result[n] \in DOMAIN rows

CatInv ==
    /\ CatalogueTypeOK
    /\ MetaInv
    /\ RowsAreTheTable
    /\ StampsInv
    /\ RowStampsInv
    /\ HomesExist
    /\ ListsInv
    /\ ListingIsComplete
    /\ LaterPublishesComeFirst

\* The steps that leave the versions table and its rows alone.
SameRows == rows' = rows /\ db' = db

-----------------------------------------------------------------------------
\* Every step of the catalogue is one of the metadata store's, or none.
LEMMA CatalogueIsMeta == [CatalogueNext]_catalogueVars => [MetaNext]_metaVars
<1> SUFFICES ASSUME [CatalogueNext]_catalogueVars PROVE [MetaNext]_metaVars
  OBVIOUS
<1>1. CASE \E c \in Callers, t \in Tuples, d \in Digests : Publish(c, t, d)
  BY <1>1 DEF Publish, MetaNext
<1>2. CASE \E c \in Callers : PublishRuns(c) \/ PublishFails(c)
  BY <1>2 DEF PublishRuns, PublishFails, CreateFails, MetaNext
<1>3. CASE CatalogueCrash
  BY <1>3 DEF CatalogueCrash, MetaNext
<1>4. CASE \/ Tick \/ \E n \in Repositories : CreateRepository(n)
           \/ \E k \in Listers : ListStep(k) \/ ListFails(k)
           \/ \E k \in Listers, p \in Packages : AskVersions(k, p)
           \/ UNCHANGED catalogueVars
  BY <1>4 DEF Tick, CreateRepository, InsertRepository, ListStep, FindRepository, FindPackage, ReadRows,
     ListFails, AskVersions, catalogueVars, metaVars
<1>5. QED
  BY <1>1, <1>2, <1>3, <1>4 DEF CatalogueNext

\* The empty catalogue satisfies the invariant.
LEMMA CatInitInv == CatalogueInit => CatInv
<1> SUFFICES ASSUME CatalogueInit PROVE CatInv
  OBVIOUS
<1> USE DEF CatalogueInit
<1>1. MetaInv /\ db.packages = {} /\ \A t \in Tuples : db.versions[t] = NoDigest
  BY MetaInitInv DEF MetaInit, EmptyTables
<1>2. rows = <<>> /\ Len(rows) = 0 /\ DOMAIN rows = {}
  OBVIOUS
<1>3. CatalogueTypeOK
  <2>1. rows \in Seq(Row) /\ NoList \in ListFrame /\ NoStamp \in Stamp
    BY DEF NoList, ListFrame, ListSteps, NoStamp, Stamp
  <2>2. QED
    BY <1>1, <2>1 DEF CatalogueTypeOK, MetaInv
<1>4. RowsAreTheTable /\ RowStampsInv
  BY <1>1, <1>2 DEF RowsAreTheTable, RowStampsInv
<1>5. StampsInv
  <2>1. \A c \in Callers : stamp[c].at = 0 /\ stamp[c].since = 0
    BY DEF NoStamp
  <2>2. now = 0 /\ \A m \in 1..0 : FALSE
    OBVIOUS
  <2>3. SUFFICES ASSUME NEW c \in Callers
                 PROVE  /\ stamp[c].at <= now /\ stamp[c].since <= Len(rows)
                        /\ \A m \in 1..stamp[c].since : rows[m].at <= stamp[c].at
    BY DEF StampsInv
  <2>4. 1..stamp[c].since = 1..0
    BY <2>1
  <2>5. QED
    BY <1>2, <2>1, <2>2, <2>4
<1>6. HomesExist
  BY <1>1 DEF HomesExist, MetaInit, NoCall
<1>7. ListsInv /\ ListingIsComplete /\ LaterPublishesComeFirst
  BY <1>2 DEF ListsInv, ListingIsComplete, LaterPublishesComeFirst, NoList
<1>8. QED
  BY <1>1, <1>3, <1>4, <1>5, <1>6, <1>7 DEF CatInv

\* What each row is.
LEMMA RowsTyped ==
  ASSUME CatInv
  PROVE  /\ Len(rows) \in Nat /\ DOMAIN rows = 1..Len(rows)
         /\ \A i \in DOMAIN rows :
               rows[i].tuple \in Tuples /\ rows[i].at \in Nat /\ rows[i].since \in Nat
<1>1. rows \in Seq(Row)
  BY DEF CatInv, CatalogueTypeOK
<1>2. \A i \in DOMAIN rows : rows[i] \in Row
  BY <1>1
<1>3. QED
  BY <1>1, <1>2 DEF Row

\* A package without a row in packages has none in versions.
LEMMA NoPackageNoRows ==
  ASSUME CatInv, NEW p, p \notin db.packages
  PROVE  {i \in 1..Len(rows) : rows[i].tuple[1] = p} = {}
<1>1. SUFFICES ASSUME NEW i \in 1..Len(rows), rows[i].tuple[1] = p PROVE FALSE
  OBVIOUS
<1>2. rows[i].tuple \in Tuples /\ db.versions[rows[i].tuple] # NoDigest
  BY <1>1, RowsTyped DEF CatInv, RowsAreTheTable
<1>3. QED
  BY <1>1, <1>2 DEF CatInv, MetaInv, TablesAgree

\* A package with a row in packages has one in versions.
LEMMA PackageHasRows ==
  ASSUME CatInv, NEW p \in db.packages
  PROVE  \E i \in 1..Len(rows) : rows[i].tuple[1] = p
<1>1. PICK t \in Tuples : db.versions[t] # NoDigest /\ t[1] = p
  BY DEF CatInv, MetaInv, TablesAgree
<1>2. QED
  BY <1>1, RowsTyped DEF CatInv, RowsAreTheTable

\* A step that leaves rows and list alone leaves what is said of them alone.
LEMMA ListsStay ==
  ASSUME CatInv, UNCHANGED <<rows, list>>, db.packages \subseteq db'.packages
  PROVE  ListsInv' /\ ListingIsComplete' /\ LaterPublishesComeFirst'
  BY DEF CatInv, ListsInv, ListingIsComplete, LaterPublishesComeFirst

\* The clock moves on.
LEMMA TickInv ==
  ASSUME CatInv, Tick
  PROVE  CatInv'
<1> USE DEF Tick
<1>1. MetaInv' /\ CatalogueTypeOK'
  BY MetaStutterInv DEF CatInv, CatalogueTypeOK, MetaInv
<1>2. StampsInv' /\ RowStampsInv'
  <2>1. now \in Nat /\ stamp \in [Callers -> Stamp] /\ rows \in Seq(Row)
    BY DEF CatInv, CatalogueTypeOK
  <2>2. /\ \A c \in Callers : stamp[c].at \in Nat
        /\ \A i \in DOMAIN rows : rows[i].at \in Nat
    BY <2>1, RowsTyped DEF Stamp
  <2>3. \A x \in Nat : x <= now => x <= now + 1
    BY <2>1
  <2>4. StampsInv'
    BY <2>2, <2>3 DEF CatInv, StampsInv
  <2>5. RowStampsInv'
    BY <2>2, <2>3 DEF CatInv, RowStampsInv
  <2>6. QED
    BY <2>4, <2>5
<1>3. RowsAreTheTable' /\ HomesExist'
  BY DEF CatInv, RowsAreTheTable, HomesExist, metaVars
<1>4. QED
  BY <1>1, <1>2, <1>3, ListsStay DEF CatInv, metaVars

\* A new repository.
LEMMA CreateRepositoryInv ==
  ASSUME CatInv, NEW n \in Repositories, CreateRepository(n)
  PROVE  CatInv'
<1> USE DEF CreateRepository, InsertRepository
<1>1. MetaInv' /\ CatalogueTypeOK'
  BY MetaStutterInv DEF CatInv, CatalogueTypeOK, MetaInv
<1>2. StampsInv' /\ RowStampsInv' /\ RowsAreTheTable' /\ HomesExist'
  BY DEF CatInv, StampsInv, RowStampsInv, RowsAreTheTable, HomesExist, metaVars
<1>3. QED
  BY <1>1, <1>2, ListsStay DEF CatInv, metaVars

\* A publish is stamped: every row there is was stamped before.
LEMMA PublishInv ==
  ASSUME CatInv, NEW c \in Callers, NEW t \in Tuples, NEW d \in Digests, Publish(c, t, d)
  PROVE  CatInv'
<1> USE DEF Publish
<1>1. MetaInv' /\ db' = db
  BY CallCreateInv DEF CatInv, CallCreate
<1>2. /\ now \in Nat /\ rows \in Seq(Row) /\ stamp \in [Callers -> Stamp]
      /\ Len(rows) \in Nat
  BY DEF CatInv, CatalogueTypeOK
<1>3. CatalogueTypeOK'
  BY <1>1, <1>2 DEF CatInv, CatalogueTypeOK, MetaInv, Stamp
<1>4. StampsInv'
  <2>1. \A m \in 1..Len(rows) : rows[m].at <= now
    BY <1>2 DEF CatInv, RowStampsInv
  <2>2. stamp' = [stamp EXCEPT ![c] = [at |-> now, since |-> Len(rows)]]
    OBVIOUS
  <2>3. QED
    BY <1>2, <2>1, <2>2 DEF CatInv, StampsInv, Stamp
<1>5. RowsAreTheTable' /\ RowStampsInv'
  BY <1>1 DEF CatInv, RowsAreTheTable, RowStampsInv
<1>6. HomesExist'
  BY <1>1 DEF CatInv, HomesExist, CallCreate, MetaInv, MetaTypeOK
<1>7. QED
  BY <1>1, <1>3, <1>4, <1>5, <1>6, ListsStay DEF CatInv

\* A statement of an open transaction, or its failure, shows nobody anything.
LEMMA QuietPublishInv ==
  ASSUME CatInv, NEW c \in Callers, QuietStep(c), behind' \in BOOLEAN,
         UNCHANGED <<repos, now, rows, stamp, list>>
  PROVE  CatInv'
<1>1. MetaInv' /\ db' = db
  BY QuietStepInv DEF CatInv
<1>2. CatalogueTypeOK' /\ StampsInv' /\ RowStampsInv' /\ RowsAreTheTable'
  BY <1>1 DEF CatInv, catVars, CatalogueTypeOK, MetaInv, StampsInv, RowStampsInv, RowsAreTheTable
<1>3. HomesExist'
  <2>1. \A e \in Callers : call'[e].step # "idle" => call[e].step # "idle" /\ call'[e].tuple = call[e].tuple
    <3>1. call \in [Callers -> CallFrame]
      BY DEF CatInv, MetaInv, MetaTypeOK
    <3>2. CASE BeginTx(c) \/ UpsertPackage(c) \/ RecordBlob(c) \/ RecordVersion(c) \/ RecordConflict(c)
      BY <3>1, <3>2 DEF BeginTx, UpsertPackage, RecordBlob, RecordVersion, RecordConflict,
         Goto, CallFrame
    <3>3. CASE ConflictPackage(c) \/ ConflictVersion(c)
      BY <3>1, <3>3 DEF ConflictPackage, ConflictVersion, Goto, CallFrame
    <3>4. CASE CreateFails(c)
      BY <3>1, <3>4 DEF CreateFails, BeginFail, TxFail, ConflictReadFails, TxSteps, Goto, CallFrame
    <3>5. QED
      BY <3>2, <3>3, <3>4 DEF QuietStep
  <2>2. QED
    BY <1>1, <2>1 DEF CatInv, HomesExist, catVars
<1>4. QED
  BY <1>1, <1>2, <1>3, ListsStay DEF CatInv, catVars

\* A publish commits: its row is the last, and was stamped after the rows it counts.
LEMMA CommitRowInv ==
  ASSUME CatInv, NEW c \in Callers, Commit(c), rows' = Append(rows, NewRow(c)),
         behind' \in BOOLEAN, UNCHANGED <<repos, now, stamp, list>>
  PROVE  CatInv'
<1> DEFINE L == Len(rows)
           t == call[c].tuple
           d == call[c].digest
<1>1. /\ t \in Tuples /\ d \in Digests /\ d # NoDigest
      /\ db'.versions = [db.versions EXCEPT ![t] = d]
      /\ db'.packages = db.packages \cup {t[1]}
      /\ db \in Tables
  BY CommitAddsOneRow, MetaConstants DEF CatInv, MetaInv, MetaTypeOK
<1>2. MetaInv'
  BY CommitInv DEF CatInv
<1>3. /\ L \in Nat /\ DOMAIN rows = 1..L /\ rows \in Seq(Row)
      /\ stamp \in [Callers -> Stamp] /\ now \in Nat
  BY RowsTyped DEF CatInv, CatalogueTypeOK
<1>4. NewRow(c) \in Row /\ NewRow(c).tuple = t
  BY <1>1, <1>3 DEF NewRow, Row, Stamp
<1>5. /\ rows' \in Seq(Row) /\ Len(rows') = L + 1 /\ DOMAIN rows' = 1..(L + 1)
      /\ \A i \in 1..L : rows'[i] = rows[i]
      /\ rows'[L + 1] = NewRow(c)
  BY <1>3, <1>4
<1> HIDE DEF L
<1>6. CatalogueTypeOK'
  BY <1>2, <1>5 DEF CatInv, CatalogueTypeOK, MetaInv
<1>7. RowsAreTheTable'
  <2>1. \A u \in Tuples : db'.versions[u] # NoDigest <=> u = t \/ db.versions[u] # NoDigest
    BY <1>1 DEF Tables
  <2>2. \A u : (\E i \in DOMAIN rows' : rows'[i].tuple = u)
                   <=> u = t \/ \E i \in DOMAIN rows : rows[i].tuple = u
    <3>1. \A i \in 1..(L + 1) : i \in 1..L \/ i = L + 1
      BY <1>3
    <3>2. 1..L \subseteq 1..(L + 1) /\ L + 1 \in 1..(L + 1)
      BY <1>3
    <3>3. QED
      BY <1>3, <1>4, <1>5, <3>1, <3>2
  <2>3. QED
    BY <2>1, <2>2 DEF CatInv, RowsAreTheTable
<1>8. StampsInv'
  <2>1. \A e \in Callers : stamp[e].since \in Nat /\ stamp[e].since <= L
    BY <1>3 DEF CatInv, StampsInv, Stamp, L
  <2>2. \A e \in Callers : \A m \in 1..stamp[e].since : rows'[m] = rows[m]
    BY <1>3, <1>5, <2>1
  <2>3. QED
    BY <1>3, <1>5, <2>1, <2>2 DEF CatInv, StampsInv
<1>9. RowStampsInv'
  <2>1. SUFFICES ASSUME NEW i \in 1..(L + 1)
                 PROVE  /\ rows'[i].at <= now /\ rows'[i].since < i
                        /\ \A m \in 1..rows'[i].since : rows'[m].at <= rows'[i].at
    BY <1>5 DEF RowStampsInv
  <2>2. CASE i = L + 1
    <3>1. rows'[i].at = stamp[c].at /\ rows'[i].since = stamp[c].since
      BY <1>5, <2>2 DEF NewRow
    <3>2. /\ stamp[c].since \in Nat /\ stamp[c].since <= L /\ stamp[c].at <= now
          /\ \A m \in 1..stamp[c].since : rows[m].at <= stamp[c].at
      BY <1>3 DEF CatInv, StampsInv, Stamp, L
    <3>3. \A m \in 1..stamp[c].since : rows'[m] = rows[m]
      BY <1>3, <1>5, <3>2
    <3>4. QED
      BY <1>3, <2>2, <3>1, <3>2, <3>3
  <2>3. CASE i \in 1..L
    <3>1. /\ rows[i].at <= now /\ rows[i].since < i /\ rows[i].since \in Nat
          /\ \A m \in 1..rows[i].since : rows[m].at <= rows[i].at
      BY <1>3, <2>3, RowsTyped DEF CatInv, RowStampsInv
    <3>2. \A m \in 1..rows[i].since : rows'[m] = rows[m]
      BY <1>3, <1>5, <2>3, <3>1
    <3>3. QED
      BY <1>5, <2>3, <3>1, <3>2
  <2>4. i = L + 1 \/ i \in 1..L
    BY <1>3
  <2>5. QED
    BY <2>2, <2>3, <2>4
<1>10. HomesExist'
  <2>1. /\ call[c].step = "commit" /\ call \in [Callers -> CallFrame]
        /\ call' = [call EXCEPT ![c].step = "created"]
    BY DEF Commit, Goto, CatInv, MetaInv, MetaTypeOK
  <2>2. \A e \in Callers : call'[e].tuple = call[e].tuple /\ (call'[e].step # "idle" => call[e].step # "idle")
    BY <2>1 DEF CallFrame
  <2>3. Home[t[1]] \in repos
    BY <2>1 DEF CatInv, HomesExist
  <2>4. QED
    BY <1>1, <2>2, <2>3 DEF CatInv, HomesExist
<1>11. \A k \in Listers : list[k].known \in Nat /\ list[k].known <= L
  BY DEF CatInv, CatalogueTypeOK, ListFrame, ListsInv, L
<1>12. ListsInv'
  <2>1. \A k \in Listers : list[k].known <= L + 1
    BY <1>3, <1>11
  <2>2. 1..L \subseteq 1..(L + 1)
    BY <1>3
  <2>3. QED
    BY <1>1, <1>3, <1>5, <2>1, <2>2 DEF CatInv, ListsInv
<1>13. ListingIsComplete'
  <2>1. SUFFICES ASSUME NEW k \in Listers, list'[k].step \in {"listed", "missing"}
                 PROVE  \E n \in list'[k].known..Len(rows') :
                          LET live == {i \in 1..n : rows'[i].tuple[1] = list'[k].package} IN
                          /\ {list'[k].result[i] : i \in DOMAIN list'[k].result} = live
                          /\ list'[k].step = "missing" <=> live = {}
    BY DEF ListingIsComplete
  <2>2. PICK n \in list[k].known..L :
          LET live == {i \in 1..n : rows[i].tuple[1] = list[k].package} IN
          /\ {list[k].result[i] : i \in DOMAIN list[k].result} = live
          /\ list[k].step = "missing" <=> live = {}
    BY <2>1 DEF CatInv, ListingIsComplete, L
  <2>3. n \in list[k].known..(L + 1) /\ \A i \in 1..n : rows'[i] = rows[i]
    BY <1>3, <1>5, <1>11
  <2>4. {i \in 1..n : rows'[i].tuple[1] = list[k].package}
          = {i \in 1..n : rows[i].tuple[1] = list[k].package}
    BY <2>3
  <2>5. list' = list /\ Len(rows') = L + 1
    BY <1>5
  <2>6. QED
    BY <2>2, <2>3, <2>4, <2>5
<1>14. LaterPublishesComeFirst'
  <2>1. \A k \in Listers : \A n \in DOMAIN list[k].result : rows'[list[k].result[n]] = rows[list[k].result[n]]
    BY <1>3, <1>5 DEF CatInv, ListsInv
  <2>2. QED
    BY <2>1 DEF CatInv, LaterPublishesComeFirst
<1>15. QED
  BY <1>2, <1>6, <1>7, <1>8, <1>9, <1>10, <1>12, <1>13, <1>14 DEF CatInv

\* A publish in the store moves on, or fails.
LEMMA PublishStepInv ==
  ASSUME CatInv, NEW c \in Callers, PublishRuns(c) \/ PublishFails(c)
  PROVE  CatInv'
<1> USE DEF StillBehind
<1>1. behind' \in BOOLEAN /\ UNCHANGED <<repos, now, stamp, list>>
  <2>1. behind \in BOOLEAN
    BY DEF CatInv, CatalogueTypeOK
  <2>2. QED
    BY <2>1 DEF PublishRuns, PublishFails
<1>2. CASE PublishFails(c)
  BY <1>1, <1>2, QuietPublishInv DEF PublishFails, QuietStep
<1>3. CASE PublishRuns(c)
  <2>1. CASE Commit(c)
    BY <1>1, <1>3, <2>1, CommitRowInv DEF Commit, PublishRuns
  <2>2. CASE ~Commit(c)
    <3>1. TxFail(c) \/ CreateStep(c)
      BY <1>3 DEF PublishRuns
    <3>2. QuietStep(c)
      BY <2>2, <3>1 DEF CreateStep, QuietStep, CreateFails
    <3>3. call[c].step # "commit"
      <4>1. CASE behind /\ Writes(c)
        BY <4>1 DEF Writes
      <4>2. CASE ~(behind /\ Writes(c))
        BY <1>3, <2>2, <4>2 DEF PublishRuns, CreateStep, BeginTx, UpsertPackage, RecordBlob,
           RecordVersion, RecordConflict, ConflictPackage, ConflictVersion
      <4>3. QED
        BY <4>1, <4>2
    <3>4. rows' = rows
      BY <1>3, <3>3 DEF PublishRuns
    <3>5. QED
      BY <1>1, <3>2, <3>4, QuietPublishInv
  <2>3. QED
    BY <2>1, <2>2
<1>4. QED
  BY <1>2, <1>3

\* What one listing must satisfy for the invariant to hold of it.
GoodListing(k) ==
    /\ list[k] \in ListFrame
    /\ list[k].known <= Len(rows)
    /\ list[k].step # "idle" => list[k].package \in Packages
    /\ list[k].step # "listed" => list[k].result = <<>>
    /\ list[k].step = "rows" => list[k].package \in db.packages
    /\ \A n \in DOMAIN list[k].result : list[k].result[n] \in DOMAIN rows
    /\ list[k].step \in {"listed", "missing"} =>
          \E n \in list[k].known..Len(rows) :
            LET live == {i \in 1..n : rows[i].tuple[1] = list[k].package} IN
            /\ {list[k].result[i] : i \in DOMAIN list[k].result} = live
            /\ list[k].step = "missing" <=> live = {}
    /\ list[k].step = "listed" =>
          \A i, j \in DOMAIN list[k].result :
            i < j => rows[list[k].result[j]].since < list[k].result[i]

\* Only one listing moves, and it is still what it must be.
LEMMA OneListMoves ==
  ASSUME CatInv, NEW k \in Listers, GoodListing(k)',
         UNCHANGED <<metaVars, repos, now, rows, stamp, behind>>,
         NEW f, list' = [list EXCEPT ![k] = f]
  PROVE  CatInv'
<1>1. MetaInv' /\ MetaTypeOK' /\ db' = db /\ call' = call
  BY MetaStutterInv DEF CatInv, MetaInv, metaVars
<1>2. list \in [Listers -> ListFrame] /\ \A e \in Listers \ {k} : list'[e] = list[e]
  BY DEF CatInv, CatalogueTypeOK
<1>3. list' \in [Listers -> ListFrame]
  BY <1>2 DEF GoodListing
<1>4. CatalogueTypeOK' /\ RowsAreTheTable' /\ StampsInv' /\ RowStampsInv' /\ HomesExist'
  BY <1>1, <1>3 DEF CatInv, CatalogueTypeOK, RowsAreTheTable, StampsInv, RowStampsInv, HomesExist
<1>5. ListsInv'
  BY <1>1, <1>2 DEF CatInv, ListsInv, GoodListing
<1>6. ListingIsComplete'
  BY <1>2 DEF CatInv, ListingIsComplete, GoodListing
<1>7. LaterPublishesComeFirst'
  BY <1>2 DEF CatInv, LaterPublishesComeFirst, GoodListing
<1>8. QED
  BY <1>1, <1>4, <1>5, <1>6, <1>7 DEF CatInv

\* A client asks.
LEMMA AskVersionsInv ==
  ASSUME CatInv, NEW k \in Listers, NEW p \in Packages, AskVersions(k, p)
  PROVE  CatInv'
<1>1. /\ list \in [Listers -> ListFrame] /\ Len(rows) \in Nat
      /\ list'[k] = [step |-> "repository", package |-> p, known |-> Len(rows), result |-> <<>>]
  BY RowsTyped DEF AskVersions, CatInv, CatalogueTypeOK
<1>2. list'[k] \in ListFrame
  BY <1>1 DEF ListFrame, ListSteps
<1>3. GoodListing(k)'
  BY <1>1, <1>2 DEF GoodListing, AskVersions
<1>4. QED
  BY <1>3, OneListMoves DEF AskVersions

\* A listing that goes on, is answered 404 or fails: its answer is still empty.
LEMMA EmptyListMoves ==
  ASSUME CatInv, NEW k \in Listers,
         list[k].step \in {"repository", "package", "rows"},
         NEW s \in {"package", "rows", "missing", "failed"},
         s = "rows" => list[k].package \in db.packages,
         s = "missing" => list[k].package \notin db.packages,
         list' = [list EXCEPT ![k].step = s],
         UNCHANGED <<metaVars, repos, now, rows, stamp, behind>>
  PROVE  CatInv'
<1>1. /\ list \in [Listers -> ListFrame] /\ Len(rows) \in Nat
      /\ list[k].known <= Len(rows) /\ list[k].known \in Nat
      /\ list[k].package \in Packages /\ list[k].result = <<>>
  BY RowsTyped DEF CatInv, CatalogueTypeOK, ListsInv, ListFrame
<1>2. list'[k] = [list[k] EXCEPT !.step = s]
  BY <1>1
<1>3. /\ list'[k] \in ListFrame /\ list'[k].step = s /\ list'[k].package = list[k].package
      /\ list'[k].known = list[k].known /\ list'[k].result = <<>>
  BY <1>1, <1>2 DEF ListFrame, ListSteps
<1>4. s = "missing" => {i \in 1..Len(rows) : rows[i].tuple[1] = list[k].package} = {}
  BY NoPackageNoRows
<1>5. Len(rows) \in list[k].known..Len(rows)
  BY <1>1
<1>6. GoodListing(k)'
  <2>1. s = "missing" =>
          \E n \in list'[k].known..Len(rows) :
            LET live == {i \in 1..n : rows[i].tuple[1] = list'[k].package} IN
            /\ {list'[k].result[i] : i \in DOMAIN list'[k].result} = live
            /\ list'[k].step = "missing" <=> live = {}
    BY <1>3, <1>4, <1>5
  <2>2. rows' = rows /\ db' = db
    BY DEF metaVars
  <2>3. QED
    BY <1>1, <1>3, <2>1, <2>2 DEF GoodListing
<1>7. QED
  BY <1>2, <1>6, OneListMoves

\* The package's rows are read, in the one order there is.
LEMMA ReadRowsInv ==
  ASSUME CatInv, NEW k \in Listers, ReadRows(k)
  PROVE  CatInv'
<1> DEFINE p == list[k].package
           S == OfPackage(p)
<1>1. /\ list \in [Listers -> ListFrame] /\ Len(rows) \in Nat /\ DOMAIN rows = 1..Len(rows)
      /\ list[k].known <= Len(rows) /\ list[k].known \in Nat
      /\ p \in Packages /\ p \in db.packages
  BY RowsTyped DEF CatInv, CatalogueTypeOK, ListsInv, ListFrame, ReadRows
<1>2. PICK s \in Orderings(S) : list' = [list EXCEPT ![k].step = "listed", ![k].result = s]
  BY DEF ReadRows
<1>3. S \in SUBSET (1..Len(rows)) /\ S # {}
  BY <1>1, PackageHasRows DEF OfPackage
<1>4. Cardinality(S) \in Nat
  <2>1. IsFiniteSet(1..Len(rows))
    BY <1>1, FS_Interval
  <2>2. IsFiniteSet(S)
    BY <1>3, <2>1, FS_Subset
  <2>3. QED
    BY <2>2, FS_CardinalityType
<1>5. /\ s \in [1..Cardinality(S) -> S]
      /\ \A i \in S : \E n \in DOMAIN s : s[n] = i
      /\ \A m, n \in DOMAIN s : m < n => Before(s[m], s[n])
  BY <1>2 DEF Orderings
<1> HIDE DEF S
<1>6. s \in Seq(Nat)
  <2>1. S \subseteq Nat
    BY <1>3
  <2>2. s \in [1..Cardinality(S) -> Nat]
    BY <1>5, <2>1
  <2>3. QED
    BY <1>4, <2>2, SeqDef
<1>7. /\ list'[k] = [list[k] EXCEPT !.step = "listed", !.result = s]
      /\ list'[k] \in ListFrame /\ list'[k].step = "listed" /\ list'[k].package = p
      /\ list'[k].known = list[k].known /\ list'[k].result = s
  BY <1>1, <1>2, <1>6 DEF ListFrame, ListSteps
<1>8. {s[n] : n \in DOMAIN s} = S
  BY <1>5
<1>9. ASSUME NEW i \in DOMAIN s, NEW j \in DOMAIN s, i < j
      PROVE  rows[s[j]].since < s[i]
  <2>1. s[i] \in 1..Len(rows) /\ s[j] \in 1..Len(rows) /\ Before(s[i], s[j])
    BY <1>3, <1>5, <1>9
  <2>2. /\ rows[s[i]].at \in Nat /\ rows[s[j]].at \in Nat
        /\ rows[s[j]].since \in Nat /\ rows[s[j]].since < s[j]
        /\ \A m \in 1..rows[s[j]].since : rows[m].at <= rows[s[j]].at
    BY <1>1, <2>1, RowsTyped DEF CatInv, RowStampsInv
  <2>3. rows[s[i]].at >= rows[s[j]].at /\ (rows[s[i]].at = rows[s[j]].at => s[i] > s[j])
    BY <2>1, <2>2 DEF Before
  <2>4. CASE s[i] <= rows[s[j]].since
    <3>1. s[i] \in 1..rows[s[j]].since
      BY <2>1, <2>2, <2>4
    <3>2. rows[s[i]].at <= rows[s[j]].at
      BY <2>2, <3>1
    <3>3. s[i] > s[j]
      BY <2>2, <2>3, <3>2
    <3>4. QED
      BY <2>1, <2>2, <2>4, <3>3
  <2>5. QED
    BY <2>1, <2>2, <2>4
<1>10. S = {i \in 1..Len(rows) : rows[i].tuple[1] = p}
  BY <1>1 DEF OfPackage, S
<1>11. Len(rows) \in list[k].known..Len(rows)
  BY <1>1
<1>12. GoodListing(k)'
  <2>1. rows' = rows /\ db' = db
    BY DEF metaVars, ReadRows
  <2>2. \E n \in list'[k].known..Len(rows) :
          LET live == {i \in 1..n : rows[i].tuple[1] = list'[k].package} IN
          /\ {list'[k].result[i] : i \in DOMAIN list'[k].result} = live
          /\ list'[k].step = "missing" <=> live = {}
    BY <1>3, <1>7, <1>8, <1>10, <1>11
  <2>3. \A n \in DOMAIN list'[k].result : list'[k].result[n] \in DOMAIN rows
    BY <1>1, <1>3, <1>5, <1>7
  <2>4. QED
    BY <1>1, <1>7, <1>9, <2>1, <2>2, <2>3 DEF GoodListing
<1>13. list' = [list EXCEPT ![k] = [list[k] EXCEPT !.step = "listed", !.result = s]]
  BY <1>1, <1>2
<1>14. QED
  BY <1>12, <1>13, OneListMoves DEF ReadRows

\* Every step of a listing.
LEMMA ListingInv ==
  ASSUME CatInv, NEW k \in Listers, ListStep(k) \/ ListFails(k)
  PROVE  CatInv'
<1>1. CASE FindRepository(k)
  <2>1. list[k].package \in db.packages => Home[list[k].package] \in repos
    BY DEF CatInv, HomesExist
  <2>2. QED
    BY <1>1, <2>1, EmptyListMoves DEF FindRepository
<1>2. CASE FindPackage(k)
  BY <1>2, EmptyListMoves DEF FindPackage
<1>3. CASE ReadRows(k)
  BY <1>3, ReadRowsInv
<1>4. CASE ListFails(k)
  BY <1>4, EmptyListMoves DEF ListFails
<1>5. QED
  BY <1>1, <1>2, <1>3, <1>4 DEF ListStep

\* The server dies: calls and listings that were not answered are gone.
LEMMA CatalogueCrashInv ==
  ASSUME CatInv, CatalogueCrash
  PROVE  CatInv'
<1> USE DEF CatalogueCrash
<1>1. MetaInv' /\ db' = db
  BY MetaCrashInv DEF CatInv, MetaCrash
<1>2. list \in [Listers -> ListFrame]
  BY DEF CatInv, CatalogueTypeOK
<1>3. ASSUME NEW k \in Listers
      PROVE  \/ list'[k] = list[k]
             \/ /\ list'[k] = [list[k] EXCEPT !.step = "failed"]
                /\ list[k].step \notin Answered \cup {"idle"}
  OBVIOUS
<1>4. list' \in [Listers -> ListFrame]
  BY <1>2 DEF ListFrame, ListSteps
<1>5. CatalogueTypeOK' /\ StampsInv' /\ RowStampsInv' /\ RowsAreTheTable'
  BY <1>1, <1>4 DEF CatInv, CatalogueTypeOK, MetaInv, StampsInv, RowStampsInv, RowsAreTheTable
<1>6. HomesExist'
  <2>1. \A c \in Callers : call'[c].step # "idle" => call'[c] = call[c]
    BY DEF MetaCrash, NoCall, CatInv, MetaInv, MetaTypeOK
  <2>2. QED
    BY <1>1, <2>1 DEF CatInv, HomesExist
<1>7. \A k \in Listers :
        /\ list'[k].package = list[k].package /\ list'[k].known = list[k].known
        /\ list'[k].result = list[k].result
        /\ list'[k].step # "failed" => list'[k].step = list[k].step
        /\ list'[k].step = "failed" => list[k].step \notin {"idle", "listed"}
  BY <1>2, <1>3 DEF ListFrame, Answered
<1>8. ListsInv'
  BY <1>1, <1>7 DEF CatInv, ListsInv
<1>9. ListingIsComplete' /\ LaterPublishesComeFirst'
  BY <1>7 DEF CatInv, ListingIsComplete, LaterPublishesComeFirst
<1>10. QED
  BY <1>1, <1>5, <1>6, <1>8, <1>9 DEF CatInv

\* Nothing happens.
LEMMA CatStutterInv ==
  ASSUME CatInv, UNCHANGED catalogueVars
  PROVE  CatInv'
<1> USE DEF catalogueVars, catVars
<1>1. MetaInv' /\ CatalogueTypeOK'
  BY MetaStutterInv DEF CatInv, CatalogueTypeOK, MetaInv
<1>2. StampsInv' /\ RowStampsInv' /\ RowsAreTheTable' /\ HomesExist'
  BY DEF CatInv, StampsInv, RowStampsInv, RowsAreTheTable, HomesExist, metaVars
<1>3. QED
  BY <1>1, <1>2, ListsStay DEF CatInv, metaVars

\* Every step keeps the invariant.
LEMMA CatNextInv == CatInv /\ [CatalogueNext]_catalogueVars => CatInv'
<1> SUFFICES ASSUME CatInv, [CatalogueNext]_catalogueVars PROVE CatInv'
  OBVIOUS
<1>1. CASE Tick \/ \E n \in Repositories : CreateRepository(n)
  BY <1>1, TickInv, CreateRepositoryInv
<1>2. CASE \E c \in Callers, t \in Tuples, d \in Digests : Publish(c, t, d)
  BY <1>2, PublishInv
<1>3. CASE \E c \in Callers : PublishRuns(c) \/ PublishFails(c)
  BY <1>3, PublishStepInv
<1>4. CASE \E k \in Listers : ListStep(k) \/ ListFails(k)
  BY <1>4, ListingInv
<1>5. CASE \E k \in Listers, p \in Packages : AskVersions(k, p)
  BY <1>5, AskVersionsInv
<1>6. CASE CatalogueCrash
  BY <1>6, CatalogueCrashInv
<1>7. CASE UNCHANGED catalogueVars
  BY <1>7, CatStutterInv
<1>8. QED
  BY <1>1, <1>2, <1>3, <1>4, <1>5, <1>6, <1>7 DEF CatalogueNext

\* The invariant holds throughout.
LEMMA CatInvariance == CatalogueSpec => []CatInv
  BY CatInitInv, CatNextInv, PTL DEF CatalogueSpec

\* Every variable has its type.
THEOREM CatalogueTypeCorrect == CatalogueSpec => []CatalogueTypeOK
  BY CatInvariance, PTL DEF CatInv

\* FR-19: a listing is the package's versions at one instant of the request, however
\* the publishes, failures and crashes interleave with its three queries
\* (store.go:112-187).
THEOREM CatalogueListingIsComplete == CatalogueSpec => []ListingIsComplete
  BY CatInvariance, PTL DEF CatInv

\* A version whose publish began after another was committed is listed before it,
\* although the times the list is sorted by are read outside the transaction
\* (publish.go:143, store.go:167).
THEOREM CatalogueLaterPublishesComeFirst == CatalogueSpec => []LaterPublishesComeFirst
  BY CatInvariance, PTL DEF CatInv

\* The catalogue is the metadata store with its clients: each of its steps is one of
\* the store's or a stutter, and it starts as the store does.
THEOREM CatalogueIsAStore == CatalogueSpec => MetaInit /\ [][MetaNext]_metaVars
<1>1. CatalogueInit => MetaInit
  BY DEF CatalogueInit
<1>2. QED
  BY <1>1, CatalogueIsMeta, PTL DEF CatalogueSpec
=============================================================================
