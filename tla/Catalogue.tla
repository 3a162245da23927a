------------------------------ MODULE Catalogue ------------------------------
(***************************************************************************)
(* What a client sees of the metadata store: repositories, which only an     *)
(* operator makes (internal/cli/repo.go, internal/service/repository.go), and *)
(* the complete list of a package's versions (FR-18, FR-19), read in three     *)
(* queries between which the one pooled connection is given up                *)
(* (internal/service/query.go, internal/store/sqlite/store.go).               *)
(*                                                                            *)
(* The versions table gets its rows here, in rowid order, with the publish     *)
(* time each was stamped with before its transaction began.  The wall clock is *)
(* taken not to be set back.                                                  *)
(***************************************************************************)
EXTENDS MetadataStore, FiniteSets, Naturals, Sequences

CONSTANTS Repositories,  \* repository names the service accepts (FR-30)
          Home,          \* the repository each package is in
          Listers,       \* GET .../versions requests
          MaxTime        \* bound on the clock

ASSUME CatalogueConstants ==
    /\ Home \in [Packages -> Repositories]
    /\ MaxTime \in Nat

VARIABLES repos,   \* the rows of the repositories table
          now,     \* what the clock reads
          rows,    \* the rows of the versions table, in rowid order
          stamp,   \* PublishedAt of each caller's NewVersion
          list,    \* the frame of each listing
          behind   \* the open transaction has read, and another process has committed

catVars == <<repos, now, rows, stamp, list, behind>>
catalogueVars == <<metaVars, catVars>>

\* since, here and in a row, is how many rows were committed when the clock was
\* read: history, no column.
Stamp == [at : Nat, since : Nat]
NoStamp == [at |-> 0, since |-> 0]
Row == [tuple : Tuples, at : Nat, since : Nat]

ListSteps == {"idle", "repository", "package", "rows", "listed", "missing", "failed"}
Answered == {"listed", "missing", "failed"}

\* known is how many rows were committed when the client asked: history again.
ListFrame == [step : ListSteps, package : Packages \cup {NoDigest}, known : Nat,
              result : Seq(Nat)]
NoList == [step |-> "idle", package |-> NoDigest, known |-> 0, result |-> <<>>]

CatalogueInit ==
    /\ MetaInit
    /\ repos = {}
    /\ now = 0
    /\ rows = <<>>
    /\ stamp = [c \in Callers |-> NoStamp]
    /\ list = [k \in Listers |-> NoList]
    /\ behind = FALSE

Tick == now < MaxTime /\ now' = now + 1 /\ UNCHANGED <<metaVars, repos, rows, stamp, list, behind>>

-----------------------------------------------------------------------------
\* A deferred BEGIN locks nothing before the first write, which is that of the package
\* when there is none yet and that of the blob otherwise.
CanWrite == \A c \in Callers : conn = c => call[c].step \in {"package", "blob"} /\ work = db

\* The transaction has looked for the package, as far as its step tells.
HasRead == \E c \in Callers : conn = c /\ call[c].step = "blob"
MayHaveRead == conn # Free

\* UNIQUE (name).
InsertRepository(n) == n \notin repos /\ repos' = repos \cup {n}

\* `repo create`, a process of its own: one INSERT, which waits for the writer that
\* SQLite has let in.  One that is refused (by ParseRepositoryName, the visibility or
\* the quota, by UNIQUE, or because busy_timeout ran out) changes nothing.
CreateRepository(n) ==
    /\ CanWrite
    /\ InsertRepository(n)
    /\ behind' \in {read \in BOOLEAN : (behind \/ HasRead => read) /\ (read => MayHaveRead)}
    /\ UNCHANGED <<metaVars, now, rows, stamp, list>>

-----------------------------------------------------------------------------
\* A publish into a repository that was resolved (a missing one is a 404 before
\* any of this) reads the clock and only then calls the store.
Publish(c, t, d) ==
    /\ Home[t[1]] \in repos
    /\ CallCreate(c, t, d)
    /\ stamp' = [stamp EXCEPT ![c] = [at |-> now, since |-> Len(rows)]]
    /\ UNCHANGED <<repos, now, rows, list, behind>>

NewRow(c) == [tuple |-> call[c].tuple, at |-> stamp[c].at, since |-> stamp[c].since]

\* The first write of a transaction, which is refused when it is behind: busy_timeout
\* does not wait for a snapshot.
Writes(c) ==
    \/ call[c].step = "package" /\ call[c].tuple[1] \notin db.packages
    \/ call[c].step = "blob"

StillBehind == behind' = (behind /\ conn' = conn)

PublishRuns(c) ==
    /\ IF behind /\ Writes(c) THEN TxFail(c) ELSE CreateStep(c)
    /\ rows' = IF call[c].step = "commit" THEN Append(rows, NewRow(c)) ELSE rows
    /\ StillBehind
    /\ UNCHANGED <<repos, now, stamp, list>>

PublishFails(c) == CreateFails(c) /\ StillBehind /\ UNCHANGED <<repos, now, rows, stamp, list>>

-----------------------------------------------------------------------------
AskVersions(k, p) ==
    /\ list[k].step = "idle"
    /\ list' = [list EXCEPT ![k] = [step |-> "repository", package |-> p,
                                    known |-> Len(rows), result |-> <<>>]]
    /\ UNCHANGED <<metaVars, repos, now, rows, stamp, behind>>

\* GetRepository: no such repository is a 404.
FindRepository(k) ==
    /\ list[k].step = "repository"
    /\ CanQuery
    /\ list' = [list EXCEPT ![k].step =
                  IF Home[list[k].package] \in repos THEN "package" ELSE "missing"]
    /\ UNCHANGED <<metaVars, repos, now, rows, stamp, behind>>

\* ListVersions, the package's id: no such package is a 404.
FindPackage(k) ==
    /\ list[k].step = "package"
    /\ CanQuery
    /\ list' = [list EXCEPT ![k].step =
                  IF list[k].package \in db.packages THEN "rows" ELSE "missing"]
    /\ UNCHANGED <<metaVars, repos, now, rows, stamp, behind>>

\* Mutant: ORDER BY published_at DESC alone, so that SQLite may leave rows of one
\* instant in the order of the index.
BeforeByTimeOnly(i, j) == rows[i].at >= rows[j].at

\* ORDER BY published_at DESC, rowid DESC.
Before(i, j) == rows[i].at > rows[j].at \/ (rows[i].at = rows[j].at /\ i > j)

\* WHERE package_id = ?
OfPackage(p) == {i \in DOMAIN rows : rows[i].tuple[1] = p}

\* The order of the rows of a set the query may answer in: there is one.
Orderings(S) ==
    {s \in [1..Cardinality(S) -> S] :
        /\ \A i \in S : \E n \in DOMAIN s : s[n] = i
        /\ \A m, n \in DOMAIN s : m < n => Before(s[m], s[n])}

\* ListVersions, the rows: every one of them, however many.
ReadRows(k) ==
    /\ list[k].step = "rows"
    /\ CanQuery
    /\ \E s \in Orderings(OfPackage(list[k].package)) :
          list' = [list EXCEPT ![k].step = "listed", ![k].result = s]
    /\ UNCHANGED <<metaVars, repos, now, rows, stamp, behind>>

\* A query fails, or the client goes away.
ListFails(k) ==
    /\ list[k].step \in {"repository", "package", "rows"}
    /\ list' = [list EXCEPT ![k].step = "failed"]
    /\ UNCHANGED <<metaVars, repos, now, rows, stamp, behind>>

ListStep(k) == FindRepository(k) \/ FindPackage(k) \/ ReadRows(k)

\* The server dies and is started again.
CatalogueCrash ==
    /\ MetaCrash
    /\ list' = [k \in Listers |->
                  IF list[k].step \in Answered \cup {"idle"} THEN list[k]
                  ELSE [list[k] EXCEPT !.step = "failed"]]
    /\ behind' = FALSE
    /\ UNCHANGED <<repos, now, rows, stamp>>

CatalogueNext ==
    \/ Tick
    \/ \E n \in Repositories : CreateRepository(n)
    \/ \E c \in Callers, t \in Tuples, d \in Digests : Publish(c, t, d)
    \/ \E c \in Callers : PublishRuns(c) \/ PublishFails(c)
    \/ \E k \in Listers : ListStep(k) \/ ListFails(k)
    \/ \E k \in Listers, p \in Packages : AskVersions(k, p)
    \/ CatalogueCrash

\* As in MetadataStore: a freed connection goes to a waiter, so no publish and no
\* listing is passed over for ever.
CatalogueFairness ==
    /\ \A c \in Callers : SF_catalogueVars(PublishRuns(c))
    /\ \A k \in Listers : SF_catalogueVars(ListStep(k))

CatalogueSpec == CatalogueInit /\ [][CatalogueNext]_catalogueVars /\ CatalogueFairness

-----------------------------------------------------------------------------
\* Every variable has its type.
CatalogueTypeOK ==
    /\ MetaTypeOK
    /\ repos \subseteq Repositories
    /\ now \in Nat
    /\ rows \in Seq(Row)
    /\ stamp \in [Callers -> Stamp]
    /\ list \in [Listers -> ListFrame]
    /\ behind \in BOOLEAN

\* FR-19: the answer is the package's versions at one instant of the request, all of
\* them: a 200 lists each that was published when the client asked and none that never
\* was, and a 404 is the answer exactly when there is none.  The repository, the package
\* and its rows are found in three queries (store.go:112-166), with publishes
\* committing, failing and dying in between.
ListingIsComplete ==
    \A k \in Listers : list[k].step \in {"listed", "missing"} =>
        \E n \in list[k].known..Len(rows) :
            LET live == {i \in 1..n : rows[i].tuple[1] = list[k].package} IN
            /\ {list[k].result[i] : i \in DOMAIN list[k].result} = live
            /\ list[k].step = "missing" <=> live = {}

\* The publish time is read before the transaction (publish.go:135-144), so commits
\* may overtake each other; what the order (FR-18) still keeps is that a version whose
\* publish began after another was committed is listed before it.
LaterPublishesComeFirst ==
    \A k \in Listers : list[k].step = "listed" =>
        \A i, j \in DOMAIN list[k].result :
            i < j => rows[list[k].result[j]].since < list[k].result[i]

\* Every CreateVersion returns and every listing is answered, over the one connection
\* that they share: no call holds it while it waits for it, and whichever way a
\* transaction ends it lets go (store.go:67-72, 158-260).
EveryCallAndListingEnds ==
    /\ EveryCallReturns
    /\ \A k \in Listers : list[k].step = "repository" ~> list[k].step \in Answered
=============================================================================
