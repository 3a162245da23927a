------------------------------- MODULE Requests -------------------------------
(***************************************************************************)
(* One request's way through the HTTP server (internal/server): the layers    *)
(* recoverPanics, requestID, logRequests and authenticate, the router, the     *)
(* shared resolver of the package routes, the handlers, and the one place that *)
(* turns an error into a status.  The server is the one Configuration starts.   *)
(*                                                                            *)
(* What the stores answer is any answer they give (Registry and Catalogue say   *)
(* which, and when).  Requests meet only there, so each is on its own here.      *)
(***************************************************************************)
EXTENDS Names, Configuration

CONSTANTS Repositories,  \* the repositories there are
          RawNames,      \* what a segment of a path may carry, decoded
          Grants,        \* scopes a token could be given
          Exchanges,     \* a request and its response
          MaxSize        \* bound on the body of a publish

None == <<>>

\* The caps that stand when none is set are int64s, no repository has the empty name,
\* and what is sent is text: a media type list one of strings, a name one of characters.
ASSUME RequestsConstants ==
    /\ MaxInt \in Nat /\ MaxInt > 3
    /\ MaxSize \in Nat
    /\ None \notin Repositories
    /\ \A e \in Environments : e.media \in Seq(STRING)
    /\ RawNames \subseteq Seq(Characters)
    /\ \A g \in Grants : g.target \in Seq(Characters) \cup {NoTarget}

VARIABLE ex   \* the frame of each exchange

requestVars == <<configVars, ex>>

Routes == {"health", "ready", "list", "download", "publish", "other"}
PackageRoutes == {"list", "download", "publish"}

Steps == {"idle", "ping", "repository", "identity", "version", "authorise", "media_type",
          "receive", "service", "query", "stream", "failing", "answered", "panicking", "closed"}
InHandler == Steps \ {"idle", "answered", "panicking", "closed"}

Statuses == {200, 201, 400, 401, 403, 404, 409, 413, 415, 422, 500, 503}
Unsent == 0
NoId == "none"

\* problemFor, in its order: the typed errors, then the sentinels.
Taxonomy == << <<"ValidationError", 422>>, <<"ConflictError", 409>>, <<"ScopeError", 403>>,
               <<"ErrNotFound", 404>>, <<"ErrVersionConflict", 409>>,
               <<"ErrPayloadTooLarge", 413>>, <<"ErrUnsupportedMediaType", 415>>,
               <<"ErrArchiveInvalid", 422>>, <<"ErrScopeDenied", 403>>,
               <<"ErrUnauthenticated", 401>>, <<"ErrBadRequest", 400>>,
               <<"unreachable", 503>> >>

\* An error is the set of what errors.As and errors.Is find in it; a store's own is
\* empty.  "unreachable" is no error of the taxonomy: handleReady picks its status.
Kinds == {k[1] : k \in ToSet(Taxonomy)}

ProblemFor(error) ==
    LET found == {n \in DOMAIN Taxonomy : Taxonomy[n][1] \in error} IN
    IF found = {} THEN 500 ELSE Taxonomy[Min(found)][2]

\* packageRequest, the response as far as it is written, and the lines logged.
Exchange == [step : Steps, route : Routes, id : {NoId, "theirs", "ours"},
             repository : RawNames \cup {None}, package : Seq(Characters), version : Seq(Characters),
             scoped : BOOLEAN, accepted : BOOLEAN, size : 0..MaxSize, read : 0..MaxSize,
             stored : {"unknown", "absent", "row", "bytes"},
             error : SUBSET Kinds, status : Statuses \cup {Unsent},
             body : Seq({"success", "archive", "truncated", "problem", "anonymous_problem"}),
             log : Seq({"request", "panic"} \X (Statuses \cup {Unsent}))]

NoExchange == [step |-> "idle", route |-> "other", id |-> NoId, repository |-> None,
               package |-> None, version |-> None, scoped |-> FALSE, accepted |-> FALSE,
               size |-> 0, read |-> 0, stored |-> "unknown", error |-> {}, status |-> Unsent,
               body |-> <<>>, log |-> <<>>]

RequestsInit == ConfigInit /\ ex = [e \in Exchanges |-> NoExchange]

\* server.New: of the configuration, handlers read two fields; the rest is dropped here
\* to keep one state for each of them.
Serve ==
    /\ phase = "listening"
    /\ phase' = "serving"
    /\ cfg' = [NoConfig EXCEPT !.archive = cfg.archive, !.media = cfg.media]
    /\ env' = Fresh
    /\ listen' = <<>>
    /\ UNCHANGED ex

At(e, s) == phase = "serving" /\ ex[e].step = s
Become(e, frame) == ex' = [ex EXCEPT ![e] = frame] /\ UNCHANGED configVars
Goto(e, s) == Become(e, [ex[e] EXCEPT !.step = s])
Fail(e, error) == Become(e, [ex[e] EXCEPT !.step = "failing", !.error = error])
Answer(e, status, part) ==
    Become(e, [ex[e] EXCEPT !.step = "answered", !.status = status, !.body = Append(@, part)])

-----------------------------------------------------------------------------
\* sanitiseRequestID, newRequestID.
RequestId(inbound) == IF inbound = "safe" THEN "theirs" ELSE "ours"

\* requestID, then the router.  An unknown route is a problem like any other.
Arrive(e, route, inbound) ==
    /\ At(e, "idle")
    /\ Become(e, [NoExchange EXCEPT
          !.route = route, !.id = RequestId(inbound),
          !.error = IF route = "other" THEN {"ErrNotFound"} ELSE {},
          !.step = CASE route \in PackageRoutes -> "repository"
                     [] route \in {"health", "ready"} -> "ping"
                     [] OTHER -> "failing"])

\* handleHealth, and handleReady with both stores reachable.
Ping(e) == At(e, "ping") /\ Answer(e, 200, "success")

\* handleReady: the metadata store or the blob store is not.
PingFails(e) == At(e, "ping") /\ ex[e].route = "ready" /\ Fail(e, {"unreachable"})

-----------------------------------------------------------------------------
\* RepositoryService.Get: a name that could be no repository's is not found either.
ResolveRepository(e, raw) ==
    /\ At(e, "repository")
    /\ IF ParseRepositoryName(raw) \in Repositories
       THEN Become(e, [ex[e] EXCEPT !.step = "identity", !.repository = raw])
       ELSE Fail(e, {"ErrNotFound"})

\* identityFrom: one segment with the whole identity in it, or owner and repo.
IdentityFrom(path) == IF Len(path) = 1 THEN path[1] ELSE path[1] \o <<"/">> \o path[2]
Paths == {<<n>> : n \in RawNames} \cup (RawNames \X RawNames)

ResolveIdentity(e, path) ==
    /\ At(e, "identity")
    /\ LET id == ParseIdentity(IdentityFrom(path)) IN
       IF id = Refused
       THEN Fail(e, {"ErrBadRequest"})
       ELSE Become(e, [ex[e] EXCEPT !.package = id,
                          !.step = IF ex[e].route = "list" THEN "authorise" ELSE "version"])

\* Mutant: no return after writeError.
ResolveVersionGoesOn(e, raw) ==
    /\ At(e, "version")
    /\ Become(e, [ex[e] EXCEPT !.version = ParseVersion(raw), !.step = "authorise"])

ResolveVersion(e, raw) ==
    /\ At(e, "version")
    /\ IF ParseVersion(raw) = Refused
       THEN Fail(e, {"ErrBadRequest"})
       ELSE Become(e, [ex[e] EXCEPT !.version = raw, !.step = "authorise"])

\* authenticate: every request acts as one principal, which may do everything.
Principal == [authenticated |-> TRUE, scopes |-> {Scope("read", NoTarget), Scope("publish", NoTarget)}]
RequiredScope(e) == Scope(IF ex[e].route = "publish" THEN "publish" ELSE "read", ex[e].package)

Authorise(e) ==
    /\ At(e, "authorise")
    /\ IF ~Principal.authenticated THEN Fail(e, {"ErrUnauthenticated"})
       ELSE IF ~SatisfiedBy(Principal.scopes, RequiredScope(e))
       THEN Fail(e, {"ScopeError", "ErrScopeDenied"})
       ELSE Become(e, [ex[e] EXCEPT !.scoped = TRUE,
                                    !.step = IF ex[e].route = "publish" THEN "media_type" ELSE "query"])

-----------------------------------------------------------------------------
\* AcceptMediaType, in the handler; the service repeats it before it reads.
CheckMediaType(e, mt) ==
    /\ At(e, "media_type")
    /\ IF Contains(cfg.media, mt)
       THEN Become(e, [ex[e] EXCEPT !.accepted = TRUE, !.step = "receive"])
       ELSE Fail(e, {"ErrUnsupportedMediaType"})

\* int64 arithmetic.
Wrapped(n) == IF n > MaxInt THEN n - 2 * (MaxInt + 1) ELSE n

\* Mutant: the reader stops at the cap, so that a body over it looks like one at it.
ReadUpToCap(size) == IF cfg.archive <= 0 THEN 0 ELSE Min({size, cfg.archive})

\* io.LimitReader over MaxBytesReader: both stop one byte past the cap, the first
\* before the second can complain.
Ingested(size) ==
    LET limit == Wrapped(cfg.archive + 1) IN
    IF limit <= 0 THEN 0 ELSE Min({size, limit})

Receive(e, size) ==
    /\ At(e, "receive")
    /\ LET got == [ex[e] EXCEPT !.size = size, !.read = Ingested(size)] IN
       IF cfg.archive > 0 /\ got.read > cfg.archive
       THEN Become(e, [got EXCEPT !.step = "failing", !.error = {"ErrPayloadTooLarge"}])
       ELSE Become(e, [got EXCEPT !.step = "service"])

\* The temp file cannot be made or written, or the client goes away: a fault.
ReceiveFails(e) == At(e, "receive") /\ Fail(e, {})

Published(e) == At(e, "service") /\ ex[e].read > 0 /\ Answer(e, 201, "success")

\* The archive does not parse, breaks rules or is published already, or the stores
\* fail.  No bytes are no archive.
PublishErrors(e) ==
    {{}, {"ErrBadRequest"}} \cup
    IF ex[e].read > 0 THEN {{"ValidationError", "ErrArchiveInvalid"},
                            {"ConflictError", "ErrVersionConflict"}} ELSE {}

PublishFails(e) == At(e, "service") /\ \E error \in PublishErrors(e) : Fail(e, error)

-----------------------------------------------------------------------------
\* ListVersions finds the package, or not.
Listed(e, stored) ==
    /\ At(e, "query")
    /\ ex[e].route = "list"
    /\ LET found == [ex[e] EXCEPT !.stored = stored] IN
       IF stored = "absent"
       THEN Become(e, [found EXCEPT !.step = "failing", !.error = {"ErrNotFound"}])
       ELSE Become(e, [found EXCEPT !.step = "answered", !.status = 200, !.body = <<"success">>])

\* Mutant: the blob store's error is wrapped, and it is an ErrNotFound.
NoBytesWrapped == {"ErrNotFound"}

\* A row without bytes is an ErrInternal, in which the blob store's ErrNotFound is not
\* to be found; so is one whose size differs.
NoBytes == {}

\* OpenDownload: the row, then its bytes; the header is sent before the copy.
OpenDownload(e, stored) ==
    /\ At(e, "query")
    /\ ex[e].route = "download"
    /\ LET found == [ex[e] EXCEPT !.stored = stored] IN
       CASE stored = "absent" ->
              Become(e, [found EXCEPT !.step = "failing", !.error = {"ErrNotFound"}])
         [] stored = "row" ->
              Become(e, [found EXCEPT !.step = "failing", !.error = NoBytes])
         [] OTHER ->
              Become(e, [found EXCEPT !.step = "stream", !.status = 200])

StoreFails(e) == (At(e, "repository") \/ At(e, "query")) /\ Fail(e, {})

\* io.Copy, which ends: a client that takes nothing is cut off by WriteTimeout.
Stream(e) ==
    /\ At(e, "stream")
    /\ \E part \in {"archive", "truncated"} : Answer(e, ex[e].status, part)

\* writeError or writeProblem: one problem, with the id from the context.
WriteProblem(e) ==
    /\ At(e, "failing")
    /\ Answer(e, ProblemFor(ex[e].error),
              IF ex[e].id = NoId THEN "anonymous_problem" ELSE "problem")

-----------------------------------------------------------------------------
\* logRequests, when the handler returns.
LogRequest(e) ==
    /\ At(e, "answered")
    /\ Become(e, [ex[e] EXCEPT !.step = "closed", !.log = Append(@, <<"request", ex[e].status>>)])

\* Mutant: the line is written by a defer, with the recorder's status.
PanicLogsRequest(e) ==
    /\ phase = "serving" /\ ex[e].step \in InHandler
    /\ Become(e, [ex[e] EXCEPT !.step = "panicking", !.log = Append(@, <<"request", 200>>)])

\* A handler panics, and nothing between it and recoverPanics runs.
Panic(e) == phase = "serving" /\ ex[e].step \in InHandler /\ Goto(e, "panicking")

\* Mutant: the layer is missing.
NotRecovered(e) == FALSE

\* recoverPanics holds the request from before requestID, so neither its line nor its
\* body has the id.  A status that was sent stays.
Recover(e) ==
    /\ At(e, "panicking")
    /\ Become(e, [ex[e] EXCEPT
          !.step = "closed", !.log = Append(@, <<"panic", Unsent>>),
          !.status = IF @ = Unsent THEN 500 ELSE @,
          !.body = Append(@, "anonymous_problem")])

\* What the server does by itself, and what it waits for its client to do.
ServerStep(e) ==
    \/ Ping(e) \/ PingFails(e) \/ Authorise(e)
    \/ \E raw \in RawNames : ResolveRepository(e, raw) \/ ResolveVersion(e, raw)
    \/ \E path \in Paths : ResolveIdentity(e, path)
    \/ \E mt \in Readable \cup {"other"} : CheckMediaType(e, mt)
    \/ Published(e) \/ PublishFails(e)
    \/ \E stored \in {"absent", "row", "bytes"} : Listed(e, stored) \/ OpenDownload(e, stored)
    \/ StoreFails(e) \/ Stream(e) \/ WriteProblem(e) \/ LogRequest(e) \/ Recover(e)

ClientStep(e) ==
    \/ \E route \in Routes, inbound \in {"absent", "unsafe", "safe"} : Arrive(e, route, inbound)
    \/ \E size \in 0..MaxSize : Receive(e, size)
    \/ ReceiveFails(e)

RequestsNext ==
    \/ ConfigNext /\ UNCHANGED ex
    \/ Serve
    \/ \E e \in Exchanges : ServerStep(e) \/ ClientStep(e) \/ Panic(e)

\* A handler's goroutine runs; nothing makes a client send its body (no ReadTimeout).
RequestsSpec ==
    RequestsInit /\ [][RequestsNext]_requestVars
    /\ \A e \in Exchanges : WF_requestVars(ServerStep(e))

-----------------------------------------------------------------------------
\* Every variable has its type.
RequestsTypeOK == ConfigTypeOK /\ ex \in [Exchanges -> Exchange]

\* ADR-0011: not a byte of a body is read for a request whose repository, package,
\* version, scope or media type does not pass (publish.go:25-34, identity.go:68-104),
\* whichever of the five checks would refuse it.
BodyIsReadLast ==
    \A e \in Exchanges : ex[e].step \in {"receive", "service"} \/ ex[e].read > 0 =>
        /\ ex[e].route = "publish"
        /\ ex[e].repository \in Repositories
        /\ ex[e].package # Refused /\ ex[e].version # Refused
        /\ ex[e].scoped /\ ex[e].accepted

\* A publish is judged on all of its bytes or refused for having more than the cap,
\* never cut short (publish.go:234-250).  The one configuration for which that is not
\* so is a cap of the largest int64, which Load accepts and one more than which wraps:
\* then no byte of any body is read.
JudgedWholeOrRefused ==
    \A e \in Exchanges :
        LET ended == ex[e].step = "service" \/ ex[e].status \in {201, 409, 422} IN
        /\ ex[e].status = 413 => ex[e].size > cfg.archive
        /\ ended /\ ex[e].route = "publish" =>
              IF cfg.archive = MaxInt THEN ex[e].read = 0
              ELSE ex[e].read = ex[e].size /\ ex[e].size <= cfg.archive

\* FR-14, FR-16: a package has one name.  What a request acts on is in lower case, with
\* an owner, no empty, "." or ".." component and no backslash, and every spelling of it
\* that is accepted, in either path form, leads to it.
PackagesHaveOneName ==
    \A e \in Exchanges : At(e, "authorise") =>
        LET parts == Split(ex[e].package) IN
        /\ Len(parts) >= 2
        /\ \A n \in DOMAIN parts : parts[n] \notin {<<>>, <<".">>, <<".", ".">>}
        /\ ToSet(ex[e].package) \cap {"A", "K", "backslash", "ctl", "*"} = {}
        /\ \A path \in Paths : Lower(IdentityFrom(path)) = ex[e].package =>
              ParseIdentity(IdentityFrom(path)) \in {ex[e].package, Refused}

\* A scope that parses grants no less than it says, and nothing outside the owner it
\* names: "acme/*" is all that acme has, and nothing of acme-corp (scope.go:75-100).
GrantsKeepToTheirOwner ==
    \A e \in Exchanges : At(e, "authorise") =>
        \A g \in Grants : ParseScope(g) =>
            LET same == g.action = RequiredScope(e).action
                granted == Satisfies(g, RequiredScope(e))
            IN  /\ granted => same /\ WithinOwner(g, ex[e].package)
                /\ same /\ Covers(g, ex[e].package) => granted

\* A download is "not found" only if its version was never published: a row whose bytes
\* are missing is the server's fault and says so (query.go:55-66).
NotFoundIsNotPublished ==
    \A e \in Exchanges : ex[e].status = 404 => ex[e].stored \in {"unknown", "absent"}

\* FR-26, FR-27: whatever is not a success is one problem that names its request, a
\* success has no problem in it, and each is logged once, with the status its client was
\* sent.  A handler that panicked is the exception: it has the panic's line and no other,
\* and a problem without an id, behind whatever was sent already (middleware.go:71-104).
AnsweredAndLoggedOnce ==
    \A e \in Exchanges : ex[e].step = "closed" =>
        \/ /\ ex[e].log = << <<"request", ex[e].status>> >>
           /\ ex[e].id # NoId
           /\ IF ex[e].status < 300
              THEN ex[e].body \in {<<"success">>, <<"archive">>, <<"truncated">>}
              ELSE ex[e].body = <<"problem">>
        \/ /\ ex[e].log = << <<"panic", Unsent>> >>
           /\ ex[e].body = <<"anonymous_problem">>
           /\ ex[e].status \in {200, 500}

\* Every request is answered, panic or not, but one whose client never sends its body:
\* no ReadTimeout ends that one (serve.go:76-82).
AnsweredUnlessTheBodyStalls ==
    \A e \in Exchanges :
        /\ ex[e].step = "repository" ~> ex[e].step \in {"receive", "closed"}
        /\ ex[e].step \in {"ping", "service", "failing"} ~> ex[e].step = "closed"

\* ROADMAP.md T5.1: every response that is not a 2xx has the request id in its body.
EveryProblemNamesItsRequest ==
    \A e \in Exchanges : ex[e].step = "closed" /\ ex[e].status >= 300 =>
        "anonymous_problem" \notin ToSet(ex[e].body)
=============================================================================
