------------------------------ MODULE Registry ------------------------------
(***************************************************************************)
(* The publish pipeline and the download path over the two stores, in one   *)
(* process that can die and be started again (internal/service/publish.go,  *)
(* internal/service/query.go, and the HTTP handlers that call them).          *)
(*                                                                            *)
(* Each publish and each download is a goroutine; a request runs once.  The   *)
(* callers of the two stores are the publishes, and the stores' steps are     *)
(* those of BlobStore and MetadataStore, driven by the service's steps here.  *)
(***************************************************************************)
EXTENDS BlobStore, MetadataStore

CONSTANTS Readers,     \* download requests
          Verdict,     \* what the pipeline makes of an archive sent to a package
          TempFaults   \* the publishes whose upload file may resist its removal

VARIABLES up,       \* the process runs
          pc,       \* where each publish is
          req,      \* what each publish asked for
          upload,   \* the upload-*.archive file of each publish
          unremoved, \* whose file an os.Remove or a sweep has failed to remove: history
          offset,   \* where the next read of that file starts
          answer,   \* what each publish was, or is about to be, told
          dl        \* the frame of each download

srvVars == <<pc, req, upload, unremoved, offset, answer>>
storeVars == <<blobVars, metaVars>>
vars == <<blobVars, metaVars, up, srvVars, dl>>

Verdicts == {"too_large", "corrupt", "rejected", "accepted"}
Formats == {"targz", "zip"}

ASSUME RegistryConstants ==
    /\ Verdict \in [Digests \X Packages -> Verdicts]
    /\ TempFaults \subseteq Callers

Request == [tuple : Tuples \cup {NoDigest}, digest : Digests \cup {NoDigest},
            format : Formats]
NoRequest == [tuple |-> NoDigest, digest |-> NoDigest, format |-> "zip"]

PublishSteps == {"idle", "ingest", "receive", "inspect", "rewind", "put", "commit",
                 "cleanup", "reply", "done", "lost"}
Answers == {"none", "unsupported", "too_large", "bad_body", "corrupt", "rejected",
            "created", "conflict", "fault", "panic"}
Over == {"done", "lost"}

DownloadSteps == {"idle", "package", "version", "open", "done", "lost"}
DownloadFrame == [step : DownloadSteps, tuple : Tuples \cup {NoDigest},
                  pinned : Digests \cup {NoDigest},
                  served : Bytes \cup {Absent}]
NoDownload == [step |-> "idle", tuple |-> NoDigest, pinned |-> NoDigest, served |-> Absent]

VerdictOn(r) == Verdict[<<req[r].digest, req[r].tuple[1]>>]

Init ==
    /\ BlobInit
    /\ MetaInit
    /\ up = TRUE
    /\ pc = [r \in Callers |-> "idle"]
    /\ req = [r \in Callers |-> NoRequest]
    /\ upload = [r \in Callers |-> Absent]
    /\ unremoved = {}
    /\ offset = [r \in Callers |-> "start"]
    /\ answer = [r \in Callers |-> "none"]
    /\ dl = [k \in Readers |-> NoDownload]

At(r, s) == up /\ pc[r] = s
To(r, s) == pc' = [pc EXCEPT ![r] = s]
Tell(r, a) == answer' = [answer EXCEPT ![r] = a]

\* discard and cleanup drop the error of os.Remove: whether the file has gone or not,
\* the request goes on.
RemoveUpload(r) ==
    \/ upload' = [upload EXCEPT ![r] = Absent] /\ UNCHANGED unremoved
    \/ r \in TempFaults /\ unremoved' = unremoved \cup {r} /\ UNCHANGED upload

-----------------------------------------------------------------------------
\* The handler checks the media type before it touches the body; stage checks
\* it again, with the same outcome.
Refuse(r) ==
    /\ At(r, "idle")
    /\ Tell(r, "unsupported")
    /\ To(r, "reply")
    /\ UNCHANGED <<storeVars, up, req, upload, unremoved, offset, dl>>

Accept(r, t, d, f) ==
    /\ At(r, "idle")
    /\ req' = [req EXCEPT ![r] = [tuple |-> t, digest |-> d, format |-> f]]
    /\ To(r, "ingest")
    /\ UNCHANGED <<storeVars, up, upload, unremoved, offset, answer, dl>>

\* ingest: CreateTemp makes an empty upload file.
Ingest(r) ==
    /\ At(r, "ingest")
    /\ upload' = [upload EXCEPT ![r] = Torn]
    /\ To(r, "receive")
    /\ UNCHANGED <<storeVars, up, req, unremoved, offset, answer, dl>>

\* ingest: the temp directory or the temp file cannot be made.
IngestFails(r) ==
    /\ At(r, "ingest")
    /\ Tell(r, "fault")
    /\ To(r, "reply")
    /\ UNCHANGED <<storeVars, up, req, upload, unremoved, offset, dl>>

\* ingest: the whole body arrives within the cap and the file is rewound.
Receive(r) ==
    /\ At(r, "receive")
    /\ VerdictOn(r) # "too_large"
    /\ upload' = [upload EXCEPT ![r] = req[r].digest]
    /\ offset' = [offset EXCEPT ![r] = "start"]
    /\ To(r, "inspect")
    /\ UNCHANGED <<storeVars, up, req, unremoved, answer, dl>>

\* ingest: the body is over the cap, or breaks off (the client disconnected, the
\* disk is full): discard.
ReceiveFails(r) ==
    /\ At(r, "receive")
    /\ RemoveUpload(r)
    /\ Tell(r, IF VerdictOn(r) = "too_large" THEN "too_large" ELSE "bad_body")
    /\ To(r, "reply")
    /\ UNCHANGED <<storeVars, up, req, offset, dl>>

\* Reading a gzip stream leaves the file offset at its end; the zip reader uses
\* ReadAt and leaves it where it was.
AfterInspection(r) == IF req[r].format = "targz" THEN "end" ELSE "start"

\* stage: the archive does not parse as its type, so stage cleans up itself.
InspectCorrupt(r) ==
    /\ At(r, "inspect")
    /\ VerdictOn(r) = "corrupt"
    /\ RemoveUpload(r)
    /\ Tell(r, "corrupt")
    /\ To(r, "reply")
    /\ UNCHANGED <<storeVars, up, req, offset, dl>>

\* stage: the upload file cannot be read back.  The readers wrap that in
\* ErrCorrupt too, so a sound archive is told it is corrupt.
InspectUnreadable(r) ==
    /\ At(r, "inspect")
    /\ RemoveUpload(r)
    /\ Tell(r, "corrupt")
    /\ To(r, "reply")
    /\ UNCHANGED <<storeVars, up, req, offset, dl>>

\* Mutant: the pipeline goes on after a failing report.
InspectRejectedGoesOn(r) ==
    /\ At(r, "inspect")
    /\ VerdictOn(r) = "rejected"
    /\ offset' = [offset EXCEPT ![r] = AfterInspection(r)]
    /\ To(r, "rewind")
    /\ UNCHANGED <<storeVars, up, req, upload, unremoved, answer, dl>>

\* Publish: the rules failed; the deferred cleanup follows.
InspectRejected(r) ==
    /\ At(r, "inspect")
    /\ VerdictOn(r) = "rejected"
    /\ offset' = [offset EXCEPT ![r] = AfterInspection(r)]
    /\ Tell(r, "rejected")
    /\ To(r, "cleanup")
    /\ UNCHANGED <<storeVars, up, req, upload, unremoved, dl>>

InspectAccepted(r) ==
    /\ At(r, "inspect")
    /\ VerdictOn(r) = "accepted"
    /\ offset' = [offset EXCEPT ![r] = AfterInspection(r)]
    /\ To(r, "rewind")
    /\ UNCHANGED <<storeVars, up, req, upload, unremoved, answer, dl>>

\* The archive or manifest reader panics.  stage has deferred nothing yet, so
\* the file stays; recoverPanics answers.
InspectPanics(r) ==
    /\ At(r, "inspect")
    /\ Tell(r, "panic")
    /\ To(r, "reply")
    /\ UNCHANGED <<storeVars, up, req, upload, unremoved, offset, dl>>

\* Mutant: no seek.
NotRewound(r) == offset[r]

\* Publish: seek back to the start, whatever inspection left.
Rewound(r) == "start"

\* What a reader of the upload file gets from an offset on.
ReadFrom(r, o) == IF o = "start" THEN upload[r] ELSE Torn

StartPut(r) ==
    /\ At(r, "rewind")
    /\ offset' = [offset EXCEPT ![r] = Rewound(r)]
    /\ CallPut(r, req[r].digest, ReadFrom(r, Rewound(r)))
    /\ To(r, "put")
    /\ UNCHANGED <<metaVars, up, req, upload, unremoved, answer, dl>>

\* The seek fails: the deferred cleanup follows.
RewindFails(r) ==
    /\ At(r, "rewind")
    /\ Tell(r, "fault")
    /\ To(r, "cleanup")
    /\ UNCHANGED <<storeVars, up, req, upload, unremoved, offset, dl>>

PutRuns(r) ==
    /\ At(r, "put")
    /\ PutStep(r)
    /\ UNCHANGED <<metaVars, up, srvVars, dl>>

PutFailed(r) ==
    /\ At(r, "put")
    /\ put[r].step = "failed"
    /\ Tell(r, "fault")
    /\ To(r, "cleanup")
    /\ UNCHANGED <<storeVars, up, req, upload, unremoved, offset, dl>>

\* Mutant: the metadata is committed while the blob is being written.
StartCommitEarly(r) ==
    /\ At(r, "put")
    /\ put[r].step \in {"copy", "rename", "stored"}
    /\ CallCreate(r, req[r].tuple, req[r].digest)
    /\ To(r, "commit")
    /\ UNCHANGED <<blobVars, up, req, upload, unremoved, offset, answer, dl>>

\* The blob is there, and only now the metadata store is called.
StartCommit(r) ==
    /\ At(r, "put")
    /\ put[r].step = "stored"
    /\ CallCreate(r, req[r].tuple, req[r].digest)
    /\ To(r, "commit")
    /\ UNCHANGED <<blobVars, up, req, upload, unremoved, offset, answer, dl>>

CommitRuns(r) ==
    /\ At(r, "commit")
    /\ CreateStep(r) \/ CreateFails(r)
    /\ UNCHANGED <<blobVars, up, srvVars, dl>>

CommitReturns(r) ==
    /\ At(r, "commit")
    /\ call[r].step \in Results
    /\ Tell(r, IF call[r].step = "error" THEN "fault" ELSE call[r].step)
    /\ To(r, "cleanup")
    /\ UNCHANGED <<storeVars, up, req, upload, unremoved, offset, dl>>

\* The deferred cleanup closes and removes the upload file.
Cleanup(r) ==
    /\ At(r, "cleanup")
    /\ RemoveUpload(r)
    /\ To(r, "reply")
    /\ UNCHANGED <<storeVars, up, req, offset, answer, dl>>

\* The handler writes the response.
Reply(r) ==
    /\ At(r, "reply")
    /\ To(r, "done")
    /\ UNCHANGED <<storeVars, up, req, upload, unremoved, offset, answer, dl>>

PublishStep(r) ==
    \/ Ingest(r) \/ IngestFails(r)
    \/ InspectCorrupt(r) \/ InspectUnreadable(r) \/ InspectRejected(r) \/ InspectAccepted(r)
    \/ InspectPanics(r) \/ StartPut(r) \/ RewindFails(r) \/ PutRuns(r) \/ PutFailed(r)
    \/ StartCommit(r) \/ CommitRuns(r) \/ CommitReturns(r) \/ Cleanup(r) \/ Reply(r)

\* The steps of a publish when nothing fails: no end may depend on a failure.
ProceedStep(r) ==
    \/ Ingest(r) \/ InspectCorrupt(r) \/ InspectRejected(r) \/ InspectAccepted(r)
    \/ StartPut(r) \/ PutRuns(r) \/ PutFailed(r) \/ StartCommit(r)
    \/ (CommitRuns(r) /\ CreateStep(r)) \/ CommitReturns(r) \/ Cleanup(r) \/ Reply(r)

\* What the client decides: when to ask, and whether the body arrives.
ClientStep(r) ==
    \/ Refuse(r)
    \/ \E t \in Tuples, d \in Digests, f \in Formats : Accept(r, t, d, f)
    \/ Receive(r) \/ ReceiveFails(r)

-----------------------------------------------------------------------------
Ask(k, t) ==
    /\ up /\ dl[k].step = "idle"
    /\ dl' = [dl EXCEPT ![k].step = "package", ![k].tuple = t]
    /\ UNCHANGED <<storeVars, up, srvVars>>

\* GetVersion's first query; no package is a 404.
FindPackage(k) ==
    /\ up /\ dl[k].step = "package"
    /\ CanQuery
    /\ dl' = [dl EXCEPT ![k].step = IF HasPackage(dl[k].tuple) THEN "version" ELSE "done"]
    /\ UNCHANGED <<storeVars, up, srvVars>>

\* GetVersion's second query; no row is a 404.
FindVersion(k) ==
    /\ up /\ dl[k].step = "version"
    /\ CanQuery
    /\ dl' = [dl EXCEPT ![k].pinned = RowOf(dl[k].tuple),
                       ![k].step = IF RowOf(dl[k].tuple) = NoDigest THEN "done" ELSE "open"]
    /\ UNCHANGED <<storeVars, up, srvVars>>

\* OpenDownload opens the blob.  What it serves is whole, Torn (the size check
\* answers 500) or Absent (also a 500).
OpenBlob(k) ==
    /\ up /\ dl[k].step = "open"
    /\ dl' = [dl EXCEPT ![k].step = "done", ![k].served = object[dl[k].pinned]]
    /\ UNCHANGED <<storeVars, up, srvVars>>

DownloadFails(k) ==
    /\ up /\ dl[k].step \in {"package", "version", "open"}
    /\ dl' = [dl EXCEPT ![k].step = "lost"]
    /\ UNCHANGED <<storeVars, up, srvVars>>

DownloadStep(k) == FindPackage(k) \/ FindVersion(k) \/ OpenBlob(k) \/ DownloadFails(k)

-----------------------------------------------------------------------------
\* The process is killed: every goroutine is gone, files and committed rows stay.
Crash ==
    /\ up
    /\ up' = FALSE
    /\ pc' = [r \in Callers |-> IF pc[r] \in {"idle", "done"} THEN pc[r] ELSE "lost"]
    /\ dl' = [k \in Readers |->
                IF dl[k].step \in {"idle", "done"} THEN dl[k] ELSE [dl[k] EXCEPT !.step = "lost"]]
    /\ BlobCrash
    /\ MetaCrash
    /\ UNCHANGED <<req, upload, unremoved, offset, answer>>

\* Mutant: serve does not sweep.
RestartWithoutSweep ==
    /\ ~up
    /\ up' = TRUE
    /\ UNCHANGED <<storeVars, pc, req, upload, unremoved, offset, answer, dl>>

\* serve starts: SweepTemp removes every upload file before it listens.
Restart ==
    /\ ~up
    /\ up' = TRUE
    /\ upload' = [r \in Callers |-> Absent]
    /\ unremoved' = {}
    /\ UNCHANGED <<storeVars, pc, req, offset, answer, dl>>

\* serve starts, but SweepTemp cannot read the directory, or stops at a file that it
\* cannot remove, which leaves those behind it too.  serve warns and goes on.
RestartSweepFails ==
    /\ ~up /\ TempFaults # {}
    /\ up' = TRUE
    /\ \E left \in SUBSET {r \in Callers : upload[r] # Absent} :
          /\ upload' = [r \in Callers |-> IF r \in left THEN upload[r] ELSE Absent]
          /\ unremoved' = left
    /\ UNCHANGED <<storeVars, pc, req, offset, answer, dl>>

Next ==
    \/ \E r \in Callers : PublishStep(r) \/ ClientStep(r)
    \/ \E k \in Readers : DownloadStep(k) \/ \E t \in Tuples : Ask(k, t)
    \/ Crash
    \/ Restart
    \/ RestartSweepFails

\* Handlers run, and database/sql hands a freed connection to a waiter.  Nothing makes
\* a client send its body (no ReadTimeout is set), a process crash, or an operator
\* start it again.
Fairness == /\ \A r \in Callers : SF_vars(ProceedStep(r))
            /\ \A k \in Readers : SF_vars(FindPackage(k) \/ FindVersion(k) \/ OpenBlob(k))

Spec == Init /\ [][Next]_vars /\ Fairness

-----------------------------------------------------------------------------
\* Every variable has its type.
TypeOK ==
    /\ BlobTypeOK
    /\ MetaTypeOK
    /\ up \in BOOLEAN
    /\ pc \in [Callers -> PublishSteps]
    /\ req \in [Callers -> Request]
    /\ upload \in [Callers -> Bytes \cup {Absent}]
    /\ unremoved \subseteq Callers
    /\ offset \in [Callers -> {"start", "end"}]
    /\ answer \in [Callers -> Answers]
    /\ dl \in [Readers -> DownloadFrame]

\* Blob before metadata (publish.go:105-107, TR-07): a row in the database always
\* has its whole archive at its digest path, after a crash at any step included.
EveryRowHasItsBytes ==
    \A t \in Tuples : RowOf(t) # NoDigest => object[RowOf(t)] = RowOf(t)

\* A download that found a row serves the published bytes: never the internal
\* error of query.go:54-72, and never another archive, although the row and the
\* blob are read at different times.
DownloadsServeWhatIsPublished ==
    \A k \in Readers : dl[k].step = "done" /\ dl[k].pinned # NoDigest =>
        dl[k].served = dl[k].pinned /\ RowOf(dl[k].tuple) = dl[k].pinned

\* A client told 201 finds exactly its bytes under its tuple for ever, across
\* crashes; two clients told 201 never named the same tuple.
AcknowledgedIsPublished ==
    \A r \in Callers : pc[r] = "done" /\ answer[r] = "created" =>
        /\ RowOf(req[r].tuple) = req[r].digest
        /\ \A q \in Callers \ {r} : answer[q] = "created" => req[q].tuple # req[r].tuple

\* An archive the pipeline refuses never reaches the blob store (FR-13): every
\* object was accepted for the package some publish named.
OnlyAcceptedArchivesAreStored ==
    \A d \in Digests : object[d] # Absent =>
        \E r \in Callers : req[r].digest = d /\ VerdictOn(r) = "accepted"

\* TR-15, as far as it goes: while the process runs, an upload file belongs to a request
\* that is under way, whichever path that takes.  What else is there was left by a panic
\* inside stage, or could not be removed, by its own request or by the last sweep; what
\* a kill left is gone after a sweep that reports success.
UploadsAreOwned ==
    \A r \in Callers : up /\ upload[r] # Absent =>
        \/ pc[r] \notin Over \cup {"idle"}
        \/ answer[r] = "panic"
        \/ r \in unremoved

\* FR-13 (02-requirements.md:106-107) and ADR-0011:103: a rejected publish, a 409
\* included, leaves no blob.
ConflictLeavesNoBlob ==
    \A r \in Callers :
        pc[r] = "done" /\ answer[r] = "conflict" /\ (\A q \in Callers : pc[q] = "done") =>
            object[req[r].digest] = Absent \/ \E t \in Tuples : RowOf(t) = req[r].digest

\* ROADMAP.md:242 (T4.3): the temp file is removed via defer on every path
\* including error (but the error of the removal itself).
EveryPathRemovesUpload ==
    \A r \in Callers \ unremoved : pc[r] = "done" => upload[r] = Absent

\* publish.go:110-145, query.go:48-75: a publish whose body is on disk is answered,
\* and a download is, unless the process dies; over the one connection none waits
\* for ever, not even while others conflict, fail or crash.
RequestsEnd ==
    /\ \A r \in Callers : pc[r] = "inspect" ~> pc[r] \in Over
    /\ \A k \in Readers : dl[k].step = "package" ~> dl[k].step \in Over

-----------------------------------------------------------------------------
\* The abstract registry: a publish takes effect when its transaction commits or
\* when the conflicting row is read back, a download when its blob is opened or
\* its row is found missing.
Ended(r) == call[r].step \in {"created", "conflict"}

Outcome(r) ==
    CASE call[r].step = "created" ->
            [kind |-> "created", tuple |-> call[r].tuple, digest |-> call[r].digest]
      [] call[r].step = "conflict" ->
            [kind |-> "conflict", tuple |-> call[r].tuple, digest |-> call[r].previous]
      [] ~Ended(r) /\ (pc[r] = "lost" \/ answer[r] # "none") -> [kind |-> "failed"]
      [] ~Ended(r) /\ pc[r] # "lost" /\ answer[r] = "none" -> [kind |-> "pending"]

Seen(k) ==
    CASE dl[k].step = "done" ->
            [kind |-> "served", tuple |-> dl[k].tuple,
             digest |-> IF dl[k].pinned = NoDigest THEN NoDigest ELSE dl[k].served]
      [] dl[k].step = "lost" -> [kind |-> "failed"]
      [] OTHER -> [kind |-> "pending"]

Abstract == INSTANCE LinearizableRegistry WITH
    Publishers <- Callers,
    entries <- db.versions,
    outcome <- [r \in Callers |-> Outcome(r)],
    seen <- [k \in Readers |-> Seen(k)]

\* Every publish and download takes effect at one instant on a write-once map.
IsLinearizable == Abstract!RegistrySpec
=============================================================================
